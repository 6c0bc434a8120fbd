------------------------- MODULE PersistentGemmProof -------------------------
(***************************************************************************)
(* Proofs about PersistentGemm for every grid and every set of problems:   *)
(* the reduction slots are shared soundly, and the loop implements         *)
(* TileGemm.                                                               *)
(*                                                                         *)
(* First the arithmetic of GemmSchedule they rest on: the waves and the    *)
(* tail cover the tiles, and the formulas by which each CTA works out      *)
(* alone how many slices a tile has and which of them is its own agree     *)
(* with the stripes [Iters * c, Iters * (c + 1)) they stand for.           *)
(***************************************************************************)
EXTENDS PersistentGemm, TLAPS

USE GridAssumption DEF GridAssumption

Shape == [routeBlocks : Nat, nTiles : Nat \ {0}, kTiles : Nat \ {0}, mode : Mode]

\* The CTAs whose stripes hold the first and the last k-tile of tail tile w.
FirstCta(g, w) == (g.kTiles * w) \div Iters(g)
LastCta(g, w)  == (g.kTiles * (w + 1) - 1) \div Iters(g)

\* The stripe of CTA c has a part of tail tile w.
HasPiece(g, c, w) ==
  /\ Iters(g) * c < g.kTiles * (w + 1)
  /\ g.kTiles * w < Iters(g) * (c + 1)

-----------------------------------------------------------------------------
(* Integers.                                                               *)

LEMMA DivFacts ==
  ASSUME NEW a \in Int, NEW b \in Nat \ {0}
  PROVE  a \div b \in Int /\ b * (a \div b) <= a /\ a < b * (a \div b) + b
OBVIOUS

LEMMA MulLe ==
  ASSUME NEW k \in Nat, NEW x \in Int, NEW y \in Int, x <= y
  PROVE  k * x <= k * y
OBVIOUS

LEMMA MulLess ==
  ASSUME NEW k \in Nat \ {0}, NEW x \in Int, NEW y \in Int, x < y
  PROVE  k * x + k <= k * y
<1>1. k * (x + 1) <= k * y
  BY MulLe
<1>2. k * (x + 1) = k * x + k
  OBVIOUS
<1> QED BY <1>1, <1>2

\* What is smaller after a multiplication was smaller before it.
LEMMA MulCancel ==
  ASSUME NEW k \in Nat \ {0}, NEW x \in Int, NEW y \in Int, k * x < k * y
  PROVE  x < y
<1>1. CASE y <= x
  <2>1. k * y <= k * x
    BY <1>1, MulLe
  <2> QED BY <2>1
<1> QED BY <1>1

LEMMA DivIs ==
  ASSUME NEW a \in Int, NEW b \in Nat \ {0}, NEW q \in Int,
         b * q <= a, a < b * q + b
  PROVE  a \div b = q
<1> DEFINE p == a \div b
<1>1. p \in Int /\ b * p <= a /\ a < b * p + b
  BY DivFacts
<1> HIDE DEF p
<1>2. ~ p < q
  <2> SUFFICES ASSUME p < q PROVE FALSE
    OBVIOUS
  <2>1. b * p + b <= b * q
    BY <1>1, MulLess
  <2> QED BY <1>1, <2>1
<1>3. ~ q < p
  <2> SUFFICES ASSUME q < p PROVE FALSE
    OBVIOUS
  <2>1. b * q + b <= b * p
    BY <1>1, MulLess
  <2> QED BY <1>1, <2>1
<1>4. p = q
  BY <1>1, <1>2, <1>3
<1> QED BY <1>4 DEF p

LEMMA CeilFacts ==
  ASSUME NEW a \in Nat, NEW b \in Nat \ {0}
  PROVE  /\ CeilDiv(a, b) \in Nat
         /\ a <= b * CeilDiv(a, b) /\ b * CeilDiv(a, b) < a + b
<1> DEFINE q == (a + b - 1) \div b
<1>1. q \in Int /\ b * q <= a + b - 1 /\ a + b - 1 < b * q + b
  BY DivFacts
<1>2. CeilDiv(a, b) = q
  BY DEF CeilDiv
<1> HIDE DEF q
<1>3. q >= 0
  <2> SUFFICES ASSUME q < 0 PROVE FALSE
    BY <1>1
  <2>1. b * q + b <= b * 0
    BY <1>1, MulLess
  <2> QED BY <1>1, <2>1
<1> QED BY <1>1, <1>2, <1>3

LEMMA ProductNat ==
  ASSUME NEW x \in Nat, NEW y \in Nat
  PROVE  x * y \in Nat
OBVIOUS

-----------------------------------------------------------------------------
(* Waves and tail.                                                         *)

\* The waves hand out exactly the tiles that are not in the tail, and with no
\* tail at least all of them.
LEMMA TailFacts ==
  ASSUME NEW g \in Shape
  PROVE  /\ MnTiles(g) \in Nat /\ TailTiles(g) \in Nat /\ FullWaves(g) \in Nat
         /\ TailTiles(g) <= MnTiles(g)
         /\ MnTiles(g) - TailTiles(g) <= grid_x * FullWaves(g)
         /\ TailTiles(g) > 0 => grid_x * FullWaves(g) = MnTiles(g) - TailTiles(g)
<1> DEFINE m == MnTiles(g)
           q == m \div grid_x
           ragged == m - q * grid_x
<1>1. m \in Nat
  BY ProductNat DEF MnTiles, Shape
<1>2. q \in Int /\ grid_x * q <= m /\ m < grid_x * q + grid_x /\ q * grid_x = grid_x * q
  <2> HIDE DEF m
  <2>1. q \in Int /\ grid_x * q <= m /\ m < grid_x * q + grid_x
    BY <1>1, DivFacts
  <2> QED BY <2>1
<1>3. CASE g.mode = "whole_tiles"
  <2>1. TailTiles(g) = 0 /\ FullWaves(g) = CeilDiv(m, grid_x)
    BY <1>3 DEF TailTiles, FullWaves, ForceOneTilePerCta
  <2>2. CeilDiv(m, grid_x) \in Nat /\ m <= grid_x * CeilDiv(m, grid_x)
    BY <1>1, CeilFacts
  <2> QED BY <1>1, <2>1, <2>2
<1>4. CASE g.mode # "whole_tiles" /\ ForceOneTilePerCta(g)
  <2>1. TailTiles(g) = 0 /\ FullWaves(g) = 1 /\ m <= grid_x
    BY <1>4 DEF TailTiles, FullWaves, ForceOneTilePerCta
  <2>2. grid_x * 1 = grid_x
    OBVIOUS
  <2> QED BY <1>1, <2>1, <2>2
<1>5. CASE g.mode # "whole_tiles" /\ ~ForceOneTilePerCta(g) /\ m <= grid_x
  <2>1. TailTiles(g) = m
    BY <1>5 DEF TailTiles
  <2>2. FullWaves(g) = 0
    BY <1>1, <1>5 DEF FullWaves
  <2>3. grid_x * 0 = 0
    OBVIOUS
  <2> QED BY <1>1, <2>1, <2>2, <2>3
<1>6. CASE g.mode # "whole_tiles" /\ ~ForceOneTilePerCta(g) /\ ~ m <= grid_x
  <2>1. TailTiles(g) = IF ragged * 3 <= grid_x THEN ragged + grid_x ELSE ragged
    BY <1>6 DEF TailTiles
  <2>2. FullWaves(g) = (m - TailTiles(g)) \div grid_x
    BY <1>1, <1>6 DEF FullWaves
  <2> HIDE DEF m, q
  <2>3. q >= 1
    <3>1. CASE q <= 0
      <4>1. grid_x * q <= grid_x * 0
        BY <1>2, <3>1, MulLe
      <4> QED BY <1>1, <1>2, <1>6, <4>1
    <3> QED BY <1>2, <3>1
  <2>4. PICK p \in {q, q - 1} : TailTiles(g) = m - grid_x * p
    <3>1. grid_x * (q - 1) = grid_x * q - grid_x
      BY <1>2
    <3> QED BY <1>1, <1>2, <2>1, <3>1
  <2>5. p \in Nat /\ p <= q
    BY <1>2, <2>3, <2>4
  <2>6. grid_x * p \in Nat /\ grid_x * p <= m
    <3>1. grid_x * p <= grid_x * q
      BY <1>2, <2>5, MulLe
    <3>2. grid_x * p \in Nat
      BY <2>5, ProductNat
    <3> QED BY <1>1, <1>2, <3>1, <3>2
  <2>7. (m - TailTiles(g)) \div grid_x = p
    <3>1. m - TailTiles(g) = grid_x * p
      BY <1>1, <2>4, <2>6
    <3> QED BY <2>5, <2>6, <3>1, DivIs
  <2> QED BY <1>1, <2>2, <2>4, <2>5, <2>6, <2>7 DEF m
<1> QED BY <1>3, <1>4, <1>5, <1>6

\* The stripes are long enough to cover the tail, and no longer than that
\* takes; they are at least a tile long just when there is a tile for every
\* CTA.
LEMMA ItersFacts ==
  ASSUME NEW g \in Shape
  PROVE  /\ Iters(g) \in Nat
         /\ TailTiles(g) = 0 => Iters(g) = 0
         /\ TailTiles(g) > 0 => Iters(g) \in Nat \ {0}
         /\ g.kTiles * TailTiles(g) <= Iters(g) * grid_x
         /\ TailTiles(g) >= grid_x => g.kTiles <= Iters(g)
         /\ TailTiles(g) < grid_x => Iters(g) <= g.kTiles
<1> DEFINE k == g.kTiles
           t == TailTiles(g)
           i == Iters(g)
<1>1. k \in Nat \ {0} /\ t \in Nat
  BY TailFacts DEF Shape
<1>2. k * t \in Nat
  BY <1>1
<1>3. i \in Nat /\ k * t <= grid_x * i /\ grid_x * i < k * t + grid_x
  BY <1>1, <1>2, CeilFacts DEF Iters
<1>4. i * grid_x = grid_x * i
  BY <1>3
<1> HIDE DEF k, t, i
<1>5. t = 0 => i = 0
  <2>1. ASSUME t = 0, i > 0 PROVE FALSE
    <3>1. k * t = 0
      BY <1>1, <2>1
    <3>2. grid_x * 0 + grid_x <= grid_x * i
      BY <1>3, <2>1, MulLess
    <3> QED BY <1>3, <3>1, <3>2
  <2> QED BY <1>3, <2>1
<1>6. t > 0 => i # 0
  <2>1. ASSUME t > 0, i = 0 PROVE FALSE
    <3>1. k * 0 + k <= k * t
      BY <1>1, <2>1, MulLess
    <3>2. grid_x * i = 0
      BY <2>1
    <3> QED BY <1>1, <1>3, <3>1, <3>2
  <2> QED BY <2>1
<1>7. t >= grid_x => k <= i
  <2>1. ASSUME t >= grid_x, i < k PROVE FALSE
    <3>1. k * grid_x <= k * t
      BY <1>1, <2>1, MulLe
    <3>2. grid_x * i + grid_x <= grid_x * k
      BY <1>1, <1>3, <2>1, MulLess
    <3>3. k * grid_x = grid_x * k
      BY <1>1
    <3> QED BY <1>1, <1>2, <1>3, <3>1, <3>2, <3>3
  <2> QED BY <1>1, <1>3, <2>1
<1>8. t < grid_x => i <= k
  <2>1. ASSUME t < grid_x, k < i PROVE FALSE
    <3>1. k * t + k <= k * grid_x
      BY <1>1, <2>1, MulLess
    <3>2. grid_x * k + grid_x <= grid_x * i
      BY <1>1, <1>3, <2>1, MulLess
    <3>3. k * grid_x = grid_x * k
      BY <1>1
    <3> QED BY <1>1, <1>2, <1>3, <3>1, <3>2, <3>3
  <2> QED BY <1>1, <1>3, <2>1
<1> QED BY <1>1, <1>3, <1>4, <1>5, <1>6, <1>7, <1>8 DEF k, t, i

-----------------------------------------------------------------------------
(* Stripes.                                                                *)

\* Which CTAs have a part of a tail tile: FirstCta to LastCta, all of the grid.
LEMMA PieceFacts ==
  ASSUME NEW g \in Shape, NEW w \in 0 .. TailTiles(g) - 1
  PROVE  /\ FirstCta(g, w) \in CTAs /\ LastCta(g, w) \in CTAs
         /\ FirstCta(g, w) <= LastCta(g, w)
         /\ \A c \in CTAs : HasPiece(g, c, w) <=> c \in FirstCta(g, w) .. LastCta(g, w)
         /\ Iters(g) * FirstCta(g, w) <= g.kTiles * w
         /\ g.kTiles * (w + 1) <= Iters(g) * (LastCta(g, w) + 1)
<1> DEFINE k == g.kTiles
           t == TailTiles(g)
           i == Iters(g)
           a == k * w
           b == k * (w + 1)
           f == FirstCta(g, w)
           l == LastCta(g, w)
<1>1. k \in Nat \ {0} /\ t \in Nat /\ w \in Nat /\ w < t
  BY TailFacts DEF Shape
<1>2. i \in Nat \ {0} /\ k * t <= i * grid_x
  BY <1>1, ItersFacts
<1>3. a \in Nat /\ b = a + k
  BY <1>1
<1>4. b <= k * t
  BY <1>1, MulLe
<1>5. f \in Int /\ i * f <= a /\ a < i * f + i
  <2> HIDE DEF a, i
  <2>1. f = a \div i
    BY DEF FirstCta, a, i
  <2> HIDE DEF f
  <2> QED BY <1>2, <1>3, <2>1, DivFacts
<1>6. l \in Int /\ i * l <= b - 1 /\ b - 1 < i * l + i
  <2> HIDE DEF b, i
  <2>1. l = (b - 1) \div i
    BY DEF LastCta, b, i
  <2> HIDE DEF l
  <2>2. b - 1 \in Int
    BY <1>1, <1>3
  <2> QED BY <1>2, <2>1, <2>2, DivFacts
<1>7. \A c \in CTAs : HasPiece(g, c, w) <=> i * c < b /\ a < i * (c + 1)
  BY DEF HasPiece
<1> HIDE DEF a, b, k, t, i, f, l
<1>8. f >= 0
  <2>1. ASSUME f < 0 PROVE FALSE
    <3>1. i * f + i <= i * 0
      BY <1>2, <1>5, <2>1, MulLess
    <3> QED BY <1>2, <1>3, <1>5, <3>1
  <2> QED BY <1>5, <2>1
<1>9. f <= l
  <2>1. ASSUME l < f PROVE FALSE
    <3>1. i * l + i <= i * f
      BY <1>2, <1>5, <1>6, <2>1, MulLess
    <3> QED BY <1>1, <1>2, <1>3, <1>5, <1>6, <3>1
  <2> QED BY <1>5, <1>6, <2>1
<1>10. l < grid_x
  <2>1. i * l < i * grid_x
    BY <1>1, <1>2, <1>3, <1>4, <1>6
  <2> QED BY <1>2, <1>6, <2>1, MulCancel
<1>11. ASSUME NEW c \in CTAs
       PROVE  HasPiece(g, c, w) <=> c \in f .. l
  <2>1. c \in Int
    BY DEF CTAs
  <2>2. i * (c + 1) = i * c + i /\ i * c \in Int
    BY <1>2, <2>1
  <2>3. c <= l => i * c < b
    <3>1. c <= l => i * c <= i * l
      BY <1>2, <1>6, <2>1, MulLe
    <3> QED BY <1>1, <1>2, <1>3, <1>6, <2>2, <3>1
  <2>4. l < c => ~ i * c < b
    <3>1. l < c => i * l + i <= i * c
      BY <1>2, <1>6, <2>1, MulLess
    <3> QED BY <1>1, <1>2, <1>3, <1>6, <2>2, <3>1
  <2>5. f <= c => a < i * c + i
    <3>1. f <= c => i * f <= i * c
      BY <1>2, <1>5, <2>1, MulLe
    <3> QED BY <1>2, <1>3, <1>5, <2>2, <3>1
  <2>6. c < f => ~ a < i * c + i
    <3>1. c < f => i * c + i <= i * f
      BY <1>2, <1>5, <2>1, MulLess
    <3> QED BY <1>2, <1>3, <1>5, <2>2, <3>1
  <2> QED BY <1>5, <1>6, <1>7, <2>1, <2>2, <2>3, <2>4, <2>5, <2>6
<1>12. i * (l + 1) = i * l + i
  BY <1>2, <1>6
<1>13. b <= i * (l + 1)
  BY <1>1, <1>2, <1>3, <1>6, <1>12
<1> QED BY <1>5, <1>6, <1>8, <1>9, <1>10, <1>11, <1>13 DEF CTAs, a, b, k, i, f, l

\* The tiles of the tail follow one another along the stripes.
LEMMA PiecesFollow ==
  ASSUME NEW g \in Shape, NEW w \in 0 .. TailTiles(g) - 1, NEW v \in 0 .. TailTiles(g) - 1,
         w < v
  PROVE  LastCta(g, w) <= FirstCta(g, v)
<1> DEFINE i == Iters(g)
           l == LastCta(g, w)
           f == FirstCta(g, v)
<1>1. TailTiles(g) \in Nat /\ g.kTiles \in Nat \ {0}
  BY TailFacts DEF Shape
<1>2. i \in Nat \ {0}
  BY <1>1, ItersFacts
<1>3. g.kTiles * (w + 1) <= g.kTiles * v
  BY <1>1, MulLe
<1>4. l \in Int /\ f \in Int
  BY PieceFacts DEF CTAs
<1>5. HasPiece(g, l, w)
  <2>1. /\ FirstCta(g, w) \in CTAs /\ LastCta(g, w) \in CTAs
        /\ FirstCta(g, w) <= LastCta(g, w)
        /\ \A c \in CTAs : HasPiece(g, c, w) <=> c \in FirstCta(g, w) .. LastCta(g, w)
    BY PieceFacts
  <2> QED BY <2>1 DEF CTAs
<1>6. i * l < g.kTiles * (w + 1)
  BY <1>5 DEF HasPiece
<1>7. HasPiece(g, f, v)
  <2>1. /\ FirstCta(g, v) \in CTAs /\ LastCta(g, v) \in CTAs
        /\ FirstCta(g, v) <= LastCta(g, v)
        /\ \A c \in CTAs : HasPiece(g, c, v) <=> c \in FirstCta(g, v) .. LastCta(g, v)
    BY PieceFacts
  <2> QED BY <2>1 DEF CTAs
<1>8. g.kTiles * v < i * (f + 1)
  BY <1>7 DEF HasPiece
<1>9. g.kTiles * (w + 1) \in Int /\ g.kTiles * v \in Int
  BY <1>1
<1> HIDE DEF l, f, i
<1>10. i * l < i * (f + 1)
  BY <1>2, <1>3, <1>4, <1>6, <1>8, <1>9
<1>11. l < f + 1
  BY <1>2, <1>4, <1>10, MulCancel
<1> QED BY <1>4, <1>11 DEF l, f

-----------------------------------------------------------------------------
(* Slices.                                                                 *)

\* What a CTA computes for itself agrees with the stripes: SliceCount is how
\* many CTAs have a part of the tile, and SliceIdx counts them from the last
\* one back, so that the CTA with the first k-tile merges last.
THEOREM SliceFacts ==
  ASSUME NEW g \in Shape, NEW w \in 0 .. TailTiles(g) - 1, NEW c \in CTAs,
         HasPiece(g, c, w)
  PROVE  /\ SliceCount(g, w) = LastCta(g, w) - FirstCta(g, w) + 1
         /\ SliceIdx(g, c, w) = LastCta(g, w) - c
<1> DEFINE k == g.kTiles
           i == Iters(g)
           a == k * w
           b == k * (w + 1)
           f == FirstCta(g, w)
           l == LastCta(g, w)
           m == CeilDiv(a, i)
           fb == FirstBoundary(g, w)
           off == BoundaryOffset(g, w)
           n == CeilDiv(k - off, i)
<1>1. /\ f \in CTAs /\ l \in CTAs /\ f <= l
      /\ HasPiece(g, c, w) <=> c \in f .. l
      /\ i * f <= a /\ b <= i * (l + 1)
  BY PieceFacts
<1>2. c \in Int /\ f \in Nat /\ l \in Nat /\ f <= l /\ f <= c /\ c <= l
  BY <1>1 DEF CTAs
<1>3. TailTiles(g) \in Nat /\ k \in Nat \ {0} /\ w \in Nat
  BY TailFacts DEF Shape
<1>4. i \in Nat \ {0}
  BY <1>3, ItersFacts
<1>5. a \in Nat /\ b = a + k /\ b \in Nat
  BY <1>3
<1>6. a < i * (f + 1) /\ i * l < b
  <2>1. HasPiece(g, f, w) /\ HasPiece(g, l, w)
    <3>1. \A d \in CTAs : HasPiece(g, d, w) <=> d \in f .. l
      BY PieceFacts
    <3> QED BY <1>1, <1>2, <3>1
  <2> QED BY <2>1 DEF HasPiece
<1>7. /\ fb = i * m /\ off = fb - a
      /\ BoundaryInside(g, w) <=> fb <= b
  BY DEF FirstBoundary, BoundaryOffset, BoundaryInside
<1>8. /\ SliceCount(g, w) = IF ~ fb <= b THEN 1 ELSE n + (IF off > 0 THEN 1 ELSE 0)
      /\ SliceIdx(g, c, w) =
           IF ~ fb <= b THEN 0
           ELSE IF i * c - fb < 0 \/ (off = 0 /\ i * c - fb = 0) THEN SliceCount(g, w) - 1
           ELSE SliceCount(g, w) - 1 - (i * c - fb) \div i - (IF off > 0 THEN 1 ELSE 0)
  BY <1>7 DEF SliceCount, SliceIdx
<1>9. m \in Nat /\ a <= i * m /\ i * m < a + i
  <2> HIDE DEF a, i
  <2> QED BY <1>4, <1>5, CeilFacts
<1> HIDE DEF a, b, k, i, f, l, m, fb, off, n
<1>10. i * (f + 1) = i * f + i /\ i * f \in Int /\ i * l \in Int /\ i * (l + 1) = i * l + i
       /\ i * c \in Int /\ i * m \in Int
  BY <1>2, <1>4, <1>9
<1>11. CASE a = i * f
  <2>1. m = f
    <3>1. ~ m < f
      <4>1. m < f => i * m + i <= i * f
        BY <1>2, <1>4, <1>9, MulLess
      <4> QED BY <1>4, <1>5, <1>9, <1>10, <1>11, <4>1
    <3>2. ~ f < m
      <4>1. f < m => i * f + i <= i * m
        BY <1>2, <1>4, <1>9, MulLess
      <4> QED BY <1>4, <1>5, <1>9, <1>10, <1>11, <4>1
    <3> QED BY <1>2, <1>9, <3>1, <3>2
  <2>2. fb = a /\ off = 0 /\ fb <= b
    BY <1>3, <1>5, <1>7, <1>11, <2>1
  <2>3. n \in Nat /\ k <= i * n /\ i * n < k + i
    <3>1. n = CeilDiv(k, i)
      BY <1>3, <2>2 DEF n
    <3> QED BY <1>3, <1>4, <3>1, CeilFacts
  <2>4. n = l - f + 1
    <3>1. i * (f + n) = i * f + i * n /\ i * n \in Int
      BY <1>2, <1>4, <2>3
    <3>2. i * l < i * (f + n)
      BY <1>3, <1>5, <1>6, <1>10, <1>11, <2>3, <3>1
    <3>3. l < f + n
      BY <1>2, <1>4, <2>3, <3>2, MulCancel
    <3>4. i * (l + 2) = i * l + i + i
      BY <1>2, <1>4
    <3>5. i * (f + n) < i * (l + 2)
      BY <1>1, <1>3, <1>4, <1>5, <1>10, <1>11, <2>3, <3>1, <3>4
    <3>6. f + n < l + 2
      BY <1>2, <1>4, <2>3, <3>5, MulCancel
    <3> QED BY <1>2, <2>3, <3>3, <3>6
  <2>5. i * c - fb = i * (c - f)
    BY <1>2, <1>4, <1>11, <2>2
  <2>6. c > f => i * c - fb > 0 /\ (i * c - fb) \div i = c - f
    <3>1. c > f => i * f + i <= i * c
      BY <1>2, <1>4, MulLess
    <3>2. (i * c - fb) \div i = c - f
      <4>1. i * (c - f) \in Int /\ c - f \in Int
        BY <1>2, <1>4
      <4> QED BY <1>4, <2>5, <4>1, DivIs
    <3> QED BY <1>4, <1>10, <1>11, <2>2, <3>1, <3>2
  <2>7. c = f => i * c - fb = 0
    BY <1>2, <1>10, <1>11, <2>2
  <2>8. SliceCount(g, w) = l - f + 1
    BY <1>2, <1>8, <2>2, <2>3, <2>4
  <2>9. CASE c = f
    BY <1>2, <1>8, <2>2, <2>7, <2>8, <2>9 DEF f, l
  <2>10. CASE c > f
    <3>0. ~ i * c - fb < 0 /\ ~ i * c - fb = 0 /\ (i * c - fb) \div i = c - f
      BY <1>5, <1>10, <2>2, <2>6, <2>10
    <3>1. SliceIdx(g, c, w) = (l - f + 1) - 1 - (c - f) - 0
      BY <1>8, <2>2, <2>8, <3>0
    <3> QED BY <1>2, <2>8, <3>1 DEF f, l
  <2> QED BY <1>2, <2>8, <2>9, <2>10 DEF f, l
<1>12. CASE a # i * f
  <2>1. m = f + 1
    <3>1. ~ m < f + 1
      <4>1. m <= f => i * m <= i * f
        BY <1>2, <1>4, <1>9, MulLe
      <4> QED BY <1>1, <1>2, <1>5, <1>9, <1>10, <1>12, <4>1
    <3>2. ~ f + 1 < m
      <4>1. f + 1 < m => i * (f + 1) + i <= i * m
        BY <1>2, <1>4, <1>9, MulLess
      <4> QED BY <1>4, <1>5, <1>6, <1>9, <1>10, <4>1
    <3> QED BY <1>2, <1>9, <3>1, <3>2
  <2>2. fb = i * f + i /\ off > 0 /\ fb \in Int /\ off = fb - a
    BY <1>5, <1>6, <1>7, <1>10, <2>1
  <2>3. CASE ~ fb <= b
    <3>1. l = f
      <4>1. i * l < i * (f + 1)
        BY <1>3, <1>5, <1>6, <1>10, <2>2, <2>3
      <4>2. l < f + 1
        BY <1>2, <1>4, <4>1, MulCancel
      <4> QED BY <1>2, <4>2
    <3> QED BY <1>2, <1>8, <2>3, <3>1 DEF f, l
  <2>4. CASE fb <= b
    <3>1. k - off = b - fb /\ k - off \in Nat
      BY <1>3, <1>5, <2>2, <2>4
    <3>2. n \in Nat /\ b - fb <= i * n /\ i * n < b - fb + i
      <4>1. n \in Nat /\ k - off <= i * n /\ i * n < k - off + i
        BY <1>4, <3>1, CeilFacts DEF n
      <4> QED BY <3>1, <4>1
    <3>3. n = l - f
      <4>1. i * (f + 1 + n) = i * f + i + i * n /\ i * n \in Int
        BY <1>2, <1>4, <3>2
      <4>2. i * l < i * (f + 1 + n)
        BY <1>5, <1>6, <1>10, <2>2, <3>2, <4>1
      <4>3. l < f + 1 + n
        BY <1>2, <1>4, <3>2, <4>2, MulCancel
      <4>4. i * (l + 2) = i * l + i + i
        BY <1>2, <1>4
      <4>5. i * (f + 1 + n) < i * (l + 2)
        BY <1>1, <1>4, <1>5, <1>10, <2>2, <3>2, <4>1, <4>4
      <4>6. f + 1 + n < l + 2
        BY <1>2, <1>4, <3>2, <4>5, MulCancel
      <4> QED BY <1>2, <3>2, <4>3, <4>6
    <3>4. SliceCount(g, w) = l - f + 1
      BY <1>2, <1>8, <2>2, <2>4, <3>2, <3>3
    <3>5. CASE c = f
      <4>1. i * c - fb < 0
        BY <1>4, <1>10, <2>2, <3>5
      <4> QED BY <1>2, <1>8, <2>4, <3>4, <3>5, <4>1 DEF f, l
    <3>6. CASE c > f
      <4>1. i * c - fb = i * (c - (f + 1)) /\ c - (f + 1) \in Int
        BY <1>2, <1>4, <2>2
      <4>2. (i * c - fb) \div i = c - (f + 1)
        <5>1. i * (c - (f + 1)) \in Int
          BY <1>2, <1>4
        <5> QED BY <1>4, <4>1, <5>1, DivIs
      <4>3. i * f + i <= i * c
        BY <1>2, <1>4, <3>6, MulLess
      <4>4. ~ i * c - fb < 0
        BY <1>10, <2>2, <4>3
      <4>5. SliceIdx(g, c, w) = (l - f + 1) - 1 - (c - (f + 1)) - 1
        BY <1>8, <2>2, <2>4, <3>4, <4>2, <4>4
      <4> QED BY <1>2, <3>4, <4>5 DEF f, l
    <3> QED BY <1>2, <3>5, <3>6
  <2> QED BY <2>3, <2>4
<1> QED BY <1>11, <1>12

-----------------------------------------------------------------------------
(* The parts of a tail tile.                                               *)

\* The k-tiles of tail tile w that are CTA c's: FirstK to TopK - 1.
FirstK(g, c, w) ==
  IF g.kTiles * w < Iters(g) * c THEN Iters(g) * c - g.kTiles * w ELSE 0
TopK(g, c, w) ==
  IF g.kTiles * (w + 1) <= Iters(g) * (c + 1) THEN g.kTiles
  ELSE Iters(g) * (c + 1) - g.kTiles * w

Shared(g, w) == FirstCta(g, w) < LastCta(g, w)

\* The slot in which the CTAs of a shared tile meet.
TileSlot(g, w) == IF TailTiles(g) >= grid_x THEN FirstCta(g, w) + 1 ELSE w

\* A CTA's part is not empty, and the parts of a tile follow one another from
\* its first k-tile to its last.
LEMMA PartFacts ==
  ASSUME NEW g \in Shape, NEW w \in 0 .. TailTiles(g) - 1, NEW c \in CTAs,
         HasPiece(g, c, w)
  PROVE  /\ FirstK(g, c, w) \in Nat /\ TopK(g, c, w) \in Nat
         /\ FirstK(g, c, w) < TopK(g, c, w) /\ TopK(g, c, w) <= g.kTiles
         /\ c = FirstCta(g, w) => FirstK(g, c, w) = 0
         /\ c = LastCta(g, w) => TopK(g, c, w) = g.kTiles
         /\ c < LastCta(g, w) =>
              /\ c + 1 \in CTAs /\ HasPiece(g, c + 1, w)
              /\ TopK(g, c, w) = FirstK(g, c + 1, w)
              /\ Iters(g) * (c + 1) < g.kTiles * (w + 1)
<1> DEFINE k == g.kTiles
           i == Iters(g)
           a == k * w
           b == k * (w + 1)
           f == FirstCta(g, w)
           l == LastCta(g, w)
<1>1. /\ f \in CTAs /\ l \in CTAs /\ f <= l
      /\ \A d \in CTAs : HasPiece(g, d, w) <=> d \in f .. l
      /\ i * f <= a /\ b <= i * (l + 1)
  BY PieceFacts
<1>2. c \in Int /\ f \in Nat /\ l \in Nat /\ f <= l /\ f <= c /\ c <= l /\ l < grid_x
  BY <1>1 DEF CTAs
<1>3. TailTiles(g) \in Nat /\ k \in Nat \ {0} /\ w \in Nat
  BY TailFacts DEF Shape
<1>4. i \in Nat \ {0}
  BY <1>3, ItersFacts
<1>5. a \in Nat /\ b = a + k
  BY <1>3
<1>6. i * c < b /\ a < i * (c + 1)
  BY DEF HasPiece
<1>7. /\ FirstK(g, c, w) = IF a < i * c THEN i * c - a ELSE 0
      /\ TopK(g, c, w) = IF b <= i * (c + 1) THEN k ELSE i * (c + 1) - a
      /\ FirstK(g, c + 1, w) = IF a < i * (c + 1) THEN i * (c + 1) - a ELSE 0
  BY DEF FirstK, TopK
<1>8. c < l => c + 1 \in CTAs /\ HasPiece(g, c + 1, w)
  <2>1. c < l => c + 1 \in CTAs /\ c + 1 \in f .. l
    BY <1>2 DEF CTAs
  <2> QED BY <1>1, <2>1
<1>9. c < l => i * (c + 1) < b
  BY <1>8 DEF HasPiece
<1> HIDE DEF a, b, k, i, f, l
<1>10. i * (c + 1) = i * c + i /\ i * c \in Int
  BY <1>2, <1>4
<1>11. FirstK(g, c, w) \in Nat /\ TopK(g, c, w) \in Nat
  BY <1>3, <1>4, <1>5, <1>6, <1>7, <1>10
<1>12. FirstK(g, c, w) < TopK(g, c, w) /\ TopK(g, c, w) <= k
  BY <1>3, <1>4, <1>5, <1>6, <1>7, <1>10
<1>13. c = f => FirstK(g, c, w) = 0
  BY <1>1, <1>5, <1>7, <1>10
<1>14. c = l => TopK(g, c, w) = k
  BY <1>1, <1>7
<1>15. c < l => TopK(g, c, w) = FirstK(g, c + 1, w)
  BY <1>3, <1>4, <1>5, <1>6, <1>7, <1>9, <1>10
<1> QED BY <1>8, <1>9, <1>11, <1>12, <1>13, <1>14, <1>15 DEF k, f, l, i, b

\* Shared tiles meet in different slots, and each slot is one of the first
\* grid_x; with a tile for every CTA no tile has more than two slices.
THEOREM SlotFacts ==
  ASSUME NEW g \in Shape, NEW w \in 0 .. TailTiles(g) - 1, Shared(g, w)
  PROVE  /\ TileSlot(g, w) \in CTAs
         /\ TailTiles(g) >= grid_x => LastCta(g, w) = FirstCta(g, w) + 1
         /\ \A v \in 0 .. TailTiles(g) - 1 :
              Shared(g, v) /\ TileSlot(g, v) = TileSlot(g, w) => v = w
<1>1. TailTiles(g) \in Nat /\ g.kTiles \in Nat \ {0}
  BY TailFacts DEF Shape
<1>2. FirstCta(g, w) \in CTAs /\ LastCta(g, w) \in CTAs /\ FirstCta(g, w) < LastCta(g, w)
  BY PieceFacts DEF Shared
<1>3. TileSlot(g, w) \in CTAs
  BY <1>1, <1>2 DEF TileSlot, CTAs
<1>4. ASSUME TailTiles(g) >= grid_x
      PROVE  LastCta(g, w) = FirstCta(g, w) + 1
  <2> DEFINE i == Iters(g)
             k == g.kTiles
             f == FirstCta(g, w)
             l == LastCta(g, w)
  <2>1. i \in Nat \ {0} /\ k <= i
    BY <1>1, <1>4, ItersFacts
  <2>2. HasPiece(g, f, w) /\ HasPiece(g, l, w)
    <3>1. \A d \in CTAs : HasPiece(g, d, w) <=> d \in f .. l
      BY PieceFacts
    <3> QED BY <1>2, <3>1 DEF CTAs
  <2>3. k * w < i * (f + 1) /\ i * l < k * (w + 1)
    BY <2>2 DEF HasPiece
  <2>4. k * (w + 1) = k * w + k /\ k * w \in Int
    BY <1>1
  <2>5. f \in Nat /\ l \in Nat /\ f < l
    BY <1>2 DEF CTAs
  <2> HIDE DEF i, k, f, l
  <2>6. i * (f + 2) = i * (f + 1) + i /\ i * (f + 1) \in Int /\ i * l \in Int
    BY <2>1, <2>5
  <2>7. i * l < i * (f + 2)
    <3> HIDE DEF i
    <3> QED BY <1>1, <2>1, <2>3, <2>4, <2>6 DEF k
  <2>8. l < f + 2
    BY <2>1, <2>5, <2>7, MulCancel
  <2> QED BY <2>5, <2>8 DEF f, l
<1>5. ASSUME NEW v \in 0 .. TailTiles(g) - 1, Shared(g, v), TileSlot(g, v) = TileSlot(g, w)
      PROVE  v = w
  <2>1. FirstCta(g, v) \in CTAs /\ LastCta(g, v) \in CTAs /\ FirstCta(g, v) < LastCta(g, v)
    BY <1>5, PieceFacts DEF Shared
  <2>2. CASE TailTiles(g) >= grid_x
    <3>1. FirstCta(g, v) = FirstCta(g, w)
      BY <1>2, <1>5, <2>1, <2>2 DEF TileSlot, CTAs
    <3>2. v < w => LastCta(g, v) <= FirstCta(g, w)
      BY PiecesFollow
    <3>3. w < v => LastCta(g, w) <= FirstCta(g, v)
      BY PiecesFollow
    <3> QED BY <1>1, <1>2, <2>1, <3>1, <3>2, <3>3 DEF CTAs
  <2>3. CASE ~ TailTiles(g) >= grid_x
    BY <1>5, <2>3 DEF TileSlot
  <2> QED BY <2>2, <2>3
<1> QED BY <1>3, <1>4, <1>5

-----------------------------------------------------------------------------
(* Tiles of a GEMM.                                                        *)

WaveTiles == MnTiles(gemm) - TailTiles(gemm)
TailWork  == 0 .. TailTiles(gemm) - 1
SliceCtas(w) == FirstCta(gemm, w) .. LastCta(gemm, w)

\* Tail tiles that are reduced through a slot.
Contended ==
  {w \in TailWork : Shared(gemm, w) /\ (WaveTiles + w) \div gemm.nTiles \notin skipped}

\* The sum of the k-tiles from k on.
Above(k) == RangeCounts(k, gemm.kTiles - k)
Complete == RangeCounts(0, gemm.kTiles)

-----------------------------------------------------------------------------
(* The inductive invariant.                                                *)

Loop == [waves : Nat, inTail : BOOLEAN, work : Nat, k0 : Nat, block : Nat, column : Nat,
         count : Nat, slices : Nat, idx : Int, slot : Int]

\* A CTA in its waves: FullWaves - waves of them are behind it.
InWaves(c) ==
  LET l == loop[c]
      tile == c + grid_x * (FullWaves(gemm) - l.waves)
  IN  /\ l.waves <= FullWaves(gemm)
      /\ l.slot = FirstLockSlot(gemm, c)
      /\ pc[c] \in {"pick", "store", "done"}
      /\ pc[c] # "store" => l.work = tile
      /\ pc[c] = "store" => /\ l.work = tile - grid_x
                            /\ l.waves < FullWaves(gemm)
                            /\ l.work < WaveTiles
                            /\ l.block = l.work \div gemm.nTiles
                            /\ l.column = l.work % gemm.nTiles
                            /\ l.block \notin skipped
                            /\ acc[c] = Complete
      /\ pc[c] = "done" => l.waves = 0

\* A CTA in the tail stands at the first k-tile of its stripe in tile work.
InTail(c, l) ==
  /\ l.inTail /\ l.waves = 0
  /\ TailTiles(gemm) > 0 /\ l.work <= TailTiles(gemm)
  /\ l.k0 = FirstK(gemm, c, l.work)
  /\ Iters(gemm) * c < gemm.kTiles * (l.work + 1)
  /\ TileOf(l) = WaveTiles + l.work /\ l.column < gemm.nTiles

\* Between two pieces: the slot is that of the next piece, if there is one.
BetweenPieces(c, l) ==
  IF TailTiles(gemm) >= grid_x
  THEN /\ l.slot \in {c, c + 1}
       /\ gemm.kTiles * l.work < Iters(gemm) * (c + 1) => l.slot = c
  ELSE l.slot = l.work - 1

\* On a piece: the registers say what the stripes say.
OnPiece(c, l) ==
  /\ l.work \in TailWork /\ HasPiece(gemm, c, l.work)
  /\ l.count = TopK(gemm, c, l.work) - l.k0
  /\ l.slices = LastCta(gemm, l.work) - FirstCta(gemm, l.work) + 1
  /\ l.idx = LastCta(gemm, l.work) - c
  /\ l.slot = IF TailTiles(gemm) >= grid_x
              THEN c + (IF Shared(gemm, l.work) /\ c = FirstCta(gemm, l.work) THEN 1 ELSE 0)
              ELSE l.work

\* What a CTA on a piece has summed up so far.
PieceSum(c) ==
  LET l == loop[c]
  IN  /\ l.block \notin skipped
      /\ Sharing(c) => Shared(gemm, l.work)
      /\ pc[c] \in {"wait", "merge"} => acc[c] = RangeCounts(l.k0, l.count)
      /\ pc[c] = "publish" => acc[c] = Above(l.k0)
      /\ pc[c] = "store" => c = FirstCta(gemm, l.work) /\ acc[c] = Complete

NoneLeft(c) ==
  \A w \in TailWork : HasPiece(gemm, c, w) => loop[c].inTail /\ w < loop[c].work

Placed(c) ==
  /\ ~loop[c].inTail => InWaves(c)
  /\ loop[c].inTail => InTail(c, loop[c])
  /\ loop[c].inTail /\ pc[c] \in {"pick", "done"} => BetweenPieces(c, loop[c])
  /\ loop[c].inTail /\ pc[c] \notin {"pick", "done"} => OnPiece(c, loop[c]) /\ PieceSum(c)
  /\ pc[c] = "done" => NoneLeft(c)

\* CTA c has handed on its part of tail tile w.
Released(c, w) ==
  loop[c].inTail /\ (w < loop[c].work \/ (w = loop[c].work /\ pc[c] = "store"))

\* Whose turn it is at tile w: the lock word, which is back at zero after
\* the last slice.
Turn(w) ==
  IF lock[TileSlot(gemm, w)] > 0 THEN lock[TileSlot(gemm, w)]
  ELSE IF Released(FirstCta(gemm, w), w) THEN SliceCount(gemm, w) ELSE 0

\* The slices of a tile have been handed on in the order of their index, as
\* many as the lock word says.
InTurn(w) ==
  /\ lock[TileSlot(gemm, w)] \in 0 .. LastCta(gemm, w) - FirstCta(gemm, w)
  /\ \A c \in SliceCtas(w) : Released(c, w) <=> LastCta(gemm, w) - c < Turn(w)

\* The slot holds what the slice whose turn it is has to add.
SlotHolds(w) ==
  \A c \in SliceCtas(w) :
    lock[TileSlot(gemm, w)] = LastCta(gemm, w) - c /\ c < LastCta(gemm, w) =>
      \/ pc[c] = "publish" /\ loop[c].inTail /\ loop[c].work = w
      \/ ctmp[TileSlot(gemm, w)] = Above(TopK(gemm, c, w))

\* Only the CTA whose turn it is is past its wait, and what it has stored is
\* what the next slice needs.
HoldsTurn(c) ==
  /\ pc[c] \in {"merge", "publish"} => lock[loop[c].slot] = loop[c].idx
  /\ pc[c] = "publish" /\ ~IsLastSlice(loop[c]) => ctmp[loop[c].slot] = acc[c]

LocksIdle == \A s \in Slots : lock[s] # 0 => \E w \in Contended : s = TileSlot(gemm, w)

\* The tiles whose CTA has moved on are stored, and no others.
Passed(t) ==
  IF t < WaveTiles
  THEN loop[t % grid_x].inTail \/ t < loop[t % grid_x].work
  ELSE LET c == FirstCta(gemm, t - WaveTiles)
       IN  loop[c].inTail /\ t - WaveTiles < loop[c].work

TilesStored ==
  \A t \in Tiles :
    tiles[t] = IF Passed(t) /\ t \div gemm.nTiles \notin skipped THEN Complete ELSE Unwritten

\* TypeOK without the range of the slots, which follows from Placed, and with
\* the type of the loop registers.
Types ==
  /\ gemm \in Problems
  /\ skipped \subseteq 0 .. gemm.routeBlocks - 1
  /\ loop \in [CTAs -> Loop]
  /\ pc \in [CTAs -> {"pick", "wait", "merge", "publish", "store", "done"}]
  /\ acc \in [CTAs -> Count]
  /\ lock \in [Slots -> Nat]
  /\ ctmp \in [Slots -> Count]
  /\ tiles \in [Tiles -> Count \cup {Unwritten}]

IInv ==
  /\ Types
  /\ \A c \in CTAs : Placed(c) /\ HoldsTurn(c)
  /\ \A w \in Contended : InTurn(w) /\ SlotHolds(w)
  /\ LocksIdle
  /\ TilesStored

-----------------------------------------------------------------------------
(* The loop registers in the tail.                                         *)

LEMMA GemmShape ==
  ASSUME gemm \in Problems
  PROVE  gemm \in Shape
BY ProblemsAssumption DEF ProblemsAssumption, Shape

\* A CTA that stands in the tail has k-tiles left just when its stripe has a
\* part of the tile it stands at, and it takes all of that part.
LEMMA CountFacts ==
  ASSUME gemm \in Shape, NEW c \in CTAs, NEW l \in Loop, InTail(c, l)
  PROVE  /\ TailCount(c, l) \in Nat
         /\ TailCount(c, l) > 0 <=> l.work \in TailWork /\ HasPiece(gemm, c, l.work)
         /\ TailCount(c, l) > 0 => TailCount(c, l) = TopK(gemm, c, l.work) - l.k0
<1> DEFINE k == gemm.kTiles
           i == Iters(gemm)
           w == l.work
           a == k * w
           b == k * (w + 1)
           k0 == l.k0
           t == TailTiles(gemm)
<1>1. t \in Nat /\ k \in Nat \ {0} /\ t > 0
  BY TailFacts DEF Shape, InTail
<1>2. i \in Nat \ {0}
  BY <1>1, ItersFacts
<1>3. w \in Nat /\ k0 \in Nat /\ c \in Int
  BY DEF Loop, CTAs
<1>4. a \in Nat /\ b = a + k /\ i * c \in Int /\ i * (c + 1) = i * c + i
  BY <1>1, <1>2, <1>3
<1>5. /\ k0 = IF a < i * c THEN i * c - a ELSE 0
      /\ i * c < b
  BY DEF InTail, FirstK
<1>6. TailCount(c, l) = IF w < t THEN TailShare(gemm, c, w, k0) ELSE 0
  BY <1>2 DEF TailCount
<1>7. TailShare(gemm, c, w, k0) =
        LET upto == i * (c + 1) - (a + k0)
            own  == IF upto < 0 THEN 0 ELSE upto
        IN  IF k0 + own > k THEN k - k0 ELSE own
  BY DEF TailShare
<1>8. TopK(gemm, c, w) = IF b <= i * (c + 1) THEN k ELSE i * (c + 1) - a
  BY DEF TopK
<1>9. HasPiece(gemm, c, w) <=> a < i * (c + 1)
  BY <1>5 DEF HasPiece
<1>10. w \in TailWork <=> w < t
  BY <1>1, <1>3 DEF TailWork
<1> HIDE DEF k, i, w, a, b, k0, t
<1>11. k0 < k
  BY <1>1, <1>2, <1>3, <1>4, <1>5
<1>12. /\ TailShare(gemm, c, w, k0) \in Nat
       /\ TailShare(gemm, c, w, k0) > 0 <=> a < i * (c + 1)
  BY <1>1, <1>2, <1>3, <1>4, <1>5, <1>7, <1>11
<1>13. a < i * (c + 1) => TailShare(gemm, c, w, k0) = TopK(gemm, c, w) - k0
  BY <1>1, <1>2, <1>3, <1>4, <1>5, <1>7, <1>8, <1>11
<1> QED BY <1>1, <1>6, <1>9, <1>10, <1>12, <1>13 DEF w, k0

\* The iteration that enters the tail jumps to the start of the CTA's stripe.
LEMMA EnterFacts ==
  ASSUME gemm \in Shape, NEW c \in CTAs, NEW l \in Loop,
         ~l.inTail, l.waves = 0, l.slot = FirstLockSlot(gemm, c),
         TailTiles(gemm) > 0, Iters(gemm) * c < gemm.kTiles * TailTiles(gemm)
  PROVE  /\ EnterTail(c, l) \in Loop /\ InTail(c, EnterTail(c, l))
         /\ BetweenPieces(c, EnterTail(c, l))
         /\ gemm.kTiles * EnterTail(c, l).work <= Iters(gemm) * c
<1> DEFINE k == gemm.kTiles
           i == Iters(gemm)
           n == gemm.nTiles
           w == (i * c) \div k
           t == w + MnTiles(gemm) - TailTiles(gemm)
           e == EnterTail(c, l)
<1>1. /\ TailTiles(gemm) \in Nat /\ MnTiles(gemm) \in Nat /\ TailTiles(gemm) <= MnTiles(gemm)
      /\ k \in Nat \ {0} /\ n \in Nat \ {0} /\ c \in Nat
  BY TailFacts DEF Shape, CTAs
<1>2. i \in Nat \ {0}
  BY <1>1, ItersFacts
<1>3. i * c \in Nat
  BY <1>1, <1>2
<1>4. w \in Int /\ k * w <= i * c /\ i * c < k * w + k
  <2>1. i * c \in Int
    BY <1>3
  <2> HIDE DEF i, k
  <2>2. /\ (i * c) \div k \in Int /\ k * ((i * c) \div k) <= i * c
        /\ i * c < k * ((i * c) \div k) + k
    BY <1>1, <2>1, DivFacts
  <2> QED BY <2>2
<1>5. e = [l EXCEPT !.inTail = TRUE, !.work = w, !.k0 = i * c - w * k,
                    !.block = t \div n, !.column = t % n]
  BY DEF EnterTail
<1>6. i * c < k * TailTiles(gemm)
  OBVIOUS
<1> HIDE DEF w, e
<1>7. w \in Nat
  <2>1. ASSUME w < 0 PROVE FALSE
    <3> HIDE DEF k, i
    <3>1. k * w + k <= k * 0
      BY <1>1, <1>4, <2>1, MulLess
    <3> QED BY <1>1, <1>3, <1>4, <3>1
  <2> QED BY <1>4, <2>1
<1>8. w < TailTiles(gemm)
  <2>1. k * w < k * TailTiles(gemm)
    BY <1>1, <1>3, <1>4, <1>6
  <2> QED BY <1>1, <1>7, <2>1, MulCancel
<1>9. t \in Nat
  BY <1>1, <1>7
<1>10. /\ t \div n \in Nat /\ t % n \in 0 .. n - 1
       /\ (t \div n) * n + (t % n) = t
  <2> HIDE DEF t, n
  <2> QED BY <1>1, <1>9
<1>11. w * k = k * w /\ k * w \in Nat /\ k * (w + 1) = k * w + k
  <2> HIDE DEF k
  <2> QED BY <1>1, <1>7
<1>12. e \in Loop
  <2>1. i * c - w * k \in Nat
    BY <1>3, <1>4, <1>11
  <2>2. t % n \in Nat
    BY <1>10
  <2> HIDE DEF t, n, i, k
  <2> QED BY <1>5, <1>7, <1>10, <2>1, <2>2 DEF Loop
<1>13. /\ e.inTail /\ e.waves = 0 /\ e.work = w /\ e.k0 = i * c - k * w
       /\ e.block = t \div n /\ e.column = t % n /\ e.slot = l.slot
  BY <1>5, <1>11 DEF Loop
<1>14. e.k0 = FirstK(gemm, c, e.work)
  <2>1. e.k0 = IF k * w < i * c THEN i * c - k * w ELSE 0
    BY <1>3, <1>4, <1>11, <1>13
  <2> QED BY <1>13, <2>1 DEF FirstK
<1>15. TileOf(e) = WaveTiles + e.work /\ e.column < n
  <2>1. TileOf(e) = t
    BY <1>10, <1>13 DEF TileOf
  <2>2. t = WaveTiles + w
    BY <1>1, <1>7 DEF WaveTiles
  <2>3. t % n < n
    BY <1>1, <1>10
  <2> QED BY <1>13, <2>1, <2>2, <2>3
<1>16. InTail(c, e)
  <2>1. Iters(gemm) * c < gemm.kTiles * (e.work + 1)
    BY <1>4, <1>11, <1>13
  <2>2. e.work <= TailTiles(gemm)
    BY <1>1, <1>7, <1>8, <1>13
  <2> QED BY <1>13, <1>14, <1>15, <2>1, <2>2 DEF InTail
<1>17. BetweenPieces(c, e)
  <2>1. TailTiles(gemm) >= grid_x => l.slot = c
    BY DEF FirstLockSlot
  <2>2. ~ TailTiles(gemm) >= grid_x => l.slot = w - 1
    BY DEF FirstLockSlot, w
  <2> QED BY <1>1, <1>13, <2>1, <2>2 DEF BetweenPieces
<1> QED BY <1>4, <1>12, <1>13, <1>16, <1>17 DEF e

\* The registers of a piece of the stripe.
LEMMA PieceRegisters ==
  ASSUME gemm \in Shape, NEW c \in CTAs, NEW l \in Loop, InTail(c, l), BetweenPieces(c, l),
         TailCount(c, l) > 0
  PROVE  LET p == TailIteration(c, l)
         IN  /\ p \in Loop /\ InTail(c, p) /\ OnPiece(c, p)
             /\ p.work = l.work /\ p.k0 = l.k0 /\ p.block = l.block
<1> DEFINE p == TailIteration(c, l)
           w == l.work
           f == FirstCta(gemm, w)
           z == LastCta(gemm, w)
           n == SliceCount(gemm, w)
           i == SliceIdx(gemm, c, w)
           k == TailCount(c, l)
<1>1. w \in TailWork /\ HasPiece(gemm, c, w) /\ k \in Nat /\ k = TopK(gemm, c, w) - l.k0
  BY CountFacts
<1>2. n = z - f + 1 /\ i = z - c
  BY <1>1, SliceFacts DEF TailWork
<1>3. f \in CTAs /\ z \in CTAs /\ f <= z /\ c \in f .. z
  BY <1>1, PieceFacts DEF TailWork
<1>4. p = [l EXCEPT !.count = k, !.slices = n, !.idx = i, !.slot = l.slot + SlotStep(n, i)]
  BY DEF TailIteration, Loop
<1> HIDE DEF p, n, i, k, f, z
<1>5. c \in Nat /\ f \in Nat /\ z \in Nat /\ n \in Nat /\ i \in Int /\ f <= c /\ c <= z
  BY <1>2, <1>3 DEF CTAs
<1>6. SlotStep(n, i) \in {0, 1}
  BY DEF SlotStep
<1>7. p \in Loop
  <2>1. l.slot + SlotStep(n, i) \in Int
    BY <1>6 DEF Loop
  <2> QED BY <1>1, <1>4, <1>5, <2>1 DEF Loop
<1>8. /\ p.inTail = l.inTail /\ p.waves = l.waves /\ p.work = w /\ p.k0 = l.k0
      /\ p.block = l.block /\ p.column = l.column /\ p.count = k /\ p.slices = n /\ p.idx = i
      /\ p.slot = l.slot + SlotStep(n, i)
  BY <1>4 DEF Loop
<1>9. InTail(c, p)
  BY <1>8 DEF InTail, TileOf
<1>10. p.slot = IF TailTiles(gemm) >= grid_x
                THEN c + (IF Shared(gemm, w) /\ c = f THEN 1 ELSE 0) ELSE w
  <2>1. CASE TailTiles(gemm) >= grid_x
    <3>1. gemm.kTiles * w < Iters(gemm) * (c + 1)
      BY <1>1 DEF HasPiece
    <3>2. l.slot = c
      BY <2>1, <3>1 DEF BetweenPieces
    <3>3. SlotStep(n, i) = IF n > 1 /\ i = n - 1 THEN 1 ELSE 0
      BY <2>1 DEF SlotStep
    <3>4. (n > 1 /\ i = n - 1) <=> (Shared(gemm, w) /\ c = f)
      BY <1>2, <1>5 DEF Shared, f, z
    <3> QED BY <1>8, <2>1, <3>2, <3>3, <3>4
  <2>2. CASE ~ TailTiles(gemm) >= grid_x
    <3>1. l.slot = w - 1 /\ SlotStep(n, i) = 1
      BY <2>2 DEF BetweenPieces, SlotStep
    <3> QED BY <1>8, <2>2, <3>1 DEF Loop
  <2> QED BY <2>1, <2>2
<1>11. OnPiece(c, p)
  BY <1>1, <1>2, <1>8, <1>10 DEF OnPiece, f, z
<1> QED BY <1>7, <1>8, <1>9, <1>11 DEF p

\* After a piece the CTA stands at the next tile.
LEMMA AdvanceFacts ==
  ASSUME gemm \in Shape, NEW c \in CTAs, NEW l \in Loop, InTail(c, l), OnPiece(c, l)
  PROVE  /\ Advance(l) \in Loop /\ InTail(c, Advance(l)) /\ BetweenPieces(c, Advance(l))
         /\ Advance(l).work = l.work + 1
<1> DEFINE a == Advance(l)
           w == l.work
           n == gemm.nTiles
           k == gemm.kTiles
           i == Iters(gemm)
           wrap == l.column + 1 = n
           column == IF wrap THEN 0 ELSE l.column + 1
           block == IF wrap THEN l.block + 1 ELSE l.block
<1>1. /\ TailTiles(gemm) \in Nat /\ MnTiles(gemm) \in Nat /\ TailTiles(gemm) <= MnTiles(gemm)
      /\ k \in Nat \ {0} /\ n \in Nat \ {0} /\ c \in Nat
  BY TailFacts DEF Shape, CTAs
<1>2. i \in Nat
  BY ItersFacts
<1>3. w \in Nat /\ w < TailTiles(gemm) /\ HasPiece(gemm, c, w)
  BY <1>1 DEF OnPiece, TailWork
<1>4. a = [l EXCEPT !.k0 = 0, !.work = w + 1,
                    !.column = column, !.block = block]
  BY DEF Advance, Loop, InTail
<1> HIDE DEF a
<1>5. a \in Loop
  <2>1. column \in Nat /\ block \in Nat /\ w + 1 \in Nat
    BY <1>3 DEF Loop
  <2> HIDE DEF column, block, w
  <2> QED BY <1>4, <2>1 DEF Loop
<1>6. /\ a.inTail = l.inTail /\ a.waves = l.waves /\ a.work = w + 1 /\ a.k0 = 0
      /\ a.column = column /\ a.block = block
      /\ a.slot = l.slot
  BY <1>4 DEF Loop
<1>7. k * (w + 1) \in Nat /\ k * (w + 1 + 1) = k * (w + 1) + k /\ i * c \in Nat
  <2> HIDE DEF k, i
  <2> QED BY <1>1, <1>2, <1>3
<1>8. i * c < k * (w + 1)
  BY DEF InTail
<1>9. a.k0 = FirstK(gemm, c, a.work)
  BY <1>6, <1>7, <1>8 DEF FirstK
<1>10. TileOf(a) = WaveTiles + a.work /\ a.column < n
  <2>1. l.block * n + l.column = WaveTiles + w /\ l.column < n
    BY DEF InTail, TileOf
  <2>2. l.block \in Nat /\ l.column \in Nat
    BY DEF Loop
  <2>3. a.block * n + a.column = l.block * n + l.column + 1
    <3>1. (l.block + 1) * n = l.block * n + n /\ l.block * n \in Nat
      <4> HIDE DEF n
      <4> QED BY <1>1, <2>2
    <3>2. CASE wrap
      <4>1. a.block = l.block + 1 /\ a.column = 0 /\ l.column + 1 = n
        BY <1>6, <3>2
      <4> HIDE DEF n
      <4>2. a.block * n = l.block * n + n
        BY <3>1, <4>1
      <4> QED BY <1>1, <2>2, <3>1, <4>1, <4>2
    <3>3. CASE ~wrap
      <4>1. a.block = l.block /\ a.column = l.column + 1
        BY <1>6, <3>3
      <4> DEFINE x == l.block * n
      <4>2. a.block * n = x /\ x \in Nat
        BY <3>1, <4>1
      <4> HIDE DEF n, x
      <4>3. a.block * n + a.column = x + l.column + 1
        BY <2>2, <4>1, <4>2
      <4> QED BY <4>3 DEF x
    <3> QED BY <3>2, <3>3
  <2>4. a.column < n
    BY <1>1, <1>6, <2>1, <2>2
  <2>5. WaveTiles \in Nat
    BY <1>1 DEF WaveTiles
  <2> QED BY <1>3, <1>6, <2>1, <2>3, <2>4, <2>5 DEF TileOf
<1>11. InTail(c, a)
  <2>1. a.inTail /\ a.waves = 0 /\ a.work <= TailTiles(gemm) /\ TailTiles(gemm) > 0
    BY <1>1, <1>3, <1>6 DEF InTail
  <2>2. Iters(gemm) * c < gemm.kTiles * (a.work + 1)
    BY <1>1, <1>6, <1>7, <1>8
  <2> QED BY <1>9, <1>10, <2>1, <2>2 DEF InTail
<1>12. BetweenPieces(c, a)
  <2>1. CASE TailTiles(gemm) >= grid_x
    <3>1. l.slot = c + (IF Shared(gemm, w) /\ c = FirstCta(gemm, w) THEN 1 ELSE 0)
      BY <2>1 DEF OnPiece
    <3>2. Shared(gemm, w) /\ c = FirstCta(gemm, w) =>
            Iters(gemm) * (c + 1) < gemm.kTiles * (w + 1)
      <4>1. w \in 0 .. TailTiles(gemm) - 1
        BY <1>1, <1>3
      <4>2. LastCta(gemm, w) \in CTAs
        BY <4>1, PieceFacts
      <4>3. c < LastCta(gemm, w) => Iters(gemm) * (c + 1) < gemm.kTiles * (w + 1)
        BY <1>3, <4>1, PartFacts
      <4> QED BY <4>3 DEF Shared
    <3>3. Iters(gemm) * (c + 1) \in Int
      BY <1>1, <1>2
    <3> QED BY <1>1, <1>6, <1>7, <2>1, <3>1, <3>2, <3>3 DEF BetweenPieces
  <2>2. CASE ~ TailTiles(gemm) >= grid_x
    BY <1>1, <1>3, <1>6, <2>2 DEF BetweenPieces, OnPiece
  <2> QED BY <2>1, <2>2
<1> QED BY <1>5, <1>6, <1>11, <1>12 DEF a

\* The CTAs of a shared tile do meet in its slot.
LEMMA PieceSlot ==
  ASSUME gemm \in Shape, NEW c \in CTAs, NEW l \in Loop, OnPiece(c, l), Shared(gemm, l.work)
  PROVE  /\ l.slot = TileSlot(gemm, l.work) /\ l.slot \in CTAs
         /\ c \in SliceCtas(l.work)
         /\ l.idx = LastCta(gemm, l.work) - c
         /\ l.slices = LastCta(gemm, l.work) - FirstCta(gemm, l.work) + 1
         /\ FirstCta(gemm, l.work) \in CTAs /\ LastCta(gemm, l.work) \in CTAs
<1>1. l.work \in 0 .. TailTiles(gemm) - 1 /\ HasPiece(gemm, c, l.work)
  BY DEF OnPiece, TailWork
<1>2. /\ FirstCta(gemm, l.work) \in CTAs /\ LastCta(gemm, l.work) \in CTAs
      /\ FirstCta(gemm, l.work) <= LastCta(gemm, l.work)
      /\ c \in SliceCtas(l.work)
  BY <1>1, PieceFacts DEF SliceCtas
<1>3. TileSlot(gemm, l.work) \in CTAs
  BY <1>1, SlotFacts
<1>4. TailTiles(gemm) >= grid_x => LastCta(gemm, l.work) = FirstCta(gemm, l.work) + 1
  BY <1>1, SlotFacts
<1>5. l.slot = TileSlot(gemm, l.work)
  BY <1>2, <1>4 DEF OnPiece, TileSlot, SliceCtas, CTAs
<1> QED BY <1>2, <1>3, <1>5 DEF OnPiece

-----------------------------------------------------------------------------
(* Sums of k-tiles.                                                        *)

LEMMA CountTypes ==
  /\ \A a, n : RangeCounts(a, n) \in Count
  /\ \A f, h \in Count : PlusCounts(f, h) \in Count
BY DEF RangeCounts, PlusCounts, Count

\* A slice that adds the k-tiles above its own makes the sum of the next turn.
LEMMA SumOfParts ==
  ASSUME gemm \in Shape, NEW a \in Nat, NEW b \in Nat, a <= b, b <= gemm.kTiles
  PROVE  PlusCounts(RangeCounts(a, b - a), Above(b)) = Above(a)
<1> DEFINE k == gemm.kTiles
<1>1. k \in Nat
  BY DEF Shape
<1>2. KTiles = 0 .. k - 1
  BY DEF KTiles
<1>3. PlusCounts(RangeCounts(a, b - a), Above(b)) =
        [j \in KTiles |-> (IF a <= j /\ j < a + (b - a) THEN 1 ELSE 0)
                            + (IF b <= j /\ j < b + (k - b) THEN 1 ELSE 0)]
  BY DEF PlusCounts, RangeCounts, Above
<1>4. Above(a) = [j \in KTiles |-> IF a <= j /\ j < a + (k - a) THEN 1 ELSE 0]
  BY DEF RangeCounts, Above
<1> HIDE DEF k
<1>5. ASSUME NEW j \in KTiles
      PROVE  (IF a <= j /\ j < a + (b - a) THEN 1 ELSE 0)
               + (IF b <= j /\ j < b + (k - b) THEN 1 ELSE 0)
             = IF a <= j /\ j < a + (k - a) THEN 1 ELSE 0
  BY <1>1, <1>2 DEF k
<1> QED BY <1>3, <1>4, <1>5

LEMMA SumOfAll ==
  ASSUME gemm \in Problems
  PROVE  Above(0) = Complete /\ Complete = [k \in KTiles |-> 1] /\ Complete # Unwritten
<1>1. gemm.kTiles \in Nat
  BY GemmShape DEF Shape
<1>2. Complete = [k \in KTiles |-> 1]
  BY <1>1 DEF Complete, RangeCounts, KTiles
<1>3. Above(0) = Complete
  BY <1>1 DEF Above, Complete
<1>4. Complete # Unwritten
  BY <1>2, ProblemsAssumption DEF ProblemsAssumption, KTiles
<1> QED BY <1>2, <1>3, <1>4

-----------------------------------------------------------------------------
(* What a step of one CTA leaves alone.                                    *)

OnlyMoves(c) ==
  /\ UNCHANGED <<gemm, skipped>>
  /\ \A d \in CTAs : d # c => loop'[d] = loop[d] /\ pc'[d] = pc[d] /\ acc'[d] = acc[d]

LEMMA Fixed ==
  ASSUME UNCHANGED <<gemm, skipped>>
  PROVE  /\ WaveTiles' = WaveTiles /\ TailWork' = TailWork /\ Contended' = Contended
         /\ Complete' = Complete /\ Tiles' = Tiles /\ KTiles' = KTiles /\ Count' = Count
         /\ \A w : SliceCtas(w)' = SliceCtas(w)
         /\ \A k : Above(k)' = Above(k)
<1>1. WaveTiles' = WaveTiles /\ TailWork' = TailWork
  BY DEF WaveTiles, TailWork
<1>2. Contended' = Contended
  BY <1>1 DEF Contended
<1>3. KTiles' = KTiles /\ Tiles' = Tiles
  BY DEF KTiles, Tiles
<1>4. Count' = Count
  BY <1>3 DEF Count
<1>5. Complete' = Complete /\ \A k : Above(k)' = Above(k)
  BY <1>3 DEF Complete, Above, RangeCounts
<1>6. \A w : SliceCtas(w)' = SliceCtas(w)
  BY DEF SliceCtas
<1> QED BY <1>1, <1>2, <1>3, <1>4, <1>5, <1>6

LEMMA FixedRegisters ==
  ASSUME UNCHANGED <<gemm, skipped>>, NEW c
  PROVE  /\ InTail(c, loop[c])' <=> InTail(c, loop'[c])
         /\ BetweenPieces(c, loop[c])' <=> BetweenPieces(c, loop'[c])
         /\ OnPiece(c, loop[c])' <=> OnPiece(c, loop'[c])
<1>1. WaveTiles' = WaveTiles /\ TailWork' = TailWork
  BY Fixed
<1>2. InTail(c, loop[c])' <=> InTail(c, loop'[c])
  BY <1>1 DEF InTail, TileOf
<1>3. BetweenPieces(c, loop[c])' <=> BetweenPieces(c, loop'[c])
  BY DEF BetweenPieces
<1>4. OnPiece(c, loop[c])' <=> OnPiece(c, loop'[c])
  BY <1>1 DEF OnPiece
<1> QED BY <1>2, <1>3, <1>4

\* The other CTAs stand where they stood.
LEMMA OthersPlaced ==
  ASSUME NEW c \in CTAs, OnlyMoves(c), NEW d \in CTAs, d # c, Placed(d)
  PROVE  Placed(d)'
<1>1. /\ gemm' = gemm /\ skipped' = skipped
      /\ loop'[d] = loop[d] /\ pc'[d] = pc[d] /\ acc'[d] = acc[d]
  BY DEF OnlyMoves
<1>2. /\ InTail(d, loop[d])' <=> InTail(d, loop[d])
      /\ BetweenPieces(d, loop[d])' <=> BetweenPieces(d, loop[d])
      /\ OnPiece(d, loop[d])' <=> OnPiece(d, loop[d])
  BY <1>1, FixedRegisters
<1>3. InWaves(d)' <=> InWaves(d)
  BY <1>1, Fixed DEF InWaves
<1>4. PieceSum(d)' <=> PieceSum(d)
  BY <1>1, Fixed DEF PieceSum, Sharing, RangeCounts
<1>5. NoneLeft(d)' <=> NoneLeft(d)
  BY <1>1, Fixed DEF NoneLeft
<1> QED BY <1>1, <1>2, <1>3, <1>4, <1>5 DEF Placed

\* Where another CTA stands among the tiles does not change either.
LEMMA OthersPassed ==
  ASSUME NEW c \in CTAs, OnlyMoves(c)
  PROVE  /\ \A d \in CTAs : \A w : d # c => (Released(d, w)' <=> Released(d, w))
         /\ \A t \in Tiles : t < WaveTiles /\ t % grid_x \in CTAs \ {c} =>
              (Passed(t)' <=> Passed(t))
         /\ \A t \in Tiles : ~ t < WaveTiles /\ FirstCta(gemm, t - WaveTiles) \in CTAs \ {c} =>
              (Passed(t)' <=> Passed(t))
<1>1. /\ gemm' = gemm /\ skipped' = skipped
      /\ \A d \in CTAs : d # c => loop'[d] = loop[d] /\ pc'[d] = pc[d]
  BY DEF OnlyMoves
<1>2. WaveTiles' = WaveTiles
  BY <1>1, Fixed
<1>3. \A d \in CTAs : \A w : d # c => (Released(d, w)' <=> Released(d, w))
  BY <1>1 DEF Released
<1>4. ASSUME NEW t \in Tiles, t < WaveTiles, t % grid_x \in CTAs \ {c}
      PROVE  Passed(t)' <=> Passed(t)
  BY <1>1, <1>2, <1>4 DEF Passed
<1>5. ASSUME NEW t \in Tiles, ~ t < WaveTiles, FirstCta(gemm, t - WaveTiles) \in CTAs \ {c}
      PROVE  Passed(t)' <=> Passed(t)
  BY <1>1, <1>2, <1>5 DEF Passed
<1> QED BY <1>3, <1>4, <1>5

\* A tile at whose slot nothing moves, and of which c has handed on nothing
\* new, keeps its turn.
LEMMA TurnStays ==
  ASSUME gemm \in Shape, NEW c \in CTAs, OnlyMoves(c), NEW w \in Contended,
         InTurn(w), SlotHolds(w),
         lock'[TileSlot(gemm, w)] = lock[TileSlot(gemm, w)],
         ctmp'[TileSlot(gemm, w)] = ctmp[TileSlot(gemm, w)],
         c \in SliceCtas(w) => (Released(c, w)' <=> Released(c, w)),
         pc[c] # "publish" \/ loop[c].work # w
  PROVE  InTurn(w)' /\ SlotHolds(w)'
<1>1. /\ gemm' = gemm /\ skipped' = skipped
      /\ \A d \in CTAs : d # c => loop'[d] = loop[d] /\ pc'[d] = pc[d]
  BY DEF OnlyMoves
<1>2. /\ FirstCta(gemm, w) \in CTAs /\ LastCta(gemm, w) \in CTAs
      /\ FirstCta(gemm, w) <= LastCta(gemm, w)
  BY PieceFacts DEF Contended, TailWork
<1>3. SliceCtas(w) \subseteq CTAs /\ FirstCta(gemm, w) \in SliceCtas(w)
  <2>1. ASSUME NEW f \in CTAs, NEW l \in CTAs, f <= l
        PROVE  f .. l \subseteq CTAs /\ f \in f .. l
    BY <2>1 DEF CTAs
  <2> QED BY <1>2, <2>1 DEF SliceCtas
<1>4. \A d \in SliceCtas(w) : Released(d, w)' <=> Released(d, w)
  BY <1>3, OthersPassed
<1>5. Turn(w)' = Turn(w)
  <2>1. PICK f \in SliceCtas(w) : f = FirstCta(gemm, w)
    BY <1>3
  <2>2. Released(f, w)' <=> Released(f, w)
    BY <1>4
  <2>3. FirstCta(gemm', w) = f
    BY <1>1, <2>1
  <2> QED BY <1>1, <2>1, <2>2, <2>3 DEF Turn
<1>6. SliceCtas(w)' = SliceCtas(w)
  BY <1>1, Fixed
<1>7. InTurn(w)'
  BY <1>1, <1>4, <1>5, <1>6 DEF InTurn
<1>8. SlotHolds(w)'
  <2> SUFFICES ASSUME NEW d \in SliceCtas(w),
                      lock[TileSlot(gemm, w)] = LastCta(gemm, w) - d, d < LastCta(gemm, w)
               PROVE  \/ pc'[d] = "publish" /\ loop'[d].inTail /\ loop'[d].work = w
                      \/ ctmp[TileSlot(gemm, w)] = Above(TopK(gemm, d, w))
    BY <1>1, <1>6, Fixed DEF SlotHolds
  <2>1. \/ pc[d] = "publish" /\ loop[d].inTail /\ loop[d].work = w
        \/ ctmp[TileSlot(gemm, w)] = Above(TopK(gemm, d, w))
    BY DEF SlotHolds
  <2> QED BY <1>1, <1>3, <2>1
<1> QED BY <1>7, <1>8

\* What a step that does not pass a wanted tile on owes the output.
LEMMA TilesStay ==
  ASSUME UNCHANGED <<gemm, skipped, tiles>>, TilesStored,
         \A t \in Tiles : t \div gemm.nTiles \notin skipped => (Passed(t)' <=> Passed(t))
  PROVE  TilesStored'
BY Fixed DEF TilesStored

-----------------------------------------------------------------------------
(* Tiles and the CTAs that store them.                                     *)

LEMMA ShapeFacts ==
  ASSUME gemm \in Shape
  PROVE  /\ MnTiles(gemm) \in Nat /\ TailTiles(gemm) \in Nat /\ FullWaves(gemm) \in Nat
         /\ WaveTiles \in Nat /\ WaveTiles + TailTiles(gemm) = MnTiles(gemm)
         /\ WaveTiles <= grid_x * FullWaves(gemm)
         /\ TailTiles(gemm) > 0 => grid_x * FullWaves(gemm) = WaveTiles
         /\ TailTiles(gemm) = 0 => WaveTiles = MnTiles(gemm)
         /\ gemm.nTiles \in Nat \ {0} /\ gemm.kTiles \in Nat \ {0}
         /\ gemm.routeBlocks \in Nat
         /\ Iters(gemm) \in Nat
         /\ TailTiles(gemm) > 0 => Iters(gemm) > 0
         /\ TailTiles(gemm) = 0 => Iters(gemm) = 0
<1>1. /\ MnTiles(gemm) \in Nat /\ TailTiles(gemm) \in Nat /\ FullWaves(gemm) \in Nat
      /\ TailTiles(gemm) <= MnTiles(gemm)
      /\ MnTiles(gemm) - TailTiles(gemm) <= grid_x * FullWaves(gemm)
      /\ TailTiles(gemm) > 0 => grid_x * FullWaves(gemm) = MnTiles(gemm) - TailTiles(gemm)
  BY TailFacts
<1>2. gemm.nTiles \in Nat \ {0} /\ gemm.kTiles \in Nat \ {0} /\ gemm.routeBlocks \in Nat
  BY DEF Shape
<1>3. /\ Iters(gemm) \in Nat
      /\ TailTiles(gemm) > 0 => Iters(gemm) > 0
      /\ TailTiles(gemm) = 0 => Iters(gemm) = 0
  <2>1. /\ Iters(gemm) \in Nat
        /\ TailTiles(gemm) = 0 => Iters(gemm) = 0
        /\ TailTiles(gemm) > 0 => Iters(gemm) \in Nat \ {0}
    BY ItersFacts
  <2> QED BY <2>1
<1> QED BY <1>1, <1>2, <1>3 DEF WaveTiles

\* A tile in row block b of the output.
LEMMA BlockFacts ==
  ASSUME gemm \in Shape, NEW b \in Nat, NEW j \in Nat, j < gemm.nTiles
  PROVE  LET t == b * gemm.nTiles + j
         IN  /\ t \in Nat /\ t \div gemm.nTiles = b
             /\ t < MnTiles(gemm) => b < gemm.routeBlocks
<1> DEFINE n == gemm.nTiles
           r == gemm.routeBlocks
           t == b * n + j
<1>1. n \in Nat \ {0} /\ r \in Nat
  BY DEF Shape
<1>2. MnTiles(gemm) = r * n
  BY DEF MnTiles
<1>3. j < n
  OBVIOUS
<1> HIDE DEF n, r
<1>4. b * n \in Nat /\ b * n = n * b /\ r * n = n * r
  BY <1>1
<1> DEFINE q == n * b
<1>5. q \in Nat /\ t = q + j
  BY <1>4
<1> HIDE DEF t
<1>6. t \in Nat /\ n * b <= t /\ t < n * b + n
  <2> HIDE DEF q
  <2>1. t \in Nat /\ q <= t /\ t < q + n
    BY <1>1, <1>3, <1>5
  <2> QED BY <2>1 DEF q
<1>7. t \div n = b
  BY <1>1, <1>6, DivIs
<1>8. ASSUME t < n * r PROVE b < r
  <2>1. n * b < n * r
    BY <1>1, <1>4, <1>6, <1>8
  <2> QED BY <1>1, <2>1, MulCancel
<1> QED BY <1>2, <1>4, <1>6, <1>7, <1>8 DEF t, n, r

\* The tiles of CTA c in the waves are c, c + grid_x, c + 2 * grid_x ...
LEMMA WaveFacts ==
  ASSUME NEW t \in Nat
  PROVE  /\ t % grid_x \in CTAs /\ t % grid_x <= t
         /\ \A c \in CTAs, q \in Nat :
              LET work == c + grid_x * q
              IN  t % grid_x = c => t < work \/ t = work \/ t >= work + grid_x
<1> DEFINE g == grid_x
           p == t \div g
<1>1. t % g \in CTAs /\ p \in Nat /\ t = g * p + (t % g)
  <2>1. p \in Nat /\ t % g \in 0 .. g - 1 /\ p * g + (t % g) = t
    OBVIOUS
  <2>2. t % g \in CTAs
    BY <2>1 DEF CTAs
  <2> DEFINE r == t % g
  <2> HIDE DEF p, r
  <2>3. p * g = g * p /\ g * p \in Nat
    BY <2>1
  <2>4. r \in Nat
    BY <2>2 DEF CTAs, r
  <2>5. t = g * p + r
    BY <2>1, <2>3, <2>4 DEF r
  <2> QED BY <2>1, <2>2, <2>5 DEF r
<1>2. g * p \in Nat /\ g \in Nat \ {0}
  BY <1>1
<1> HIDE DEF g, p
<1>3. t % g <= t
  BY <1>1, <1>2 DEF CTAs
<1>4. ASSUME NEW c \in CTAs, NEW q \in Nat, t % g = c
      PROVE  t < c + g * q \/ t = c + g * q \/ t >= c + g * q + g
  <2>1. g * q \in Nat /\ c \in Nat
    BY <1>2 DEF CTAs
  <2>2. CASE p < q
    <3>1. g * p + g <= g * q
      BY <1>1, <1>2, <2>2, MulLess
    <3> QED BY <1>1, <1>2, <1>4, <2>1, <3>1
  <2>3. CASE p = q
    BY <1>1, <1>2, <1>4, <2>1, <2>3
  <2>4. CASE q < p
    <3>1. g * q + g <= g * p
      BY <1>1, <1>2, <2>4, MulLess
    <3> QED BY <1>1, <1>2, <1>4, <2>1, <3>1
  <2> QED BY <1>1, <2>2, <2>3, <2>4
<1> QED BY <1>1, <1>3, <1>4 DEF g

\* Every tile has an owner: the CTA that stores it.
LEMMA OwnerFacts ==
  ASSUME gemm \in Shape, NEW t \in Tiles
  PROVE  /\ t \in Nat /\ t % grid_x \in CTAs
         /\ ~ t < WaveTiles =>
              /\ t - WaveTiles \in TailWork
              /\ FirstCta(gemm, t - WaveTiles) \in CTAs
              /\ HasPiece(gemm, FirstCta(gemm, t - WaveTiles), t - WaveTiles)
<1>1. /\ WaveTiles \in Nat /\ TailTiles(gemm) \in Nat /\ MnTiles(gemm) \in Nat
      /\ WaveTiles + TailTiles(gemm) = MnTiles(gemm)
  BY ShapeFacts
<1>2. t \in Nat /\ t < MnTiles(gemm)
  BY <1>1 DEF Tiles
<1>3. t % grid_x \in CTAs
  BY <1>2, WaveFacts
<1>4. ASSUME ~ t < WaveTiles
      PROVE  /\ t - WaveTiles \in TailWork
             /\ FirstCta(gemm, t - WaveTiles) \in CTAs
             /\ HasPiece(gemm, FirstCta(gemm, t - WaveTiles), t - WaveTiles)
  <2>1. t - WaveTiles \in TailWork /\ t - WaveTiles \in 0 .. TailTiles(gemm) - 1
    BY <1>1, <1>2, <1>4 DEF TailWork
  <2>2. PICK w \in 0 .. TailTiles(gemm) - 1 : w = t - WaveTiles
    BY <2>1
  <2>3. /\ FirstCta(gemm, w) \in CTAs /\ LastCta(gemm, w) \in CTAs
        /\ FirstCta(gemm, w) <= LastCta(gemm, w)
        /\ \A c \in CTAs : HasPiece(gemm, c, w) <=> c \in FirstCta(gemm, w) .. LastCta(gemm, w)
    BY PieceFacts
  <2>4. HasPiece(gemm, FirstCta(gemm, w), w)
    BY <2>3 DEF CTAs
  <2> QED BY <2>1, <2>2, <2>3, <2>4
<1> QED BY <1>2, <1>3, <1>4

-----------------------------------------------------------------------------
(* The type invariant follows.                                             *)

LEMMA SlotInRange ==
  ASSUME gemm \in Shape, NEW c \in CTAs, loop[c] \in Loop, Placed(c)
  PROVE  loop[c].slot \in Slots
<1> DEFINE l == loop[c]
           t == TailTiles(gemm)
           k == gemm.kTiles
           i == Iters(gemm)
<1>1. /\ t \in Nat /\ k \in Nat \ {0} /\ i \in Nat /\ c \in Nat /\ c < grid_x
      /\ grid_x \in Nat \ {0}
  BY ShapeFacts DEF CTAs
<1>2. FirstLockSlot(gemm, c) \in Slots
  <2>1. CASE t >= grid_x
    BY <1>1, <2>1 DEF FirstLockSlot, Slots
  <2>2. CASE ~ t >= grid_x
    <3>1. i <= k
      BY <1>1, <2>2, ItersFacts
    <3>2. i * c \in Nat /\ k * c = c * k /\ i * c = c * i
      <4> HIDE DEF i, k
      <4> QED BY <1>1
    <3>3. c * i <= c * k
      BY <1>1, <3>1, MulLe
    <3> DEFINE q == (i * c) \div k
    <3>4. q \in Int /\ k * q <= i * c /\ i * c < k * q + k
      <4> HIDE DEF i, k
      <4> QED BY <1>1, <3>2, DivFacts
    <3>5. FirstLockSlot(gemm, c) = q - 1
      BY <2>2 DEF FirstLockSlot
    <3> HIDE DEF q, k, i, t
    <3>6. q <= c
      <4>1. CASE c < q
        <5>1. k * c + k <= k * q
          BY <1>1, <3>4, <4>1, MulLess
        <5> QED BY <1>1, <3>2, <3>3, <3>4, <5>1
      <4> QED BY <1>1, <3>4, <4>1
    <3>7. q >= 0
      <4>1. CASE q < 0
        <5>1. k * q + k <= k * 0
          BY <1>1, <3>4, <4>1, MulLess
        <5> QED BY <1>1, <3>2, <3>4, <5>1
      <4> QED BY <1>1, <3>4, <4>1
    <3> QED BY <1>1, <3>4, <3>5, <3>6, <3>7 DEF Slots
  <2> QED BY <2>1, <2>2
<1>3. CASE ~l.inTail
  BY <1>2, <1>3 DEF Placed, InWaves
<1>4. CASE l.inTail
  <2>1. l.work \in Nat /\ l.work <= t
    BY <1>4 DEF Placed, InTail, Loop
  <2>2. CASE pc[c] \in {"pick", "done"}
    <3>1. BetweenPieces(c, l)
      BY <1>4, <2>2 DEF Placed
    <3>2. IF t >= grid_x THEN l.slot \in {c, c + 1} ELSE l.slot = l.work - 1
      BY <3>1 DEF BetweenPieces
    <3> HIDE DEF l, t, k, i
    <3>3. l.slot \in Slots
      BY <1>1, <2>1, <3>2 DEF Slots
    <3> QED BY <3>3 DEF l
  <2>3. CASE pc[c] \notin {"pick", "done"}
    <3>1. OnPiece(c, l)
      BY <1>4, <2>3 DEF Placed
    <3>2. IF t >= grid_x THEN l.slot \in {c, c + 1} ELSE l.slot = l.work
      BY <1>1, <3>1 DEF OnPiece
    <3> HIDE DEF l, t, k, i
    <3>3. l.slot \in Slots
      BY <1>1, <2>1, <3>2 DEF Slots
    <3> QED BY <3>3 DEF l
  <2> QED BY <2>2, <2>3
<1> QED BY <1>3, <1>4

LEMMA TypesCorrect == IInv => TypeOK
<1> SUFFICES ASSUME IInv PROVE TypeOK
  OBVIOUS
<1>1. \A c \in CTAs : loop[c].slot \in Slots
  BY SlotInRange, GemmShape DEF IInv, Types
<1> QED BY <1>1 DEF IInv, Types, TypeOK

-----------------------------------------------------------------------------
(* The initial states.                                                     *)

LEMMA InitInv ==
  ASSUME Init
  PROVE  IInv
<1>1. gemm \in Problems /\ gemm \in Shape
  BY GemmShape DEF Init
<1>2. \A c \in CTAs :
        /\ loop[c] = StartLoop(gemm, c) /\ loop[c].inTail = FALSE
        /\ loop[c].waves = FullWaves(gemm) /\ loop[c].work = c
        /\ loop[c].slot = FirstLockSlot(gemm, c)
  <2> SUFFICES ASSUME NEW c \in CTAs
               PROVE  /\ loop[c] = StartLoop(gemm, c) /\ loop[c].inTail = FALSE
                      /\ loop[c].waves = FullWaves(gemm) /\ loop[c].work = c
                      /\ loop[c].slot = FirstLockSlot(gemm, c)
    OBVIOUS
  <2>1. loop[c] = StartLoop(gemm, c)
    BY DEF Init
  <2> QED BY <2>1 DEF StartLoop
<1>3. \A c \in CTAs : StartLoop(gemm, c) \in Loop
  <2> SUFFICES ASSUME NEW c \in CTAs PROVE StartLoop(gemm, c) \in Loop
    OBVIOUS
  <2>1. FirstLockSlot(gemm, c) \in Int
    <3>1. Iters(gemm) \in Nat /\ gemm.kTiles \in Nat \ {0} /\ c \in Nat
      BY <1>1, ShapeFacts DEF CTAs
    <3>2. Iters(gemm) * c \in Int
      BY <3>1
    <3>3. (Iters(gemm) * c) \div gemm.kTiles \in Int
      BY <3>1, <3>2, DivFacts
    <3> QED BY <3>1, <3>3 DEF FirstLockSlot
  <2>2. FullWaves(gemm) \in Nat /\ c \in Nat
    BY <1>1, ShapeFacts DEF CTAs
  <2> QED BY <2>1, <2>2 DEF StartLoop, Loop
<1>4. Types
  BY <1>1, <1>2, <1>3, CountTypes DEF Init, Types, Garbage, Count, StartLabel
<1>5. ASSUME NEW c \in CTAs
      PROVE  Placed(c) /\ HoldsTurn(c)
  <2>1. /\ loop[c].waves = FullWaves(gemm) /\ ~loop[c].inTail /\ loop[c].work = c
        /\ loop[c].slot = FirstLockSlot(gemm, c)
    BY <1>2
  <2>2. pc[c] = IF HasAnyWork(gemm) THEN "pick" ELSE "done"
    BY DEF Init, StartLabel
  <2>3. InWaves(c)
    <3>1. c + grid_x * (FullWaves(gemm) - FullWaves(gemm)) = c /\ FullWaves(gemm) \in Nat
      BY <1>1, ShapeFacts DEF CTAs
    <3> QED BY <2>1, <2>2, <3>1 DEF InWaves, HasAnyWork
  <2>4. pc[c] = "done" => TailWork = {}
    BY <1>1, <2>2, ShapeFacts DEF HasAnyWork, TailWork
  <2> QED BY <2>1, <2>2, <2>3, <2>4 DEF Placed, HoldsTurn, NoneLeft
<1>6. ASSUME NEW w \in Contended
      PROVE  InTurn(w) /\ SlotHolds(w)
  <2>1. w \in TailWork /\ w \in 0 .. TailTiles(gemm) - 1 /\ Shared(gemm, w)
    BY DEF Contended, TailWork
  <2>2. /\ FirstCta(gemm, w) \in CTAs /\ LastCta(gemm, w) \in CTAs
        /\ FirstCta(gemm, w) <= LastCta(gemm, w)
    BY <1>1, <2>1, PieceFacts
  <2>3. TileSlot(gemm, w) \in CTAs
    BY <1>1, <2>1, SlotFacts
  <2>4. lock[TileSlot(gemm, w)] = 0
    BY <2>3 DEF Init, Slots, CTAs
  <2>5. \A c \in CTAs : ~Released(c, w)
    BY <1>2 DEF Released
  <2>6. Turn(w) = 0
    BY <2>2, <2>4, <2>5 DEF Turn
  <2>7. InTurn(w)
    BY <2>2, <2>4, <2>5, <2>6 DEF InTurn, SliceCtas, CTAs
  <2>8. SlotHolds(w)
    BY <2>2, <2>4 DEF SlotHolds, SliceCtas, CTAs
  <2> QED BY <2>7, <2>8
<1>7. LocksIdle
  BY DEF Init, LocksIdle
<1>8. TilesStored
  <2>1. ASSUME NEW t \in Tiles PROVE ~Passed(t)
    <3>1. t % grid_x \in CTAs /\ t % grid_x <= t /\ t \in Nat
      BY <1>1, OwnerFacts, WaveFacts
    <3>2. CASE t < WaveTiles
      BY <1>2, <3>1, <3>2 DEF Passed, CTAs
    <3>3. CASE ~ t < WaveTiles
      <4>1. FirstCta(gemm, t - WaveTiles) \in CTAs
        BY <1>1, <3>3, OwnerFacts
      <4> QED BY <1>2, <3>3, <4>1 DEF Passed
    <3> QED BY <3>2, <3>3
  <2> QED BY <2>1 DEF TilesStored, Init
<1> QED BY <1>4, <1>5, <1>6, <1>7, <1>8 DEF IInv

-----------------------------------------------------------------------------
(* Choosing a tile.                                                        *)

\* In a wave: a whole tile that no stripe has a part of.
LEMMA PickWaveFacts ==
  ASSUME IInv, NEW c \in CTAs, PickWave(c)
  PROVE  \E p \in Loop :
           /\ Emit(c, p)
           /\ ~p.inTail /\ p.waves = loop[c].waves - 1 /\ p.work = loop[c].work
           /\ p.slot = loop[c].slot /\ p.slices = 1 /\ p.k0 = 0 /\ p.count = gemm.kTiles
           /\ p.block = p.work \div gemm.nTiles /\ p.column = p.work % gemm.nTiles
           /\ Emits(p) <=> p.work < WaveTiles /\ p.block \notin skipped
           /\ p.work = c + grid_x * (FullWaves(gemm) - loop[c].waves)
           /\ loop[c].waves \in 1 .. FullWaves(gemm)
<1> DEFINE l == loop[c]
           p == WaveIteration(l)
           n == gemm.nTiles
           q == FullWaves(gemm) - l.waves
<1>1. gemm \in Shape /\ l \in Loop /\ Placed(c)
  BY GemmShape DEF IInv, Types
<1>2. pc[c] = "pick" /\ ~l.inTail /\ l.waves > 0 /\ Emit(c, p)
  BY DEF PickWave
<1>3. InWaves(c)
  BY <1>1, <1>2 DEF Placed
<1>4. /\ MnTiles(gemm) \in Nat /\ TailTiles(gemm) \in Nat /\ FullWaves(gemm) \in Nat
      /\ WaveTiles \in Nat /\ WaveTiles <= MnTiles(gemm)
      /\ n \in Nat \ {0} /\ gemm.kTiles \in Nat
  BY <1>1, ShapeFacts
<1>5. /\ l.waves \in 1 .. FullWaves(gemm) /\ q \in Nat /\ q + 1 <= FullWaves(gemm)
      /\ l.work = c + grid_x * q /\ l.work \in Nat
  BY <1>1, <1>2, <1>3, <1>4 DEF InWaves, Loop
<1>6. TailTiles(gemm) > 0 => l.work < WaveTiles
  <2>1. grid_x * q + grid_x <= grid_x * FullWaves(gemm)
    BY <1>4, <1>5, MulLess
  <2> HIDE DEF q
  <2>2. grid_x * q \in Nat /\ grid_x * FullWaves(gemm) \in Nat
    BY <1>4, <1>5
  <2>3. TailTiles(gemm) > 0 => grid_x * FullWaves(gemm) = WaveTiles
    BY <1>1, ShapeFacts
  <2> QED BY <1>4, <1>5, <2>1, <2>2, <2>3 DEF CTAs
<1>7. /\ ~p.inTail /\ p.waves = l.waves - 1 /\ p.work = l.work
      /\ p.slot = l.slot /\ p.slices = 1 /\ p.k0 = 0 /\ p.count = gemm.kTiles
      /\ p.block = l.work \div n /\ p.column = l.work % n
  BY <1>1, <1>2 DEF WaveIteration, Loop
<1>8. /\ l.work \div n \in Nat /\ l.work % n \in 0 .. n - 1
      /\ (l.work \div n) * n + (l.work % n) = l.work
  <2> DEFINE m == l.work
  <2>1. m \in Nat /\ n \in Nat \ {0}
    BY <1>4, <1>5
  <2> HIDE DEF m, n
  <2>2. m \div n \in Nat /\ m % n \in 0 .. n - 1 /\ (m \div n) * n + (m % n) = m
    BY <2>1
  <2> QED BY <2>2 DEF m, n
<1>9. p \in Loop
  <2> DEFINE b == l.work \div n
             j == l.work % n
  <2>1. l.waves - 1 \in Nat /\ b \in Nat /\ j \in Nat
    BY <1>4, <1>5, <1>8
  <2> DEFINE v == l.waves - 1
             k == gemm.kTiles
  <2> DEFINE r == [l EXCEPT !.waves = v, !.block = b, !.column = j]
  <2> DEFINE s == [r EXCEPT !.k0 = 0, !.count = k, !.slices = 1]
  <2>2. p = [s EXCEPT !.idx = 0]
    BY DEF WaveIteration
  <2>3. l \in Loop /\ v \in Nat /\ k \in Nat
    BY <1>1, <1>4, <2>1
  <2> HIDE DEF l, b, j, p, v, k
  <2>4. r \in Loop
    BY <2>1, <2>3 DEF Loop
  <2> HIDE DEF r
  <2>5. s \in Loop
    BY <2>3, <2>4 DEF Loop
  <2> HIDE DEF s
  <2> QED BY <2>2, <2>5 DEF Loop
<1>10. p.block < gemm.routeBlocks <=> l.work < WaveTiles
  <2> DEFINE b == l.work \div n
             j == l.work % n
             r == gemm.routeBlocks
  <2>1. b \in Nat /\ j \in Nat /\ j < n /\ b * n + j = l.work /\ r \in Nat
    BY <1>1, <1>4, <1>8, ShapeFacts
  <2> HIDE DEF b, j, p
  <2>2. l.work < MnTiles(gemm) => b < r
    BY <1>1, <2>1, BlockFacts
  <2>3. b < r => l.work < MnTiles(gemm)
    <3> SUFFICES ASSUME b < r PROVE l.work < MnTiles(gemm)
      OBVIOUS
    <3> HIDE DEF n, r
    <3>1. n * b + n <= n * r
      BY <1>4, <2>1, MulLess
    <3>2. n * b = b * n /\ n * r = r * n /\ b * n \in Nat /\ r * n \in Nat
      BY <1>4, <2>1
    <3>3. MnTiles(gemm) = r * n
      BY DEF MnTiles, n, r
    <3> QED BY <1>4, <2>1, <3>1, <3>2, <3>3
  <2>4. TailTiles(gemm) = 0 => WaveTiles = MnTiles(gemm)
    BY <1>1, ShapeFacts
  <2>5. p.block = b
    BY <1>7 DEF b
  <2> QED BY <1>4, <1>5, <1>6, <2>2, <2>3, <2>4, <2>5
<1>11. Emits(p) <=> p.work < WaveTiles /\ p.block \notin skipped
  BY <1>7, <1>10 DEF Emits
<1>12. l.slot = FirstLockSlot(gemm, c)
  BY <1>3 DEF InWaves
<1> HIDE DEF p
<1> QED BY <1>2, <1>5, <1>7, <1>9, <1>11

\* In the tail, now or with this iteration: no piece of the CTA's stripe is
\* passed over on the way.
LEMMA AtTailFacts ==
  ASSUME IInv, NEW c \in CTAs, pc[c] = "pick", loop[c].inTail \/ loop[c].waves = 0,
         TailTiles(gemm) > 0,
         loop[c].inTail \/ Iters(gemm) * c < gemm.kTiles * TailTiles(gemm)
  PROVE  LET a == AtTail(c, loop[c])
         IN  /\ a \in Loop /\ InTail(c, a) /\ BetweenPieces(c, a)
             /\ \A w \in TailWork : HasPiece(gemm, c, w) =>
                  (w < a.work <=> loop[c].inTail /\ w < loop[c].work)
<1> DEFINE l == loop[c]
<1>1. gemm \in Shape /\ l \in Loop /\ Placed(c)
  BY GemmShape DEF IInv, Types
<1>2. CASE l.inTail
  <2>1. AtTail(c, l) = l
    BY <1>2 DEF AtTail
  <2> QED BY <1>1, <1>2, <2>1 DEF Placed
<1>3. CASE ~l.inTail
  <2> DEFINE e == EnterTail(c, l)
  <2>1. AtTail(c, l) = e
    BY <1>3 DEF AtTail
  <2>2. l.waves = 0 /\ l.slot = FirstLockSlot(gemm, c)
    BY <1>1, <1>3 DEF Placed, InWaves
  <2>3. /\ e \in Loop /\ InTail(c, e) /\ BetweenPieces(c, e)
        /\ gemm.kTiles * e.work <= Iters(gemm) * c
    BY <1>1, <1>3, <2>2, EnterFacts
  <2> HIDE DEF e
  <2>4. ASSUME NEW w \in TailWork, HasPiece(gemm, c, w), w < e.work
        PROVE  FALSE
    <3>1. gemm.kTiles \in Nat \ {0} /\ e.work \in Nat /\ w \in Nat /\ Iters(gemm) \in Nat /\ c \in Nat
      BY <1>1, <2>3, ShapeFacts DEF Loop, TailWork, CTAs
    <3>2. gemm.kTiles * (w + 1) <= gemm.kTiles * e.work
      BY <2>4, <3>1, MulLe
    <3>3. Iters(gemm) * c < gemm.kTiles * (w + 1)
      BY <2>4 DEF HasPiece
    <3>4. /\ Iters(gemm) * c \in Nat /\ gemm.kTiles * (w + 1) \in Nat
          /\ gemm.kTiles * e.work \in Nat
      BY <3>1
    <3> QED BY <2>3, <3>2, <3>3, <3>4
  <2> QED BY <1>3, <2>1, <2>3, <2>4
<1> QED BY <1>2, <1>3

\* The registers of a piece name its tile, and the tile's row block.
LEMMA PieceTile ==
  ASSUME gemm \in Shape, NEW c \in CTAs, NEW l \in Loop, InTail(c, l), l.work \in TailWork
  PROVE  /\ TileOf(l) \in Tiles /\ TileOf(l) = WaveTiles + l.work
         /\ (WaveTiles + l.work) \div gemm.nTiles = l.block
         /\ l.block < gemm.routeBlocks
<1>1. /\ TailTiles(gemm) \in Nat /\ MnTiles(gemm) \in Nat /\ WaveTiles \in Nat
      /\ WaveTiles + TailTiles(gemm) = MnTiles(gemm)
  BY ShapeFacts
<1>2. TileOf(l) = WaveTiles + l.work /\ l.column < gemm.nTiles
  BY DEF InTail
<1>3. l.work \in Nat /\ l.work < TailTiles(gemm) /\ l.block \in Nat /\ l.column \in Nat
  BY <1>1 DEF TailWork, Loop
<1>4. WaveTiles + l.work < MnTiles(gemm) /\ WaveTiles + l.work \in Nat
  BY <1>1, <1>3
<1>5. TileOf(l) = l.block * gemm.nTiles + l.column
  BY DEF TileOf
<1>6. /\ TileOf(l) \div gemm.nTiles = l.block
      /\ TileOf(l) < MnTiles(gemm) => l.block < gemm.routeBlocks
  BY <1>2, <1>3, <1>5, BlockFacts
<1>7. TileOf(l) \in Tiles
  BY <1>1, <1>2, <1>4 DEF Tiles
<1> QED BY <1>2, <1>4, <1>6, <1>7

\* In the tail: a part of the CTA's stripe, in order.
LEMMA PickTailFacts ==
  ASSUME IInv, NEW c \in CTAs, PickTail(c)
  PROVE  \E p \in Loop :
           /\ Emit(c, p) /\ InTail(c, p) /\ OnPiece(c, p)
           /\ p.slices > 1 <=> Shared(gemm, p.work)
           /\ Emits(p) <=> p.block \notin skipped
           /\ \A w \in TailWork : HasPiece(gemm, c, w) =>
                (w < p.work <=> loop[c].inTail /\ w < loop[c].work)
<1> DEFINE l == loop[c]
           a == AtTail(c, l)
           p == TailIteration(c, a)
<1>1. gemm \in Shape /\ l \in Loop /\ Placed(c)
  BY GemmShape DEF IInv, Types
<1>2. /\ pc[c] = "pick"
      /\ l.inTail \/ l.waves = 0
      /\ TailCount(c, a) > 0 /\ Emit(c, p)
  BY DEF PickTail
<1>3. /\ TailTiles(gemm) \in Nat /\ gemm.kTiles \in Nat \ {0} /\ Iters(gemm) \in Nat
      /\ c \in Nat
  BY <1>1, ShapeFacts DEF CTAs
<1>4. a.work < TailTiles(gemm) /\ Iters(gemm) > 0
  <2>1. ~ 0 > 0
    OBVIOUS
  <2> QED BY <1>2, <2>1 DEF TailCount
<1>5. TailTiles(gemm) > 0
  <2>1. TailTiles(gemm) # 0
    BY <1>1, <1>3, <1>4, ShapeFacts
  <2> QED BY <1>3, <2>1
<1>6. ASSUME ~l.inTail
      PROVE  Iters(gemm) * c < gemm.kTiles * TailTiles(gemm)
  <2> DEFINE w == (Iters(gemm) * c) \div gemm.kTiles
             i == Iters(gemm)
             k == gemm.kTiles
             t == TailTiles(gemm)
  <2>1. a = EnterTail(c, l)
    BY <1>6 DEF AtTail
  <2>2. a.work = w
    BY <1>1, <2>1 DEF EnterTail, Loop
  <2>3. i * c \in Int
    BY <1>3
  <2>4. w \in Int /\ i * c < k * w + k
    <3> HIDE DEF i, k
    <3>1. (i * c) \div k \in Int /\ i * c < k * ((i * c) \div k) + k
      BY <1>3, <2>3, DivFacts DEF k
    <3> QED BY <3>1 DEF i, k
  <2>5. w < t
    BY <1>4, <2>2
  <2>6. k \in Nat \ {0} /\ t \in Nat
    BY <1>3
  <2> HIDE DEF w, i, t, k
  <2>7. k * w + k <= k * t /\ k * w \in Int /\ k * t \in Int /\ k \in Int
    BY <2>4, <2>5, <2>6, MulLess
  <2>8. i * c < k * t
    BY <2>3, <2>4, <2>7
  <2> QED BY <2>8 DEF i, k, t
<1>7. /\ a \in Loop /\ InTail(c, a) /\ BetweenPieces(c, a)
      /\ \A w \in TailWork : HasPiece(gemm, c, w) => (w < a.work <=> l.inTail /\ w < l.work)
  BY <1>2, <1>5, <1>6, AtTailFacts
<1> HIDE DEF a
<1>8. /\ p \in Loop /\ InTail(c, p) /\ OnPiece(c, p)
      /\ p.work = a.work /\ p.k0 = a.k0 /\ p.block = a.block
  BY <1>1, <1>2, <1>7, PieceRegisters
<1> HIDE DEF p
<1>9. p.work \in TailWork /\ p.work \in 0 .. TailTiles(gemm) - 1
  BY <1>8 DEF OnPiece, TailWork
<1>10. p.slices > 1 <=> Shared(gemm, p.work)
  <2>1. p.slices = LastCta(gemm, p.work) - FirstCta(gemm, p.work) + 1
    BY <1>8 DEF OnPiece
  <2>2. LastCta(gemm, p.work) \in Nat /\ FirstCta(gemm, p.work) \in Nat
    BY <1>1, <1>9, PieceFacts DEF CTAs
  <2> QED BY <2>1, <2>2 DEF Shared
<1>11. Emits(p) <=> p.block \notin skipped
  <2>1. p.block < gemm.routeBlocks
    BY <1>1, <1>8, <1>9, PieceTile
  <2> QED BY <2>1 DEF Emits
<1> QED BY <1>2, <1>7, <1>8, <1>10, <1>11

-----------------------------------------------------------------------------
(* The steps, one kind at a time.                                          *)

LEMMA PassedStays ==
  ASSUME gemm \in Shape, NEW c \in CTAs, OnlyMoves(c), NEW t \in Tiles,
         t < WaveTiles /\ t % grid_x = c =>
           ((loop'[c].inTail \/ t < loop'[c].work) <=> (loop[c].inTail \/ t < loop[c].work)),
         ~ t < WaveTiles /\ FirstCta(gemm, t - WaveTiles) = c =>
           (loop'[c].inTail /\ t - WaveTiles < loop'[c].work
             <=> loop[c].inTail /\ t - WaveTiles < loop[c].work)
  PROVE  Passed(t)' <=> Passed(t)
<1>1. gemm' = gemm /\ WaveTiles' = WaveTiles
  BY Fixed DEF OnlyMoves
<1>2. CASE t < WaveTiles
  <2>1. t % grid_x \in CTAs
    BY OwnerFacts
  <2>2. CASE t % grid_x = c
    BY <1>1, <1>2, <2>2 DEF Passed
  <2>3. CASE t % grid_x # c
    BY <1>2, <2>1, <2>3, OthersPassed
  <2> QED BY <2>2, <2>3
<1>3. CASE ~ t < WaveTiles
  <2>1. FirstCta(gemm, t - WaveTiles) \in CTAs
    BY <1>3, OwnerFacts
  <2>2. CASE FirstCta(gemm, t - WaveTiles) = c
    BY <1>1, <1>3, <2>2 DEF Passed
  <2>3. CASE FirstCta(gemm, t - WaveTiles) # c
    BY <1>3, <2>1, <2>3, OthersPassed
  <2> QED BY <2>2, <2>3
<1> QED BY <1>2, <1>3

\* A step that stores nothing passes no wanted tile on.
LEMMA NothingStored ==
  ASSUME IInv, NEW c \in CTAs, OnlyMoves(c), UNCHANGED tiles,
         \A t \in Tiles : t < WaveTiles /\ t % grid_x = c /\ t \div gemm.nTiles \notin skipped =>
           ((loop'[c].inTail \/ t < loop'[c].work) <=> (loop[c].inTail \/ t < loop[c].work)),
         \A w \in TailWork :
           c = FirstCta(gemm, w) /\ (WaveTiles + w) \div gemm.nTiles \notin skipped =>
           (loop'[c].inTail /\ w < loop'[c].work <=> loop[c].inTail /\ w < loop[c].work)
  PROVE  TilesStored'
<1>1. gemm \in Shape
  BY GemmShape DEF IInv, Types
<1>2. ASSUME NEW t \in Tiles, t \div gemm.nTiles \notin skipped
      PROVE  Passed(t)' <=> Passed(t)
  <2>1. CASE t < WaveTiles
    BY <1>1, <1>2, <2>1, PassedStays
  <2>2. CASE ~ t < WaveTiles
    <3>1. t - WaveTiles \in TailWork /\ t \in Nat /\ WaveTiles \in Nat
      BY <1>1, <2>2, OwnerFacts, ShapeFacts
    <3>2. PICK w \in TailWork : w = t - WaveTiles
      BY <3>1
    <3>3. w \in Int /\ WaveTiles + w = t
      BY <3>1, <3>2
    <3>4. (WaveTiles + w) \div gemm.nTiles \notin skipped
      BY <1>2, <3>3
    <3>5. c = FirstCta(gemm, w) =>
            (loop'[c].inTail /\ w < loop'[c].work <=> loop[c].inTail /\ w < loop[c].work)
      BY <3>4
    <3>6. FirstCta(gemm, t - WaveTiles) = c =>
            (loop'[c].inTail /\ t - WaveTiles < loop'[c].work
              <=> loop[c].inTail /\ t - WaveTiles < loop[c].work)
      BY <3>2, <3>5
    <3> QED BY <1>1, <2>2, <3>6, PassedStays
  <2> QED BY <2>1, <2>2
<1> QED BY <1>2, TilesStay DEF OnlyMoves, IInv

\* A step that touches no slot and hands nothing on.
LEMMA NothingShared ==
  ASSUME IInv, NEW c \in CTAs, OnlyMoves(c), UNCHANGED <<lock, ctmp>>, pc[c] # "publish",
         \A w \in Contended : HasPiece(gemm, c, w) => (Released(c, w)' <=> Released(c, w)),
         HoldsTurn(c)', Placed(c)', Types', TilesStored'
  PROVE  IInv'
<1>1. gemm \in Shape /\ gemm' = gemm /\ skipped' = skipped
  BY GemmShape DEF IInv, Types, OnlyMoves
<1>2. \A d \in CTAs : Placed(d)'
  BY OthersPlaced DEF IInv
<1>3. \A d \in CTAs : HoldsTurn(d)'
  <2> SUFFICES ASSUME NEW d \in CTAs, d # c PROVE HoldsTurn(d)'
    OBVIOUS
  <2>1. HoldsTurn(d) /\ loop'[d] = loop[d] /\ pc'[d] = pc[d] /\ acc'[d] = acc[d]
    BY DEF IInv, OnlyMoves
  <2> QED BY <2>1 DEF HoldsTurn, IsLastSlice
<1>4. ASSUME NEW w \in Contended PROVE InTurn(w)' /\ SlotHolds(w)'
  <2>1. InTurn(w) /\ SlotHolds(w)
    BY DEF IInv
  <2>2. c \in SliceCtas(w) => HasPiece(gemm, c, w)
    BY <1>1, PieceFacts DEF Contended, TailWork, SliceCtas
  <2> QED BY <1>1, <2>1, <2>2, TurnStays
<1>5. Contended' = Contended
  BY <1>1, Fixed
<1>6. LocksIdle'
  BY <1>1, <1>5 DEF IInv, LocksIdle
<1> QED BY <1>2, <1>3, <1>4, <1>5, <1>6 DEF IInv

LEMMA EmitTypes ==
  ASSUME IInv, NEW c \in CTAs, NEW p \in Loop, Emit(c, p), Advance(p) \in Loop
  PROVE  /\ OnlyMoves(c) /\ Types' /\ UNCHANGED <<gemm, skipped, lock, ctmp, tiles>>
         /\ Emits(p) => /\ loop'[c] = p /\ acc'[c] = RangeCounts(p.k0, p.count)
                        /\ pc'[c] = IF p.slices > 1 THEN "wait" ELSE "store"
         /\ ~Emits(p) => loop'[c] = Advance(p) /\ pc'[c] = pc[c] /\ acc'[c] = acc[c]
<1>1. UNCHANGED <<gemm, skipped, lock, ctmp, tiles>>
  BY DEF Emit
<1>2. Count' = Count /\ Tiles' = Tiles
  BY <1>1, Fixed
<1>3. Types
  BY DEF IInv
<1>4. CASE Emits(p)
  <2>1. /\ loop' = [loop EXCEPT ![c] = p]
        /\ acc' = [acc EXCEPT ![c] = RangeCounts(p.k0, p.count)]
        /\ pc' = [pc EXCEPT ![c] = IF p.slices > 1 THEN "wait" ELSE "store"]
    BY <1>4 DEF Emit
  <2>2. RangeCounts(p.k0, p.count) \in Count
    BY CountTypes
  <2>3. loop' \in [CTAs -> Loop] /\ acc' \in [CTAs -> Count]
    BY <1>3, <2>1, <2>2 DEF Types
  <2>4. pc' \in [CTAs -> {"pick", "wait", "merge", "publish", "store", "done"}]
    BY <1>3, <2>1 DEF Types
  <2>5. OnlyMoves(c)
    BY <1>1, <1>3, <2>1 DEF Types, OnlyMoves
  <2>6. /\ loop'[c] = p /\ acc'[c] = RangeCounts(p.k0, p.count)
        /\ pc'[c] = IF p.slices > 1 THEN "wait" ELSE "store"
    BY <1>3, <2>1 DEF Types
  <2>7. Types'
    BY <1>1, <1>2, <1>3, <2>3, <2>4 DEF Types
  <2> QED BY <1>1, <1>4, <2>5, <2>6, <2>7
<1>5. CASE ~Emits(p)
  <2>1. loop' = [loop EXCEPT ![c] = Advance(p)] /\ UNCHANGED <<acc, pc>>
    BY <1>5 DEF Emit
  <2>2. loop' \in [CTAs -> Loop] /\ loop'[c] = Advance(p)
    BY <1>3, <2>1 DEF Types
  <2>3. OnlyMoves(c)
    BY <1>1, <1>3, <2>1 DEF Types, OnlyMoves
  <2>4. Types'
    BY <1>1, <1>2, <1>3, <2>1, <2>2 DEF Types
  <2> QED BY <1>1, <1>5, <2>1, <2>2, <2>3, <2>4
<1> QED BY <1>4, <1>5

\* In a wave the CTA's next tile is grid_x tiles on.
LEMMA PickWaveInv ==
  ASSUME IInv, NEW c \in CTAs, PickWave(c)
  PROVE  IInv'
<1> DEFINE l == loop[c]
           q == FullWaves(gemm) - l.waves
<1>1. PICK p \in Loop :
        /\ Emit(c, p)
        /\ ~p.inTail /\ p.waves = l.waves - 1 /\ p.work = l.work
        /\ p.slot = l.slot /\ p.slices = 1 /\ p.k0 = 0 /\ p.count = gemm.kTiles
        /\ p.block = p.work \div gemm.nTiles /\ p.column = p.work % gemm.nTiles
        /\ Emits(p) <=> p.work < WaveTiles /\ p.block \notin skipped
        /\ p.work = c + grid_x * q
        /\ l.waves \in 1 .. FullWaves(gemm)
  BY PickWaveFacts
<1>2. gemm \in Shape /\ l \in Loop /\ Placed(c) /\ pc[c] = "pick" /\ ~l.inTail
  BY GemmShape DEF IInv, Types, PickWave
<1>3. InWaves(c)
  BY <1>2 DEF Placed
<1>4. /\ FullWaves(gemm) \in Nat /\ WaveTiles \in Nat /\ l.waves \in Nat /\ p.waves \in Nat
      /\ q \in Nat /\ p.work \in Nat /\ c \in Nat
  BY <1>1, <1>2, ShapeFacts DEF Loop, CTAs
<1> DEFINE r == Advance(p)
<1>5. /\ r \in Loop /\ ~r.inTail /\ r.waves = p.waves /\ r.work = p.work + grid_x
      /\ r.slot = p.slot
  <2>1. r = [p EXCEPT !.work = p.work + grid_x]
    BY <1>1 DEF Advance
  <2>2. p.work + grid_x \in Nat
    BY <1>4
  <2> HIDE DEF r
  <2> QED BY <1>1, <2>1, <2>2 DEF Loop
<1> HIDE DEF r
<1>6. /\ OnlyMoves(c) /\ Types' /\ UNCHANGED <<gemm, skipped, lock, ctmp, tiles>>
      /\ Emits(p) => /\ loop'[c] = p /\ acc'[c] = RangeCounts(p.k0, p.count)
                     /\ pc'[c] = IF p.slices > 1 THEN "wait" ELSE "store"
      /\ ~Emits(p) => loop'[c] = r /\ pc'[c] = pc[c] /\ acc'[c] = acc[c]
  BY <1>1, <1>5, EmitTypes DEF r
<1>7. p.work + grid_x = c + grid_x * (FullWaves(gemm) - p.waves)
  <2>1. FullWaves(gemm) - p.waves = q + 1
    BY <1>1, <1>4
  <2> HIDE DEF q
  <2>2. grid_x * (q + 1) = grid_x * q + grid_x /\ grid_x * q \in Nat
    BY <1>4
  <2> QED BY <1>1, <1>4, <2>1, <2>2
<1>8. WaveTiles' = WaveTiles /\ Complete' = Complete
  BY <1>6, Fixed
<1>9. /\ ~loop'[c].inTail /\ pc'[c] \in {"pick", "store"}
      /\ loop'[c].slot = l.slot /\ loop'[c].waves = p.waves
  BY <1>1, <1>2, <1>5, <1>6
<1>10. InWaves(c)'
  <2> DEFINE tile == c + grid_x * (FullWaves(gemm) - p.waves)
  <2>1. p.waves <= FullWaves(gemm) /\ p.waves < FullWaves(gemm) /\ l.slot = FirstLockSlot(gemm, c)
    BY <1>1, <1>3, <1>4 DEF InWaves
  <2> HIDE DEF tile
  <2>2. p.work + grid_x = tile
    BY <1>7 DEF tile
  <2>3. tile \in Int /\ p.work = tile - grid_x
    BY <1>4, <2>2
  <2>4. CASE Emits(p)
    <3>1. /\ loop'[c] = p /\ pc'[c] = "store" /\ acc'[c] = Complete
      BY <1>1, <1>6, <2>4 DEF Complete
    <3>2. p.work < WaveTiles /\ p.block \notin skipped
      BY <1>1, <2>4
    <3> QED BY <1>1, <1>6, <1>8, <2>1, <2>3, <3>1, <3>2 DEF InWaves, tile
  <2>5. CASE ~Emits(p)
    <3>1. loop'[c] = r /\ pc'[c] = "pick" /\ r.work = tile
      BY <1>2, <1>5, <1>6, <2>2, <2>5
    <3> QED BY <1>1, <1>5, <1>6, <2>1, <3>1 DEF InWaves, tile
  <2> QED BY <2>4, <2>5
<1>11. Placed(c)'
  BY <1>9, <1>10 DEF Placed
<1>12. HoldsTurn(c)'
  BY <1>9 DEF HoldsTurn
<1>13. TilesStored'
  <2>1. ASSUME NEW t \in Tiles, t < WaveTiles, t % grid_x = c, t \div gemm.nTiles \notin skipped
        PROVE  t < loop'[c].work <=> t < l.work
    <3>1. t \in Nat
      BY <1>2, OwnerFacts
    <3>2. t < p.work \/ t = p.work \/ t >= p.work + grid_x
      <4> HIDE DEF q
      <4> QED BY <1>1, <1>4, <2>1, <3>1, WaveFacts
    <3>3. CASE Emits(p)
      BY <1>1, <1>6, <3>3
    <3>4. CASE ~Emits(p)
      <4>1. t # p.work
        BY <1>1, <2>1, <3>4
      <4> HIDE DEF l
      <4>2. loop'[c].work = p.work + grid_x
        BY <1>5, <1>6, <3>4
      <4> QED BY <1>1, <1>4, <3>1, <3>2, <4>1, <4>2
    <3> QED BY <3>3, <3>4
  <2> QED BY <1>2, <1>6, <1>9, <2>1, NothingStored
<1>14. \A w : Released(c, w)' <=> Released(c, w)
  BY <1>2, <1>9 DEF Released
<1> QED BY <1>2, <1>6, <1>11, <1>12, <1>13, <1>14, NothingShared

\* In the tail the CTA starts on its next piece, or passes over a piece whose
\* row block has no expert.
LEMMA PickTailInv ==
  ASSUME IInv, NEW c \in CTAs, PickTail(c)
  PROVE  IInv'
<1> DEFINE l == loop[c]
<1>1. PICK p \in Loop :
        /\ Emit(c, p) /\ InTail(c, p) /\ OnPiece(c, p)
        /\ p.slices > 1 <=> Shared(gemm, p.work)
        /\ Emits(p) <=> p.block \notin skipped
        /\ \A w \in TailWork : HasPiece(gemm, c, w) =>
             (w < p.work <=> l.inTail /\ w < l.work)
  BY PickTailFacts
<1>2. /\ gemm \in Shape /\ l \in Loop /\ Placed(c) /\ pc[c] = "pick"
      /\ l.inTail \/ l.waves = 0
  BY GemmShape DEF IInv, Types, PickTail
<1> DEFINE r == Advance(p)
<1>3. r \in Loop /\ InTail(c, r) /\ BetweenPieces(c, r) /\ r.work = p.work + 1
  BY <1>1, <1>2, AdvanceFacts
<1> HIDE DEF r
<1>4. /\ OnlyMoves(c) /\ Types' /\ UNCHANGED <<gemm, skipped, lock, ctmp, tiles>>
      /\ Emits(p) => /\ loop'[c] = p /\ acc'[c] = RangeCounts(p.k0, p.count)
                     /\ pc'[c] = IF p.slices > 1 THEN "wait" ELSE "store"
      /\ ~Emits(p) => loop'[c] = r /\ pc'[c] = pc[c] /\ acc'[c] = acc[c]
  BY <1>1, <1>3, EmitTypes DEF r
<1>5. p.work \in TailWork /\ p.work \in Nat /\ HasPiece(gemm, c, p.work)
  BY <1>1 DEF OnPiece, Loop
<1>6. (WaveTiles + p.work) \div gemm.nTiles = p.block
  BY <1>1, <1>2, <1>5, PieceTile
<1>7. p.inTail /\ r.inTail
  BY <1>1, <1>3 DEF InTail
<1>8. /\ InTail(c, loop[c])' <=> InTail(c, loop'[c])
      /\ BetweenPieces(c, loop[c])' <=> BetweenPieces(c, loop'[c])
      /\ OnPiece(c, loop[c])' <=> OnPiece(c, loop'[c])
  BY <1>4, FixedRegisters
<1>9. pc'[c] \in {"pick", "wait", "store"} /\ loop'[c].inTail
  BY <1>2, <1>4, <1>7
<1>10. Placed(c)'
  <2>1. CASE Emits(p)
    <3>1. loop'[c] = p /\ pc'[c] \in {"wait", "store"}
      BY <1>4, <2>1
    <3>2. InTail(c, loop[c])' /\ OnPiece(c, loop[c])'
      BY <1>1, <1>8, <3>1
    <3>3. PieceSum(c)'
      <4>1. p.block \notin skipped /\ acc'[c] = RangeCounts(p.k0, p.count)
        BY <1>1, <1>4, <2>1
      <4>2. CASE Shared(gemm, p.work)
        <5>1. pc'[c] = "wait"
          BY <1>1, <1>4, <2>1, <4>2
        <5>2. RangeCounts(p.k0, p.count)' = RangeCounts(p.k0, p.count)
          BY <1>4, Fixed DEF RangeCounts
        <5> QED BY <1>4, <3>1, <4>1, <4>2, <5>1, <5>2 DEF PieceSum
      <4>3. CASE ~Shared(gemm, p.work)
        <5>1. pc'[c] = "store"
          BY <1>1, <1>4, <2>1, <4>3
        <5>2. /\ FirstCta(gemm, p.work) \in CTAs /\ LastCta(gemm, p.work) \in CTAs
              /\ FirstCta(gemm, p.work) <= LastCta(gemm, p.work)
              /\ c \in FirstCta(gemm, p.work) .. LastCta(gemm, p.work)
          BY <1>2, <1>5, PieceFacts DEF TailWork
        <5>3. c = FirstCta(gemm, p.work) /\ c = LastCta(gemm, p.work)
          BY <4>3, <5>2 DEF Shared, CTAs
        <5>4. p.k0 = 0 /\ p.count = gemm.kTiles
          <6>1. /\ FirstK(gemm, c, p.work) = 0 /\ TopK(gemm, c, p.work) = gemm.kTiles
            BY <1>2, <1>5, <5>3, PartFacts DEF TailWork
          <6>2. p.k0 = 0 /\ p.count = gemm.kTiles - 0
            BY <1>1, <6>1 DEF InTail, OnPiece
          <6> QED BY <1>2, <6>2, ShapeFacts
        <5>5. acc'[c] = Complete'
          BY <1>4, <4>1, <5>4, Fixed DEF Complete
        <5> QED BY <1>4, <3>1, <4>1, <5>1, <5>3, <5>5 DEF PieceSum, Sharing
      <4> QED BY <4>2, <4>3
    <3> QED BY <1>7, <3>1, <3>2, <3>3 DEF Placed
  <2>2. CASE ~Emits(p)
    BY <1>2, <1>3, <1>4, <1>7, <1>8, <2>2 DEF Placed
  <2> QED BY <2>1, <2>2
<1>11. HoldsTurn(c)'
  BY <1>9 DEF HoldsTurn
<1>12. \A w \in TailWork : HasPiece(gemm, c, w) /\ (WaveTiles + w) \div gemm.nTiles \notin skipped =>
         (w < loop'[c].work <=> l.inTail /\ w < l.work)
  <2> SUFFICES ASSUME NEW w \in TailWork, HasPiece(gemm, c, w),
                      (WaveTiles + w) \div gemm.nTiles \notin skipped
               PROVE  w < loop'[c].work <=> w < p.work
    BY <1>1
  <2>1. CASE Emits(p)
    BY <1>4, <2>1
  <2>2. CASE ~Emits(p)
    <3>1. w # p.work
      BY <1>1, <1>6, <2>2
    <3>2. w \in Int /\ loop'[c].work = p.work + 1
      BY <1>3, <1>4, <2>2 DEF TailWork
    <3> QED BY <1>5, <3>1, <3>2
  <2> QED BY <2>1, <2>2
<1>13. TilesStored'
  <2>1. ASSUME NEW t \in Tiles, t < WaveTiles, t % grid_x = c
        PROVE  l.inTail \/ t < l.work
    <3> SUFFICES ASSUME ~l.inTail PROVE t < l.work
      OBVIOUS
    <3> DEFINE f == FullWaves(gemm)
    <3>1. l.waves = 0 /\ l.work = c + grid_x * (f - l.waves)
      BY <1>2 DEF Placed, InWaves
    <3>2. f \in Nat /\ WaveTiles \in Nat /\ WaveTiles <= grid_x * f /\ t \in Nat /\ c \in Nat
      BY <1>2, ShapeFacts, OwnerFacts DEF CTAs
    <3> HIDE DEF l, f
    <3>3. l.work = c + grid_x * f /\ grid_x * f \in Nat
      BY <3>1, <3>2
    <3> QED BY <2>1, <3>2, <3>3
  <2>2. ASSUME NEW w \in TailWork, c = FirstCta(gemm, w)
        PROVE  HasPiece(gemm, c, w)
    <3>1. /\ FirstCta(gemm, w) \in CTAs /\ LastCta(gemm, w) \in CTAs
          /\ FirstCta(gemm, w) <= LastCta(gemm, w)
          /\ HasPiece(gemm, c, w) <=> c \in FirstCta(gemm, w) .. LastCta(gemm, w)
      BY <1>2, PieceFacts DEF TailWork
    <3> QED BY <2>2, <3>1 DEF CTAs
  <2> QED BY <1>4, <1>9, <1>12, <2>1, <2>2, NothingStored
<1>14. \A w \in Contended : HasPiece(gemm, c, w) => (Released(c, w)' <=> Released(c, w))
  <2> SUFFICES ASSUME NEW w \in Contended, HasPiece(gemm, c, w)
               PROVE  Released(c, w)' <=> Released(c, w)
    OBVIOUS
  <2>1. /\ w \in TailWork /\ Shared(gemm, w)
        /\ (WaveTiles + w) \div gemm.nTiles \notin skipped
    BY DEF Contended
  <2>2. w < loop'[c].work <=> l.inTail /\ w < l.work
    BY <1>12, <2>1
  <2>3. ~(w = loop'[c].work /\ pc'[c] = "store")
    <3> SUFFICES ASSUME w = loop'[c].work, pc'[c] = "store" PROVE FALSE
      OBVIOUS
    <3>1. Emits(p)
      BY <1>2, <1>4
    <3> QED BY <1>1, <1>4, <2>1, <3>1
  <2> QED BY <1>2, <1>9, <2>2, <2>3 DEF Released
<1> QED BY <1>2, <1>4, <1>10, <1>11, <1>13, <1>14, NothingShared

\* The CTA leaves the loop: nothing of its stripe is left.
LEMMA FinishInv ==
  ASSUME IInv, NEW c \in CTAs, Finish(c)
  PROVE  IInv'
<1> DEFINE l == loop[c]
           i == Iters(gemm)
           k == gemm.kTiles
<1>1. /\ gemm \in Shape /\ l \in Loop /\ Placed(c) /\ pc[c] = "pick" /\ Types
      /\ l.inTail \/ l.waves = 0
      /\ ~ TailCount(c, AtTail(c, l)) > 0
  <2>1. ~ 0 > 0
    OBVIOUS
  <2> QED BY <2>1, GemmShape DEF IInv, Types, Finish
<1>2. /\ UNCHANGED <<gemm, skipped, loop, acc, lock, ctmp, tiles>>
      /\ pc' = [pc EXCEPT ![c] = "done"]
  BY DEF Finish
<1>3. OnlyMoves(c) /\ pc'[c] = "done"
  BY <1>1, <1>2 DEF Types, OnlyMoves
<1>4. Types'
  <2>1. Count' = Count /\ Tiles' = Tiles
    BY <1>2, Fixed
  <2>2. pc' \in [CTAs -> {"pick", "wait", "merge", "publish", "store", "done"}]
    BY <1>1, <1>2 DEF Types
  <2> QED BY <1>1, <1>2, <2>1, <2>2 DEF Types
<1>5. k \in Nat \ {0} /\ i \in Nat /\ c \in Nat /\ TailTiles(gemm) \in Nat
  BY <1>1, ShapeFacts DEF CTAs
<1>6. NoneLeft(c)
  <2> SUFFICES ASSUME NEW w \in TailWork, HasPiece(gemm, c, w), ~(l.inTail /\ w < l.work)
               PROVE  FALSE
    BY DEF NoneLeft
  <2>1. w \in Nat /\ w < TailTiles(gemm) /\ TailTiles(gemm) > 0 /\ i > 0
    BY <1>1, <1>5, ShapeFacts DEF TailWork
  <2>2. i * c < k * (w + 1) /\ k * w < i * (c + 1)
    BY DEF HasPiece
  <2>3. k * (w + 1) <= k * TailTiles(gemm)
    BY <1>5, <2>1, MulLe
  <2> HIDE DEF i, k
  <2>4. /\ i * c \in Nat /\ k * (w + 1) \in Nat /\ k * TailTiles(gemm) \in Nat
        /\ i * (c + 1) \in Nat /\ k * w \in Nat
    BY <1>5, <2>1
  <2>5. i * c < k * TailTiles(gemm)
    BY <2>2, <2>3, <2>4
  <2> DEFINE a == AtTail(c, l)
  <2>6. /\ a \in Loop /\ InTail(c, a)
        /\ w < a.work <=> l.inTail /\ w < l.work
    BY <1>1, <2>1, <2>5, AtTailFacts DEF i, k
  <2>7. ~(a.work \in TailWork /\ HasPiece(gemm, c, a.work))
    BY <1>1, <2>6, CountFacts
  <2> HIDE DEF a
  <2>8. a.work \in Nat /\ a.work <= w
    BY <2>1, <2>6 DEF Loop
  <2>9. a.work \in TailWork
    BY <1>5, <2>1, <2>8 DEF TailWork
  <2>10. k * a.work <= k * w /\ k * a.work \in Nat
    BY <1>5, <2>1, <2>8, MulLe
  <2>11. k * a.work < i * (c + 1)
    BY <2>2, <2>4, <2>10
  <2>12. i * c < k * (a.work + 1)
    BY <2>6 DEF InTail, i, k
  <2> QED BY <2>7, <2>9, <2>11, <2>12 DEF HasPiece, i, k
<1>7. Placed(c)'
  <2>1. NoneLeft(c)'
    BY <1>2, <1>6, Fixed DEF NoneLeft
  <2>2. l.inTail => InTail(c, loop[c])' /\ BetweenPieces(c, loop[c])'
    BY <1>1, <1>2, FixedRegisters DEF Placed
  <2>3. ~l.inTail => InWaves(c)'
    BY <1>1, <1>2, <1>3, Fixed DEF Placed, InWaves
  <2> QED BY <1>2, <1>3, <2>1, <2>2, <2>3 DEF Placed
<1>8. HoldsTurn(c)'
  BY <1>3 DEF HoldsTurn
<1>9. TilesStored'
  BY <1>2, <1>3, NothingStored
<1>10. \A w : Released(c, w)' <=> Released(c, w)
  BY <1>1, <1>2, <1>3 DEF Released
<1> QED BY <1>1, <1>2, <1>3, <1>4, <1>7, <1>8, <1>9, <1>10, NothingShared

\* A CTA on a piece of a shared tile.
LEMMA SharingFacts ==
  ASSUME IInv, NEW c \in CTAs, Sharing(c)
  PROVE  LET l == loop[c]
             w == l.work
         IN  /\ l.inTail /\ InTail(c, l) /\ OnPiece(c, l) /\ PieceSum(c)
             /\ w \in Contended /\ Shared(gemm, w) /\ HasPiece(gemm, c, w)
             /\ l.slot = TileSlot(gemm, w) /\ l.slot \in CTAs
             /\ c \in SliceCtas(w) /\ c <= LastCta(gemm, w) /\ FirstCta(gemm, w) <= c
             /\ l.idx = LastCta(gemm, w) - c
             /\ l.slices = LastCta(gemm, w) - FirstCta(gemm, w) + 1
             /\ FirstCta(gemm, w) \in CTAs /\ LastCta(gemm, w) \in CTAs
             /\ IsLastSlice(l) <=> c = FirstCta(gemm, w)
             /\ ~Released(c, w)
<1> DEFINE l == loop[c]
           w == l.work
<1>1. gemm \in Shape /\ l \in Loop /\ Placed(c)
  BY GemmShape DEF IInv, Types
<1>2. pc[c] \notin {"pick", "done", "store"}
  BY DEF Sharing
<1>3. l.inTail
  BY <1>1, <1>2 DEF Placed, InWaves
<1>4. InTail(c, l) /\ OnPiece(c, l) /\ PieceSum(c)
  BY <1>1, <1>2, <1>3 DEF Placed
<1>5. Shared(gemm, w) /\ w \in TailWork /\ l.block \notin skipped /\ HasPiece(gemm, c, w)
  BY <1>4 DEF PieceSum, OnPiece
<1>6. w \in Contended
  BY <1>1, <1>4, <1>5, PieceTile DEF Contended
<1>7. /\ l.slot = TileSlot(gemm, w) /\ l.slot \in CTAs
      /\ c \in SliceCtas(w)
      /\ l.idx = LastCta(gemm, w) - c
      /\ l.slices = LastCta(gemm, w) - FirstCta(gemm, w) + 1
      /\ FirstCta(gemm, w) \in CTAs /\ LastCta(gemm, w) \in CTAs
  BY <1>1, <1>4, <1>5, PieceSlot
<1>8. c <= LastCta(gemm, w) /\ FirstCta(gemm, w) <= c
  BY <1>7 DEF SliceCtas, CTAs
<1>9. IsLastSlice(l) <=> c = FirstCta(gemm, w)
  <2>1. c \in Int /\ FirstCta(gemm, w) \in Int /\ LastCta(gemm, w) \in Int
    BY <1>7 DEF CTAs
  <2> HIDE DEF w, l
  <2> QED BY <1>7, <2>1 DEF IsLastSlice
<1>10. ~Released(c, w)
  <2>1. ~ w < w
    BY <1>5 DEF TailWork
  <2> QED BY <1>2, <2>1 DEF Released
<1> QED BY <1>3, <1>4, <1>5, <1>6, <1>7, <1>8, <1>9, <1>10

\* Two CTAs that hold their turn hold it at different slots.
LEMMA TurnsApart ==
  ASSUME IInv, NEW c \in CTAs, NEW d \in CTAs, c # d,
         pc[c] \in {"merge", "publish"}, pc[d] \in {"merge", "publish"}
  PROVE  loop[c].slot # loop[d].slot
<1> SUFFICES ASSUME loop[c].slot = loop[d].slot PROVE FALSE
  OBVIOUS
<1>1. Sharing(c) /\ Sharing(d) /\ HoldsTurn(c) /\ HoldsTurn(d) /\ gemm \in Shape
  BY GemmShape DEF IInv, Types, Sharing
<1> DEFINE v == loop[c].work
           w == loop[d].work
<1>2. /\ v \in Contended /\ loop[c].slot = TileSlot(gemm, v)
      /\ loop[c].idx = LastCta(gemm, v) - c /\ LastCta(gemm, v) \in CTAs
  BY <1>1, SharingFacts
<1>3. /\ w \in Contended /\ loop[d].slot = TileSlot(gemm, w)
      /\ loop[d].idx = LastCta(gemm, w) - d /\ LastCta(gemm, w) \in CTAs
  BY <1>1, SharingFacts
<1>4. v = w
  BY <1>1, <1>2, <1>3, SlotFacts DEF Contended, TailWork
<1>5. loop[c].idx = loop[d].idx
  BY <1>1 DEF HoldsTurn
<1> QED BY <1>2, <1>3, <1>4, <1>5 DEF CTAs

LEMMA TakeTurnInv ==
  ASSUME IInv, NEW c \in CTAs, TakeTurn(c)
  PROVE  IInv'
<1>1. /\ UNCHANGED <<gemm, skipped, loop, acc, lock, ctmp, tiles>>
      /\ pc' = [pc EXCEPT ![c] = "merge"] /\ pc[c] = "wait"
      /\ lock[loop[c].slot] = loop[c].idx
      /\ Types /\ Placed(c)
  BY DEF TakeTurn, MyTurn, IInv
<1>2. OnlyMoves(c) /\ pc'[c] = "merge"
  BY <1>1 DEF Types, OnlyMoves
<1>3. Types'
  <2>1. Count' = Count /\ Tiles' = Tiles
    BY <1>1, Fixed
  <2>2. pc' \in [CTAs -> {"pick", "wait", "merge", "publish", "store", "done"}]
    BY <1>1 DEF Types
  <2> QED BY <1>1, <2>1, <2>2 DEF Types
<1>4. Placed(c)'
  <2>1. loop[c].inTail /\ InTail(c, loop[c]) /\ OnPiece(c, loop[c]) /\ PieceSum(c)
    BY <1>1, SharingFacts DEF Sharing
  <2>2. InTail(c, loop[c])' /\ OnPiece(c, loop[c])'
    BY <1>1, <2>1, FixedRegisters
  <2>3. PieceSum(c)'
    <3>1. RangeCounts(loop[c].k0, loop[c].count)' = RangeCounts(loop[c].k0, loop[c].count)
      BY <1>1, Fixed DEF RangeCounts
    <3> QED BY <1>1, <1>2, <2>1, <3>1 DEF PieceSum, Sharing
  <2> QED BY <1>1, <1>2, <2>1, <2>2, <2>3 DEF Placed
<1>5. HoldsTurn(c)'
  BY <1>1, <1>2 DEF HoldsTurn
<1>6. TilesStored'
  BY <1>1, <1>2, NothingStored
<1>7. \A w : Released(c, w)' <=> Released(c, w)
  BY <1>1, <1>2 DEF Released
<1> QED BY <1>1, <1>2, <1>3, <1>4, <1>5, <1>6, <1>7, NothingShared

\* The slice whose turn it is finds in the slot the sum of the k-tiles above
\* its own, and leaves there what the next one needs.
LEMMA MergeInv ==
  ASSUME IInv, NEW c \in CTAs, Merge(c)
  PROVE  IInv'
<1> DEFINE l == loop[c]
           w == l.work
           sum == Merged(l, acc[c])
<1>1. /\ UNCHANGED <<gemm, skipped, loop, lock, tiles>>
      /\ acc' = [acc EXCEPT ![c] = sum]
      /\ ctmp' = [ctmp EXCEPT ![l.slot] = IF IsLastSlice(l) THEN ctmp[l.slot] ELSE sum]
      /\ pc' = [pc EXCEPT ![c] = "publish"] /\ pc[c] = "merge"
      /\ Types /\ Placed(c) /\ gemm \in Shape /\ l \in Loop
  BY GemmShape DEF Merge, IInv, Types
<1>2. OnlyMoves(c) /\ pc'[c] = "publish" /\ acc'[c] = sum
  BY <1>1 DEF Types, OnlyMoves
<1>3. /\ l.inTail /\ InTail(c, l) /\ OnPiece(c, l) /\ PieceSum(c)
      /\ w \in Contended /\ HasPiece(gemm, c, w)
      /\ l.slot = TileSlot(gemm, w) /\ l.slot \in CTAs
      /\ c \in SliceCtas(w) /\ c <= LastCta(gemm, w)
      /\ l.idx = LastCta(gemm, w) - c /\ LastCta(gemm, w) \in CTAs
  BY <1>1, SharingFacts DEF Sharing
<1>4. w \in TailWork /\ w \in 0 .. TailTiles(gemm) - 1 /\ Shared(gemm, w)
  BY <1>3 DEF Contended, TailWork
<1>5. lock[l.slot] = l.idx /\ InTurn(w) /\ SlotHolds(w)
  BY <1>1, <1>3 DEF IInv, HoldsTurn
<1>6. sum = Above(l.k0)
  <2> DEFINE a == FirstK(gemm, c, w)
             b == TopK(gemm, c, w)
  <2>1. /\ a \in Nat /\ b \in Nat /\ a < b /\ b <= gemm.kTiles
        /\ c = LastCta(gemm, w) => b = gemm.kTiles
    BY <1>1, <1>3, <1>4, PartFacts
  <2>2. l.k0 = a /\ l.count = b - a /\ acc[c] = RangeCounts(a, b - a)
    BY <1>1, <1>3 DEF InTail, OnPiece, PieceSum
  <2>3. CASE c = LastCta(gemm, w)
    <3>1. l.idx = 0
      BY <1>3, <2>3 DEF CTAs
    <3> QED BY <2>1, <2>2, <2>3, <3>1 DEF Merged, Above
  <2>4. CASE c # LastCta(gemm, w)
    <3>1. l.idx # 0 /\ c < LastCta(gemm, w)
      BY <1>3, <2>4 DEF CTAs
    <3>2. ctmp[l.slot] = Above(b)
      BY <1>1, <1>3, <1>5, <3>1 DEF SlotHolds
    <3>3. sum = PlusCounts(RangeCounts(a, b - a), Above(b))
      BY <2>2, <3>1, <3>2 DEF Merged
    <3> HIDE DEF a, b
    <3>4. a <= b
      BY <2>1
    <3>5. PlusCounts(RangeCounts(a, b - a), Above(b)) = Above(a)
      BY <1>1, <2>1, <3>4, SumOfParts
    <3> QED BY <2>2, <3>3, <3>5
  <2> QED BY <2>3, <2>4
<1> HIDE DEF sum
<1>7. Types'
  <2>1. Count' = Count /\ Tiles' = Tiles
    BY <1>1, Fixed
  <2>2. sum \in Count
    BY <1>6, CountTypes DEF Above
  <2>3. pc' \in [CTAs -> {"pick", "wait", "merge", "publish", "store", "done"}]
    BY <1>1 DEF Types
  <2>4. acc' \in [CTAs -> Count] /\ ctmp' \in [Slots -> Count]
    BY <1>1, <2>2 DEF Types
  <2> QED BY <1>1, <2>1, <2>3, <2>4 DEF Types
<1>8. Above(l.k0)' = Above(l.k0)
  BY <1>1, Fixed
<1>9. Placed(c)'
  <2>1. InTail(c, loop[c])' /\ OnPiece(c, loop[c])'
    BY <1>1, <1>3, FixedRegisters
  <2>2. PieceSum(c)'
    BY <1>1, <1>2, <1>3, <1>4, <1>6, <1>8 DEF PieceSum, Sharing
  <2> QED BY <1>1, <1>2, <1>3, <2>1, <2>2 DEF Placed
<1>10. \A d \in CTAs : Placed(d)'
  BY <1>2, <1>9, OthersPlaced DEF IInv
<1>11. l.slot \in Slots
  BY <1>3 DEF Slots, CTAs
<1>12. ASSUME NEW d \in CTAs PROVE HoldsTurn(d)'
  <2>1. CASE d = c
    BY <1>1, <1>2, <1>5, <1>11, <2>1 DEF HoldsTurn, Types, IsLastSlice
  <2>2. CASE d # c
    <3>1. pc'[d] = pc[d] /\ loop'[d] = loop[d] /\ acc'[d] = acc[d] /\ HoldsTurn(d)
      BY <1>2, <2>2 DEF OnlyMoves, IInv
    <3>2. pc[d] \in {"merge", "publish"} => ctmp'[loop[d].slot] = ctmp[loop[d].slot]
      BY <1>1, <2>2, TurnsApart DEF Types
    <3> QED BY <1>1, <3>1, <3>2 DEF HoldsTurn, IsLastSlice
  <2> QED BY <2>1, <2>2
<1>13. \A v : Released(c, v)' <=> Released(c, v)
  BY <1>1, <1>2 DEF Released
<1>14. ASSUME NEW v \in Contended PROVE InTurn(v)' /\ SlotHolds(v)'
  <2>1. CASE v # w
    <3>1. TileSlot(gemm, v) # l.slot
      BY <1>1, <1>3, <1>4, <2>1, SlotFacts DEF Contended, TailWork
    <3>2. ctmp'[TileSlot(gemm, v)] = ctmp[TileSlot(gemm, v)]
      <4>1. TileSlot(gemm, v) \in Slots
        BY <1>1, SlotFacts DEF Contended, TailWork, Slots, CTAs
      <4> QED BY <1>1, <3>1, <4>1 DEF Types
    <3> QED BY <1>1, <1>2, <1>13, <3>2, TurnStays DEF IInv
  <2>2. CASE v = w
    <3>1. SliceCtas(v)' = SliceCtas(v) /\ \A k : Above(k)' = Above(k)
      BY <1>1, Fixed
    <3>2. SliceCtas(v) \subseteq CTAs /\ FirstCta(gemm, v) \in CTAs
      <4>1. FirstCta(gemm, v) \in CTAs /\ LastCta(gemm, v) \in CTAs
        BY <1>1, <1>4, <2>2, PieceFacts
      <4>2. ASSUME NEW f \in CTAs, NEW z \in CTAs PROVE f .. z \subseteq CTAs
        BY DEF CTAs
      <4> QED BY <4>1, <4>2 DEF SliceCtas
    <3>3. \A d \in CTAs : Released(d, v)' <=> Released(d, v)
      BY <1>2, <1>13, OthersPassed
    <3>4. Turn(v)' = Turn(v)
      <4>1. PICK f \in CTAs : f = FirstCta(gemm, v)
        BY <3>2
      <4> QED BY <1>1, <3>3, <4>1 DEF Turn
    <3>5. InTurn(v)'
      BY <1>1, <1>5, <2>2, <3>1, <3>2, <3>3, <3>4 DEF InTurn
    <3>6. SlotHolds(v)'
      <4> SUFFICES ASSUME NEW d \in SliceCtas(v), l.idx = LastCta(gemm, v) - d
                   PROVE  pc'[d] = "publish" /\ loop'[d].inTail /\ loop'[d].work = v
        BY <1>1, <1>3, <1>5, <2>2, <3>1 DEF SlotHolds
      <4>1. d = c
        BY <1>3, <2>2, <3>2 DEF CTAs
      <4> QED BY <1>1, <1>2, <1>3, <2>2, <4>1
    <3> QED BY <3>5, <3>6
  <2> QED BY <2>1, <2>2
<1>15. Contended' = Contended
  BY <1>1, Fixed
<1>16. LocksIdle'
  BY <1>1, <1>15 DEF IInv, LocksIdle
<1>17. TilesStored'
  BY <1>1, <1>2, NothingStored
<1> QED BY <1>7, <1>10, <1>12, <1>14, <1>15, <1>16, <1>17 DEF IInv

\* While a CTA holds its turn at a tile, that turn is its slice's index.
LEMMA HolderTurn ==
  ASSUME IInv, NEW c \in CTAs, NEW w, loop[c].work = w, pc[c] \in {"merge", "publish"}
  PROVE  /\ Turn(w) = LastCta(gemm, w) - c
         /\ SliceCount(gemm, w) = LastCta(gemm, w) - FirstCta(gemm, w) + 1
         /\ \A d \in SliceCtas(w) : Released(d, w) <=> LastCta(gemm, w) - d < LastCta(gemm, w) - c
<1>1. gemm \in Shape /\ Sharing(c) /\ HoldsTurn(c) /\ Types
  BY GemmShape DEF IInv, Types, Sharing
<1>2. /\ w \in Contended /\ HasPiece(gemm, c, w) /\ c \in SliceCtas(w)
      /\ loop[c].slot = TileSlot(gemm, w) /\ loop[c].slot \in CTAs
      /\ c <= LastCta(gemm, w) /\ FirstCta(gemm, w) <= c
      /\ loop[c].idx = LastCta(gemm, w) - c
      /\ FirstCta(gemm, w) \in CTAs /\ LastCta(gemm, w) \in CTAs
      /\ ~Released(c, w)
  BY <1>1, SharingFacts
<1>3. lock[TileSlot(gemm, w)] = LastCta(gemm, w) - c
  BY <1>1, <1>2 DEF HoldsTurn
<1>4. SliceCount(gemm, w) = LastCta(gemm, w) - FirstCta(gemm, w) + 1
  BY <1>1, <1>2, SliceFacts DEF Contended, TailWork
<1>5. /\ InTurn(w)
      /\ \A d \in SliceCtas(w) : Released(d, w) <=> LastCta(gemm, w) - d < Turn(w)
  BY <1>2 DEF IInv, InTurn
<1>6. ~ LastCta(gemm, w) - c < Turn(w)
  BY <1>2, <1>5
<1>7. Turn(w) = LastCta(gemm, w) - c
  BY <1>2, <1>3, <1>4, <1>6 DEF Turn, CTAs
<1> QED BY <1>4, <1>5, <1>7

\* A publish leaves the other tiles and the other CTAs alone.
LEMMA PublishFrame ==
  ASSUME IInv, NEW c \in CTAs, Publish(c), NEW w, loop[c].work = w
  PROVE  /\ OnlyMoves(c) /\ UNCHANGED <<gemm, skipped, acc, ctmp, tiles>>
         /\ \A d \in CTAs \ {c} : HoldsTurn(d)'
         /\ \A d \in CTAs \ {c} : Placed(d)'
         /\ \A v \in Contended \ {w} : (Released(c, v)' <=> Released(c, v)) =>
              InTurn(v)' /\ SlotHolds(v)'
         /\ lock' \in [Slots -> Nat] /\ LocksIdle'
         /\ lock'[TileSlot(gemm, w)] = NextTurn(loop[c])
<1> DEFINE l == loop[c]
           next == NextTurn(l)
<1>1. /\ UNCHANGED <<gemm, skipped, acc, ctmp, tiles>>
      /\ lock' = [lock EXCEPT ![l.slot] = next]
      /\ pc' = [pc EXCEPT ![c] = IF IsLastSlice(l) THEN "store" ELSE "pick"]
      /\ loop' = [loop EXCEPT ![c] = IF IsLastSlice(l) THEN l ELSE Advance(l)]
      /\ pc[c] = "publish" /\ Types /\ gemm \in Shape
  BY GemmShape DEF Publish, IInv, Types
<1>2. OnlyMoves(c)
  BY <1>1 DEF Types, OnlyMoves
<1>3. w \in Contended /\ l.slot = TileSlot(gemm, w) /\ l.slot \in CTAs
  BY <1>1, SharingFacts DEF Sharing
<1>4. l.slot \in Slots /\ lock[l.slot] \in Nat
  BY <1>1, <1>3 DEF Slots, CTAs, Types
<1>5. next \in Nat
  BY <1>4 DEF NextTurn
<1> HIDE DEF next
<1>6. lock' \in [Slots -> Nat] /\ lock'[TileSlot(gemm, w)] = next
  BY <1>1, <1>3, <1>4, <1>5 DEF Types
<1>7. ASSUME NEW d \in CTAs \ {c} PROVE HoldsTurn(d)' /\ Placed(d)'
  <2>1. /\ pc'[d] = pc[d] /\ loop'[d] = loop[d] /\ acc'[d] = acc[d]
        /\ HoldsTurn(d) /\ Placed(d) /\ d # c /\ d \in CTAs
    BY <1>2 DEF OnlyMoves, IInv
  <2>2. pc[d] \in {"merge", "publish"} => lock'[loop[d].slot] = lock[loop[d].slot]
    BY <1>1, <2>1, TurnsApart DEF Types
  <2>3. HoldsTurn(d)'
    BY <1>1, <2>1, <2>2 DEF HoldsTurn, IsLastSlice
  <2> QED BY <1>2, <2>1, <2>3, OthersPlaced
<1>8. ASSUME NEW v \in Contended \ {w}, Released(c, v)' <=> Released(c, v)
      PROVE  InTurn(v)' /\ SlotHolds(v)'
  <2>1. TileSlot(gemm, v) # l.slot
    BY <1>1, <1>3, SlotFacts DEF Contended, TailWork
  <2>2. TileSlot(gemm, v) \in Slots
    BY <1>1, SlotFacts DEF Contended, TailWork, Slots, CTAs
  <2>3. lock'[TileSlot(gemm, v)] = lock[TileSlot(gemm, v)]
    BY <1>1, <2>1, <2>2 DEF Types
  <2> QED BY <1>1, <1>2, <1>8, <2>3, TurnStays DEF IInv
<1>9. Contended' = Contended
  BY <1>1, Fixed
<1>10. LocksIdle'
  <2> SUFFICES ASSUME NEW s \in Slots, lock'[s] # 0
               PROVE  \E v \in Contended : s = TileSlot(gemm, v)
    BY <1>1, <1>9 DEF LocksIdle
  <2>1. CASE s = l.slot
    BY <1>3, <2>1
  <2>2. CASE s # l.slot
    <3>1. lock[s] # 0
      BY <1>1, <2>2 DEF Types
    <3> QED BY <3>1 DEF IInv, LocksIdle
  <2> QED BY <2>1, <2>2
<1> QED BY <1>1, <1>2, <1>6, <1>7, <1>8, <1>10 DEF next

\* A slice that is not the last passes the turn on to the CTA before it.
LEMMA PassTurnInv ==
  ASSUME IInv, NEW c \in CTAs, Publish(c), ~IsLastSlice(loop[c])
  PROVE  IInv'
<1> DEFINE l == loop[c]
<1> PICK w : w = l.work
  OBVIOUS
<1> DEFINE z == LastCta(gemm, w)
           s == TileSlot(gemm, w)
<1>1. /\ UNCHANGED <<gemm, skipped, acc, ctmp, tiles>>
      /\ pc' = [pc EXCEPT ![c] = "pick"]
      /\ loop' = [loop EXCEPT ![c] = Advance(l)]
      /\ pc[c] = "publish" /\ Types /\ gemm \in Shape /\ l \in Loop
  BY GemmShape DEF Publish, IInv, Types
<1>2. /\ OnlyMoves(c)
      /\ \A d \in CTAs \ {c} : HoldsTurn(d)'
      /\ \A d \in CTAs \ {c} : Placed(d)'
      /\ \A v \in Contended \ {w} : (Released(c, v)' <=> Released(c, v)) =>
           InTurn(v)' /\ SlotHolds(v)'
      /\ lock' \in [Slots -> Nat] /\ LocksIdle'
      /\ lock'[s] = NextTurn(l)
  BY PublishFrame
<1>3. /\ l.inTail /\ InTail(c, l) /\ OnPiece(c, l) /\ PieceSum(c)
      /\ w \in Contended /\ HasPiece(gemm, c, w)
      /\ l.slot = s /\ s \in CTAs
      /\ c \in SliceCtas(w) /\ c <= z /\ FirstCta(gemm, w) <= c
      /\ l.idx = z - c /\ z \in CTAs /\ FirstCta(gemm, w) \in CTAs
      /\ c # FirstCta(gemm, w)
  BY <1>1, SharingFacts DEF Sharing
<1>4. /\ SliceCount(gemm, w) = z - FirstCta(gemm, w) + 1
      /\ \A d \in SliceCtas(w) : Released(d, w) <=> z - d < z - c
  BY <1>1, HolderTurn
<1>5. lock[s] = z - c /\ ctmp[s] = acc[c] /\ acc[c] = Above(l.k0)
  BY <1>1, <1>3 DEF IInv, HoldsTurn, PieceSum
<1>6. lock'[s] = z - c + 1
  BY <1>2, <1>3, <1>5 DEF NextTurn
<1> DEFINE r == Advance(l)
<1>7. r \in Loop /\ InTail(c, r) /\ BetweenPieces(c, r) /\ r.work = w + 1 /\ r.inTail
  BY <1>1, <1>3, AdvanceFacts DEF InTail
<1> HIDE DEF r
<1>8. loop'[c] = r /\ pc'[c] = "pick"
  BY <1>1 DEF Types, r
<1>9. Types'
  <2>1. Count' = Count /\ Tiles' = Tiles
    BY <1>1, Fixed
  <2>2. pc' \in [CTAs -> {"pick", "wait", "merge", "publish", "store", "done"}]
    BY <1>1 DEF Types
  <2>3. loop' \in [CTAs -> Loop]
    BY <1>1, <1>7 DEF Types, r
  <2> QED BY <1>1, <1>2, <2>1, <2>2, <2>3 DEF Types
<1>10. Placed(c)'
  BY <1>1, <1>7, <1>8, FixedRegisters DEF Placed
<1>11. HoldsTurn(c)'
  BY <1>8 DEF HoldsTurn
<1>12. w \in TailWork /\ w \in Nat /\ w \in 0 .. TailTiles(gemm) - 1
  BY <1>3 DEF Contended, TailWork
<1>13. ASSUME NEW v \in TailWork, v # w
       PROVE  v < r.work <=> v < w
  <2>1. v \in Int
    BY DEF TailWork
  <2> QED BY <1>7, <1>12, <1>13, <2>1
<1>14. \A v \in Contended \ {w} : Released(c, v)' <=> Released(c, v)
  BY <1>1, <1>3, <1>7, <1>8, <1>13 DEF Released, Contended
<1>15. SliceCtas(w)' = SliceCtas(w) /\ \A k : Above(k)' = Above(k)
  BY <1>1, Fixed
<1>16. SliceCtas(w) \subseteq CTAs
  <2>1. ASSUME NEW f \in CTAs, NEW e \in CTAs PROVE f .. e \subseteq CTAs
    BY DEF CTAs
  <2> QED BY <1>3, <2>1 DEF SliceCtas
<1>17. z \in Nat /\ c \in Nat /\ FirstCta(gemm, w) \in Nat /\ FirstCta(gemm, w) < c
  BY <1>3 DEF CTAs
<1>18. \A d \in SliceCtas(w) : Released(d, w)' <=> z - d < z - c + 1
  <2> SUFFICES ASSUME NEW d \in SliceCtas(w)
               PROVE  Released(d, w)' <=> z - d < z - c + 1
    OBVIOUS
  <2>1. d \in CTAs /\ d \in Nat
    BY <1>16 DEF CTAs
  <2>2. CASE d = c
    <3>1. w < r.work
      BY <1>7, <1>12
    <3>2. Released(d, w)'
      BY <1>7, <1>8, <2>2, <3>1 DEF Released
    <3> QED BY <1>17, <2>2, <3>2
  <2>3. CASE d # c
    <3>1. Released(d, w)' <=> Released(d, w)
      BY <1>2, <2>1, <2>3, OthersPassed
    <3>2. Released(d, w) <=> z - d < z - c
      BY <1>4
    <3> HIDE DEF z
    <3> QED BY <1>17, <2>1, <2>3, <3>1, <3>2
  <2> QED BY <2>2, <2>3
<1>19. InTurn(w)'
  <2>1. Turn(w)' = z - c + 1
    <3> HIDE DEF z
    <3>1. lock'[s] > 0
      BY <1>3, <1>6, <1>17
    <3> QED BY <1>1, <1>6, <3>1 DEF Turn
  <2>2. lock'[s] \in 0 .. z - FirstCta(gemm, w)
    <3> HIDE DEF z
    <3> QED BY <1>3, <1>6, <1>17
  <2> QED BY <1>1, <1>15, <1>18, <2>1, <2>2 DEF InTurn
<1>20. SlotHolds(w)'
  <2> SUFFICES ASSUME NEW d \in SliceCtas(w), lock'[s] = z - d, d < z
               PROVE  ctmp[s] = Above(TopK(gemm, d, w))
    BY <1>1, <1>15 DEF SlotHolds
  <2>1. d \in CTAs /\ d + 1 = c
    BY <1>3, <1>6, <1>16 DEF CTAs
  <2>2. HasPiece(gemm, d, w)
    BY <1>1, <1>12, <2>1, PieceFacts DEF SliceCtas
  <2>3. TopK(gemm, d, w) = FirstK(gemm, d + 1, w)
    BY <1>1, <1>12, <2>1, <2>2, PartFacts
  <2>4. l.k0 = FirstK(gemm, c, w)
    BY <1>3 DEF InTail
  <2> QED BY <1>5, <2>1, <2>3, <2>4
<1>21. ASSUME NEW v \in Contended PROVE InTurn(v)' /\ SlotHolds(v)'
  BY <1>2, <1>14, <1>19, <1>20
<1>22. TilesStored'
  <2>1. \A v \in TailWork : c = FirstCta(gemm, v) => (v < r.work <=> v < w)
    BY <1>3, <1>13
  <2> QED BY <1>1, <1>2, <1>3, <1>7, <1>8, <2>1, NothingStored
<1>23. Contended' = Contended
  BY <1>1, Fixed
<1> QED BY <1>2, <1>9, <1>10, <1>11, <1>21, <1>22, <1>23 DEF IInv

\* The last slice clears the lock word; every slice of the tile has had its
\* turn by then.
LEMMA LastTurnInv ==
  ASSUME IInv, NEW c \in CTAs, Publish(c), IsLastSlice(loop[c])
  PROVE  IInv'
<1> DEFINE l == loop[c]
<1> PICK w : w = l.work
  OBVIOUS
<1> DEFINE z == LastCta(gemm, w)
           s == TileSlot(gemm, w)
<1>1. /\ UNCHANGED <<gemm, skipped, acc, ctmp, tiles>>
      /\ pc' = [pc EXCEPT ![c] = "store"]
      /\ loop' = [loop EXCEPT ![c] = l]
      /\ pc[c] = "publish" /\ Types /\ gemm \in Shape /\ l \in Loop
  BY GemmShape DEF Publish, IInv, Types
<1>2. /\ OnlyMoves(c)
      /\ \A d \in CTAs \ {c} : HoldsTurn(d)'
      /\ \A d \in CTAs \ {c} : Placed(d)'
      /\ \A v \in Contended \ {w} : (Released(c, v)' <=> Released(c, v)) =>
           InTurn(v)' /\ SlotHolds(v)'
      /\ lock' \in [Slots -> Nat] /\ LocksIdle'
      /\ lock'[s] = NextTurn(l)
  BY PublishFrame
<1>3. /\ l.inTail /\ InTail(c, l) /\ OnPiece(c, l) /\ PieceSum(c)
      /\ w \in Contended /\ HasPiece(gemm, c, w)
      /\ l.slot = s /\ s \in CTAs
      /\ c \in SliceCtas(w) /\ c <= z
      /\ z \in CTAs /\ c = FirstCta(gemm, w)
  BY <1>1, SharingFacts DEF Sharing
<1>4. /\ SliceCount(gemm, w) = z - c + 1
      /\ \A d \in SliceCtas(w) : Released(d, w) <=> z - d < z - c
  BY <1>1, <1>3, HolderTurn
<1>5. lock'[s] = 0
  BY <1>2 DEF NextTurn
<1>6. loop' = loop /\ pc'[c] = "store"
  BY <1>1 DEF Types
<1>7. Types'
  <2>1. Count' = Count /\ Tiles' = Tiles
    BY <1>1, Fixed
  <2>2. pc' \in [CTAs -> {"pick", "wait", "merge", "publish", "store", "done"}]
    BY <1>1 DEF Types
  <2> QED BY <1>1, <1>2, <1>6, <2>1, <2>2 DEF Types
<1>8. w \in TailWork /\ w \in Nat /\ w \in 0 .. TailTiles(gemm) - 1
  BY <1>3 DEF Contended, TailWork
<1>9. Placed(c)'
  <2>1. InTail(c, loop[c])' /\ OnPiece(c, loop[c])'
    BY <1>1, <1>3, <1>6, FixedRegisters
  <2>2. FirstK(gemm, c, w) = 0
    BY <1>1, <1>3, <1>8, PartFacts
  <2>3. acc[c] = Complete
    <3>1. acc[c] = Above(0)
      BY <1>1, <1>3, <2>2 DEF PieceSum, InTail
    <3> QED BY <3>1, SumOfAll DEF IInv, Types
  <2>4. PieceSum(c)'
    BY <1>1, <1>3, <1>6, <2>3, Fixed DEF PieceSum, Sharing
  <2> QED BY <1>3, <1>6, <2>1, <2>4 DEF Placed
<1>10. HoldsTurn(c)'
  BY <1>6 DEF HoldsTurn
<1>11. \A v \in Contended \ {w} : Released(c, v)' <=> Released(c, v)
  BY <1>1, <1>6 DEF Released
<1>12. SliceCtas(w)' = SliceCtas(w)
  BY <1>1, Fixed
<1>13. SliceCtas(w) \subseteq CTAs
  <2>1. ASSUME NEW f \in CTAs, NEW e \in CTAs PROVE f .. e \subseteq CTAs
    BY DEF CTAs
  <2> QED BY <1>3, <2>1 DEF SliceCtas
<1>14. z \in Nat /\ c \in Nat /\ c <= z
  BY <1>3 DEF CTAs
<1>15. Released(c, w)'
  BY <1>3, <1>6 DEF Released
<1>16. ASSUME NEW d \in SliceCtas(w)
       PROVE  Released(d, w)' /\ d \in Nat /\ c <= d
  <2>1. d \in CTAs /\ d \in Nat /\ c <= d
    <3>1. d \in CTAs
      BY <1>13
    <3>2. c <= d
      BY <1>3, <1>14 DEF SliceCtas
    <3> QED BY <3>1, <3>2 DEF CTAs
  <2>2. CASE d = c
    BY <1>15, <2>1, <2>2
  <2>3. CASE d # c
    <3>1. Released(d, w)' <=> Released(d, w)
      BY <1>2, <2>1, <2>3, OthersPassed
    <3>2. Released(d, w) <=> z - d < z - c
      BY <1>4
    <3> HIDE DEF z
    <3> QED BY <1>14, <2>1, <2>3, <3>1, <3>2
  <2> QED BY <2>2, <2>3
<1>17. InTurn(w)'
  <2>1. Turn(w)' = z - c + 1
    <3>1. ~ lock'[s] > 0
      BY <1>5
    <3>2. SliceCount(gemm', w) = z - c + 1
      BY <1>1, <1>4
    <3> QED BY <1>1, <1>3, <1>15, <3>1, <3>2 DEF Turn
  <2>2. lock'[s] \in 0 .. z - FirstCta(gemm, w)
    <3> HIDE DEF z
    <3> QED BY <1>3, <1>5, <1>14
  <2>3. \A d \in SliceCtas(w) : z - d < z - c + 1
    <3> HIDE DEF z
    <3> QED BY <1>14, <1>16
  <2> QED BY <1>1, <1>12, <1>16, <2>1, <2>2, <2>3 DEF InTurn
<1>18. SlotHolds(w)'
  <2> SUFFICES ASSUME NEW d \in SliceCtas(w), lock'[s] = z - d, d < z PROVE FALSE
    BY <1>1, <1>12 DEF SlotHolds
  <2> HIDE DEF z
  <2> QED BY <1>5, <1>14, <1>16
<1>19. ASSUME NEW v \in Contended PROVE InTurn(v)' /\ SlotHolds(v)'
  BY <1>2, <1>11, <1>17, <1>18
<1>20. TilesStored'
  BY <1>1, <1>2, <1>6, NothingStored
<1>21. Contended' = Contended
  BY <1>1, Fixed
<1> QED BY <1>2, <1>7, <1>9, <1>10, <1>19, <1>20, <1>21 DEF IInv

\* What a store writes, and that it writes it to a tile of its own.
LEMMA StoreFacts ==
  ASSUME IInv, NEW c \in CTAs, Store(c)
  PROVE  LET t == TileOf(loop[c])
         IN  /\ t \in Tiles /\ t \div gemm.nTiles \notin skipped
             /\ tiles[t] = Unwritten /\ acc[c] = Complete
             /\ tiles' = [tiles EXCEPT ![t] = Complete]
             /\ t < WaveTiles <=> ~loop[c].inTail
             /\ t < WaveTiles => /\ t = loop[c].work /\ t % grid_x = c
                                 /\ \E y \in Nat : t = c + grid_x * y
             /\ ~ t < WaveTiles =>
                  t - WaveTiles = loop[c].work /\ FirstCta(gemm, t - WaveTiles) = c
<1> DEFINE l == loop[c]
           t == TileOf(l)
           n == gemm.nTiles
<1>1. /\ gemm \in Shape /\ l \in Loop /\ Placed(c) /\ pc[c] = "store" /\ Types
      /\ tiles' = [tiles EXCEPT ![t] = acc[c]]
  BY GemmShape DEF IInv, Types, Store
<1>2. /\ WaveTiles \in Nat /\ MnTiles(gemm) \in Nat /\ TailTiles(gemm) \in Nat
      /\ WaveTiles + TailTiles(gemm) = MnTiles(gemm) /\ n \in Nat \ {0} /\ c \in Nat
      /\ FullWaves(gemm) \in Nat /\ l.work \in Nat /\ l.waves \in Nat
  BY <1>1, ShapeFacts DEF Loop, CTAs
<1>3. CASE ~l.inTail
  <2>1. InWaves(c)
    BY <1>1, <1>3 DEF Placed
  <2> DEFINE q == FullWaves(gemm) - l.waves
  <2> DEFINE tile == c + grid_x * q
  <2>2. /\ l.work = tile - grid_x /\ l.work < WaveTiles /\ l.waves < FullWaves(gemm)
        /\ l.block = l.work \div n /\ l.column = l.work % n /\ l.block \notin skipped
        /\ acc[c] = Complete
    <3> HIDE DEF tile
    <3> QED BY <1>1, <2>1 DEF InWaves, tile
  <2>3. t = l.work
    <3> DEFINE m == l.work
    <3>1. m \in Nat /\ n \in Nat \ {0}
      BY <1>2
    <3> HIDE DEF m, n
    <3>2. (m \div n) * n + (m % n) = m
      BY <3>1
    <3> QED BY <2>2, <3>2 DEF m, n, TileOf
  <2>4. t \in Tiles /\ t \div n \notin skipped
    BY <1>2, <2>2, <2>3 DEF Tiles
  <2>5. t % grid_x = c /\ \E y \in Nat : t = c + grid_x * y
    <3>1. q \in Nat /\ q - 1 \in Nat
      BY <1>2, <2>2
    <3> DEFINE y == q - 1
               m == l.work
    <3> HIDE DEF q
    <3>2. grid_x * y + grid_x = grid_x * q /\ y \in Nat /\ grid_x * y \in Nat
      BY <3>1
    <3>3. m = c + grid_x * y /\ m \in Nat
      <4>1. m = tile - grid_x
        BY <2>2
      <4> HIDE DEF y, m
      <4> QED BY <1>2, <3>2, <4>1
    <3> HIDE DEF y, m
    <3>4. grid_x * y <= m /\ m < grid_x * y + grid_x
      BY <1>2, <3>2, <3>3 DEF CTAs
    <3>5. m \div grid_x = y
      BY <3>2, <3>3, <3>4, DivIs
    <3>6. (m \div grid_x) * grid_x + (m % grid_x) = m /\ m % grid_x \in 0 .. grid_x - 1
      BY <3>3
    <3>7. y * grid_x = grid_x * y
      BY <3>2
    <3>8. m % grid_x = c
      BY <1>2, <3>2, <3>3, <3>5, <3>6, <3>7
    <3> QED BY <2>3, <3>2, <3>3, <3>8 DEF m
  <2>6. tiles[t] = Unwritten
    <3>1. ~Passed(t)
      <4>1. ~ t < loop[c].work
        BY <1>2, <2>3
      <4> HIDE DEF t
      <4> QED BY <1>3, <2>2, <2>3, <2>5, <4>1 DEF Passed
    <3> QED BY <2>4, <3>1 DEF IInv, TilesStored
  <2> HIDE DEF t
  <2> QED BY <1>1, <1>2, <1>3, <2>2, <2>3, <2>4, <2>5, <2>6 DEF t
<1>4. CASE l.inTail
  <2>1. InTail(c, l) /\ OnPiece(c, l) /\ PieceSum(c)
    BY <1>1, <1>4 DEF Placed
  <2>2. /\ l.work \in TailWork /\ HasPiece(gemm, c, l.work) /\ l.block \notin skipped
        /\ c = FirstCta(gemm, l.work) /\ acc[c] = Complete
    BY <1>1, <2>1 DEF OnPiece, PieceSum
  <2>3. /\ t \in Tiles /\ t = WaveTiles + l.work
        /\ t \div n \notin skipped
    BY <1>1, <2>1, <2>2, PieceTile
  <2> HIDE DEF t, l
  <2>4. ~ t < WaveTiles /\ t - WaveTiles = l.work
    BY <1>2, <2>3
  <2>5. tiles[t] = Unwritten
    <3>1. ~ l.work < l.work
      BY <1>2
    <3>2. ~Passed(t)
      BY <2>2, <2>4, <3>1 DEF Passed, l
    <3> QED BY <2>3, <3>2 DEF IInv, TilesStored
  <2> QED BY <1>1, <1>4, <2>2, <2>3, <2>4, <2>5 DEF t, l
<1> QED BY <1>3, <1>4

\* After its store the CTA goes on to the next tile of its waves or stripe.
LEMMA StoreInv ==
  ASSUME IInv, NEW c \in CTAs, Store(c)
  PROVE  IInv'
<1> DEFINE l == loop[c]
           r == Advance(l)
<1>1. /\ UNCHANGED <<gemm, skipped, acc, lock, ctmp>>
      /\ pc' = [pc EXCEPT ![c] = "pick"] /\ pc[c] = "store"
      /\ loop' = [loop EXCEPT ![c] = r]
      /\ Types /\ Placed(c) /\ gemm \in Shape /\ l \in Loop
  BY GemmShape DEF Store, IInv, Types
<1> PICK t \in Tiles : t = TileOf(l)
  BY StoreFacts
<1>2. /\ t \div gemm.nTiles \notin skipped
      /\ tiles' = [tiles EXCEPT ![t] = Complete]
      /\ t < WaveTiles <=> ~l.inTail
      /\ t < WaveTiles => /\ t = l.work /\ t % grid_x = c
                          /\ \E y \in Nat : t = c + grid_x * y
      /\ ~ t < WaveTiles =>
           t - WaveTiles = l.work /\ FirstCta(gemm, t - WaveTiles) = c
  BY StoreFacts
<1>3. OnlyMoves(c) /\ pc'[c] = "pick" /\ loop'[c] = r
  BY <1>1 DEF Types, OnlyMoves
<1>4. /\ WaveTiles \in Nat /\ FullWaves(gemm) \in Nat /\ l.work \in Nat /\ l.waves \in Nat
      /\ c \in Nat /\ t \in Nat
  BY <1>1, ShapeFacts, OwnerFacts DEF Loop, CTAs
<1>5. ASSUME ~l.inTail
      PROVE  r \in Loop /\ ~r.inTail /\ r.waves = l.waves /\ r.slot = l.slot /\ r.work = l.work + grid_x
  <2>1. r = [l EXCEPT !.work = l.work + grid_x]
    BY <1>5 DEF Advance
  <2>2. l.work + grid_x \in Nat
    BY <1>4
  <2> HIDE DEF r
  <2> QED BY <1>1, <1>5, <2>1, <2>2 DEF Loop
<1>6. ASSUME l.inTail
      PROVE  /\ r \in Loop /\ InTail(c, r) /\ BetweenPieces(c, r) /\ r.work = l.work + 1
             /\ r.inTail
  <2>1. InTail(c, l) /\ OnPiece(c, l)
    BY <1>1, <1>6 DEF Placed
  <2> QED BY <1>1, <2>1, AdvanceFacts DEF InTail
<1> HIDE DEF r
<1>7. r.inTail <=> l.inTail
  BY <1>5, <1>6
<1>8. Types'
  <2>1. Count' = Count /\ Tiles' = Tiles
    BY <1>1, Fixed
  <2>2. pc' \in [CTAs -> {"pick", "wait", "merge", "publish", "store", "done"}]
    BY <1>1 DEF Types
  <2>3. loop' \in [CTAs -> Loop]
    BY <1>1, <1>5, <1>6 DEF Types
  <2>4. tiles' \in [Tiles -> Count \cup {Unwritten}]
    BY <1>1, <1>2, CountTypes DEF Types, Complete
  <2> QED BY <1>1, <2>1, <2>2, <2>3, <2>4 DEF Types
<1>9. Placed(c)'
  <2>1. CASE ~l.inTail
    <3> DEFINE tile == c + grid_x * (FullWaves(gemm) - l.waves)
    <3>1. InWaves(c)
      BY <1>1, <2>1 DEF Placed
    <3>2. l.work = tile - grid_x /\ l.waves <= FullWaves(gemm) /\ l.slot = FirstLockSlot(gemm, c)
      <4> HIDE DEF tile
      <4> QED BY <1>1, <3>1 DEF InWaves, tile
    <3>3. tile \in Int
      <4> DEFINE q == FullWaves(gemm) - l.waves
      <4>1. q \in Int
        BY <1>4
      <4> HIDE DEF q
      <4>2. c + grid_x * q \in Int
        BY <1>4, <4>1
      <4> QED BY <4>2 DEF q
    <3> HIDE DEF tile
    <3>4. r.work = tile
      BY <1>5, <2>1, <3>2, <3>3
    <3>5. InWaves(c)'
      BY <1>1, <1>3, <1>5, <2>1, <3>2, <3>4 DEF InWaves, tile
    <3> QED BY <1>3, <1>5, <2>1, <3>5 DEF Placed
  <2>2. CASE l.inTail
    BY <1>1, <1>3, <1>6, <2>2, FixedRegisters DEF Placed
  <2> QED BY <2>1, <2>2
<1>10. HoldsTurn(c)'
  BY <1>3 DEF HoldsTurn
<1>11. \A v \in Contended : Released(c, v)' <=> Released(c, v)
  <2> SUFFICES ASSUME NEW v \in Contended PROVE Released(c, v)' <=> Released(c, v)
    OBVIOUS
  <2>1. v \in Int
    BY DEF Contended, TailWork
  <2>2. l.inTail => (v < r.work <=> v < l.work \/ v = l.work)
    BY <1>4, <1>6, <2>1
  <2> QED BY <1>1, <1>3, <1>7, <2>2 DEF Released
<1>12. TilesStored'
  <2>1. Tiles' = Tiles /\ Complete' = Complete /\ WaveTiles' = WaveTiles
    BY <1>1, Fixed
  <2>2. Passed(t)'
    <3>1. CASE t < WaveTiles
      <4>1. t < r.work
        BY <1>2, <1>4, <1>5, <3>1
      <4> QED BY <1>2, <1>3, <2>1, <3>1, <4>1 DEF Passed
    <3>2. CASE ~ t < WaveTiles
      <4>1. t - WaveTiles < r.work /\ r.inTail
        BY <1>2, <1>4, <1>6, <3>2
      <4> QED BY <1>1, <1>2, <1>3, <2>1, <3>2, <4>1 DEF Passed
    <3> QED BY <3>1, <3>2
  <2>3. ASSUME NEW u \in Tiles, u # t
        PROVE  Passed(u)' <=> Passed(u)
    <3>1. u \in Nat
      BY <1>1, OwnerFacts
    <3>2. ASSUME u < WaveTiles, u % grid_x = c
          PROVE  (r.inTail \/ u < r.work) <=> (l.inTail \/ u < l.work)
      <4>1. CASE l.inTail
        BY <1>7, <4>1
      <4>2. CASE ~l.inTail
        <5>1. t = l.work /\ r.work = t + grid_x
          BY <1>2, <1>5, <4>2
        <5>2. PICK y \in Nat : t = c + grid_x * y
          BY <1>2, <4>2
        <5>3. u < t \/ u = t \/ u >= t + grid_x
          BY <3>1, <3>2, <5>2, WaveFacts
        <5>4. u < t + grid_x <=> u < t
          BY <1>4, <2>3, <3>1, <5>3
        <5> QED BY <1>7, <5>1, <5>4
      <4> QED BY <4>1, <4>2
    <3>3. ASSUME ~ u < WaveTiles, FirstCta(gemm, u - WaveTiles) = c
          PROVE  r.inTail /\ u - WaveTiles < r.work <=> l.inTail /\ u - WaveTiles < l.work
      <4>1. l.inTail => u - WaveTiles # l.work
        BY <1>2, <1>4, <2>3, <3>1
      <4>2. l.inTail => (u - WaveTiles < l.work + 1 <=> u - WaveTiles < l.work)
        <5> HIDE DEF l
        <5> QED BY <1>4, <3>1, <4>1
      <4> QED BY <1>6, <1>7, <4>2
    <3> QED BY <1>1, <1>3, <3>2, <3>3, PassedStays
  <2>4. ASSUME NEW u \in Tiles
        PROVE  tiles'[u] = IF Passed(u)' /\ u \div gemm.nTiles \notin skipped
                           THEN Complete ELSE Unwritten
    <3>1. CASE u = t
      BY <1>1, <1>2, <2>2, <3>1 DEF Types
    <3>2. CASE u # t
      <4>1. tiles'[u] = tiles[u]
        BY <1>1, <1>2, <3>2 DEF Types
      <4>2. tiles[u] = IF Passed(u) /\ u \div gemm.nTiles \notin skipped
                       THEN Complete ELSE Unwritten
        BY DEF IInv, TilesStored
      <4> QED BY <2>3, <3>2, <4>1, <4>2
    <3> QED BY <3>1, <3>2
  <2> QED BY <1>1, <2>1, <2>4 DEF TilesStored
<1> QED BY <1>1, <1>3, <1>8, <1>9, <1>10, <1>11, <1>12, NothingShared

-----------------------------------------------------------------------------
(* The specification.                                                      *)

LEMMA StepInv == IInv /\ [Next]_vars => IInv'
<1> SUFFICES ASSUME IInv, [Next]_vars PROVE IInv'
  OBVIOUS
<1>1. ASSUME NEW c \in CTAs, Step(c) PROVE IInv'
  <2>1. CASE PickWave(c)
    BY <2>1, PickWaveInv
  <2>2. CASE PickTail(c)
    BY <2>2, PickTailInv
  <2>3. CASE Finish(c)
    BY <2>3, FinishInv
  <2>4. CASE TakeTurn(c)
    BY <2>4, TakeTurnInv
  <2>5. CASE Merge(c)
    BY <2>5, MergeInv
  <2>6. CASE Publish(c)
    BY <2>6, PassTurnInv, LastTurnInv
  <2>7. CASE Store(c)
    BY <2>7, StoreInv
  <2> QED BY <1>1, <2>1, <2>2, <2>3, <2>4, <2>5, <2>6, <2>7 DEF Step
<1>2. CASE UNCHANGED vars
  <2>1. /\ gemm' = gemm /\ skipped' = skipped /\ loop' = loop /\ pc' = pc /\ acc' = acc
        /\ lock' = lock /\ ctmp' = ctmp /\ tiles' = tiles
    BY <1>2 DEF vars
  <2>2. /\ WaveTiles' = WaveTiles /\ TailWork' = TailWork /\ Contended' = Contended
        /\ Complete' = Complete /\ Tiles' = Tiles /\ KTiles' = KTiles /\ Count' = Count
        /\ \A w : SliceCtas(w)' = SliceCtas(w)
        /\ \A k : Above(k)' = Above(k)
    BY <2>1, Fixed
  <2>3. Types'
    BY <2>1, <2>2 DEF IInv, Types
  <2>4. ASSUME NEW c \in CTAs PROVE Placed(c)' /\ HoldsTurn(c)'
    <3>1. Placed(c) /\ HoldsTurn(c)
      BY DEF IInv
    <3>2. InWaves(c)' <=> InWaves(c)
      BY <2>1, <2>2 DEF InWaves
    <3>3. PieceSum(c)' <=> PieceSum(c)
      BY <2>1, <2>2 DEF PieceSum, Sharing, RangeCounts
    <3>4. NoneLeft(c)' <=> NoneLeft(c)
      BY <2>1, <2>2 DEF NoneLeft
    <3>5. Placed(c)'
      BY <2>1, <3>1, <3>2, <3>3, <3>4, FixedRegisters DEF Placed
    <3> QED BY <2>1, <3>1, <3>5 DEF HoldsTurn, IsLastSlice
  <2>5. ASSUME NEW w \in Contended PROVE InTurn(w)' /\ SlotHolds(w)'
    BY <2>1, <2>2 DEF IInv, InTurn, SlotHolds, Turn, Released
  <2>6. LocksIdle'
    BY <2>1, <2>2 DEF IInv, LocksIdle
  <2>7. TilesStored'
    BY <2>1, <2>2 DEF IInv, TilesStored, Passed
  <2> QED BY <2>2, <2>3, <2>4, <2>5, <2>6, <2>7 DEF IInv
<1> QED BY <1>1, <1>2 DEF Next

LEMMA SpecInv == Spec => []IInv
<1>1. Init => IInv
  BY InitInv
<1>2. IInv /\ [Next]_vars => IInv'
  BY StepInv
<1> QED BY <1>1, <1>2, PTL DEF Spec

\* No two CTAs are in one slot at a time, and every slot is one the host
\* allocated.
LEMMA ExclusiveFromInv == IInv => SlotExclusive
<1> SUFFICES ASSUME IInv PROVE SlotExclusive
  OBVIOUS
<1>1. \A c \in CTAs : Sharing(c) => loop[c].slot \in CTAs
  BY SharingFacts
<1>2. ASSUME NEW c \in CTAs, NEW d \in CTAs, c # d, {pc[c], pc[d]} \subseteq {"merge", "publish"}
      PROVE  loop[c].slot # loop[d].slot
  BY <1>2, TurnsApart
<1> QED BY <1>1, <1>2 DEF SlotExclusive

\* A slice that is about to merge finds the sum of what is above it.
LEMMA OrderFromInv == IInv => ReductionOrderFixed
<1> SUFFICES ASSUME IInv, NEW c \in CTAs, pc[c] = "merge", loop[c].idx > 0
             PROVE  LET top == loop[c].k0 + loop[c].count
                    IN  ctmp[loop[c].slot] = RangeCounts(top, gemm.kTiles - top)
  BY DEF ReductionOrderFixed
<1> DEFINE l == loop[c]
           w == l.work
           b == TopK(gemm, c, w)
<1>1. Sharing(c) /\ gemm \in Shape /\ HoldsTurn(c)
  BY GemmShape DEF IInv, Types, Sharing
<1>2. /\ InTail(c, l) /\ OnPiece(c, l) /\ w \in Contended /\ HasPiece(gemm, c, w)
      /\ l.slot = TileSlot(gemm, w) /\ c \in SliceCtas(w)
      /\ l.idx = LastCta(gemm, w) - c /\ LastCta(gemm, w) \in CTAs
  BY <1>1, SharingFacts
<1>3. c < LastCta(gemm, w) /\ lock[l.slot] = LastCta(gemm, w) - c
  BY <1>1, <1>2 DEF HoldsTurn, CTAs
<1>4. ctmp[l.slot] = Above(b)
  BY <1>2, <1>3 DEF IInv, SlotHolds
<1>5. l.k0 + l.count = b
  <2>1. FirstK(gemm, c, w) \in Nat /\ b \in Nat
    BY <1>1, <1>2, PartFacts DEF Contended, TailWork
  <2>2. l.k0 = FirstK(gemm, c, w) /\ l.count = b - l.k0
    BY <1>2 DEF InTail, OnPiece
  <2> HIDE DEF b, l
  <2> QED BY <2>1, <2>2
<1> QED BY <1>4, <1>5 DEF Above

\* When all CTAs are done nothing is left to store and no lock is set.
LEMMA NothingLeftFromInv == IInv => LeavesNothingBehind
<1> SUFFICES ASSUME IInv, \A c \in CTAs : pc[c] = "done"
             PROVE  /\ \A t \in Tiles : t \div gemm.nTiles \notin skipped => tiles[t] # Unwritten
                    /\ \A s \in Slots : lock[s] = 0
  BY DEF LeavesNothingBehind
<1>1. gemm \in Shape /\ gemm \in Problems /\ Types
  BY GemmShape DEF IInv, Types
<1>2. \A c \in CTAs : NoneLeft(c) /\ Placed(c)
  BY DEF IInv, Placed
<1>3. ASSUME NEW t \in Tiles, t \div gemm.nTiles \notin skipped
      PROVE  tiles[t] # Unwritten
  <2>1. t \in Nat /\ t % grid_x \in CTAs
    BY <1>1, OwnerFacts
  <2>2. CASE t < WaveTiles
    <3> DEFINE c == t % grid_x
               f == FullWaves(gemm)
    <3>1. c \in CTAs
      BY <2>1
    <3> HIDE DEF c
    <3> SUFFICES ASSUME ~loop[c].inTail PROVE t < loop[c].work
      BY <1>1, <1>3, <2>2, SumOfAll DEF c, IInv, TilesStored, Passed
    <3>2. loop[c].waves = 0 /\ loop[c].work = c + grid_x * (f - loop[c].waves)
      BY <1>2, <3>1 DEF Placed, InWaves
    <3>3. f \in Nat /\ WaveTiles \in Nat /\ WaveTiles <= grid_x * f /\ c \in Nat
      BY <1>1, <3>1, ShapeFacts DEF CTAs
    <3> HIDE DEF f
    <3>4. loop[c].work = c + grid_x * f /\ grid_x * f \in Nat
      BY <3>2, <3>3
    <3> QED BY <2>1, <2>2, <3>3, <3>4
  <2>3. CASE ~ t < WaveTiles
    <3>1. /\ t - WaveTiles \in TailWork /\ FirstCta(gemm, t - WaveTiles) \in CTAs
          /\ HasPiece(gemm, FirstCta(gemm, t - WaveTiles), t - WaveTiles)
      BY <1>1, <2>3, OwnerFacts
    <3>2. Passed(t)
      BY <1>2, <2>3, <3>1 DEF Passed, NoneLeft
    <3> QED BY <1>1, <1>3, <3>2, SumOfAll DEF IInv, TilesStored
  <2> QED BY <2>2, <2>3
<1>4. ASSUME NEW s \in Slots, lock[s] # 0
      PROVE  FALSE
  <2>1. PICK w \in Contended : s = TileSlot(gemm, w)
    BY <1>4 DEF IInv, LocksIdle
  <2>2. /\ w \in TailWork /\ InTurn(w) /\ lock[s] \in Nat
        /\ FirstCta(gemm, w) \in CTAs /\ LastCta(gemm, w) \in CTAs
        /\ FirstCta(gemm, w) <= LastCta(gemm, w)
        /\ \A c \in CTAs : HasPiece(gemm, c, w) <=> c \in FirstCta(gemm, w) .. LastCta(gemm, w)
    BY <1>1, PieceFacts DEF IInv, Types, Contended, TailWork
  <2> DEFINE f == FirstCta(gemm, w)
             z == LastCta(gemm, w)
  <2>3. f \in SliceCtas(w) /\ HasPiece(gemm, f, w)
    BY <2>2 DEF SliceCtas, CTAs
  <2>4. Released(f, w)
    BY <1>2, <2>2, <2>3 DEF NoneLeft, Released
  <2>5. Turn(w) = lock[s] /\ lock[s] \in 0 .. z - f
    BY <1>4, <2>1, <2>2 DEF Turn, InTurn
  <2>6. z - f < Turn(w)
    BY <2>2, <2>3, <2>4 DEF InTurn
  <2> HIDE DEF f, z
  <2>7. f \in Nat /\ z \in Nat
    BY <2>2 DEF CTAs, f, z
  <2> QED BY <2>5, <2>6, <2>7
<1> QED BY <1>3, <1>4

\* What the abstract specification calls the tiles is what the proofs call them.
LEMMA AbstractTiles ==
  ASSUME gemm \in Problems
  PROVE  Abstract!Tile = Tiles /\ Abstract!Complete = Complete
         /\ Abstract!Wanted = {t \in Tiles : t \div gemm.nTiles \notin skipped}
BY SumOfAll DEF Abstract!Tile, Tiles, MnTiles, Abstract!Complete, KTiles, Abstract!Wanted

\* What the output is once all CTAs are done: the wanted tiles, complete.
LEMMA OutputWhenDone ==
  ASSUME IInv, \A c \in CTAs : pc[c] = "done"
  PROVE  \A t \in Tiles :
           tiles[t] = IF t \div gemm.nTiles \notin skipped THEN [k \in KTiles |-> 1] ELSE Unwritten
<1>1. gemm \in Problems /\ TilesStored
  BY DEF IInv, Types
<1>2. \A t \in Tiles : t \div gemm.nTiles \notin skipped => tiles[t] # Unwritten
  BY NothingLeftFromInv DEF LeavesNothingBehind
<1>3. Complete = [k \in KTiles |-> 1]
  BY <1>1, AbstractTiles DEF Abstract!Complete, KTiles
<1> QED BY <1>1, <1>2, <1>3 DEF TilesStored

\* The registers of every CTA, the lock words, the reduction slots and the
\* output always have their types; a slot computed from the schedule is never
\* outside the range that the state allows for.
THEOREM TypesHold == Spec => []TypeOK
<1>1. IInv => TypeOK
  BY TypesCorrect
<1> QED BY <1>1, SpecInv, PTL

\* The reduction area is shared soundly, for every grid and every GEMM: each
\* slot is one of the first grid_x and serves one CTA at a time, every tile is
\* summed in one order whatever the order the CTAs run in, and when the last
\* CTA leaves the loop every wanted tile is stored and every lock word is zero.
THEOREM SlotsAreSound == Spec => []SlotsSound
<1>1. IInv => SlotsSound
  BY TypesCorrect, ExclusiveFromInv, OrderFromInv, NothingLeftFromInv DEF SlotsSound
<1> QED BY <1>1, SpecInv, PTL

-----------------------------------------------------------------------------
(* The refinement of TileGemm.                                             *)

LEMMA InitRefines == Init => Abstract!Init
BY AbstractTiles DEF Init, Abstract!Init

\* A store is the store of a wanted tile; no other step changes the output.
LEMMA StepRefines == IInv /\ [Next]_vars => [Abstract!Next]_<<gemm, skipped, tiles>>
<1> SUFFICES ASSUME IInv, [Next]_vars
             PROVE  Abstract!Next \/ UNCHANGED <<gemm, skipped, tiles>>
  OBVIOUS
<1>1. ASSUME NEW c \in CTAs, Store(c) PROVE Abstract!Next
  <2>1. PICK t \in Tiles :
          /\ t \div gemm.nTiles \notin skipped
          /\ tiles[t] = Unwritten /\ tiles' = [tiles EXCEPT ![t] = Complete]
    BY <1>1, StoreFacts
  <2>2. UNCHANGED <<gemm, skipped>>
    BY <1>1 DEF Store
  <2>3. t \in Abstract!Wanted /\ Abstract!Complete = Complete
    BY <2>1, AbstractTiles DEF IInv, Types
  <2>4. Abstract!StoreTile(t)
    BY <2>1, <2>2, <2>3 DEF Abstract!StoreTile
  <2> QED BY <2>3, <2>4 DEF Abstract!Next
<1>2. ASSUME NEW c \in CTAs, Step(c), ~Store(c) PROVE UNCHANGED <<gemm, skipped, tiles>>
  BY <1>2 DEF Step, PickWave, PickTail, Emit, Finish, TakeTurn, Merge, Publish
<1>3. CASE UNCHANGED vars
  BY <1>3 DEF vars
<1> QED BY <1>1, <1>2, <1>3 DEF Next

\* Split-K and its turn-taking do not show: every wanted tile is stored once,
\* with every k-tile accumulated exactly once, and no other tile is written.
THEOREM GemmRefinement == Spec => ImplementsTileGemm
<1>1. Init => Abstract!Init
  BY InitRefines
<1>2. IInv /\ [Next]_vars => [Abstract!Next]_<<gemm, skipped, tiles>>
  BY StepRefines
<1> QED BY <1>1, <1>2, SpecInv, PTL DEF Spec, ImplementsTileGemm, Abstract!Spec
=============================================================================

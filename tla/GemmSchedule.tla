---------------------------- MODULE GemmSchedule -----------------------------
(***************************************************************************)
(* How a W4A16 persistent GEMM divides its work (the scheduling half of    *)
(* _run_persistent_gemm in w4a16/kernel.py).  The output is a grid of      *)
(* mn-tiles, each a reduction over kTiles k-tiles.  Whole tiles are given  *)
(* out in waves of grid_x; what is left, the tail, is cut along K into one *)
(* equal stripe of k-tiles per CTA, so that a tile may be shared by        *)
(* several CTAs and a CTA may work on several tiles.                       *)
(*                                                                         *)
(* Everything here is integer arithmetic each CTA does for itself, from    *)
(* its own index: nothing tells two CTAs what the other one decided.       *)
(***************************************************************************)
EXTENDS Integers

CONSTANT grid_x         \* CTAs in the launch, numbered 0 .. grid_x - 1

ASSUME GridAssumption == grid_x \in Nat \ {0}

CTAs == 0 .. grid_x - 1

CeilDiv(a, b) == (a + b - 1) \div b

\* A GEMM: routeBlocks x nTiles output tiles of kTiles k-tiles, and the
\* compile-time partition the kernel was built with.
Mode == {"split_k", "whole_tiles", "m_block_8"}

MnTiles(g) == g.routeBlocks * g.nTiles

\* uses_m_block_8 without small_m_splitk: one whole tile for each of the
\* first MnTiles CTAs, when they all fit in the grid.
ForceOneTilePerCta(g) == g.mode = "m_block_8" /\ MnTiles(g) <= grid_x

\* mn-tiles that are striped along K.  A last wave that would leave two
\* thirds of the grid idle is merged with the wave before it.
TailTiles(g) ==
  LET ragged == MnTiles(g) - (MnTiles(g) \div grid_x) * grid_x
  IN  CASE g.mode = "whole_tiles" \/ ForceOneTilePerCta(g) -> 0
        [] OTHER ->
             IF MnTiles(g) <= grid_x THEN MnTiles(g)
             ELSE IF ragged * 3 <= grid_x THEN ragged + grid_x ELSE ragged

\* Whole-tile waves before the tail.
FullWaves(g) ==
  CASE g.mode = "whole_tiles"  -> CeilDiv(MnTiles(g), grid_x)
    [] ForceOneTilePerCta(g)   -> 1
    [] OTHER -> IF MnTiles(g) > grid_x
                THEN (MnTiles(g) - TailTiles(g)) \div grid_x ELSE 0

\* Stripe length in k-tiles: CTA c owns [Iters * c, Iters * (c + 1)) of the
\* tail's tiles laid end to end along K.
Iters(g) == CeilDiv(g.kTiles * TailTiles(g), grid_x)

\* A mutant: slots counted from one tile too low.
FirstLockSlot_TooLow(g, c) ==
  IF TailTiles(g) >= grid_x THEN c ELSE (Iters(g) * c) \div g.kTiles - 2

\* The slot a CTA's stripe starts from; it moves on as pieces are done.
FirstLockSlot(g, c) ==
  IF TailTiles(g) >= grid_x THEN c ELSE (Iters(g) * c) \div g.kTiles - 1

\* The first k-tile of tail tile w that CTA c has not handed to the CTA
\* before it, and how many of the tile's k-tiles c takes from k0 on.
TailShare(g, c, w, k0) ==
  LET upto == Iters(g) * (c + 1) - (g.kTiles * w + k0)
      own  == IF upto < 0 THEN 0 ELSE upto
  IN  IF k0 + own > g.kTiles THEN g.kTiles - k0 ELSE own

\* The stripe boundary at or after the start of tail tile w.
FirstBoundary(g, w) == Iters(g) * CeilDiv(g.kTiles * w, Iters(g))

BoundaryInside(g, w) == FirstBoundary(g, w) <= g.kTiles * (w + 1)

BoundaryOffset(g, w) == FirstBoundary(g, w) - g.kTiles * w

\* A mutant: the stripe that reaches into w from before is not counted.
SliceCount_NoCarryIn(g, w) ==
  IF ~BoundaryInside(g, w) THEN 1
  ELSE CeilDiv(g.kTiles - BoundaryOffset(g, w), Iters(g))

\* How many stripes tail tile w is cut into.
SliceCount(g, w) ==
  IF ~BoundaryInside(g, w) THEN 1
  ELSE CeilDiv(g.kTiles - BoundaryOffset(g, w), Iters(g))
         + (IF BoundaryOffset(g, w) > 0 THEN 1 ELSE 0)

\* The turn of CTA c among the slices of tail tile w: the stripe that holds
\* the tile's first k-tile merges last and stores the tile.
SliceIdx(g, c, w) ==
  LET last  == SliceCount(g, w) - 1
      off   == BoundaryOffset(g, w)
      delta == Iters(g) * c - FirstBoundary(g, w)
  IN  IF ~BoundaryInside(g, w) THEN 0
      ELSE IF delta < 0 \/ (off = 0 /\ delta = 0) THEN last
      ELSE last - delta \div Iters(g) - (IF off > 0 THEN 1 ELSE 0)

=============================================================================

------------------------------ MODULE TileGemm -------------------------------
(***************************************************************************)
(* What a tiled GEMM promises: every output tile that has an expert is     *)
(* stored once, complete, and no other tile is ever written.  A tile's     *)
(* value is how often each of its k-tiles went into it.                    *)
(***************************************************************************)
EXTENDS Naturals

CONSTANTS Unwritten     \* the value of a tile before its store

VARIABLES gemm,         \* the problem: routeBlocks, nTiles, kTiles
          skipped,      \* route blocks that have no expert on this rank
          tiles         \* the output, indexed by mn-tile

Tile == 0 .. gemm.routeBlocks * gemm.nTiles - 1

Wanted == {t \in Tile : t \div gemm.nTiles \notin skipped}

Complete == [k \in 0 .. gemm.kTiles - 1 |-> 1]

Init == tiles = [t \in Tile |-> Unwritten]

StoreTile(t) ==
  /\ tiles[t] = Unwritten
  /\ tiles' = [tiles EXCEPT ![t] = Complete]
  /\ UNCHANGED <<gemm, skipped>>

Next == \E t \in Wanted : StoreTile(t)

Spec == Init /\ [][Next]_<<gemm, skipped, tiles>>

=============================================================================

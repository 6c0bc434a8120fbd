----------------------------- MODULE RepackRows -----------------------------
(***************************************************************************)
(* Turning logical FP4 expert weights and their E8M0 scales into tiles for *)
(* the W4A8 kernels, in the bytes they already occupy                      *)
(* (_prepare_w4a8_from_e8m0_source and the two Triton kernels under it,    *)
(* b12x/moe/fused_moe/_impl.py).  Rows are placed in tiles of Tile (256 in *)
(* the code); the programs of a launch run in any order.  Columns keep     *)
(* their place in the padded tile and are left out, but for whether they   *)
(* fill it: "tailK".                                                       *)
(***************************************************************************)
EXTENDS Integers, FiniteSets

CONSTANTS
    Tile,      \* rows of a tile
    NumExperts,
    Chunk,     \* experts converted with one scratch
    Shapes     \* [rows, gated, rotation, tailK]

HalfTile == Tile \div 2

ASSUME TileAssumption == Tile \in Nat \ {0} /\ Tile % 2 = 0
ASSUME ChunkAssumption == {NumExperts, Chunk} \subseteq Nat \ {0}

\* w13 sources have the up half first, w31 sources the gate half
IsShape(s) ==
    /\ s.rows \in Nat \ {0}
    /\ s.gated \in BOOLEAN /\ s.tailK \in BOOLEAN
    /\ s.rotation \in Nat
    /\ s.gated => (s.rows % 2 = 0 /\ s.rotation \in {0, s.rows \div 2})
    /\ ~s.gated => s.rotation = 0

ASSUME ShapeAssumption == \A s \in Shapes : IsShape(s)

Ceil(a, b) == (a + b - 1) \div b
Tiles(s) == Ceil(s.rows, Tile)

(* A shape its tiles do not divide is written to storage of its own.       *)
HasTail(s) == s.rows % Tile # 0 \/ s.tailK

Half(s) == s.rows \div 2
HalfPad(s) == IF HasTail(s) /\ s.gated THEN Ceil(Half(s), HalfTile) * HalfTile ELSE 0

-----------------------------------------------------------------------------
(* The source row of destination row d, or NoRow where zeros are written.  *)

NoRow == -1

HalfRow(s, pad, d) ==
    LET gate == d >= pad
        within == IF gate THEN d - pad ELSE d
        base == s.rotation + (IF gate THEN Half(s) ELSE 0)
        start == IF base >= 2 * Half(s) THEN base - 2 * Half(s) ELSE base
    IN IF d < 2 * pad /\ within < Half(s) THEN start + within ELSE NoRow

TurnedRow(s, d) ==
    LET row == d + s.rotation
    IN IF d >= s.rows THEN NoRow ELSE IF row >= s.rows THEN row - s.rows ELSE row

\* mutation: the scales pad their halves to the half itself
ScaleRowTight(s, d) ==
    IF HalfPad(s) > 0 THEN HalfRow(s, Half(s), d) ELSE TurnedRow(s, d)

WeightRow(s, d) == IF HalfPad(s) > 0 THEN HalfRow(s, HalfPad(s), d) ELSE TurnedRow(s, d)
ScaleRow(s, d) == IF HalfPad(s) > 0 THEN HalfRow(s, HalfPad(s), d) ELSE TurnedRow(s, d)

Placed(part, s, d) == IF part = "weight" THEN WeightRow(s, d) ELSE ScaleRow(s, d)

-----------------------------------------------------------------------------
(* The conversion.                                                         *)

VARIABLES
    shape,
    source,    \* part -> expert -> row -> the logical row there
    fresh,     \* part -> expert -> destination row -> logical row, for tails
    part,      \* "weight", then "scale", then "done"
    first,     \* first expert of the chunk
    scratch,   \* expert of the chunk -> row -> logical row
    ran        \* programs of the launch that have run: <<expert, tile>>

repackVars == <<shape, source, fresh, part, first, scratch, ran>>

Parts == {"weight", "scale"}
Members == 0 .. NumExperts - 1
Rows(s) == 0 .. s.rows - 1
Padded(s) == 0 .. Tiles(s) * Tile - 1

ChunkOf(e0) == {e \in Members : e0 <= e /\ e < e0 + Chunk}
Programs(e0, s) == ChunkOf(e0) \X (0 .. Tiles(s) - 1)
RowsOf(tile) == tile * Tile .. tile * Tile + Tile - 1

RepackInit ==
    /\ shape \in Shapes
    /\ source = [p \in Parts |-> [e \in Members |-> [r \in Rows(shape) |-> r]]]
    /\ fresh = [p \in Parts |-> [e \in Members |-> [d \in Padded(shape) |-> NoRow]]]
    /\ part = "weight"
    /\ first = 0
    /\ scratch = <<>>
    /\ ran = {}

(* The weight kernel of a tail reads the source itself, which it does not  *)
(* write; everything else is read from the chunk's scratch.                *)
ReadsScratch(p, s) == p = "scale" \/ ~HasTail(s)

CopyChunk ==
    /\ part # "done"
    /\ scratch = <<>> /\ ran = {}
    /\ scratch' = [e \in ChunkOf(first) |-> source[part][e]]
    /\ UNCHANGED <<shape, source, fresh, part, first, ran>>

\* mutation: the kernel converts in place from the storage it writes
ReadInPlace(e, row) == source[part][e][row]

Read(e, row) == IF ReadsScratch(part, shape) THEN scratch[e][row] ELSE source[part][e][row]

(* One program fills one tile of one expert.                               *)
Program(e, tile) ==
    /\ part # "done"
    /\ <<e, tile>> \in Programs(first, shape) \ ran
    /\ DOMAIN scratch = ChunkOf(first)
    /\ LET value(d) == IF Placed(part, shape, d) = NoRow THEN NoRow
                       ELSE Read(e, Placed(part, shape, d))
       IN IF HasTail(shape)
          THEN /\ fresh' = [fresh EXCEPT ![part][e] =
                     [d \in Padded(shape) |-> IF d \in RowsOf(tile) THEN value(d) ELSE @[d]]]
               /\ UNCHANGED source
          ELSE /\ source' = [source EXCEPT ![part][e] =
                     [d \in Rows(shape) |-> IF d \in RowsOf(tile) THEN value(d) ELSE @[d]]]
               /\ UNCHANGED fresh
    /\ ran' = ran \cup {<<e, tile>>}
    /\ UNCHANGED <<shape, part, first, scratch>>

NextChunk ==
    /\ part # "done"
    /\ ran = Programs(first, shape)
    /\ scratch' = <<>>
    /\ ran' = {}
    /\ IF first + Chunk < NumExperts
       THEN first' = first + Chunk /\ UNCHANGED part
       ELSE /\ first' = 0
            /\ part' = IF part = "weight" THEN "scale" ELSE "done"
    /\ UNCHANGED <<shape, source, fresh>>

RepackNext ==
    \/ CopyChunk \/ NextChunk
    \/ \E e \in Members, tile \in 0 .. Tiles(shape) - 1 : Program(e, tile)

RepackSpec == RepackInit /\ [][RepackNext]_repackVars

-----------------------------------------------------------------------------
Converted(p, e) == IF HasTail(shape) THEN fresh[p][e] ELSE source[p][e]
Where(p, e, row) == {d \in DOMAIN Converted(p, e) : Converted(p, e)[d] = row}

(* The CPU form of the conversion, for shapes without a tail: blocks of a  *)
(* tile's rows from a turned start, wrapping at the end.                   *)
CpuRow(s, d) == ((d \div Tile) * Tile + s.rotation + (d % Tile)) % s.rows

(* After the conversion every logical row is in the storage exactly once,  *)
(* a weight row and its scale row at the same place, and a shape without a *)
(* tail is laid out as the CPU form lays it out -- although the storage    *)
(* was read and written by the same launches.                              *)
RowsConverted ==
    part = "done" =>
        \A e \in Members, row \in Rows(shape) :
            /\ Cardinality(Where("weight", e, row)) = 1
            /\ Where("weight", e, row) = Where("scale", e, row)
            /\ ~HasTail(shape) =>
                  \A d \in Where("weight", e, row) : CpuRow(shape, d) = row

(* An up row and the gate row of its column are a whole number of half     *)
(* tiles apart, up first, in weights and scales.                           *)
HalvesPaired ==
    part = "done" /\ shape.gated =>
        \A p \in Parts, e \in Members, i \in 0 .. Half(shape) - 1 :
            \A up \in Where(p, e, (shape.rotation + i) % shape.rows),
               gate \in Where(p, e, (shape.rotation + Half(shape) + i) % shape.rows) :
                /\ up % HalfTile = i % HalfTile
                /\ gate - up = Ceil(Half(shape), HalfTile) * HalfTile

\* Every row is where the kernel reads it, with its own scales.
RepackedRight == RowsConverted /\ HalvesPaired
=============================================================================

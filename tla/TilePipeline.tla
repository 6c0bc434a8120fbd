---------------------------- MODULE TilePipeline ----------------------------
(***************************************************************************)
(* One CTA of the W4A16 GEMM at work on its tiles, below the level of      *)
(* PersistentGemm: how the k-tiles of a slice travel through the ring of   *)
(* shared-memory stages into the accumulators (_run_tile_m8 and            *)
(* _run_tile_large_m), and how the accumulators are folded, merged and     *)
(* stored (_finish_tile).                                                  *)
(*                                                                         *)
(* The actors are the warps of the CTA.  They form rows, which split a     *)
(* k-tile among them (warp_row, red_idx), and columns, which split the     *)
(* output tile (tb_n_warps).  Warps run freely between two sync_threads.   *)
(* An access to shared memory is a step; registers are private.            *)
(*                                                                         *)
(* The B stages share their memory with the count of valid rows, with the  *)
(* slots of the fold and with the output on its way out (sh_b_off,         *)
(* sh_red_off and sh_valid_count_off are equal).                           *)
(***************************************************************************)
EXTENDS Naturals, Sequences, FiniteSets, Functions

CONSTANTS
  Stages,       \* _STAGES
  Bundles,      \* b_sh_wr_iters, 2 for every tile the constructor accepts
  Ctas,         \* shapes: rows and columns of warps, 16-row blocks, packed routes
  Works         \* the sequences of tiles to consider

(***************************************************************************)
(* A tile is [first, count, slices, slice]: reduce_k_tile,                 *)
(* reduce_tile_count, reduce_slice_count and reduce_slice_idx.             *)
(***************************************************************************)
ASSUME PipelineAssumption ==
  /\ Stages \in Nat /\ Stages >= 2
  /\ Bundles \in Nat /\ Bundles >= 2
  /\ Ctas \subseteq [rows : {1, 2, 4}, cols : Nat \ {0}, blocks : Nat \ {0}, packed : BOOLEAN]
  /\ Works \subseteq Seq([first : Nat, count : Nat \ {0}, slices : Nat \ {0}, slice : Nat])
  /\ \A ts \in Works : \A n \in DOMAIN ts : ts[n].slice < ts[n].slices

VARIABLES
  cta,      \* the shape of this CTA
  work,     \* the tiles it runs, one after another
  warp,     \* per warp: where it is, and how many sync_threads it arrived at
  smem,     \* per stage and warp: what the warp's chunks of the stage hold
  flight,   \* per warp: the cp.async groups committed and not waited for
  routes,   \* the tile whose routes are in shared memory
  valid,    \* per warp: the tile whose count of valid rows it read
  cur,      \* per warp: a_regs_cur and b_scale_cur
  next,     \* per warp: a_regs_next and b_scale_next
  acc,      \* per warp and block: the bundles accumulated, in order
  out       \* per tile and warp: what it stored, or merged

memory       == <<smem, flight, routes>>
regs         == <<valid, cur, next, acc>>
pipelineVars == <<cta, work, warp, memory, regs, out>>

Warp  == 0 .. cta.rows * cta.cols - 1
Col   == 0 .. cta.cols - 1
Stage == 0 .. Stages - 1
Block == 0 .. cta.blocks - 1

RowOf(w) == w \div cta.cols
ColOf(w) == w % cta.cols

Empty       == [kind |-> "empty"]
Garbage     == [kind |-> "garbage"]
Data(j, k)  == [kind |-> "data", tile |-> j, k |-> k]
CountOf(j)  == [kind |-> "count", tile |-> j]
Partial(v)  == [kind |-> "partial", sum |-> v]
Output(v)   == [kind |-> "output", blocks |-> v]

Bundle(j, k, w, kk) == [kind |-> "bundle", tile |-> j, k |-> k, warp |-> w, kk |-> kk]

PipelineInit ==
  /\ cta \in Ctas /\ work \in Works
  /\ warp = [w \in Warp |-> [at |-> "routes", tile |-> 1, idx |-> 0, kk |-> 0,
                           block |-> 0, syncs |-> 0]]
  /\ smem = [p \in Stage |-> [w \in Warp |-> Empty]]
  /\ flight = [w \in Warp |-> <<>>]
  /\ routes = 0
  /\ valid = [w \in Warp |-> Empty]
  /\ cur = [w \in Warp |-> Empty] /\ next = [w \in Warp |-> Empty]
  /\ acc = [w \in Warp |-> [b \in Block |-> <<>>]]
  /\ out = [j \in DOMAIN work |-> [w \in Warp |-> Empty]]

-----------------------------------------------------------------------------
\* Control

TileOf(w) == work[warp[w].tile]
Pipe(w) == warp[w].idx % Stages

\* A warp is held up by sync_threads until every warp has arrived there.
At(w, label) ==
  /\ warp[w].tile \in DOMAIN work /\ warp[w].at = label
  /\ \A v \in Warp : warp[v].syncs >= warp[w].syncs

Goto(w, label)     == warp' = [warp EXCEPT ![w].at = label]
SyncGoto(w, label) == warp' = [warp EXCEPT ![w].at = label, ![w].syncs = @ + 1]
SyncNextTile(w)    ==
  warp' = [warp EXCEPT ![w].at = "routes", ![w].tile = @ + 1, ![w].idx = 0,
                       ![w].kk = 0, ![w].block = 0, ![w].syncs = @ + 1]

-----------------------------------------------------------------------------
\* Shared memory.  A chunk a copy is under way to holds nothing definite.

Group(p, k)       == [stage |-> p, k |-> k]
NoGroup           == Empty
Seen(p, v)        == IF \E n \in DOMAIN flight[v] : flight[v][n] # NoGroup /\ flight[v][n].stage = p
                       THEN Garbage ELSE smem[p][v]
SeenAt(cells)     == {Seen(x[1], x[2]) : x \in cells}
Scratch(cells, x) == [p \in Stage |-> [v \in Warp |-> IF <<p, v>> \in cells THEN x ELSE smem[p][v]]]

\* In units of b_sh_stride int4: a stage has 2 * rows of them, a slot of the
\* fold 8, and each 16-row block of the output 4 (and a little).  A slot holds
\* one column after the other, the output has all columns in every line.
SlotStages(slot) == {p \in Stage : 2 * cta.rows * p < 8 * (slot + 1)
                                   /\ 8 * slot < 2 * cta.rows * (p + 1)}
OutputStages     == {p \in Stage : 2 * cta.rows * p <= 4 * cta.blocks}

SlotCells(slot, c) == SlotStages(slot) \X {v \in Warp : ColOf(v) = c}
OutputCells(c)     == OutputStages \X {v \in Warp : (RowOf(v) + ColOf(v)) % cta.cols = c}

\* _load_a_register_bundle and _load_b_scale_register_bundle: the chunks all
\* warps brought to stage p, decoded as k-tile k.
Load(w, p, kk, k) ==
  IF SeenAt({p} \X Warp) = {Data(warp[w].tile, k)}
    THEN Bundle(warp[w].tile, k, w, kk) ELSE Garbage

\* Mutant: the lookahead does not stop at the end of the slice.
StageGroup_PastEnd(w, idx) == Group(idx % Stages, TileOf(w).first + idx)

\* cp_async_commit_group, also when there is nothing left to stage: an empty
\* group keeps the count that wait_group goes by.
StageGroup(w, idx) ==
  IF idx < TileOf(w).count THEN Group(idx % Stages, TileOf(w).first + idx) ELSE NoGroup

\* cp_async_wait_group: all groups but the youngest few have landed.
Landed(w, youngest) == {n \in DOMAIN flight[w] : n + youngest <= Len(flight[w])}

WaitGroup(w, youngest) ==
  LET hits(p) == {n \in Landed(w, youngest) : flight[w][n] # NoGroup /\ flight[w][n].stage = p} IN
  /\ smem' = [p \in Stage |-> [smem[p] EXCEPT ![w] =
       IF hits(p) = {} THEN @
       ELSE Data(routes, flight[w][CHOOSE n \in hits(p) : TRUE].k)]]
  /\ flight' = [flight EXCEPT ![w] =
       SubSeq(@, Cardinality(Landed(w, youngest)) + 1, Len(@))]

-----------------------------------------------------------------------------
\* _read_moe_block_data

\* The first warps bring in the routes of the block: packed routes by copies
\* that every thread waits for, the count of valid rows still to come.
ReadRoutes(w) ==
  /\ At(w, "routes")
  /\ routes' = IF w = 0 THEN warp[w].tile ELSE routes
  /\ IF cta.packed
       THEN WaitGroup(w, 0) /\ SyncGoto(w, "count") /\ UNCHANGED valid
       ELSE /\ valid' = [valid EXCEPT ![w] = CountOf(warp[w].tile)]
            /\ SyncGoto(w, "prologue") /\ UNCHANGED <<smem, flight>>
  /\ UNCHANGED <<cta, work, cur, next, acc, out>>

\* The last warp counts the valid ones, into a word under stage 0.
CountRows(w) ==
  /\ At(w, "count")
  /\ smem' = IF w + 1 \notin Warp THEN [smem EXCEPT ![0][0] = CountOf(routes)] ELSE smem
  /\ SyncGoto(w, "valid")
  /\ UNCHANGED <<cta, work, flight, routes, regs, out>>

ReadCount(w) ==
  /\ At(w, "valid")
  /\ valid' = [valid EXCEPT ![w] = Seen(0, 0)]
  /\ SyncGoto(w, "prologue")
  /\ UNCHANGED <<cta, work, memory, cur, next, acc, out>>

-----------------------------------------------------------------------------
\* The pipeline

\* Mutant: one more group may be under way.
Behind_OneMore == Stages - 1

\* How many groups wait_group leaves under way.
Behind == Stages - 2

\* _prefetch_initial_tiles
Prologue(w) ==
  /\ At(w, "prologue")
  /\ flight' = [flight EXCEPT ![w] = @ \o [n \in 1 .. Stages - 1 |-> StageGroup(w, n - 1)]]
  /\ Goto(w, "primed")
  /\ UNCHANGED <<cta, work, smem, routes, regs, out>>

Primed(w) ==
  /\ At(w, "primed")
  /\ WaitGroup(w, Behind)
  /\ acc' = [acc EXCEPT ![w] = [b \in Block |-> <<>>]]
  /\ SyncGoto(w, "first")
  /\ UNCHANGED <<cta, work, routes, valid, cur, next, out>>

\* The first bundle of a round over the stages.
LoadFirst(w) ==
  /\ At(w, "first")
  /\ cur' = [cur EXCEPT ![w] = Load(w, 0, 0, TileOf(w).first + warp[w].idx)]
  /\ Goto(w, "next")
  /\ UNCHANGED <<cta, work, memory, valid, next, acc, out>>

\* _load_next_fragment_bundle: the next bundle, the last one being the first of
\* the next stage.
LoadNext(w) ==
  LET r == warp[w]
      k == TileOf(w).first + r.idx IN
  /\ At(w, "next")
  /\ next' = [next EXCEPT ![w] =
       IF r.kk + 1 < Bundles THEN Load(w, Pipe(w), r.kk + 1, k)
       ELSE IF r.idx + 1 < TileOf(w).count THEN Load(w, (Pipe(w) + 1) % Stages, 0, k + 1)
       ELSE Empty]
  /\ Goto(w, IF r.kk = Bundles - 2 THEN "ahead" ELSE "mma")
  /\ UNCHANGED <<cta, work, memory, valid, cur, acc, out>>

\* _prefetch_lookahead_tile: into the stage behind the one in use.
Lookahead(w) ==
  /\ At(w, "ahead")
  /\ flight' = [flight EXCEPT ![w] = Append(@, StageGroup(w, warp[w].idx + Stages - 1))]
  /\ Goto(w, "wait")
  /\ UNCHANGED <<cta, work, smem, routes, regs, out>>

WaitStages(w) ==
  /\ At(w, "wait")
  /\ WaitGroup(w, Behind)
  /\ SyncGoto(w, "mma")
  /\ UNCHANGED <<cta, work, routes, regs, out>>

\* Mutant: the k-tile is counted within the slice, not within the expert.
DecodedK_SliceLocal(w) == warp[w].idx

\* The k-tile a bundle is decoded as, which decides its bitrate.
DecodedK(w) == TileOf(w).first + warp[w].idx

\* _dequant_and_accumulate_bundle
Product(w) == IF cur[w].kind = "bundle" /\ cur[w].k = DecodedK(w) THEN cur[w] ELSE Garbage

\* The stages have been gone through once, or the slice is at its end.
RoundEnd(w, label) ==
  warp' = [warp EXCEPT ![w].at = label, ![w].idx = @ + 1, ![w].kk = 0, ![w].syncs = @ + 1]

\* Where the fold starts: rows beyond the first two hand over first.
FoldStart == CASE cta.rows = 4 -> "fold"
               [] cta.rows = 2 -> "foldHalf"
               [] OTHER -> "turn"

\* One step of _run_mma_pipeline.
Accumulate(w) ==
  LET r == warp[w] IN
  /\ At(w, "mma")
  /\ acc' = [acc EXCEPT ![w] = [b \in Block |-> Append(@[b], Product(w))]]
  /\ cur' = [cur EXCEPT ![w] = next[w]]
  /\ IF r.kk + 1 < Bundles THEN warp' = [warp EXCEPT ![w].at = "next", ![w].kk = @ + 1]
     ELSE IF r.idx + 1 = TileOf(w).count THEN RoundEnd(w, FoldStart)
     ELSE IF (r.idx + 1) % Stages = 0 THEN RoundEnd(w, "first")
     ELSE warp' = [warp EXCEPT ![w].at = "next", ![w].idx = @ + 1, ![w].kk = 0]
  /\ UNCHANGED <<cta, work, memory, valid, next, out>>

-----------------------------------------------------------------------------
\* _fold_cta_partials_m8 and _fold_cta_partials_large_m_block, block by block

\* What cells that were written as one hold.
Content(cells, kind) ==
  LET seen == SeenAt(cells)
      one  == CHOOSE x \in seen : TRUE IN
  IF Cardinality(seen) = 1 /\ one.kind = kind THEN one ELSE Garbage

SlotSum(slot, c) ==
  LET x == Content(SlotCells(slot, c), "partial") IN
  IF x = Garbage THEN <<Garbage>> ELSE x.sum

\* Rows 2 and 3 hand over to slots 0 and 1.
FoldOuter(w) ==
  /\ At(w, "fold")
  /\ smem' = IF RowOf(w) \in {2, 3}
       THEN Scratch(SlotCells(RowOf(w) - 2, ColOf(w)), Partial(acc[w][warp[w].block]))
       ELSE smem
  /\ SyncGoto(w, "foldHalf")
  /\ UNCHANGED <<cta, work, flight, routes, regs, out>>

\* Row 1 adds both and hands over to slot 0.
FoldHalf(w) ==
  LET b == warp[w].block
      c == ColOf(w)
      sum == IF cta.rows = 4 THEN acc[w][b] \o SlotSum(1, c) \o SlotSum(0, c) ELSE acc[w][b] IN
  /\ At(w, "foldHalf")
  /\ IF RowOf(w) = 1 THEN /\ acc' = [acc EXCEPT ![w][b] = sum]
                          /\ smem' = Scratch(SlotCells(0, c), Partial(sum))
     ELSE UNCHANGED <<acc, smem>>
  /\ SyncGoto(w, "foldIn")
  /\ UNCHANGED <<cta, work, flight, routes, valid, cur, next, out>>

\* Row 0 has the sum.
FoldIn(w) ==
  LET b == warp[w].block IN
  /\ At(w, "foldIn")
  /\ acc' = IF RowOf(w) = 0 THEN [acc EXCEPT ![w][b] = @ \o SlotSum(0, ColOf(w))] ELSE acc
  /\ IF b + 1 < cta.blocks
       THEN warp' = [warp EXCEPT ![w].at = FoldStart, ![w].block = @ + 1, ![w].syncs = @ + 1]
       ELSE SyncGoto(w, "turn")
  /\ UNCHANGED <<cta, work, memory, valid, cur, next, out>>

-----------------------------------------------------------------------------
\* _finish_tile after the fold

LastSlice(w) == TileOf(w).slice = TileOf(w).slices - 1
Result(w, v) == [cols |-> v, routes |-> routes, valid |-> valid[w]]

\* _wait_for_reduction_turn: thread 0 polls the lock, the others wait for it.
\* (PersistentGemm shows that the turn comes.)
TakeTurn(w) ==
  /\ At(w, "turn")
  /\ IF TileOf(w).slices > 1 THEN SyncGoto(w, "merge") ELSE Goto(w, "store")
  /\ UNCHANGED <<cta, work, memory, regs, out>>

\* _combine_splitk_accumulators by row 0, then _publish_reduction_turn.
Merge(w) ==
  /\ At(w, "merge")
  /\ out' = IF RowOf(w) = 0 /\ ~LastSlice(w)
              THEN [out EXCEPT ![warp[w].tile][w] = Result(w, [c \in {ColOf(w)} |-> acc[w]])]
              ELSE out
  /\ IF LastSlice(w) THEN SyncGoto(w, "store") ELSE SyncNextTile(w)
  /\ UNCHANGED <<cta, work, memory, regs>>

\* _store_tile_m8, _store_tile_large_m: row 0 lays the tile out over the stages
Store(w) ==
  /\ At(w, "store")
  /\ smem' = IF RowOf(w) = 0 THEN Scratch(OutputCells(ColOf(w)), Output(acc[w])) ELSE smem
  /\ SyncGoto(w, "drain")
  /\ UNCHANGED <<cta, work, flight, routes, regs, out>>

\* ... and _drain_output_smem: every warp takes its share to global memory.
Drain(w) ==
  LET column(c) == Content(OutputCells(c), "output") IN
  /\ At(w, "drain")
  /\ out' = [out EXCEPT ![warp[w].tile][w] =
       Result(w, [c \in Col |-> IF column(c) = Garbage THEN [b \in Block |-> <<Garbage>>]
                                ELSE column(c).blocks])]
  /\ SyncNextTile(w)
  /\ UNCHANGED <<cta, work, memory, regs>>

-----------------------------------------------------------------------------
Finished == \A w \in Warp : warp[w].tile > Len(work)

WarpStep(w) ==
  \/ ReadRoutes(w) \/ CountRows(w) \/ ReadCount(w)
  \/ Prologue(w) \/ Primed(w) \/ LoadFirst(w) \/ LoadNext(w)
  \/ Lookahead(w) \/ WaitStages(w) \/ Accumulate(w)
  \/ FoldOuter(w) \/ FoldHalf(w) \/ FoldIn(w)
  \/ TakeTurn(w) \/ Merge(w) \/ Store(w) \/ Drain(w)

PipelineNext == (\E w \in Warp : WarpStep(w)) \/ (Finished /\ UNCHANGED pipelineVars)

PipelineSpec == PipelineInit /\ [][PipelineNext]_pipelineVars

-----------------------------------------------------------------------------
Copies(w) == {n \in DOMAIN flight[w] : flight[w][n] # NoGroup}

\* Shapes; every copy under way goes to a stage of its own, and is for a k-tile
\* of the tile the warp is at: none is left behind for whatever comes next in
\* the memory of the stages.
CopiesApart ==
  /\ cta \in Ctas /\ work \in Works
  /\ routes \in 0 .. Len(work)
  /\ \A w \in Warp :
       /\ \A m, n \in Copies(w) : m # n => flight[w][m].stage # flight[w][n].stage
       /\ Copies(w) # {} => warp[w].at \in {"primed", "first", "next", "ahead", "wait", "mma"}

\* What a column of a tile must be made of: every bundle of every k-tile.
WantedOf(j, c) ==
  {Bundle(j, k, w, kk) : k \in work[j].first .. work[j].first + work[j].count - 1,
                         w \in {v \in Warp : ColOf(v) = c}, kk \in 0 .. Bundles - 1}

\* Whatever leaves the CTA, into the partial sums of a split tile or into the
\* output, has every bundle of its slice in it exactly once, decoded as the
\* k-tile it is, and goes where the routes of its own tile say: no stage is
\* read before all its chunks arrived or overwritten while a warp still reads
\* it, and none of the four uses of that memory gets in the way of another.
\* At the end of the work, everything has left.
OutputsWhole ==
  /\ \A j \in DOMAIN work : \A w \in Warp : out[j][w] # Empty =>
       /\ out[j][w].routes = j /\ out[j][w].valid = CountOf(j)
       /\ \A c \in DOMAIN out[j][w].cols : \A b \in Block :
            LET s == out[j][w].cols[c][b] IN
            IsInjective(s) /\ Range(s) = WantedOf(j, c)
  /\ Finished => \A j \in DOMAIN work : \A w \in Warp :
       (RowOf(w) = 0 \/ work[j].slice = work[j].slices - 1) => out[j][w] # Empty

\* An output tile is what its own work stored, whatever the stages of the pipeline hold.
PipelineSafe == CopiesApart /\ OutputsWhole

=============================================================================

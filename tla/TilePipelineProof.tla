-------------------------- MODULE TilePipelineProof --------------------------
(***************************************************************************)
(* Proofs about TilePipeline, for every shape of a CTA, every sequence of  *)
(* tiles, every number of stages and of bundles.                           *)
(*                                                                         *)
(* The warps are less than two stretches between sync_threads apart        *)
(* (Lockstep), and where a warp stands says what it has under way, in      *)
(* shared memory and in its registers: the rest of the invariant says      *)
(* that this is so.                                                        *)
(***************************************************************************)
EXTENDS TilePipeline, FiniteSetTheorems, SequenceTheorems, TLAPS

-----------------------------------------------------------------------------
(* Where a warp stands.  c is its CTA, ts the tiles it runs, r and s are   *)
(* what warp says of it.                                                   *)

PipeLabels == {"first", "next", "ahead", "wait", "mma"}
FoldLabels == {"fold", "foldHalf", "foldIn"}
EndLabels  == {"turn", "merge", "store", "drain"}
Labels     == {"routes", "count", "valid", "prologue", "primed"}
                \cup PipeLabels \cup FoldLabels \cup EndLabels

Count(ts, r) == ts[r.tile].count
First(ts, r) == ts[r.tile].first
Split(ts, r) == ts[r.tile].slices > 1
IsFinal(ts, r) == ts[r.tile].slice = ts[r.tile].slices - 1
LastBlock(c) == IF c.rows = 1 THEN 0 ELSE c.blocks - 1
StartOf(c) == IF c.rows = 4 THEN "fold" ELSE IF c.rows = 2 THEN "foldHalf" ELSE "turn"

\* Is the warp past the sync_threads of its k-tile?
Past(r) == \/ r.at = "mma" /\ r.kk >= Bundles - 2
           \/ r.at = "next" /\ r.kk = Bundles - 1

\* The last k-tile it has waited for.
Waits(r) == IF Past(r) THEN r.idx + 1 ELSE r.idx

\* A stretch without sync_threads: the part of the tile it belongs to, its k-tile
\* or block, and whether it is the one that ends in a sync_threads of a round.
Part(ts, r) ==
  IF r.at \in PipeLabels THEN "pipe"
  ELSE IF r.at = "primed" THEN "prologue"
  ELSE IF r.at = "turn" /\ ~Split(ts, r) THEN "store" ELSE r.at

Num(r) == IF r.at \in PipeLabels THEN Waits(r) ELSE IF r.at \in FoldLabels THEN r.block ELSE 0

Over(ts, r) == IF Past(r) /\ (Waits(r) % Stages = 0 \/ Waits(r) = Count(ts, r)) THEN 1 ELSE 0

\* Where a stretch begins.
Spot(r) == <<r.at, r.tile, r.idx, r.kk, r.block>>

\* Two warps in one stretch.
Same(ts, r, s) ==
  r.tile = s.tile /\ Part(ts, r) = Part(ts, s) /\ Num(r) = Num(s) /\ Over(ts, r) = Over(ts, s)

AfterPipe(c, ts, r) ==
  IF Over(ts, r) = 0 THEN <<"mma", r.tile, Num(r), Bundles - 2, 0>>
  ELSE IF Num(r) # Count(ts, r) THEN <<"first", r.tile, Num(r), 0, 0>>
  ELSE <<StartOf(c), r.tile, Count(ts, r), 0, 0>>

AfterFold(c, ts, r) ==
  IF r.at = "fold" THEN <<"foldHalf", r.tile, Count(ts, r), 0, Num(r)>>
  ELSE IF r.at = "foldHalf" THEN <<"foldIn", r.tile, Count(ts, r), 0, Num(r)>>
  ELSE IF Num(r) + 1 < c.blocks THEN <<StartOf(c), r.tile, Count(ts, r), 0, Num(r) + 1>>
  ELSE <<"turn", r.tile, Count(ts, r), 0, LastBlock(c)>>

AfterEnd(c, ts, r) ==
  IF Part(ts, r) = "turn" THEN <<"merge", r.tile, Count(ts, r), 0, LastBlock(c)>>
  ELSE IF Part(ts, r) = "merge" /\ IsFinal(ts, r) THEN <<"store", r.tile, Count(ts, r), 0, LastBlock(c)>>
  ELSE IF Part(ts, r) = "store" THEN <<"drain", r.tile, Count(ts, r), 0, LastBlock(c)>>
  ELSE <<"routes", r.tile + 1, 0, 0, 0>>

\* Where the next stretch between two sync_threads begins.
Following(c, ts, r) ==
  IF r.at = "routes" THEN <<IF c.packed THEN "count" ELSE "prologue", r.tile, 0, 0, 0>>
  ELSE IF r.at = "count" THEN <<"valid", r.tile, 0, 0, 0>>
  ELSE IF r.at = "valid" THEN <<"prologue", r.tile, 0, 0, 0>>
  ELSE IF r.at \in {"prologue", "primed"} THEN <<"first", r.tile, 0, 0, 0>>
  ELSE IF r.at \in PipeLabels THEN AfterPipe(c, ts, r)
  ELSE IF r.at \in FoldLabels THEN AfterFold(c, ts, r)
  ELSE AfterEnd(c, ts, r)

\* Warps that are as many sync_threads on are in one stretch; one that is ahead is
\* at the beginning of the stretch that follows.
InStep(c, ts, r, s) ==
  /\ r.syncs = s.syncs => Same(ts, r, s)
  /\ r.syncs = s.syncs + 1 => Spot(r) = Following(c, ts, s)
  /\ r.syncs <= s.syncs + 1

Lockstep == \A v, w \in Warp : InStep(cta, work, warp[v], warp[w])

Control(c, ts, r) ==
  /\ DOMAIN r = {"at", "tile", "idx", "kk", "block", "syncs"}
  /\ r.at \in Labels /\ r.tile \in 1 .. Len(ts) + 1 /\ r.idx \in Nat
  /\ r.kk \in 0 .. Bundles - 1 /\ r.block \in 0 .. c.blocks - 1 /\ r.syncs \in Nat
  /\ r.tile = Len(ts) + 1 => r.at = "routes"
  /\ r.at \in {"routes", "count", "valid", "prologue", "primed"} => r.idx = 0 /\ r.kk = 0 /\ r.block = 0
  /\ r.at \in {"count", "valid"} => c.packed
  /\ r.at \in PipeLabels => r.idx < Count(ts, r) /\ r.block = 0
  /\ r.at = "first" => r.kk = 0 /\ r.idx % Stages = 0
  /\ r.at \in {"ahead", "wait"} => r.kk = Bundles - 2
  /\ r.at \in FoldLabels \cup EndLabels => r.idx = Count(ts, r) /\ r.kk = 0
  /\ r.at = "fold" => c.rows = 4
  /\ r.at \in FoldLabels => c.rows \in {2, 4}
  /\ r.at \in EndLabels => r.block = LastBlock(c)
  /\ r.at = "merge" => Split(ts, r)
  /\ r.at \in {"store", "drain"} /\ Split(ts, r) => IsFinal(ts, r)

ControlInv == \A w \in Warp : Control(cta, work, warp[w])

-----------------------------------------------------------------------------
(* Routes and their count.                                                 *)

\* Warp 0 writes the routes, and every warp has the count of its own tile.
RoutesInv ==
  /\ routes = IF warp[0].at = "routes" THEN warp[0].tile - 1 ELSE warp[0].tile
  /\ \A w \in Warp : warp[w].at \notin {"routes", "count", "valid"} => valid[w] = CountOf(warp[w].tile)

LastWarp(c) == c.rows * c.cols - 1

\* Once counted, the valid rows are in the word under stage 0 until all read it.
CountInv ==
  \A w \in Warp : warp[w].at = "valid" /\ warp[LastWarp(cta)].at # "count" =>
    smem[0][0] = CountOf(warp[w].tile)

-----------------------------------------------------------------------------
(* Copies.                                                                 *)

\* The group in which the i-th k-tile of tile j is copied, empty past its end.
GroupOf(ts, j, i) ==
  IF i < ts[j].count THEN Group(i % Stages, ts[j].first + i) ELSE NoGroup

Groups == {NoGroup} \cup [stage : Stage, k : Nat]

\* What a warp has under way where it is: before its first wait the first round
\* less one, then the k-tiles after the one it waited for last.
Flight(ts, r, f) ==
  LET m == Len(f) - (Stages - 1) IN
  /\ f \in Seq(Groups)
  /\ r.at \notin PipeLabels \cup {"primed"} => \A n \in 1 .. Len(f) : f[n] = NoGroup
  /\ r.at = "primed" =>
       /\ m >= 0
       /\ \A n \in 1 .. Len(f) : f[n] = IF n <= m THEN NoGroup ELSE GroupOf(ts, r.tile, n - m - 1)
  /\ r.at \in PipeLabels =>
       /\ Len(f) = IF r.at = "wait" THEN Stages - 1 ELSE Stages - 2
       /\ \A n \in 1 .. Len(f) : f[n] = GroupOf(ts, r.tile, Waits(r) + n)

FlightInv == \A w \in Warp : Flight(work, warp[w], flight[w])

\* The k-tiles whose chunks are where a copy put them.
InPlace(ts, r) ==
  {i \in 0 .. Count(ts, r) - 1 : i = Waits(r) \/ (i + 1 = Waits(r) /\ r.at # "wait")}

StagedInv ==
  \A w \in Warp : warp[w].at \in PipeLabels =>
    \A i \in InPlace(work, warp[w]) :
      smem[i % Stages][w] = Data(warp[w].tile, First(work, warp[w]) + i)

-----------------------------------------------------------------------------
(* Registers.                                                              *)

\* The first n bundles that warp w brings to tile j, and all of them.
Strip(ts, w, j, n) ==
  [i \in 1 .. n |-> Bundle(j, ts[j].first + ((i - 1) \div Bundles), w, (i - 1) % Bundles)]
Full(ts, w, j) == Strip(ts, w, j, ts[j].count * Bundles)

\* What row 1 hands over in column q, and what row 0 ends up with.
Half(c, ts, q, j) ==
  IF c.rows = 4
  THEN (Full(ts, c.cols + q, j) \o Full(ts, 3 * c.cols + q, j)) \o Full(ts, 2 * c.cols + q, j)
  ELSE Full(ts, c.cols + q, j)
Column(c, ts, q, j) == IF c.rows = 1 THEN Full(ts, q, j) ELSE Full(ts, q, j) \o Half(c, ts, q, j)

RowIn(c, w) == w \div c.cols
ColIn(c, w) == w % c.cols

\* Blocks that a warp has not yet handed over or folded.
Own(c, w, r, b) == b >= r.block /\ ~(b = r.block /\ r.at = "foldIn" /\ RowIn(c, w) = 1)

\* The accumulators: the strip so far; while blocks are folded, the whole strip in
\* those to come and the column in those row 0 has done; then the column.
Accumulated(c, ts, w, r, a) ==
  /\ r.at \in PipeLabels =>
       \A b \in 0 .. c.blocks - 1 : a[b] = Strip(ts, w, r.tile, r.idx * Bundles + r.kk)
  /\ r.at \in FoldLabels =>
       /\ \A b \in 0 .. c.blocks - 1 : Own(c, w, r, b) => a[b] = Full(ts, w, r.tile)
       /\ RowIn(c, w) = 0 =>
            \A b \in 0 .. c.blocks - 1 : b < r.block => a[b] = Column(c, ts, ColIn(c, w), r.tile)
  /\ r.at \in EndLabels /\ RowIn(c, w) = 0 =>
       a = [b \in 0 .. c.blocks - 1 |-> Column(c, ts, ColIn(c, w), r.tile)]

\* The bundle a warp is at and the one after it, as soon as each is loaded.
Fetched(ts, w, r, cu, ne) ==
  /\ r.at \in {"next", "ahead", "wait", "mma"} =>
       cu = Bundle(r.tile, First(ts, r) + r.idx, w, r.kk)
  /\ r.at \in {"ahead", "wait", "mma"} =>
       ne = IF r.kk + 1 < Bundles THEN Bundle(r.tile, First(ts, r) + r.idx, w, r.kk + 1)
            ELSE IF r.idx + 1 < Count(ts, r) THEN Bundle(r.tile, First(ts, r) + r.idx + 1, w, 0)
            ELSE Empty

RegistersInv ==
  \A w \in Warp : /\ Accumulated(cta, work, w, warp[w], acc[w])
                  /\ Fetched(work, w, warp[w], cur[w], next[w])

-----------------------------------------------------------------------------
(* The fold and the output.                                                *)

Held(cells, x) == \A cell \in cells : smem[cell[1]][cell[2]] = x

\* One warp has left a label another may still be at, or is about to come to.
Gone(s, r, before, at) ==
  \/ r.at = before /\ s.syncs > r.syncs
  \/ r.at = at /\ s.syncs >= r.syncs

\* A slot holds what was handed over, from when the row above has gone past the
\* hand-over until the row below has added it.
SlotsInv ==
  \A q \in Col :
    /\ cta.rows = 4 =>
         /\ Gone(warp[2 * cta.cols + q], warp[cta.cols + q], "fold", "foldHalf") =>
              Held(SlotCells(0, q), Partial(Full(work, 2 * cta.cols + q, warp[cta.cols + q].tile)))
         /\ Gone(warp[3 * cta.cols + q], warp[cta.cols + q], "fold", "foldHalf") =>
              Held(SlotCells(1, q), Partial(Full(work, 3 * cta.cols + q, warp[cta.cols + q].tile)))
    /\ cta.rows \in {2, 4} /\ Gone(warp[cta.cols + q], warp[q], "foldHalf", "foldIn") =>
         Held(SlotCells(0, q), Partial(Half(cta, work, q, warp[q].tile)))

Stored(ts, s, r) ==
  \/ Part(ts, r) = "store" /\ s.syncs > r.syncs
  \/ r.at = "drain" /\ s.syncs >= r.syncs

\* What row 0 lays out.
Laid(c, ts, q, j) == Output([b \in 0 .. c.blocks - 1 |-> Column(c, ts, q, j)])

\* When row 0 of a column has laid out its output, it is there for all warps that
\* have not taken their share.
OutputInv ==
  \A q \in Col, v \in Warp :
    Stored(work, warp[q], warp[v]) => Held(OutputCells(q), Laid(cta, work, q, warp[v].tile))

\* What leaves tile j: whole columns, under its own routes and count.
Right(c, ts, j, x) ==
  /\ x.routes = j /\ x.valid = CountOf(j)
  /\ DOMAIN x.cols \subseteq 0 .. c.cols - 1
  /\ \A q \in DOMAIN x.cols : \A b \in 0 .. c.blocks - 1 : x.cols[q][b] = Column(c, ts, q, j)

\* Whatever has left is right, and of the tiles a warp is done with all has left.
OutInv ==
  \A j \in DOMAIN work, w \in Warp :
    /\ out[j][w] # Empty => Right(cta, work, j, out[j][w])
    /\ j < warp[w].tile /\ (RowIn(cta, w) = 0 \/ work[j].slice = work[j].slices - 1) => out[j][w] # Empty

FunOver(f, S) == DOMAIN f = S /\ f = [x \in S |-> f[x]]

Shapes ==
  /\ cta \in Ctas /\ work \in Works
  /\ FunOver(warp, Warp) /\ FunOver(flight, Warp) /\ FunOver(valid, Warp)
  /\ FunOver(cur, Warp) /\ FunOver(next, Warp)
  /\ FunOver(acc, Warp) /\ (\A w \in Warp : FunOver(acc[w], Block))
  /\ FunOver(smem, Stage) /\ (\A p \in Stage : FunOver(smem[p], Warp))
  /\ FunOver(out, DOMAIN work) /\ (\A j \in DOMAIN work : FunOver(out[j], Warp))

PipelineInv ==
  /\ Shapes /\ ControlInv /\ Lockstep /\ RoutesInv /\ CountInv /\ FlightInv /\ StagedInv
  /\ RegistersInv /\ SlotsInv /\ OutputInv /\ OutInv

\* The shape of a CTA.
LEMMA CtaFacts ==
  ASSUME Shapes
  PROVE  /\ cta.rows \in {1, 2, 4} /\ cta.cols \in Nat \ {0} /\ cta.blocks \in Nat \ {0}
         /\ cta.packed \in BOOLEAN
         /\ 0 \in Warp /\ LastWarp(cta) \in Warp
         /\ Block = 0 .. cta.blocks - 1
<1>1. /\ cta.rows \in {1, 2, 4} /\ cta.cols \in Nat \ {0} /\ cta.blocks \in Nat \ {0}
      /\ cta.packed \in BOOLEAN
  BY PipelineAssumption DEF Shapes
<1>2. cta.rows * cta.cols \in Nat \ {0}
  BY <1>1
<1> QED BY <1>1, <1>2 DEF Warp, LastWarp, Block

\* A tile of the work.
LEMMA TileFacts ==
  ASSUME Shapes, NEW j \in 1 .. Len(work)
  PROVE  /\ work[j].first \in Nat /\ work[j].count \in Nat \ {0}
         /\ work[j].slices \in Nat \ {0} /\ work[j].slice \in Nat
         /\ work[j].slice < work[j].slices
<1>1. work \in Seq([first : Nat, count : Nat \ {0}, slices : Nat \ {0}, slice : Nat])
  BY PipelineAssumption DEF Shapes
<1>2. j \in DOMAIN work
  BY <1>1
<1>3. work[j] \in [first : Nat, count : Nat \ {0}, slices : Nat \ {0}, slice : Nat]
  BY <1>1, ElementOfSeq
<1>4. work[j].slice < work[j].slices
  BY <1>2, PipelineAssumption DEF Shapes
<1> QED BY <1>3, <1>4

\* The work is a sequence of tiles.
LEMMA WorkFacts ==
  ASSUME Shapes
  PROVE  DOMAIN work = 1 .. Len(work) /\ Len(work) \in Nat
<1>1. work \in Seq([first : Nat, count : Nat \ {0}, slices : Nat \ {0}, slice : Nat])
  BY PipelineAssumption DEF Shapes
<1> QED BY <1>1

-----------------------------------------------------------------------------
(* Steps of a warp and stretches between two sync_threads.                 *)

Moved(c, ts, r, s) ==
  \/ s.syncs = r.syncs /\ Same(ts, s, r)
  \/ s.syncs = r.syncs + 1 /\ Spot(s) = Following(c, ts, r)

\* Where a warp is says all there is to the stretch it is in.
LEMMA SpotSays ==
  ASSUME NEW ts, NEW c, NEW r, NEW s, Spot(r) = Spot(s)
  PROVE  Same(ts, r, s) /\ Following(c, ts, r) = Following(c, ts, s)
<1>1. r.at = s.at /\ r.tile = s.tile /\ r.idx = s.idx /\ r.kk = s.kk /\ r.block = s.block
  BY DEF Spot
<1>2. Past(r) <=> Past(s)
  BY <1>1 DEF Past
<1>3. Waits(r) = Waits(s)
  BY <1>1, <1>2 DEF Waits
<1>4. Num(r) = Num(s) /\ Over(ts, r) = Over(ts, s) /\ Part(ts, r) = Part(ts, s)
  BY <1>1, <1>2, <1>3 DEF Num, Over, Part, Count, Split
<1>5. Same(ts, r, s)
  BY <1>1, <1>4 DEF Same
<1>6. Following(c, ts, r) = Following(c, ts, s)
  BY <1>1, <1>4, Zenon DEF Following, AfterPipe, AfterFold, AfterEnd, Count, IsFinal
<1> QED BY <1>5, <1>6

\* ... and what follows it.
LEMMA SameFollows ==
  ASSUME NEW c, NEW ts, NEW r, NEW s, r.at \in Labels, s.at \in Labels, Same(ts, r, s)
  PROVE  Following(c, ts, r) = Following(c, ts, s)
<1>1. /\ r.tile = s.tile /\ Part(ts, r) = Part(ts, s) /\ Num(r) = Num(s)
      /\ Over(ts, r) = Over(ts, s)
  BY DEF Same
<1>2. /\ r.at = s.at \/ (r.at \in PipeLabels /\ s.at \in PipeLabels)
           \/ (r.at \in {"prologue", "primed"} /\ s.at \in {"prologue", "primed"})
           \/ (r.at \in EndLabels /\ s.at \in EndLabels)
  BY <1>1 DEF Part, Labels, PipeLabels, FoldLabels, EndLabels
<1>3. AfterPipe(c, ts, r) = AfterPipe(c, ts, s) /\ AfterEnd(c, ts, r) = AfterEnd(c, ts, s)
  BY <1>1, Zenon DEF AfterPipe, AfterEnd, Count, IsFinal
<1>4. CASE r.at = s.at
  BY <1>1, <1>3, <1>4, Zenon DEF Following, AfterFold, Count
<1>5. CASE r.at \in PipeLabels /\ s.at \in PipeLabels
  BY <1>3, <1>5 DEF Following, PipeLabels
<1>6. CASE r.at \in {"prologue", "primed"} /\ s.at \in {"prologue", "primed"}
  BY <1>1, <1>6 DEF Following
<1>7. CASE r.at \in EndLabels /\ s.at \in EndLabels
  BY <1>3, <1>7 DEF Following, EndLabels, PipeLabels, FoldLabels
<1> QED BY <1>2, <1>4, <1>5, <1>6, <1>7

\* A step that starts no new stretch, or starts the next, keeps all warps in step.
LEMMA LockstepKeeps ==
  ASSUME Shapes, ControlInv, Lockstep, NEW v \in Warp, NEW s,
         \A w \in Warp : warp[w].syncs >= warp[v].syncs,
         warp' = [warp EXCEPT ![v] = s], cta' = cta, work' = work,
         s.at \in Labels, s.syncs \in Nat, Moved(cta, work, warp[v], s)
  PROVE  Lockstep'
<1> SUFFICES ASSUME NEW x \in Warp, NEW y \in Warp
             PROVE  InStep(cta, work, warp'[x], warp'[y])
  BY DEF Lockstep, Warp
<1>1. PICK r : r = warp[v]
  OBVIOUS
<1>2. /\ r.at \in Labels /\ r.syncs \in Nat
      /\ \A w \in Warp : warp[w].at \in Labels /\ warp[w].syncs \in Nat
  BY <1>1 DEF ControlInv, Control
<1>3. warp'[v] = s /\ \A w \in Warp : w # v => warp'[w] = warp[w]
  BY DEF Shapes, FunOver
<1>4. Moved(cta, work, r, s)
  BY <1>1
<1>5. \A w \in Warp : /\ InStep(cta, work, warp[w], r) /\ InStep(cta, work, r, warp[w])
                      /\ warp[w].syncs \in {r.syncs, r.syncs + 1}
  BY <1>1, <1>2 DEF Lockstep, InStep
<1>6. InStep(cta, work, s, s)
  BY DEF InStep, Same
<1>7. ASSUME NEW w \in Warp, w # v
      PROVE  InStep(cta, work, warp[w], s) /\ InStep(cta, work, s, warp[w])
  <2>1. PICK t : t = warp[w]
    OBVIOUS
  <2>2. /\ t.at \in Labels /\ t.syncs \in Nat /\ t.syncs \in {r.syncs, r.syncs + 1}
        /\ InStep(cta, work, t, r) /\ InStep(cta, work, r, t)
    BY <1>2, <1>5, <2>1
  <2>3. CASE s.syncs = r.syncs /\ Same(work, s, r)
    <3>1. Following(cta, work, s) = Following(cta, work, r)
      BY <1>2, <2>3, SameFollows
    <3> QED BY <1>2, <2>1, <2>2, <2>3, <3>1 DEF InStep, Same
  <2>4. CASE s.syncs = r.syncs + 1 /\ Spot(s) = Following(cta, work, r)
    <3>1. CASE t.syncs = r.syncs
      <4>1. Same(work, r, t) /\ Following(cta, work, r) = Following(cta, work, t)
        BY <1>2, <2>2, <3>1, SameFollows DEF InStep
      <4> QED BY <1>2, <2>1, <2>2, <2>4, <3>1, <4>1 DEF InStep
    <3>2. CASE t.syncs = r.syncs + 1
      <4>1. Spot(t) = Spot(s)
        BY <2>2, <2>4, <3>2 DEF InStep
      <4>2. Same(work, t, s) /\ Same(work, s, t)
        BY <4>1, SpotSays
      <4> QED BY <1>2, <2>1, <2>2, <2>4, <3>2, <4>2 DEF InStep
    <3> QED BY <2>2, <3>1, <3>2
  <2> QED BY <1>4, <2>3, <2>4 DEF Moved
<1>8. CASE x = v /\ y = v
  BY <1>3, <1>6, <1>8
<1>9. CASE x = v /\ y # v
  BY <1>3, <1>7, <1>9
<1>10. CASE x # v /\ y = v
  BY <1>3, <1>7, <1>10
<1>11. CASE x # v /\ y # v
  BY <1>3, <1>11 DEF Lockstep
<1> QED BY <1>8, <1>9, <1>10, <1>11

-----------------------------------------------------------------------------
(* What a step does to the warp that takes it.                             *)

Ends(c, ts, r, s) == Control(c, ts, s) /\ Moved(c, ts, r, s)

\* From the routes to the first bundle: each step starts the next stretch, or
\* stays in the one it is in.
LEMMA RoutesMove ==
  ASSUME NEW c, NEW ts, NEW r, NEW s, Control(c, ts, r), c.packed \in BOOLEAN, c.blocks \in Nat \ {0},
         r.tile \in 1 .. Len(ts), Len(ts) \in Nat, Count(ts, r) \in Nat \ {0},
         DOMAIN s = {"at", "tile", "idx", "kk", "block", "syncs"},
         s.tile = r.tile, s.idx = r.idx, s.kk = r.kk, s.block = r.block,
         \/ r.at = "routes" /\ s.at = (IF c.packed THEN "count" ELSE "prologue") /\ s.syncs = r.syncs + 1
         \/ r.at = "count" /\ s.at = "valid" /\ s.syncs = r.syncs + 1
         \/ r.at = "valid" /\ s.at = "prologue" /\ s.syncs = r.syncs + 1
         \/ r.at = "primed" /\ s.at = "first" /\ s.syncs = r.syncs + 1
         \/ r.at = "prologue" /\ s.at = "primed" /\ s.syncs = r.syncs
  PROVE  Ends(c, ts, r, s)
<1>1. r.idx = 0 /\ r.kk = 0 /\ r.block = 0 /\ r.syncs \in Nat
  BY DEF Control
<1>2. s.at \in {"count", "valid", "prologue", "primed", "first"} /\ s.syncs \in Nat
      /\ (s.at \in {"count", "valid"} => c.packed)
  BY <1>1 DEF Control
<1>3. Control(c, ts, s)
  <2>0. Stages \in Nat /\ Stages >= 2 /\ 0 % Stages = 0
    BY PipelineAssumption
  <2>1. Count(ts, s) = Count(ts, r)
    BY DEF Count
  <2>2. Len(ts) + 1 # s.tile
    OBVIOUS
  <2>3. s.at \in Labels /\ s.at \notin FoldLabels /\ s.at \notin EndLabels
    BY <1>2 DEF Labels, PipeLabels, FoldLabels, EndLabels
  <2>4. s.kk \in 0 .. Bundles - 1 /\ s.block \in 0 .. c.blocks - 1 /\ s.tile \in 1 .. Len(ts) + 1
    BY DEF Control
  <2> QED BY <1>1, <1>2, <2>0, <2>1, <2>2, <2>3, <2>4 DEF Control, FoldLabels, EndLabels
<1>4. CASE r.at = "prologue"
  <2>1. s.syncs = r.syncs /\ s.at = "primed"
    BY <1>4
  <2>2. ~Past(r) /\ ~Past(s)
    BY <1>4, <2>1 DEF Past
  <2>3. Num(s) = 0 /\ Num(r) = 0
    BY <1>4, <2>1 DEF Num, PipeLabels, FoldLabels
  <2>4. Part(ts, s) = "prologue" /\ Part(ts, r) = "prologue"
    BY <1>4, <2>1 DEF Part, PipeLabels
  <2>5. Over(ts, r) = 0 /\ Over(ts, s) = 0
    BY <2>2 DEF Over
  <2>6. Same(ts, s, r)
    BY <2>3, <2>4, <2>5 DEF Same
  <2> QED BY <1>3, <2>1, <2>6, Zenon DEF Moved, Ends
<1>5. CASE r.at # "prologue"
  <2>1. s.syncs = r.syncs + 1
    BY <1>5
  <2>2. Spot(s) = Following(c, ts, r)
    BY <1>1, <1>5 DEF Spot, Following
  <2> QED BY <1>3, <2>1, <2>2, Zenon DEF Moved, Ends
<1> QED BY <1>4, <1>5

\* Registers are loaded and copies are started between two sync_threads.
LEMMA FetchMove ==
  ASSUME NEW c, NEW ts, NEW r, NEW s, Control(c, ts, r), r.tile \in 1 .. Len(ts),
         Len(ts) \in Nat,
         DOMAIN s = {"at", "tile", "idx", "kk", "block", "syncs"}, s.syncs = r.syncs,
         s.tile = r.tile, s.idx = r.idx, s.kk = r.kk, s.block = r.block,
         \/ r.at = "first" /\ s.at = "next"
         \/ r.at = "next" /\ s.at = (IF r.kk = Bundles - 2 THEN "ahead" ELSE "mma")
         \/ r.at = "ahead" /\ s.at = "wait"
  PROVE  Ends(c, ts, r, s) /\ Waits(s) = Waits(r)
<1>1. /\ r.idx \in Nat /\ r.kk \in 0 .. Bundles - 1 /\ r.block = 0 /\ r.syncs \in Nat
      /\ r.at = "first" => r.kk = 0
      /\ r.at = "ahead" => r.kk = Bundles - 2
  BY DEF Control, PipeLabels
<1>2. r.at \in PipeLabels /\ s.at \in PipeLabels /\ s.at \in {"next", "ahead", "mma", "wait"}
  BY DEF PipeLabels
<1>3. Bundles \in Nat /\ Bundles >= 2
  BY PipelineAssumption
<1>4. Past(r) <=> Past(s)
  BY <1>1, <1>3 DEF Past
<1>5. Waits(s) = Waits(r)
  BY <1>4 DEF Waits
<1>6. Control(c, ts, s)
  <2>1. Count(ts, s) = Count(ts, r)
    BY DEF Count
  <2>2. Len(ts) + 1 # s.tile
    OBVIOUS
  <2>3. /\ s.at \in Labels /\ s.at \notin FoldLabels /\ s.at \notin EndLabels
        /\ s.at \notin {"routes", "count", "valid", "prologue", "primed"}
    BY <1>2 DEF Labels, PipeLabels, FoldLabels, EndLabels
  <2>4. s.kk \in 0 .. Bundles - 1 /\ s.block \in 0 .. c.blocks - 1 /\ s.tile \in 1 .. Len(ts) + 1
    BY DEF Control
  <2>5. s.at \in {"ahead", "wait"} => s.kk = Bundles - 2
    BY <1>1
  <2>6. s.idx < Count(ts, s)
    BY <1>2, <2>1 DEF Control
  <2> QED BY <1>1, <1>2, <2>2, <2>3, <2>4, <2>5, <2>6 DEF Control, FoldLabels, EndLabels
<1>7. Same(ts, s, r)
  <2>1. Part(ts, s) = Part(ts, r) /\ Num(s) = Num(r)
    BY <1>2, <1>5 DEF Part, Num
  <2>2. Over(ts, s) = Over(ts, r)
    BY <1>4, <1>5 DEF Over, Count
  <2> QED BY <2>1, <2>2 DEF Same
<1> QED BY <1>5, <1>6, <1>7, Zenon DEF Moved, Ends

\* ... at wait_group and its sync_threads,
LEMMA WaitMove ==
  ASSUME NEW c, NEW ts, NEW r, NEW s, Control(c, ts, r), r.tile \in 1 .. Len(ts),
         Len(ts) \in Nat,
         DOMAIN s = {"at", "tile", "idx", "kk", "block", "syncs"}, s.syncs = r.syncs + 1,
         s.tile = r.tile, s.idx = r.idx, s.kk = r.kk, s.block = r.block,
         r.at = "wait", s.at = "mma"
  PROVE  Ends(c, ts, r, s) /\ Waits(r) = r.idx /\ Waits(s) = r.idx + 1
<1>1. r.idx \in Nat /\ r.kk = Bundles - 2 /\ r.block = 0 /\ r.syncs \in Nat
  BY DEF Control, PipeLabels
<1>2. r.at \in PipeLabels /\ s.at \in PipeLabels
  BY DEF PipeLabels
<1>3. Bundles \in Nat /\ Bundles >= 2
  BY PipelineAssumption
<1>4. ~Past(r) /\ Past(s)
  BY <1>1, <1>3 DEF Past
<1>5. Waits(r) = r.idx /\ Waits(s) = r.idx + 1 /\ Num(r) = r.idx /\ Over(ts, r) = 0
  BY <1>2, <1>4 DEF Waits, Num, Over
<1>6. Control(c, ts, s)
  <2>1. Count(ts, s) = Count(ts, r)
    BY DEF Count
  <2>2. Len(ts) + 1 # s.tile
    OBVIOUS
  <2>3. /\ s.at \in Labels /\ s.at \notin FoldLabels /\ s.at \notin EndLabels
        /\ s.at \notin {"routes", "count", "valid", "prologue", "primed"}
    BY <1>2 DEF Labels, PipeLabels, FoldLabels, EndLabels
  <2>4. s.kk \in 0 .. Bundles - 1 /\ s.block \in 0 .. c.blocks - 1 /\ s.tile \in 1 .. Len(ts) + 1
    BY DEF Control
  <2>6. s.idx < Count(ts, s)
    BY <1>2, <2>1 DEF Control
  <2> QED BY <1>1, <1>2, <2>2, <2>3, <2>4, <2>6 DEF Control, FoldLabels, EndLabels
<1>7. Spot(s) = Following(c, ts, r)
  <2>1. Following(c, ts, r) = AfterPipe(c, ts, r)
    BY <1>2 DEF Following, PipeLabels
  <2> QED BY <1>1, <1>5, <2>1 DEF Spot, AfterPipe
<1> QED BY <1>5, <1>6, <1>7, Zenon DEF Moved, Ends

\* The end of a bundle, of a k-tile, of a round, of the slice.
LEMMA AccumulateMove ==
  ASSUME NEW c, NEW ts, NEW r, NEW s, Control(c, ts, r), r.tile \in 1 .. Len(ts),
         Len(ts) \in Nat, Count(ts, r) \in Nat \ {0},
         c.blocks \in Nat \ {0}, c.rows \in {1, 2, 4},
         DOMAIN s = {"at", "tile", "idx", "kk", "block", "syncs"},
         s.tile = r.tile, s.block = r.block, r.at = "mma",
         \/ /\ r.kk + 1 < Bundles
            /\ s.at = "next" /\ s.kk = r.kk + 1 /\ s.idx = r.idx /\ s.syncs = r.syncs
         \/ /\ r.kk + 1 >= Bundles /\ r.idx + 1 = Count(ts, r)
            /\ s.at = StartOf(c) /\ s.kk = 0 /\ s.idx = r.idx + 1 /\ s.syncs = r.syncs + 1
         \/ /\ r.kk + 1 >= Bundles /\ r.idx + 1 # Count(ts, r) /\ (r.idx + 1) % Stages = 0
            /\ s.at = "first" /\ s.kk = 0 /\ s.idx = r.idx + 1 /\ s.syncs = r.syncs + 1
         \/ /\ r.kk + 1 >= Bundles /\ r.idx + 1 # Count(ts, r) /\ (r.idx + 1) % Stages # 0
            /\ s.at = "next" /\ s.kk = 0 /\ s.idx = r.idx + 1 /\ s.syncs = r.syncs
  PROVE  /\ Ends(c, ts, r, s)
         /\ s.at \in {"first", "next"} => Waits(s) = Waits(r)
<1>1. /\ r.idx \in Nat /\ r.kk \in 0 .. Bundles - 1 /\ r.block = 0 /\ r.syncs \in Nat
      /\ r.idx < Count(ts, r)
  BY DEF Control, PipeLabels
<1>2. r.at \in PipeLabels
  BY DEF PipeLabels
<1>3. Bundles \in Nat /\ Bundles >= 2
  BY PipelineAssumption
<1>4. Count(ts, s) = Count(ts, r)
  BY DEF Count
<1>5. Len(ts) + 1 # s.tile /\ s.tile \in 1 .. Len(ts) + 1 /\ s.block \in 0 .. c.blocks - 1
  BY DEF Control
<1>6. CASE r.kk + 1 < Bundles
  <2>1. s.at = "next" /\ s.kk = r.kk + 1 /\ s.idx = r.idx /\ s.syncs = r.syncs
    BY <1>1, <1>3, <1>6
  <2>2. Past(r) <=> Past(s)
    BY <1>1, <1>3, <1>6, <2>1 DEF Past
  <2>3. Waits(s) = Waits(r)
    BY <2>1, <2>2 DEF Waits
  <2>4. s.at \in PipeLabels
    BY <2>1 DEF PipeLabels
  <2>5. Over(ts, s) = Over(ts, r)
    BY <1>4, <2>2, <2>3 DEF Over
  <2>6. Same(ts, s, r)
    BY <1>2, <2>3, <2>4, <2>5 DEF Same, Part, Num
  <2>7. Control(c, ts, s)
    BY <1>1, <1>3, <1>4, <1>5, <1>6, <2>1 DEF Control, Labels, PipeLabels, FoldLabels, EndLabels
  <2> QED BY <2>1, <2>3, <2>6, <2>7, Zenon DEF Moved, Ends
<1>7. CASE r.kk + 1 >= Bundles /\ r.idx + 1 = Count(ts, r)
  <2>1. s.at = StartOf(c) /\ s.kk = 0 /\ s.idx = Count(ts, r) /\ s.syncs = r.syncs + 1
    BY <1>7, <1>1, <1>3
  <2>2. r.kk = Bundles - 1 /\ Past(r) /\ Waits(r) = Count(ts, r)
    BY <1>1, <1>3, <1>7 DEF Past, Waits
  <2>3. Over(ts, r) = 1 /\ Num(r) = Count(ts, r)
    BY <1>2, <2>2 DEF Over, Num
  <2>4. Following(c, ts, r) = AfterPipe(c, ts, r)
    BY <1>2 DEF Following, PipeLabels
  <2>5. Spot(s) = Following(c, ts, r)
    BY <1>1, <2>1, <2>3, <2>4 DEF Spot, AfterPipe
  <2>6. Control(c, ts, s)
    <3>1. s.at \in {"fold", "foldHalf", "turn"} /\ (s.at = "fold" => c.rows = 4)
          /\ (s.at = "foldHalf" => c.rows = 2) /\ (s.at = "turn" => c.rows = 1)
      BY <2>1 DEF StartOf
    <3>2. s.at = "turn" => s.block = LastBlock(c)
      BY <1>1, <3>1 DEF LastBlock
    <3>3. /\ s.at \in Labels /\ s.at \notin PipeLabels
          /\ s.at \in FoldLabels => c.rows \in {2, 4}
          /\ s.at \in EndLabels => s.at = "turn"
      BY <3>1 DEF Labels, PipeLabels, FoldLabels, EndLabels
    <3>4. Count(ts, s) = Count(ts, r) /\ s.idx \in Nat /\ s.syncs \in Nat /\ 0 \in 0 .. Bundles - 1
      BY <1>1, <1>3, <1>4, <2>1
    <3> QED BY <1>5, <2>1, <3>1, <3>2, <3>3, <3>4 DEF Control
  <2>7. s.at \notin {"first", "next"}
    BY <2>1 DEF StartOf
  <2> QED BY <2>1, <2>5, <2>6, <2>7, Zenon DEF Moved, Ends
<1>8. CASE r.kk + 1 >= Bundles /\ r.idx + 1 # Count(ts, r)
  <2>1. r.kk = Bundles - 1 /\ Past(r) /\ Waits(r) = r.idx + 1 /\ Num(r) = r.idx + 1
    BY <1>1, <1>2, <1>3, <1>8 DEF Past, Waits, Num
  <2>2. s.at \in {"first", "next"} /\ s.kk = 0 /\ s.idx = r.idx + 1 /\ ~ (r.kk + 1 < Bundles)
    BY <1>1, <1>3, <1>8
  <2>3. ~Past(s) /\ Waits(s) = r.idx + 1
    BY <1>3, <2>2 DEF Past, Waits
  <2>4. s.at \in PipeLabels /\ s.idx < Count(ts, s) /\ s.idx \in Nat
    <3>1. s.idx < Count(ts, s) /\ s.idx \in Nat
      BY <1>1, <1>4, <1>8, <2>2
    <3> QED BY <2>2, <3>1 DEF PipeLabels
  <2>5. s.syncs \in Nat /\ (s.at = "first" => s.idx % Stages = 0)
    BY <1>1, <1>3, <1>8
  <2>6. Control(c, ts, s)
    <3>1. s.at \in Labels /\ s.at \notin FoldLabels /\ s.at \notin EndLabels
      BY <2>2 DEF Labels, PipeLabels, FoldLabels, EndLabels
    <3>2. 0 \in 0 .. Bundles - 1 /\ s.block = 0
      BY <1>1, <1>3
    <3> QED BY <1>5, <2>2, <2>4, <2>5, <3>1, <3>2 DEF Control
  <2>7. CASE (r.idx + 1) % Stages = 0
    <3>1. s.at = "first" /\ s.syncs = r.syncs + 1
      BY <1>8, <2>2, <2>7
    <3>2. Over(ts, r) = 1
      BY <2>1, <2>7 DEF Over
    <3>3. Following(c, ts, r) = AfterPipe(c, ts, r)
      BY <1>2 DEF Following, PipeLabels
    <3>4. Spot(s) = Following(c, ts, r)
      BY <1>1, <1>8, <2>1, <2>2, <3>1, <3>2, <3>3 DEF Spot, AfterPipe
    <3> QED BY <2>1, <2>3, <2>6, <3>1, <3>4, Zenon DEF Moved, Ends
  <2>8. CASE (r.idx + 1) % Stages # 0
    <3>1. s.at = "next" /\ s.syncs = r.syncs
      BY <1>8, <2>2, <2>8
    <3>2. Over(ts, r) = 0
      BY <1>8, <2>1, <2>8 DEF Over
    <3>3. Over(ts, s) = 0
      BY <2>3 DEF Over
    <3>4. Same(ts, s, r)
      BY <1>2, <2>1, <2>3, <2>4, <3>2, <3>3 DEF Same, Part, Num
    <3> QED BY <2>1, <2>3, <2>6, <3>1, <3>4, Zenon DEF Moved, Ends
  <2> QED BY <2>7, <2>8
<1> QED BY <1>1, <1>3, <1>6, <1>7, <1>8

\* ... through the blocks of the fold,
LEMMA FoldMove ==
  ASSUME NEW c, NEW ts, NEW r, NEW s, Control(c, ts, r), r.tile \in 1 .. Len(ts),
         Len(ts) \in Nat, Count(ts, r) \in Nat \ {0},
         c.blocks \in Nat \ {0}, c.rows \in {1, 2, 4},
         DOMAIN s = {"at", "tile", "idx", "kk", "block", "syncs"}, s.syncs = r.syncs + 1,
         s.tile = r.tile, s.idx = r.idx, s.kk = r.kk,
         \/ r.at = "fold" /\ s.at = "foldHalf" /\ s.block = r.block
         \/ r.at = "foldHalf" /\ s.at = "foldIn" /\ s.block = r.block
         \/ r.at = "foldIn" /\ r.block + 1 < c.blocks /\ s.at = StartOf(c) /\ s.block = r.block + 1
         \/ r.at = "foldIn" /\ r.block + 1 >= c.blocks /\ s.at = "turn" /\ s.block = r.block
  PROVE  Ends(c, ts, r, s)
<1>1. /\ r.idx = Count(ts, r) /\ r.kk = 0 /\ r.block \in 0 .. c.blocks - 1 /\ r.syncs \in Nat
      /\ c.rows \in {2, 4} /\ (r.at = "fold" => c.rows = 4) /\ r.tile \in 1 .. Len(ts) + 1
  BY DEF Control, FoldLabels
<1>2. r.at \in FoldLabels /\ r.at \notin PipeLabels
  BY DEF FoldLabels, PipeLabels
<1>3. Count(ts, s) = Count(ts, r) /\ Bundles \in Nat /\ Bundles >= 2
  BY PipelineAssumption DEF Count
<1>4. Num(r) = r.block
  BY <1>2 DEF Num
<1>5. Following(c, ts, r) = AfterFold(c, ts, r)
  BY <1>2 DEF Following, FoldLabels, PipeLabels
<1>6. s.block \in 0 .. c.blocks - 1 /\ (s.at = "turn" => s.block = LastBlock(c))
  <2>1. s.block \in 0 .. c.blocks - 1
    BY <1>1
  <2>2. CASE r.at = "foldIn" /\ r.block + 1 >= c.blocks
    <3>1. s.block = r.block
      BY <1>1, <2>2
    <3>2. r.block = c.blocks - 1
      BY <1>1, <2>2
    <3> QED BY <1>1, <2>1, <3>1, <3>2 DEF LastBlock
  <2>3. CASE ~ (r.at = "foldIn" /\ r.block + 1 >= c.blocks)
    <3>1. s.at # "turn"
      BY <1>1, <2>3 DEF StartOf
    <3> QED BY <2>1, <3>1
  <2> QED BY <2>2, <2>3
<1>7. /\ s.at \in {"fold", "foldHalf", "foldIn", "turn"}
      /\ s.at = "fold" => c.rows = 4
  BY <1>1 DEF StartOf
<1>8. Control(c, ts, s)
  <2>1. /\ s.at \in Labels /\ s.at \notin PipeLabels
        /\ s.at \in EndLabels => s.at = "turn"
    BY ONLY <1>7 DEF Labels, PipeLabels, FoldLabels, EndLabels
  <2>2. /\ s.at \notin {"routes", "count", "valid", "prologue", "primed"}
        /\ s.at \notin {"first", "ahead", "wait", "merge", "store", "drain"}
    BY <1>7
  <2>3. s.idx \in Nat /\ s.syncs \in Nat /\ 0 \in 0 .. Bundles - 1 /\ s.tile # Len(ts) + 1
    BY <1>1, <1>3
  <2> QED BY <1>1, <1>3, <1>6, <1>7, <2>1, <2>2, <2>3 DEF Control
<1>9. Spot(s) = Following(c, ts, r)
  <2>1. CASE r.at = "fold"
    BY <1>1, <1>4, <1>5, <2>1 DEF Spot, AfterFold
  <2>2. CASE r.at = "foldHalf"
    BY <1>1, <1>4, <1>5, <2>2 DEF Spot, AfterFold
  <2>3. CASE r.at = "foldIn"
    <3>1. CASE r.block + 1 < c.blocks
      BY <1>1, <1>4, <1>5, <2>3, <3>1 DEF Spot, AfterFold
    <3>2. CASE ~(r.block + 1 < c.blocks)
      <4>1. s.at = "turn" /\ s.block = r.block /\ ~(Num(r) + 1 < c.blocks)
        BY <1>4, <2>3, <3>2
      <4>2. s.block = LastBlock(c)
        BY <1>6, <4>1
      <4>3. Following(c, ts, r) = <<"turn", r.tile, Count(ts, r), 0, LastBlock(c)>>
        BY <1>5, <2>3, <4>1 DEF AfterFold
      <4> QED BY <1>1, <4>1, <4>2, <4>3 DEF Spot
    <3> QED BY <3>1, <3>2
  <2> QED BY <1>2, <2>1, <2>2, <2>3 DEF FoldLabels
<1> QED BY <1>8, <1>9, Zenon DEF Moved, Ends

\* ... through the end of a tile,
LEMMA EndMove ==
  ASSUME NEW c, NEW ts, NEW r, NEW s, Control(c, ts, r), r.tile \in 1 .. Len(ts),
         Len(ts) \in Nat, Count(ts, r) \in Nat \ {0},
         c.blocks \in Nat \ {0}, c.rows \in {1, 2, 4},
         DOMAIN s = {"at", "tile", "idx", "kk", "block", "syncs"},
         s.tile = r.tile, s.idx = r.idx, s.kk = r.kk, s.block = r.block,
         \/ r.at = "turn" /\ Split(ts, r) /\ s.at = "merge" /\ s.syncs = r.syncs + 1
         \/ r.at = "turn" /\ ~Split(ts, r) /\ s.at = "store" /\ s.syncs = r.syncs
         \/ r.at = "merge" /\ IsFinal(ts, r) /\ s.at = "store" /\ s.syncs = r.syncs + 1
         \/ r.at = "store" /\ s.at = "drain" /\ s.syncs = r.syncs + 1
  PROVE  Ends(c, ts, r, s)
<1>1. /\ r.idx = Count(ts, r) /\ r.kk = 0 /\ r.block = LastBlock(c) /\ r.syncs \in Nat
      /\ r.block \in 0 .. c.blocks - 1 /\ r.tile \in 1 .. Len(ts) + 1
  BY DEF Control, EndLabels
<1>2. r.at \in EndLabels /\ r.at \notin FoldLabels /\ r.at \notin PipeLabels
      /\ s.at \notin FoldLabels /\ s.at \notin PipeLabels
  BY DEF FoldLabels, PipeLabels, EndLabels
<1>3. Count(ts, s) = Count(ts, r) /\ Bundles \in Nat /\ Bundles >= 2
  BY PipelineAssumption DEF Count
<1>4. (Split(ts, s) <=> Split(ts, r)) /\ (IsFinal(ts, s) <=> IsFinal(ts, r))
  BY DEF Split, IsFinal
<1>5. Following(c, ts, r) = AfterEnd(c, ts, r)
  BY <1>2 DEF Following, FoldLabels, PipeLabels, EndLabels
<1>6. r.at = "store" /\ Split(ts, r) => IsFinal(ts, r)
  BY DEF Control
<1>7. Control(c, ts, s)
  BY <1>1, <1>2, <1>3, <1>4, <1>6 DEF Control, Labels, PipeLabels, FoldLabels, EndLabels
<1>8. CASE r.at = "turn" /\ ~Split(ts, r)
  <2>1. s.at = "store" /\ s.syncs = r.syncs
    BY <1>8
  <2>2. Part(ts, s) = "store" /\ Part(ts, r) = "store"
    BY <1>2, <1>8, <2>1 DEF Part
  <2>3. Num(s) = 0 /\ Num(r) = 0
    BY <1>2 DEF Num
  <2>4. ~Past(r) /\ ~Past(s)
    BY <1>8, <2>1 DEF Past
  <2>5. Same(ts, s, r)
    BY <2>2, <2>3, <2>4 DEF Same, Over
  <2> QED BY <1>7, <2>1, <2>5, Zenon DEF Moved, Ends
<1>9. CASE ~ (r.at = "turn" /\ ~Split(ts, r))
  <2>1. Part(ts, r) = r.at
    BY <1>2, <1>9 DEF Part
  <2>2. Spot(s) = Following(c, ts, r)
    BY <1>1, <1>5, <1>9, <2>1 DEF Spot, AfterEnd
  <2>3. s.syncs = r.syncs + 1
    BY <1>9
  <2> QED BY <1>7, <2>2, <2>3, Zenon DEF Moved, Ends
<1> QED BY <1>8, <1>9

\* ... and on to the next tile.
LEMMA NextTileMove ==
  ASSUME NEW c, NEW ts, NEW r, NEW s, Control(c, ts, r), r.tile \in 1 .. Len(ts),
         Len(ts) \in Nat, c.blocks \in Nat \ {0},
         DOMAIN s = {"at", "tile", "idx", "kk", "block", "syncs"}, s.syncs = r.syncs + 1,
         s.at = "routes", s.tile = r.tile + 1, s.idx = 0, s.kk = 0, s.block = 0,
         r.at = "drain" \/ (r.at = "merge" /\ ~IsFinal(ts, r))
  PROVE  Ends(c, ts, r, s)
<1>1. r.syncs \in Nat /\ Bundles \in Nat /\ Bundles >= 2
  BY PipelineAssumption DEF Control
<1>2. Control(c, ts, s)
  <2>1. /\ s.at \in Labels /\ s.at \notin PipeLabels
        /\ s.at \notin FoldLabels /\ s.at \notin EndLabels
    BY DEF Labels, PipeLabels, FoldLabels, EndLabels
  <2>2. s.syncs \in Nat /\ 0 \in 0 .. Bundles - 1 /\ 0 \in 0 .. c.blocks - 1
    BY <1>1
  <2>3. s.tile \in 1 .. Len(ts) + 1
    OBVIOUS
  <2> QED BY <2>1, <2>2, <2>3 DEF Control
<1>3. r.at \in EndLabels /\ r.at \notin FoldLabels /\ r.at \notin PipeLabels /\ Part(ts, r) = r.at
  BY DEF FoldLabels, PipeLabels, EndLabels, Part
<1>4. Following(c, ts, r) = AfterEnd(c, ts, r)
  BY <1>3 DEF Following, FoldLabels, PipeLabels, EndLabels
<1>5. Spot(s) = Following(c, ts, r)
  BY <1>3, <1>4 DEF Spot, AfterEnd
<1> QED BY <1>2, <1>5, Zenon DEF Moved, Ends

Stays(r, s) == s.tile = r.tile /\ s.idx = r.idx /\ s.kk = r.kk /\ s.block = r.block
Fields == {"at", "tile", "idx", "kk", "block", "syncs"}

\* Where a step takes a warp: to the next label, within a stretch or to the next.
Advance(c, ts, r, s) ==
  \/ /\ Stays(r, s) /\ s.syncs = r.syncs + 1
     /\ \/ r.at = "routes" /\ s.at = (IF c.packed THEN "count" ELSE "prologue")
        \/ r.at = "count" /\ s.at = "valid"
        \/ r.at = "valid" /\ s.at = "prologue"
        \/ r.at = "primed" /\ s.at = "first"
        \/ r.at = "wait" /\ s.at = "mma"
        \/ r.at = "fold" /\ s.at = "foldHalf"
        \/ r.at = "foldHalf" /\ s.at = "foldIn"
        \/ r.at = "turn" /\ Split(ts, r) /\ s.at = "merge"
        \/ r.at = "merge" /\ IsFinal(ts, r) /\ s.at = "store"
        \/ r.at = "store" /\ s.at = "drain"
  \/ /\ Stays(r, s) /\ s.syncs = r.syncs
     /\ \/ r.at = "prologue" /\ s.at = "primed"
        \/ r.at = "first" /\ s.at = "next"
        \/ r.at = "next" /\ s.at = (IF r.kk = Bundles - 2 THEN "ahead" ELSE "mma")
        \/ r.at = "ahead" /\ s.at = "wait"
        \/ r.at = "turn" /\ ~Split(ts, r) /\ s.at = "store"
  \/ /\ r.at = "mma" /\ s.tile = r.tile /\ s.block = r.block
     /\ \/ /\ r.kk + 1 < Bundles
           /\ s.at = "next" /\ s.kk = r.kk + 1 /\ s.idx = r.idx /\ s.syncs = r.syncs
        \/ /\ ~(r.kk + 1 < Bundles) /\ r.idx + 1 = Count(ts, r)
           /\ s.at = StartOf(c) /\ s.kk = 0 /\ s.idx = r.idx + 1 /\ s.syncs = r.syncs + 1
        \/ /\ ~(r.kk + 1 < Bundles) /\ r.idx + 1 # Count(ts, r) /\ (r.idx + 1) % Stages = 0
           /\ s.at = "first" /\ s.kk = 0 /\ s.idx = r.idx + 1 /\ s.syncs = r.syncs + 1
        \/ /\ ~(r.kk + 1 < Bundles) /\ r.idx + 1 # Count(ts, r) /\ (r.idx + 1) % Stages # 0
           /\ s.at = "next" /\ s.kk = 0 /\ s.idx = r.idx + 1 /\ s.syncs = r.syncs
  \/ /\ r.at = "foldIn" /\ s.tile = r.tile /\ s.idx = r.idx /\ s.kk = r.kk /\ s.syncs = r.syncs + 1
     /\ \/ r.block + 1 < c.blocks /\ s.at = StartOf(c) /\ s.block = r.block + 1
        \/ ~(r.block + 1 < c.blocks) /\ s.at = "turn" /\ s.block = r.block
  \/ /\ r.at = "drain" \/ (r.at = "merge" /\ ~IsFinal(ts, r))
     /\ s.at = "routes" /\ s.tile = r.tile + 1 /\ s.idx = 0 /\ s.kk = 0 /\ s.block = 0
     /\ s.syncs = r.syncs + 1

\* Wherever a step takes a warp, it is in a state a warp can be in, and in the
\* stretch it was in or in the next one.
LEMMA AdvanceEnds ==
  ASSUME NEW c, NEW ts, NEW r, NEW s, Control(c, ts, r), r.tile \in 1 .. Len(ts),
         Len(ts) \in Nat, Count(ts, r) \in Nat \ {0}, c.packed \in BOOLEAN,
         c.blocks \in Nat \ {0}, c.rows \in {1, 2, 4},
         DOMAIN s = Fields, Advance(c, ts, r, s)
  PROVE  Ends(c, ts, r, s)
<1>1. DOMAIN s = {"at", "tile", "idx", "kk", "block", "syncs"}
  BY DEF Fields
<1>2. r.kk \in Nat /\ Bundles \in Nat /\ r.block \in Nat
  BY PipelineAssumption DEF Control
<1>3. CASE r.at \in {"routes", "count", "valid", "primed", "prologue"}
  BY <1>1, <1>3, RoutesMove DEF Advance, Stays
<1>4. CASE r.at \in {"first", "next", "ahead"}
  BY <1>1, <1>4, FetchMove DEF Advance, Stays
<1>5. CASE r.at = "wait"
  BY <1>1, <1>5, WaitMove DEF Advance, Stays
<1>6. CASE r.at = "mma"
  BY <1>1, <1>2, <1>6, AccumulateMove DEF Advance, Stays
<1>7. CASE r.at \in FoldLabels
  BY <1>1, <1>2, <1>7, FoldMove DEF Advance, Stays, FoldLabels
<1>8. CASE r.at \in {"turn", "store"} \/ (r.at = "merge" /\ IsFinal(ts, r))
  BY <1>1, <1>8, EndMove DEF Advance, Stays
<1>9. CASE r.at = "drain" \/ (r.at = "merge" /\ ~IsFinal(ts, r))
  <2>1. /\ s.syncs = r.syncs + 1 /\ s.at = "routes" /\ s.tile = r.tile + 1
        /\ s.idx = 0 /\ s.kk = 0 /\ s.block = 0
    BY <1>9 DEF Advance
  <2> QED BY <1>1, <1>9, <2>1, NextTileMove
<1> QED BY <1>3, <1>4, <1>5, <1>6, <1>7, <1>8, <1>9
        DEF Control, Labels, PipeLabels, FoldLabels, EndLabels

-----------------------------------------------------------------------------
(* From the actions to these moves.                                        *)

\* The ways in which the actions move a warp.
LEMMA Moves ==
  ASSUME Shapes, NEW v \in Warp, DOMAIN warp[v] = Fields, NEW at
  PROVE  /\ Goto(v, at) =>
              /\ warp' = [warp EXCEPT ![v] = warp'[v]] /\ DOMAIN warp'[v] = Fields
              /\ warp'[v].at = at /\ warp'[v].syncs = warp[v].syncs /\ Stays(warp[v], warp'[v])
         /\ SyncGoto(v, at) =>
              /\ warp' = [warp EXCEPT ![v] = warp'[v]] /\ DOMAIN warp'[v] = Fields
              /\ warp'[v].at = at /\ warp'[v].syncs = warp[v].syncs + 1 /\ Stays(warp[v], warp'[v])
         /\ SyncNextTile(v) =>
              /\ warp' = [warp EXCEPT ![v] = warp'[v]] /\ DOMAIN warp'[v] = Fields
              /\ warp'[v].at = "routes" /\ warp'[v].tile = warp[v].tile + 1
              /\ warp'[v].idx = 0 /\ warp'[v].kk = 0 /\ warp'[v].block = 0
              /\ warp'[v].syncs = warp[v].syncs + 1
         /\ RoundEnd(v, at) =>
              /\ warp' = [warp EXCEPT ![v] = warp'[v]] /\ DOMAIN warp'[v] = Fields
              /\ warp'[v].at = at /\ warp'[v].idx = warp[v].idx + 1 /\ warp'[v].kk = 0
              /\ warp'[v].tile = warp[v].tile /\ warp'[v].block = warp[v].block
              /\ warp'[v].syncs = warp[v].syncs + 1
<1>1. DOMAIN warp = Warp
  BY DEF Shapes, FunOver
<1>2. ASSUME Goto(v, at)
      PROVE  /\ warp' = [warp EXCEPT ![v] = warp'[v]] /\ DOMAIN warp'[v] = Fields
             /\ warp'[v].at = at /\ warp'[v].syncs = warp[v].syncs /\ Stays(warp[v], warp'[v])
  BY <1>1, <1>2 DEF Goto, Stays, Fields
<1>3. ASSUME SyncGoto(v, at)
      PROVE  /\ warp' = [warp EXCEPT ![v] = warp'[v]] /\ DOMAIN warp'[v] = Fields
             /\ warp'[v].at = at /\ warp'[v].syncs = warp[v].syncs + 1 /\ Stays(warp[v], warp'[v])
  BY <1>1, <1>3 DEF SyncGoto, Stays, Fields
<1>4. ASSUME SyncNextTile(v)
      PROVE  /\ warp' = [warp EXCEPT ![v] = warp'[v]] /\ DOMAIN warp'[v] = Fields
             /\ warp'[v].at = "routes" /\ warp'[v].tile = warp[v].tile + 1
             /\ warp'[v].idx = 0 /\ warp'[v].kk = 0 /\ warp'[v].block = 0
             /\ warp'[v].syncs = warp[v].syncs + 1
  BY <1>1, <1>4 DEF SyncNextTile, Stays, Fields
<1>5. ASSUME RoundEnd(v, at)
      PROVE  /\ warp' = [warp EXCEPT ![v] = warp'[v]] /\ DOMAIN warp'[v] = Fields
             /\ warp'[v].at = at /\ warp'[v].idx = warp[v].idx + 1 /\ warp'[v].kk = 0
             /\ warp'[v].tile = warp[v].tile /\ warp'[v].block = warp[v].block
             /\ warp'[v].syncs = warp[v].syncs + 1
  BY <1>1, <1>5 DEF RoundEnd, Stays, Fields
<1> QED BY <1>2, <1>3, <1>4, <1>5

Stepped(v) ==
  /\ cta' = cta /\ work' = work
  /\ warp' = [warp EXCEPT ![v] = warp'[v]] /\ DOMAIN warp'[v] = Fields
  /\ \A w \in Warp : warp[w].syncs >= warp[v].syncs
  /\ warp[v].tile \in 1 .. Len(work)
  /\ Advance(cta, work, warp[v], warp'[v])

\* Every action moves its warp, and only that, as Advance says.
LEMMA Stepping ==
  ASSUME Shapes, ControlInv, NEW v \in Warp, WarpStep(v)
  PROVE  Stepped(v)
<1> DEFINE r == warp[v]
           s == warp'[v]
<1>1. cta' = cta /\ work' = work
  BY DEF WarpStep, ReadRoutes, CountRows, ReadCount, Prologue, Primed, LoadFirst, LoadNext,
         Lookahead, WaitStages, Accumulate, FoldOuter, FoldHalf, FoldIn, TakeTurn, Merge, Store, Drain
<1>2. warp[v].tile \in DOMAIN work /\ \A w \in Warp : warp[w].syncs >= warp[v].syncs
  BY DEF WarpStep, ReadRoutes, CountRows, ReadCount, Prologue, Primed, LoadFirst, LoadNext,
         Lookahead, WaitStages, Accumulate, FoldOuter, FoldHalf, FoldIn, TakeTurn, Merge, Store, Drain, At
<1>3. warp[v].tile \in 1 .. Len(work) /\ Len(work) \in Nat
  BY <1>2, WorkFacts
<1>4. /\ DOMAIN r = Fields /\ r.idx \in Nat /\ r.kk \in Nat /\ r.block \in Nat /\ r.syncs \in Nat
  BY DEF ControlInv, Control, Fields
<1>5. DOMAIN warp = Warp
  BY DEF Shapes, FunOver
<1> DEFINE Goal == /\ warp' = [warp EXCEPT ![v] = warp'[v]] /\ DOMAIN warp'[v] = Fields
                   /\ Advance(cta, work, warp[v], warp'[v])
<1> SUFFICES Goal
  BY <1>1, <1>2, <1>3 DEF Stepped
<1>6. CASE ReadRoutes(v)
  <2>1. r.at = "routes" /\ SyncGoto(v, IF cta.packed THEN "count" ELSE "prologue")
    BY <1>6 DEF ReadRoutes, At
  <2> QED BY <1>4, <2>1, Moves DEF Advance
<1>7. CASE CountRows(v)
  <2>1. r.at = "count" /\ SyncGoto(v, "valid")
    BY <1>7 DEF CountRows, At
  <2> QED BY <1>4, <2>1, Moves DEF Advance
<1>8. CASE ReadCount(v)
  <2>1. r.at = "valid" /\ SyncGoto(v, "prologue")
    BY <1>8 DEF ReadCount, At
  <2> QED BY <1>4, <2>1, Moves DEF Advance
<1>9. CASE Prologue(v)
  <2>1. r.at = "prologue" /\ Goto(v, "primed")
    BY <1>9 DEF Prologue, At
  <2> QED BY <1>4, <2>1, Moves DEF Advance
<1>10. CASE Primed(v)
  <2>1. r.at = "primed" /\ SyncGoto(v, "first")
    BY <1>10 DEF Primed, At
  <2> QED BY <1>4, <2>1, Moves DEF Advance
<1>11. CASE LoadFirst(v)
  <2>1. r.at = "first" /\ Goto(v, "next")
    BY <1>11 DEF LoadFirst, At
  <2> QED BY <1>4, <2>1, Moves DEF Advance
<1>12. CASE LoadNext(v)
  <2>1. r.at = "next" /\ Goto(v, IF r.kk = Bundles - 2 THEN "ahead" ELSE "mma")
    BY <1>12 DEF LoadNext, At
  <2> QED BY <1>4, <2>1, Moves DEF Advance
<1>13. CASE Lookahead(v)
  <2>1. r.at = "ahead" /\ Goto(v, "wait")
    BY <1>13 DEF Lookahead, At
  <2> QED BY <1>4, <2>1, Moves DEF Advance
<1>14. CASE WaitStages(v)
  <2>1. r.at = "wait" /\ SyncGoto(v, "mma")
    BY <1>14 DEF WaitStages, At
  <2> QED BY <1>4, <2>1, Moves DEF Advance
<1>15. CASE Accumulate(v)
  <2>1. r.at = "mma" /\ TileOf(v).count = Count(work, r)
    BY <1>15 DEF Accumulate, At, TileOf, Count
  <2>2. CASE r.kk + 1 < Bundles
    <3>1. warp' = [warp EXCEPT ![v].at = "next", ![v].kk = @ + 1]
      BY <1>15, <2>2 DEF Accumulate
    <3>2. /\ warp' = [warp EXCEPT ![v] = warp'[v]] /\ DOMAIN warp'[v] = Fields
          /\ s.at = "next" /\ s.kk = r.kk + 1 /\ s.idx = r.idx /\ s.syncs = r.syncs
          /\ s.tile = r.tile /\ s.block = r.block
      BY <1>4, <1>5, <3>1 DEF Fields
    <3> QED BY <2>1, <2>2, <3>2 DEF Advance
  <2>3. CASE ~(r.kk + 1 < Bundles) /\ r.idx + 1 = Count(work, r)
    <3>1. RoundEnd(v, FoldStart)
      BY <1>15, <2>1, <2>3 DEF Accumulate
    <3>2. FoldStart = StartOf(cta)
      BY DEF FoldStart, StartOf
    <3> QED BY <1>4, <2>1, <2>3, <3>1, <3>2, Moves DEF Advance
  <2>4. CASE ~(r.kk + 1 < Bundles) /\ r.idx + 1 # Count(work, r) /\ (r.idx + 1) % Stages = 0
    <3>1. RoundEnd(v, "first")
      BY <1>15, <2>1, <2>4 DEF Accumulate
    <3> QED BY <1>4, <2>1, <2>4, <3>1, Moves DEF Advance
  <2>5. CASE ~(r.kk + 1 < Bundles) /\ r.idx + 1 # Count(work, r) /\ (r.idx + 1) % Stages # 0
    <3>1. warp' = [warp EXCEPT ![v].at = "next", ![v].idx = @ + 1, ![v].kk = 0]
      BY <1>15, <2>1, <2>5 DEF Accumulate
    <3>2. /\ warp' = [warp EXCEPT ![v] = warp'[v]] /\ DOMAIN warp'[v] = Fields
          /\ s.at = "next" /\ s.kk = 0 /\ s.idx = r.idx + 1 /\ s.syncs = r.syncs
          /\ s.tile = r.tile /\ s.block = r.block
      BY <1>4, <1>5, <3>1 DEF Fields
    <3> QED BY <2>1, <2>5, <3>2 DEF Advance
  <2> QED BY <2>2, <2>3, <2>4, <2>5
<1>16. CASE FoldOuter(v)
  <2>1. r.at = "fold" /\ SyncGoto(v, "foldHalf")
    BY <1>16 DEF FoldOuter, At
  <2> QED BY <1>4, <2>1, Moves DEF Advance
<1>17. CASE FoldHalf(v)
  <2>1. r.at = "foldHalf" /\ SyncGoto(v, "foldIn")
    BY <1>17 DEF FoldHalf, At
  <2> QED BY <1>4, <2>1, Moves DEF Advance
<1>18. CASE FoldIn(v)
  <2>1. r.at = "foldIn" /\ FoldStart = StartOf(cta)
    BY <1>18 DEF FoldIn, At, FoldStart, StartOf
  <2>2. CASE r.block + 1 < cta.blocks
    <3>1. warp' = [warp EXCEPT ![v].at = FoldStart, ![v].block = @ + 1, ![v].syncs = @ + 1]
      BY <1>18, <2>2 DEF FoldIn
    <3>2. /\ warp' = [warp EXCEPT ![v] = warp'[v]] /\ DOMAIN warp'[v] = Fields
          /\ s.at = StartOf(cta) /\ s.kk = r.kk /\ s.idx = r.idx /\ s.syncs = r.syncs + 1
          /\ s.tile = r.tile /\ s.block = r.block + 1
      BY <1>4, <1>5, <2>1, <3>1 DEF Fields
    <3> QED BY <2>1, <2>2, <3>2 DEF Advance
  <2>3. CASE ~(r.block + 1 < cta.blocks)
    <3>1. SyncGoto(v, "turn")
      BY <1>18, <2>3 DEF FoldIn
    <3> QED BY <1>4, <2>1, <2>3, <3>1, Moves DEF Advance, Stays
  <2> QED BY <2>2, <2>3
<1>19. CASE TakeTurn(v)
  <2>1. /\ r.at = "turn"
        /\ IF Split(work, r) THEN SyncGoto(v, "merge") ELSE Goto(v, "store")
    BY <1>19 DEF TakeTurn, At, TileOf, Split
  <2> QED BY <1>4, <2>1, Moves DEF Advance
<1>20. CASE Merge(v)
  <2>1. /\ r.at = "merge"
        /\ IF IsFinal(work, r) THEN SyncGoto(v, "store") ELSE SyncNextTile(v)
    BY <1>20 DEF Merge, At, TileOf, IsFinal, LastSlice
  <2> QED BY <1>4, <2>1, Moves DEF Advance
<1>21. CASE Store(v)
  <2>1. r.at = "store" /\ SyncGoto(v, "drain")
    BY <1>21 DEF Store, At
  <2> QED BY <1>4, <2>1, Moves DEF Advance
<1>22. CASE Drain(v)
  <2>1. r.at = "drain" /\ SyncNextTile(v)
    BY <1>22 DEF Drain, At
  <2> QED BY <1>4, <2>1, Moves DEF Advance
<1> QED BY <1>6, <1>7, <1>8, <1>9, <1>10, <1>11, <1>12, <1>13, <1>14, <1>15, <1>16, <1>17, <1>18,
           <1>19, <1>20, <1>21, <1>22 DEF WarpStep

-----------------------------------------------------------------------------
(* The company of a warp that can take a step.                             *)

Beside(c, ts, r, t) ==
  \/ t.syncs = r.syncs /\ Same(ts, r, t)
  \/ t.syncs = r.syncs + 1 /\ Spot(t) = Following(c, ts, r)

Company(v) == \A w \in Warp : Beside(cta, work, warp[v], warp[w])

\* No warp is behind the one that takes a step: the others are in its stretch
\* or in the next.
LEMMA HasCompany ==
  ASSUME ControlInv, Lockstep, NEW v \in Warp, \A w \in Warp : warp[w].syncs >= warp[v].syncs
  PROVE  Company(v)
<1> SUFFICES ASSUME NEW w \in Warp PROVE Beside(cta, work, warp[v], warp[w])
  BY DEF Company
<1>1. warp[w].syncs \in Nat /\ warp[v].syncs \in Nat /\ warp[w].syncs >= warp[v].syncs
  BY DEF ControlInv, Control
<1>2. InStep(cta, work, warp[w], warp[v]) /\ InStep(cta, work, warp[v], warp[w])
  BY DEF Lockstep
<1> QED BY <1>1, <1>2 DEF InStep, Beside

\* What the others are at while a warp is at its label; the pipeline is for Ahead.
LEMMA BesideLabels ==
  ASSUME NEW c, NEW ts, NEW r, NEW t, r.at \in Labels, t.at \in Labels, Beside(c, ts, r, t), r.syncs \in Nat,
         c.rows \in {1, 2, 4}
  PROVE  /\ r.at = "routes" => t.at \in {"routes", "count", "prologue"}
         /\ r.at = "count" => t.at \in {"count", "valid"}
         /\ r.at = "valid" => t.at \in {"valid", "prologue"}
         /\ r.at \in {"prologue", "primed"} => t.at \in {"prologue", "primed", "first"}
         /\ r.at \in PipeLabels => t.at \in PipeLabels \cup {StartOf(c)}
         /\ r.at = "fold" => t.at \in {"fold", "foldHalf"}
         /\ r.at = "foldHalf" => t.at \in {"foldHalf", "foldIn"}
         /\ r.at = "foldIn" => t.at \in {"foldIn", StartOf(c), "turn"}
         /\ r.at \in EndLabels => t.at \in EndLabels \cup {"routes"}
         /\ r.at = "merge" => t.at \in {"merge", "store", "routes"}
         /\ r.at = "drain" => t.at \in {"drain", "routes"}
         /\ r.at \notin {"drain", "merge"} => t.tile = r.tile
         /\ t.syncs = r.syncs => t.tile = r.tile
         /\ t.at # "routes" => t.tile = r.tile
         /\ r.at # "routes" /\ t.at = "routes" => t.tile = r.tile + 1
<1>1. CASE t.syncs = r.syncs /\ Same(ts, r, t)
  <2>1. t.tile = r.tile /\ Part(ts, r) = Part(ts, t)
    BY <1>1 DEF Same
  <2>2. t.at = r.at \/ (r.at \in PipeLabels /\ t.at \in PipeLabels)
        \/ (r.at \in {"prologue", "primed"} /\ t.at \in {"prologue", "primed"})
        \/ (r.at \in {"turn", "store"} /\ t.at \in {"turn", "store"})
    BY <2>1 DEF Part, Labels, PipeLabels, FoldLabels, EndLabels
  <2> QED BY <2>1, <2>2 DEF Labels, PipeLabels, FoldLabels, EndLabels
<1>2. CASE t.syncs = r.syncs + 1 /\ Spot(t) = Following(c, ts, r)
  <2>1. <<t.at, t.tile, t.idx, t.kk, t.block>> = Following(c, ts, r)
    BY <1>2 DEF Spot
  <2>2. CASE r.at \in {"routes", "count", "valid", "prologue", "primed"}
    BY <2>1, <2>2, <1>2 DEF Following, PipeLabels, FoldLabels, EndLabels
  <2>3. CASE r.at \in PipeLabels
    <3>1. Following(c, ts, r) = AfterPipe(c, ts, r)
      BY <2>3 DEF Following, PipeLabels
    <3>2. t.at \in {"mma", "first", StartOf(c)} /\ t.tile = r.tile
      BY <2>1, <3>1 DEF AfterPipe
    <3>3. StartOf(c) \in {"fold", "foldHalf", "turn"}
      BY DEF StartOf
    <3> QED BY <2>3, <1>2, <3>2, <3>3 DEF PipeLabels, EndLabels
  <2>4. CASE r.at \in FoldLabels
    <3>1. Following(c, ts, r) = AfterFold(c, ts, r)
      BY <2>4 DEF Following, PipeLabels, FoldLabels
    <3>2. /\ t.tile = r.tile
          /\ r.at = "fold" => t.at = "foldHalf"
          /\ r.at = "foldHalf" => t.at = "foldIn"
          /\ r.at = "foldIn" => t.at \in {StartOf(c), "turn"}
      BY <2>1, <2>4, <3>1 DEF AfterFold, FoldLabels
    <3>3. StartOf(c) \in {"fold", "foldHalf", "turn"}
      BY DEF StartOf
    <3> QED BY <2>4, <1>2, <3>2, <3>3 DEF FoldLabels, PipeLabels, EndLabels
  <2>5. CASE r.at \in EndLabels
    <3>1. Following(c, ts, r) = AfterEnd(c, ts, r)
      BY <2>5 DEF Following, PipeLabels, FoldLabels, EndLabels
    <3>2. CASE Part(ts, r) = "turn"
      <4>1. t.at = "merge" /\ t.tile = r.tile
        BY <2>1, <3>1, <3>2 DEF AfterEnd
      <4>2. r.at = "turn"
        BY <2>5, <3>2 DEF Part, EndLabels, PipeLabels
      <4> QED BY <1>2, <4>1, <4>2 DEF EndLabels, PipeLabels
    <3>3. CASE Part(ts, r) = "merge"
      <4>1. \/ t.at = "store" /\ t.tile = r.tile
            \/ t.at = "routes" /\ t.tile = r.tile + 1
        BY <2>1, <3>1, <3>3 DEF AfterEnd
      <4>2. r.at = "merge"
        BY <2>5, <3>3 DEF Part, EndLabels, PipeLabels
      <4> QED BY <1>2, <4>1, <4>2 DEF EndLabels, PipeLabels
    <3>4. CASE Part(ts, r) = "store"
      <4>1. t.at = "drain" /\ t.tile = r.tile
        BY <2>1, <3>1, <3>4 DEF AfterEnd
      <4>2. r.at \in {"turn", "store"}
        BY <2>5, <3>4 DEF Part, EndLabels, PipeLabels
      <4> QED BY <1>2, <4>1, <4>2 DEF EndLabels, PipeLabels
    <3>5. CASE Part(ts, r) \notin {"turn", "merge", "store"}
      <4>1. t.at = "routes" /\ t.tile = r.tile + 1
        BY <2>1, <3>1, <3>5 DEF AfterEnd
      <4>2. r.at = "drain"
        BY <2>5, <3>5 DEF Part, EndLabels, PipeLabels
      <4> QED BY <1>2, <4>1, <4>2 DEF EndLabels, PipeLabels
    <3> QED BY <3>2, <3>3, <3>4, <3>5
  <2> QED BY <2>2, <2>3, <2>4, <2>5 DEF Labels
<1> QED BY <1>1, <1>2 DEF Beside

\* The stages and the bundles.
LEMMA Numbers ==
  /\ Stages \in Nat /\ Stages >= 2 /\ Bundles \in Nat /\ Bundles >= 2
  /\ 0 \in Stage
BY PipelineAssumption DEF Stage

\* What is known of the warp that takes a step.
LEMMA StepFacts ==
  ASSUME Shapes, ControlInv, NEW v \in Warp, Stepped(v)
  PROVE  /\ Control(cta, work, warp[v]) /\ Ends(cta, work, warp[v], warp'[v])
         /\ Control(cta, work, warp'[v])
         /\ Warp' = Warp /\ Block' = Block /\ Col' = Col
         /\ \A w \in Warp : w # v => warp'[w] = warp[w]
         /\ warp[v].tile \in 1 .. Len(work) /\ Len(work) \in Nat
         /\ Count(work, warp[v]) \in Nat \ {0} /\ First(work, warp[v]) \in Nat
         /\ warp[v].idx \in Nat /\ warp[v].kk \in 0 .. Bundles - 1 /\ warp[v].syncs \in Nat
         /\ warp[v].block \in 0 .. cta.blocks - 1
<1>1. Control(cta, work, warp[v]) /\ warp[v].tile \in 1 .. Len(work) /\ DOMAIN warp'[v] = Fields
  BY DEF ControlInv, Stepped
<1>2. Len(work) \in Nat /\ Count(work, warp[v]) \in Nat \ {0} /\ First(work, warp[v]) \in Nat
  BY <1>1, WorkFacts, TileFacts DEF Count, First
<1>3. Ends(cta, work, warp[v], warp'[v])
  BY <1>1, <1>2, CtaFacts, AdvanceEnds DEF Stepped
<1>4. Warp' = Warp /\ Block' = Block /\ Col' = Col
  BY DEF Stepped, Warp, Block, Col
<1>5. \A w \in Warp : w # v => warp'[w] = warp[w]
  BY DEF Stepped, Shapes, FunOver
<1>6. Control(cta, work, warp'[v])
  BY <1>3 DEF Ends
<1>7. /\ warp[v].idx \in Nat /\ warp[v].kk \in 0 .. Bundles - 1 /\ warp[v].syncs \in Nat
      /\ warp[v].block \in 0 .. cta.blocks - 1
  BY <1>1 DEF Control
<1> QED BY <1>1, <1>2, <1>3, <1>4, <1>5, <1>6, <1>7

\* A step leaves every warp where a warp can be,
LEMMA ControlStep ==
  ASSUME Shapes, ControlInv, NEW v \in Warp, Stepped(v)
  PROVE  ControlInv'
<1>1. cta' = cta /\ work' = work
  BY DEF Stepped
<1>2. \A w \in Warp : Control(cta, work, warp'[w])
  BY StepFacts DEF ControlInv
<1> QED BY <1>1, <1>2, StepFacts DEF ControlInv

\* ... and all of them within two stretches of one another.
LEMMA LockstepStep ==
  ASSUME Shapes, ControlInv, Lockstep, NEW v \in Warp, Stepped(v)
  PROVE  Lockstep'
<1>1. warp'[v].at \in Labels /\ warp'[v].syncs \in Nat /\ Moved(cta, work, warp[v], warp'[v])
  BY StepFacts DEF Control, Ends
<1> QED BY <1>1, LockstepKeeps DEF Stepped

\* The k-tile a warp waits for, over a step in the pipeline.
LEMMA AdvanceWaits ==
  ASSUME NEW c, NEW ts, NEW r, NEW s, Control(c, ts, r), r.tile \in 1 .. Len(ts),
         Len(ts) \in Nat, Count(ts, r) \in Nat \ {0}, c.packed \in BOOLEAN,
         c.blocks \in Nat \ {0}, c.rows \in {1, 2, 4},
         DOMAIN s = Fields, Advance(c, ts, r, s)
  PROVE  /\ r.at \in {"first", "next", "ahead"} =>
              /\ Waits(s) = Waits(r) /\ s.at \in PipeLabels /\ Stays(r, s)
              /\ s.at = "wait" <=> r.at = "ahead"
         /\ r.at \in {"ahead", "wait"} => Waits(r) = r.idx
         /\ r.at = "wait" => Waits(s) = r.idx + 1 /\ Stays(r, s)
         /\ r.at = "mma" =>
              \/ s.at \in {"first", "next"} /\ Waits(s) = Waits(r)
              \/ s.at = StartOf(c) /\ Waits(r) = Count(ts, r) /\ r.idx + 1 = Count(ts, r) /\ r.kk = Bundles - 1
<1>1. DOMAIN s = {"at", "tile", "idx", "kk", "block", "syncs"}
  BY DEF Fields
<1>2. r.kk \in 0 .. Bundles - 1 /\ Bundles \in Nat /\ Bundles >= 2 /\ r.block \in Nat /\ r.idx \in Nat
  BY PipelineAssumption DEF Control
<1>3. CASE r.at \in {"first", "next", "ahead"}
  <2>1. Waits(s) = Waits(r)
    <3>1. /\ Stays(r, s) /\ s.syncs = r.syncs
          /\ \/ r.at = "first" /\ s.at = "next"
             \/ r.at = "next" /\ s.at = (IF r.kk = Bundles - 2 THEN "ahead" ELSE "mma")
             \/ r.at = "ahead" /\ s.at = "wait"
      BY <1>3 DEF Advance
    <3>2. s.idx = r.idx /\ s.kk = r.kk /\ (r.at = "first" => r.kk = 0)
          /\ (r.at = "ahead" => r.kk = Bundles - 2)
      BY <3>1 DEF Stays, Control
    <3>3. Past(s) <=> Past(r)
      BY <1>2, <3>1, <3>2 DEF Past
    <3> QED BY <3>2, <3>3 DEF Waits
  <2>2. r.at = "ahead" => r.kk = Bundles - 2
    BY DEF Control
  <2>3. r.at = "ahead" => Waits(r) = r.idx
    BY <1>2, <2>2 DEF Waits, Past
  <2>4. s.at \in PipeLabels /\ Stays(r, s) /\ (s.at = "wait" <=> r.at = "ahead")
    BY <1>3 DEF Advance, PipeLabels
  <2> QED BY <1>3, <2>1, <2>3, <2>4
<1>4. CASE r.at = "wait"
  <2>1. Stays(r, s) /\ s.at = "mma" /\ s.syncs = r.syncs + 1
    BY <1>4 DEF Advance
  <2>2. s.idx = r.idx /\ s.kk = r.kk /\ r.kk = Bundles - 2
    BY <1>4, <2>1 DEF Stays, Control
  <2>3. Waits(r) = r.idx /\ Waits(s) = r.idx + 1
    BY <1>2, <1>4, <2>1, <2>2 DEF Waits, Past
  <2> QED BY <1>4, <2>1, <2>3
<1>5. CASE r.at = "mma"
  <2>1. CASE ~(r.kk + 1 < Bundles) /\ r.idx + 1 = Count(ts, r)
    <3>1. s.at = StartOf(c)
      BY <1>5, <2>1 DEF Advance
    <3>2. r.kk = Bundles - 1 /\ Waits(r) = r.idx + 1
      BY <1>2, <1>5, <2>1 DEF Waits, Past
    <3> QED BY <1>5, <2>1, <3>1, <3>2
  <2>2. CASE r.kk + 1 < Bundles \/ r.idx + 1 # Count(ts, r)
    <3>1. s.at \in {"first", "next"}
      BY <1>5, <2>2 DEF Advance
    <3>2. Waits(s) = Waits(r)
      <4>1. CASE r.kk + 1 < Bundles
        <5>1. s.at = "next" /\ s.kk = r.kk + 1 /\ s.idx = r.idx
          BY <1>2, <1>5, <4>1 DEF Advance
        <5> QED BY <1>2, <1>5, <4>1, <5>1 DEF Waits, Past
      <4>2. CASE ~(r.kk + 1 < Bundles)
        <5>1. s.kk = 0 /\ s.idx = r.idx + 1
          BY <1>2, <1>5, <4>2 DEF Advance
        <5> QED BY <1>2, <1>5, <3>1, <4>2, <5>1 DEF Waits, Past
      <4> QED BY <4>1, <4>2
    <3> QED BY <1>5, <3>1, <3>2
  <2> QED BY <2>1, <2>2
<1> QED BY <1>3, <1>4, <1>5

-----------------------------------------------------------------------------
(* Copies that land.                                                       *)

\* The groups that have landed are the oldest ones.
LEMMA LandedFirst ==
  ASSUME NEW v \in Warp, NEW youngest \in Nat, flight[v] \in Seq(Groups),
         youngest <= Len(flight[v])
  PROVE  /\ Landed(v, youngest) = 1 .. Len(flight[v]) - youngest
         /\ Cardinality(Landed(v, youngest)) = Len(flight[v]) - youngest
<1>1. Len(flight[v]) \in Nat /\ DOMAIN flight[v] = 1 .. Len(flight[v])
  BY LenProperties
<1>2. Landed(v, youngest) = 1 .. Len(flight[v]) - youngest
  BY <1>1 DEF Landed
<1>3. Cardinality(1 .. Len(flight[v]) - youngest) = Len(flight[v]) - youngest
  <2> DEFINE b == Len(flight[v]) - youngest
  <2>1. b \in Nat /\ 1 \in Int
    BY <1>1
  <2> HIDE DEF b
  <2>2. Cardinality(1 .. b) = IF 1 > b THEN 0 ELSE b - 1 + 1
    BY <2>1, FS_Interval
  <2>3. Cardinality(1 .. b) = b
    BY <2>1, <2>2
  <2> QED BY <2>3 DEF b
<1> QED BY <1>2, <1>3

\* Waiting for empty groups changes nothing in memory.
LEMMA WaitAll ==
  ASSUME Shapes, NEW v \in Warp, flight[v] \in Seq(Groups),
         \A n \in 1 .. Len(flight[v]) : flight[v][n] = NoGroup, WaitGroup(v, 0)
  PROVE  /\ smem' = smem
         /\ flight' = [flight EXCEPT ![v] = flight'[v]] /\ flight'[v] = <<>>
<1>1. Len(flight[v]) \in Nat /\ DOMAIN flight[v] = 1 .. Len(flight[v])
  BY LenProperties
<1>2. Landed(v, 0) = 1 .. Len(flight[v]) /\ Cardinality(Landed(v, 0)) = Len(flight[v])
  <2>1. 0 \in Nat /\ 0 <= Len(flight[v]) /\ Len(flight[v]) - 0 = Len(flight[v])
    BY <1>1
  <2>2. /\ Landed(v, 0) = 1 .. Len(flight[v]) - 0
        /\ Cardinality(Landed(v, 0)) = Len(flight[v]) - 0
    BY <2>1, LandedFirst
  <2> QED BY <2>1, <2>2
<1>3. \A p : {n \in Landed(v, 0) : flight[v][n] # NoGroup /\ flight[v][n].stage = p} = {}
  BY <1>2
<1>4. smem' = [p \in Stage |-> [smem[p] EXCEPT ![v] = smem[p][v]]]
  BY <1>3 DEF WaitGroup
<1>5. \A p \in Stage : [smem[p] EXCEPT ![v] = smem[p][v]] = smem[p]
  BY DEF Shapes, FunOver
<1>6. smem' = smem
  BY <1>4, <1>5 DEF Shapes, FunOver
<1>7. flight' = [flight EXCEPT ![v] = SubSeq(flight[v], Len(flight[v]) + 1, Len(flight[v]))]
  BY <1>2 DEF WaitGroup
<1>8. SubSeq(flight[v], Len(flight[v]) + 1, Len(flight[v])) = <<>>
  BY <1>1, SubSeqEmpty
<1>9. DOMAIN flight = Warp
  BY DEF Shapes, FunOver
<1> QED BY <1>6, <1>7, <1>8, <1>9

\* What lands with the group of the i-th k-tile.
Lands(v, j, i) ==
  /\ smem' = [p \in Stage |-> smem'[p]]
  /\ \A p \in Stage :
       /\ smem'[p] = [smem[p] EXCEPT ![v] = smem'[p][v]]
       /\ smem'[p][v] = IF i < work[j].count /\ p = i % Stages
                          THEN Data(routes, work[j].first + i) ELSE smem[p][v]

LandsFirst(v, f, m, j, i) ==
  /\ Lands(v, j, i)
  /\ flight' = [flight EXCEPT ![v] = flight'[v]] /\ flight'[v] \in Seq(Groups)
  /\ Len(flight'[v]) = Behind
  /\ \A n \in 1 .. Behind : flight'[v][n] = f[m + n]

\* All groups that land are empty but the last, which is that of the i-th k-tile.
LEMMA WaitOne ==
  ASSUME Shapes, NEW v \in Warp, NEW f, f = flight[v], f \in Seq(Groups),
         NEW m \in Nat \ {0}, Len(f) = m + Behind,
         \A n \in 1 .. m - 1 : f[n] = NoGroup,
         NEW j \in 1 .. Len(work), NEW i \in Nat, f[m] = GroupOf(work, j, i),
         WaitGroup(v, Behind)
  PROVE  LandsFirst(v, f, m, j, i)
<1>1. Len(f) \in Nat /\ Behind \in Nat
  <2>1. Behind \in Nat
    BY Numbers DEF Behind
  <2> QED BY <2>1
<1>2. Landed(v, Behind) = 1 .. m /\ Cardinality(Landed(v, Behind)) = m
  <2>1. Len(f) - Behind = m /\ Behind <= Len(f)
    BY <1>1
  <2> QED BY <1>1, <2>1, LandedFirst
<1> DEFINE hits(p) == {n \in Landed(v, Behind) : f[n] # NoGroup /\ f[n].stage = p}
           cell(p) == IF hits(p) = {} THEN smem[p][v]
                      ELSE Data(routes, f[CHOOSE n \in hits(p) : TRUE].k)
<1>3. smem' = [p \in Stage |-> [smem[p] EXCEPT ![v] = cell(p)]]
  BY DEF WaitGroup
<1>4. \A n \in 1 .. m : n = m \/ n \in 1 .. m - 1
  OBVIOUS
<1>5. \A p \in Stage : cell(p) = IF i < work[j].count /\ p = i % Stages
                                   THEN Data(routes, work[j].first + i) ELSE smem[p][v]
  <2>1. CASE i < work[j].count
    <3>1. f[m] = [stage |-> i % Stages, k |-> work[j].first + i]
      BY <2>1 DEF GroupOf, Group
    <3>2. "stage" \in DOMAIN f[m] /\ "stage" \notin DOMAIN NoGroup
      BY <3>1 DEF NoGroup, Empty
    <3>3. f[m].stage = i % Stages /\ f[m].k = work[j].first + i /\ f[m] # NoGroup
      BY <3>1, <3>2
    <3>4. \A p \in Stage : hits(p) = IF p = i % Stages THEN {m} ELSE {}
      BY <1>2, <1>4, <3>3
    <3>5. ASSUME NEW p \in Stage, p = i % Stages
          PROVE  cell(p) = Data(routes, work[j].first + i)
      <4>1. hits(p) = {m}
        BY <3>4, <3>5
      <4> HIDE DEF hits
      <4>2. hits(p) # {} /\ (CHOOSE n \in hits(p) : TRUE) = m
        BY <4>1
      <4> QED BY <3>3, <3>5, <4>2
    <3>6. ASSUME NEW p \in Stage, p # i % Stages
          PROVE  cell(p) = smem[p][v]
      <4>1. hits(p) = {}
        BY <3>4, <3>6
      <4> QED BY <4>1
    <3> HIDE DEF cell
    <3> QED BY <2>1, <3>5, <3>6
  <2>2. CASE ~(i < work[j].count)
    <3>1. f[m] = NoGroup
      BY <2>2 DEF GroupOf
    <3>2. \A p : hits(p) = {}
      BY <1>2, <1>4, <3>1
    <3> QED BY <2>2, <3>2
  <2> QED BY <2>1, <2>2
<1> HIDE DEF hits, cell
<1>6. /\ smem' = [p \in Stage |-> smem'[p]]
      /\ \A p \in Stage : /\ smem'[p] = [smem[p] EXCEPT ![v] = smem'[p][v]]
                          /\ smem'[p][v] = cell(p)
  BY <1>3 DEF Shapes, FunOver
<1>8. flight' = [flight EXCEPT ![v] = SubSeq(f, m + 1, m + Behind)]
  BY <1>1, <1>2 DEF WaitGroup
<1>9. \A n \in m + 1 .. m + Behind : f[n] \in Groups
  BY <1>1, LenProperties
<1>10. /\ SubSeq(f, m + 1, m + Behind) \in Seq(Groups)
       /\ Len(SubSeq(f, m + 1, m + Behind)) = Behind
       /\ \A n \in 1 .. Behind : SubSeq(f, m + 1, m + Behind)[n] = f[m + n]
  <2> DEFINE a == m + 1
             b == m + Behind
  <2>1. /\ a \in Int /\ b \in Int /\ b - a + 1 = Behind
        /\ \A n \in 1 .. Behind : a + n - 1 = m + n
        /\ (a <= b \/ Behind = 0)
    BY <1>1
  <2>2. \A n \in a .. b : f[n] \in Groups
    BY <1>9
  <2> HIDE DEF a, b
  <2>3. /\ SubSeq(f, a, b) \in Seq(Groups)
        /\ Len(SubSeq(f, a, b)) = IF a <= b THEN b - a + 1 ELSE 0
        /\ \A n \in 1 .. b - a + 1 : SubSeq(f, a, b)[n] = f[a + n - 1]
    <3>1. \A n \in a .. b : f[n] \in Groups
      BY <2>2
    <3>2. a \in Int /\ b \in Int
      BY <2>1
    <3> QED BY ONLY <3>1, <3>2, SubSeqProperties
  <2>4. Len(SubSeq(f, a, b)) = Behind
    BY <1>1, <2>1, <2>3
  <2>5. \A n \in 1 .. Behind : SubSeq(f, a, b)[n] = f[a + n - 1]
    BY <2>1, <2>3
  <2>6. \A n \in 1 .. Behind : SubSeq(f, a, b)[n] = f[m + n]
    BY <2>1, <2>5
  <2> QED BY <2>3, <2>4, <2>6 DEF a, b
<1>11. DOMAIN flight = Warp
  BY DEF Shapes, FunOver
<1>12. Lands(v, j, i)
  BY <1>5, <1>6 DEF Lands
<1> QED BY <1>8, <1>10, <1>11, <1>12 DEF LandsFirst

-----------------------------------------------------------------------------
(* What is under way.                                                      *)

\* All a step can do to the labels.
LEMMA AdvanceLabels ==
  ASSUME NEW c, NEW ts, NEW r, NEW s, Advance(c, ts, r, s)
  PROVE  /\ r.at \in {"count", "valid"} \cup FoldLabels \cup EndLabels =>
              s.at \notin PipeLabels \cup {"primed"}
         /\ r.at = "routes" => s.at \in {"count", "prologue"}
         /\ r.at = "prologue" => s.at = "primed"
         /\ r.at = "primed" => s.at = "first" /\ s.syncs = r.syncs + 1
         /\ r.at \in {"first", "next"} => s.at \in {"next", "ahead", "mma"}
         /\ r.at = "ahead" => s.at = "wait"
         /\ r.at = "wait" => s.at = "mma"
         /\ r.at \in {"routes", "count", "valid", "prologue", "primed"} => Stays(r, s)
<1>1. StartOf(c) \in {"fold", "foldHalf", "turn"}
  BY DEF StartOf
<1> QED BY <1>1 DEF Advance, Stays, PipeLabels, FoldLabels, EndLabels

\* No copies are under way for a tile beyond its k-tiles.
LEMMA GroupTyped ==
  ASSUME Shapes, NEW j \in 1 .. Len(work), NEW i \in Nat
  PROVE  /\ GroupOf(work, j, i) \in Groups
         /\ i >= work[j].count => GroupOf(work, j, i) = NoGroup
         /\ i < work[j].count => /\ GroupOf(work, j, i) # NoGroup
                                 /\ GroupOf(work, j, i).stage = i % Stages
<1>1. work[j].first \in Nat /\ work[j].count \in Nat
  BY TileFacts
<1>2. i % Stages \in Stage
  BY Numbers DEF Stage
<1>3. CASE i < work[j].count
  <2>1. GroupOf(work, j, i) = [stage |-> i % Stages, k |-> work[j].first + i]
    BY <1>3 DEF GroupOf, Group
  <2>2. "stage" \in DOMAIN GroupOf(work, j, i) /\ "stage" \notin DOMAIN NoGroup
    BY <2>1 DEF NoGroup, Empty
  <2>3. work[j].first + i \in Nat
    BY <1>1
  <2>4. GroupOf(work, j, i) \in Groups
    BY <1>2, <2>1, <2>3 DEF Groups
  <2> QED BY <1>1, <1>3, <2>1, <2>2, <2>4
<1>4. CASE ~(i < work[j].count)
  <2>1. GroupOf(work, j, i) = NoGroup
    BY <1>4 DEF GroupOf
  <2> QED BY <1>4, <2>1 DEF Groups
<1> QED BY <1>3, <1>4

\* What a warp has under way follows from where it is; a step changes that of
\* its own warp only.
LEMMA FlightStep ==
  ASSUME Shapes, ControlInv, FlightInv, NEW v \in Warp, Stepped(v), WarpStep(v)
  PROVE  /\ FlightInv'
         /\ flight' = [flight EXCEPT ![v] = flight'[v]]
<1> DEFINE r == warp[v]
           s == warp'[v]
           f == flight[v]
           g == flight'[v]
<1>1. /\ Control(cta, work, r) /\ Warp' = Warp
      /\ \A w \in Warp : w # v => warp'[w] = warp[w]
      /\ r.tile \in 1 .. Len(work) /\ Len(work) \in Nat
      /\ Count(work, r) \in Nat \ {0} /\ First(work, r) \in Nat
      /\ r.idx \in Nat /\ r.kk \in 0 .. Bundles - 1
      /\ cta' = cta /\ work' = work
  BY StepFacts DEF Stepped
<1>2. Advance(cta, work, r, s) /\ DOMAIN s = Fields /\ s.at \in Labels
  BY StepFacts DEF Stepped, Control
<1>3. /\ r.at \in {"first", "next", "ahead"} =>
              /\ Waits(s) = Waits(r) /\ s.at \in PipeLabels /\ Stays(r, s)
              /\ s.at = "wait" <=> r.at = "ahead"
      /\ r.at \in {"ahead", "wait"} => Waits(r) = r.idx
      /\ r.at = "wait" => Waits(s) = r.idx + 1 /\ Stays(r, s)
      /\ r.at = "mma" =>
              \/ s.at \in {"first", "next"} /\ Waits(s) = Waits(r)
              \/ s.at = StartOf(cta) /\ Waits(r) = Count(work, r) /\ r.idx + 1 = Count(work, r) /\ r.kk = Bundles - 1
  BY <1>1, <1>2, CtaFacts, AdvanceWaits
<1>4. DOMAIN flight = Warp /\ flight = [flight EXCEPT ![v] = f]
  BY DEF Shapes, FunOver
<1>5. Flight(work, r, f) /\ f \in Seq(Groups) /\ Len(f) \in Nat
  BY LenProperties DEF FlightInv, Flight
<1>6. Waits(r) \in Nat
  BY <1>1 DEF Waits
<1>7. work[r.tile].count = Count(work, r)
  BY DEF Count
<1> SUFFICES Flight(work, s, g) /\ flight' = [flight EXCEPT ![v] = flight'[v]]
  BY <1>1, <1>4 DEF FlightInv
<1> HIDE DEF r, s, f, g
<1>10. CASE r.at \in {"count", "valid"} \cup FoldLabels \cup EndLabels /\ flight' = flight
  <2>1. s.at \notin PipeLabels \cup {"primed"}
    BY <1>2, <1>10, AdvanceLabels
  <2>2. r.at \notin PipeLabels \cup {"primed"}
    BY <1>10 DEF PipeLabels, FoldLabels, EndLabels
  <2>3. g = f
    BY <1>10 DEF f, g
  <2>4. Flight(work, s, f)
    BY <1>5, <2>1, <2>2 DEF Flight
  <2> QED BY <1>4, <1>10, <2>3, <2>4
<1>11. CASE r.at \in {"first", "next"} /\ flight' = flight
  <2>1. g = f
    BY <1>11 DEF f, g
  <2>2. Waits(s) = Waits(r) /\ s.at \in PipeLabels /\ s.tile = r.tile /\ s.at # "wait"
    BY <1>3, <1>11 DEF Stays
  <2>3. s.at \notin {"primed", "wait"} /\ r.at \in PipeLabels /\ r.at # "wait"
    BY <1>11, <2>2 DEF PipeLabels
  <2>4. Flight(work, s, f)
    BY <1>5, <2>2, <2>3 DEF Flight
  <2> QED BY <1>4, <1>11, <2>1, <2>4
<1>12. CASE r.at = "mma" /\ flight' = flight
  <2>1. g = f
    BY <1>12 DEF f, g
  <2>2. s.tile = r.tile /\ r.at \in PipeLabels /\ r.at # "wait"
    BY <1>2, <1>12 DEF Advance, PipeLabels
  <2>3. CASE s.at \in {"first", "next"} /\ Waits(s) = Waits(r)
    <3>1. s.at \notin {"primed", "wait"} /\ s.at \in PipeLabels
      BY <2>3 DEF PipeLabels
    <3>2. Flight(work, s, f)
      BY <1>5, <2>2, <2>3, <3>1 DEF Flight
    <3> QED BY <1>4, <1>12, <2>1, <3>2
  <2>4. CASE s.at = StartOf(cta) /\ Waits(r) = Count(work, r)
    <3>1. s.at \notin PipeLabels \cup {"primed"}
      BY <2>4 DEF StartOf, PipeLabels
    <3>2. \A n \in 1 .. Len(f) : f[n] = GroupOf(work, r.tile, Waits(r) + n)
      BY <1>5, <2>2 DEF Flight
    <3>3. ASSUME NEW n \in 1 .. Len(f) PROVE f[n] = NoGroup
      <4>1. Waits(r) + n \in Nat /\ ~(Waits(r) + n < Count(work, r))
        BY <1>1, <1>5, <1>6, <2>4
      <4> QED BY <1>7, <3>2, <4>1 DEF GroupOf
    <3>4. Flight(work, s, f)
      BY <1>5, <3>1, <3>3 DEF Flight
    <3> QED BY <1>4, <1>12, <2>1, <3>4
  <2> QED BY <1>3, <1>12, <2>3, <2>4
<1>13. CASE ReadRoutes(v)
  <2>1. r.at = "routes" /\ s.at \notin PipeLabels \cup {"primed"}
    <3>1. r.at = "routes"
      BY <1>13 DEF ReadRoutes, At, r
    <3> QED BY <1>2, <3>1, AdvanceLabels DEF PipeLabels
  <2>2. \A n \in 1 .. Len(f) : f[n] = NoGroup
    BY <1>5, <2>1 DEF Flight, PipeLabels
  <2>3. CASE cta.packed
    <3>1. WaitGroup(v, 0)
      BY <1>13, <2>3 DEF ReadRoutes
    <3>2. flight' = [flight EXCEPT ![v] = g] /\ g = <<>>
      BY <1>5, <2>2, <3>1, WaitAll DEF f, g
    <3>3. Flight(work, s, g)
      BY <2>1, <3>2 DEF Flight
    <3> QED BY <3>2, <3>3 DEF g
  <2>4. CASE ~cta.packed
    <3>1. flight' = flight /\ g = f
      BY <1>13, <2>4 DEF ReadRoutes, f, g
    <3>2. Flight(work, s, f)
      BY <1>5, <2>1, <2>2 DEF Flight
    <3> QED BY <1>4, <3>1, <3>2
  <2> QED BY <2>3, <2>4
<1>14. CASE Prologue(v)
  <2>1. r.at = "prologue" /\ s.at = "primed" /\ s.tile = r.tile
    <3>1. r.at = "prologue"
      BY <1>14 DEF Prologue, At, r
    <3> QED BY <1>2, <3>1, AdvanceLabels DEF Stays
  <2> DEFINE h == [n \in 1 .. Stages - 1 |-> StageGroup(v, n - 1)]
  <2>2. flight' = [flight EXCEPT ![v] = f \o h]
    BY <1>14 DEF Prologue, f
  <2>3. g = f \o h
    BY <1>4, <2>2 DEF g
  <2>4. \A n \in 1 .. Stages - 1 : h[n] = GroupOf(work, r.tile, n - 1) /\ h[n] \in Groups
    <3>1. \A n \in 1 .. Stages - 1 : n - 1 \in Nat
      BY Numbers
    <3>2. \A n \in 1 .. Stages - 1 : h[n] = GroupOf(work, r.tile, n - 1)
      BY DEF StageGroup, GroupOf, TileOf, r
    <3> HIDE DEF h
    <3> QED BY <1>1, <3>1, <3>2, GroupTyped
  <2>5. h \in Seq(Groups) /\ Len(h) = Stages - 1
    <3>1. Stages - 1 \in Nat
      BY Numbers
    <3>2. \A n \in 1 .. Stages - 1 : StageGroup(v, n - 1) \in Groups
      BY <2>4
    <3> QED BY <3>1, <3>2
  <2> HIDE DEF h
  <2>6. /\ g \in Seq(Groups) /\ Len(g) = Len(f) + (Stages - 1)
        /\ \A i \in 1 .. Len(f) + (Stages - 1) : g[i] = IF i <= Len(f) THEN f[i] ELSE h[i - Len(f)]
    <3>1. /\ f \o h \in Seq(Groups) /\ Len(f \o h) = Len(f) + Len(h)
          /\ \A i \in 1 .. Len(f) + Len(h) : (f \o h)[i] = IF i <= Len(f) THEN f[i] ELSE h[i - Len(f)]
      BY <1>5, <2>5, ConcatProperties
    <3> QED BY <2>3, <2>5, <3>1
  <2>7. \A n \in 1 .. Len(f) : f[n] = NoGroup
    BY <1>5, <2>1 DEF Flight, PipeLabels
  <2>8. Len(g) - (Stages - 1) = Len(f)
    BY <1>5, <2>6, Numbers
  <2>9. ASSUME NEW n \in 1 .. Len(g)
        PROVE  g[n] = IF n <= Len(f) THEN NoGroup ELSE GroupOf(work, s.tile, n - Len(f) - 1)
    <3>1. CASE n <= Len(f)
      BY <1>5, <2>6, <2>7, <3>1
    <3>2. CASE ~(n <= Len(f))
      <4>1. n - Len(f) \in 1 .. Stages - 1
        BY <1>5, <2>6, <3>2, Numbers
      <4> QED BY <2>1, <2>4, <2>6, <3>2, <4>1
    <3> QED BY <3>1, <3>2
  <2>10. Flight(work, s, g)
    BY <1>5, <2>1, <2>6, <2>8, <2>9 DEF Flight, PipeLabels
  <2> QED BY <1>4, <2>2, <2>3, <2>10 DEF g
<1>15. CASE Primed(v)
  <2>1. r.at = "primed" /\ s.at = "first" /\ s.tile = r.tile /\ WaitGroup(v, Behind)
    <3>1. r.at = "primed"
      BY <1>15 DEF Primed, At, r
    <3> QED BY <1>2, <1>15, <3>1, AdvanceLabels DEF Stays, Primed
  <2> DEFINE m == Len(f) - (Stages - 1) + 1
  <2>2. m \in Nat \ {0} /\ Len(f) = m + Behind
    BY <1>5, <2>1, Numbers DEF Flight, Behind
  <2>3. \A n \in 1 .. Len(f) : f[n] = IF n <= m - 1 THEN NoGroup ELSE GroupOf(work, r.tile, n - (m - 1) - 1)
    BY <1>5, <2>1, Numbers DEF Flight
  <2> HIDE DEF m
  <2>4. \A n \in 1 .. m - 1 : f[n] = NoGroup
    BY <2>2, <2>3, Numbers DEF Behind
  <2>5. \A n \in 0 .. Behind : f[m + n] = GroupOf(work, r.tile, n)
    <3> SUFFICES ASSUME NEW n \in 0 .. Behind PROVE f[m + n] = GroupOf(work, r.tile, n)
      OBVIOUS
    <3>1. m + n \in 1 .. Len(f) /\ ~(m + n <= m - 1) /\ (m + n) - (m - 1) - 1 = n
      BY <2>2, Numbers DEF Behind
    <3> QED BY <2>3, <3>1
  <2>6. f[m] = GroupOf(work, r.tile, 0)
    BY <2>2, <2>5, Numbers DEF Behind
  <2>7. LandsFirst(v, f, m, r.tile, 0)
    <3>1. f = flight[v] /\ 0 \in Nat
      BY DEF f
    <3> QED BY <3>1, <1>1, <1>5, <2>1, <2>2, <2>4, <2>6, WaitOne
  <2>8. Waits(s) = 0
    <3>1. s.idx = r.idx /\ r.idx = 0
      BY <1>1, <1>2, <2>1, AdvanceLabels DEF Stays, Control
    <3> QED BY <2>1, <3>1 DEF Waits, Past
  <2>9. Flight(work, s, g)
    <3>1. \A n \in 1 .. Behind : g[n] = GroupOf(work, s.tile, Waits(s) + n)
      BY <2>1, <2>5, <2>7, <2>8, Numbers DEF Behind, LandsFirst, g
    <3> QED BY <2>1, <2>7, <3>1 DEF Flight, PipeLabels, Behind, LandsFirst, g
  <2> QED BY <2>7, <2>9 DEF g, LandsFirst
<1>16. CASE Lookahead(v)
  <2>1. r.at = "ahead"
    BY <1>16 DEF Lookahead, At, r
  <2>2. s.at = "wait" /\ s.tile = r.tile /\ Waits(r) = r.idx /\ Waits(s) = r.idx
    BY <1>3, <2>1 DEF Stays
  <2> DEFINE e == StageGroup(v, r.idx + Stages - 1)
  <2>3. flight' = [flight EXCEPT ![v] = Append(f, e)]
    BY <1>16 DEF Lookahead, f, r
  <2>4. g = Append(f, e)
    BY <1>4, <2>3 DEF g
  <2>5. e = GroupOf(work, r.tile, r.idx + Stages - 1)
    BY DEF StageGroup, GroupOf, TileOf, r
  <2>6. e \in Groups
    <3>1. r.idx + Stages - 1 \in Nat
      BY <1>1, Numbers
    <3> QED BY <1>1, <2>5, <3>1, GroupTyped
  <2> HIDE DEF e
  <2>7. /\ g \in Seq(Groups) /\ Len(g) = Len(f) + 1
        /\ \A i \in 1 .. Len(f) : g[i] = f[i]
        /\ g[Len(f) + 1] = e
    BY <1>5, <2>4, <2>6, AppendProperties
  <2>8. Len(f) = Stages - 2 /\ \A n \in 1 .. Len(f) : f[n] = GroupOf(work, r.tile, r.idx + n)
    BY <1>5, <2>1, <2>2 DEF Flight, PipeLabels
  <2>9. ASSUME NEW n \in 1 .. Len(g) PROVE g[n] = GroupOf(work, s.tile, Waits(s) + n)
    <3>1. CASE n \in 1 .. Len(f)
      BY <2>2, <2>7, <2>8, <3>1
    <3>2. CASE n = Len(f) + 1
      <4>1. r.idx + Stages - 1 = r.idx + n
        BY <1>1, <2>8, <3>2, Numbers
      <4> QED BY <2>2, <2>5, <2>7, <3>2, <4>1
    <3> QED BY <1>5, <2>7, <3>1, <3>2
  <2>10. Len(g) = Stages - 1
    BY <2>7, <2>8, Numbers
  <2>11. Flight(work, s, g)
    BY <2>2, <2>7, <2>9, <2>10 DEF Flight, PipeLabels
  <2> QED BY <2>3, <2>4, <2>11 DEF g
<1>17. CASE WaitStages(v)
  <2>1. r.at = "wait" /\ WaitGroup(v, Behind)
    BY <1>17 DEF WaitStages, At, r
  <2>2. s.at = "mma" /\ s.tile = r.tile /\ Waits(r) = r.idx /\ Waits(s) = r.idx + 1
    BY <1>2, <1>3, <2>1, AdvanceLabels DEF Stays
  <2>3. Len(f) = Stages - 1 /\ \A n \in 1 .. Len(f) : f[n] = GroupOf(work, r.tile, r.idx + n)
    BY <1>5, <2>1, <2>2 DEF Flight, PipeLabels
  <2>4. Len(f) = 1 + Behind /\ f[1] = GroupOf(work, r.tile, r.idx + 1) /\ r.idx + 1 \in Nat
    BY <1>1, <2>3, Numbers DEF Behind
  <2>5. LandsFirst(v, f, 1, r.tile, r.idx + 1)
    <3>1. \A n \in 1 .. 1 - 1 : f[n] = NoGroup
      OBVIOUS
    <3>2. 1 \in Nat \ {0} /\ f = flight[v]
      BY DEF f
    <3> QED BY <1>1, <1>5, <2>1, <2>4, <3>1, <3>2, WaitOne
  <2>6. ASSUME NEW n \in 1 .. Behind PROVE g[n] = GroupOf(work, s.tile, Waits(s) + n)
    <3>1. 1 + n \in 1 .. Len(f) /\ r.idx + (1 + n) = (r.idx + 1) + n
      <4>1. Len(f) = Behind + 1 /\ Behind \in Nat
        BY <2>4, Numbers DEF Behind
      <4>2. 1 + n \in 1 .. Behind + 1
        BY <4>1
      <4>3. r.idx \in Nat /\ n \in Nat
        BY <1>1, <4>1
      <4>4. r.idx + (1 + n) = (r.idx + 1) + n
        BY <4>3
      <4> QED BY <4>1, <4>2, <4>4
    <3> QED BY <2>2, <2>3, <2>5, <3>1 DEF LandsFirst, g
  <2>7. Flight(work, s, g)
    BY <2>2, <2>5, <2>6 DEF Flight, PipeLabels, Behind, LandsFirst, g
  <2> QED BY <2>5, <2>7 DEF g, LandsFirst
<1> QED BY <1>10, <1>11, <1>12, <1>13, <1>14, <1>15, <1>16, <1>17
        DEF WarpStep, CountRows, ReadCount, LoadFirst, LoadNext, Accumulate, FoldOuter, FoldHalf,
            FoldIn, TakeTurn, Merge, Store, Drain, At, memory, FoldLabels, EndLabels, r

-----------------------------------------------------------------------------
(* What has landed.                                                        *)

\* What the labels of the other warps can be while v takes its step.
LEMMA WithCompany ==
  ASSUME Shapes, ControlInv, Lockstep, NEW v \in Warp, NEW w \in Warp,
         \A u \in Warp : warp[u].syncs >= warp[v].syncs
  PROVE  /\ Beside(cta, work, warp[v], warp[w])
         /\ warp[v].at \in Labels /\ warp[w].at \in Labels /\ warp[v].syncs \in Nat
         /\ cta.rows \in {1, 2, 4}
<1>1. Beside(cta, work, warp[v], warp[w])
  BY HasCompany DEF Company
<1>2. warp[v].at \in Labels /\ warp[w].at \in Labels /\ warp[v].syncs \in Nat
  BY DEF ControlInv, Control
<1> QED BY <1>1, <1>2, CtaFacts

\* From its routes to its output, a tile's routes are in shared memory.
LEMMA RoutesNow ==
  ASSUME Shapes, ControlInv, Lockstep, RoutesInv, NEW v \in Warp,
         \A u \in Warp : warp[u].syncs >= warp[v].syncs, warp[v].at # "routes"
  PROVE  routes = warp[v].tile
<1>1. 0 \in Warp
  BY CtaFacts
<1>2. /\ Beside(cta, work, warp[v], warp[0])
      /\ warp[v].at \in Labels /\ warp[0].at \in Labels /\ warp[v].syncs \in Nat
      /\ cta.rows \in {1, 2, 4}
  BY <1>1, WithCompany
<1>3. /\ warp[0].at # "routes" => warp[0].tile = warp[v].tile
      /\ warp[0].at = "routes" => warp[0].tile = warp[v].tile + 1
  BY <1>2, BesideLabels
<1>4. warp[v].tile \in Int
  BY WorkFacts DEF ControlInv, Control
<1> QED BY <1>3, <1>4 DEF RoutesInv

\* Two k-tiles less than a round apart are in different stages.
LEMMA StagesApart ==
  ASSUME NEW i \in Nat, NEW n \in 1 .. Stages - 1
  PROVE  i % Stages # (i + n) % Stages
<1>1. Stages \in Nat \ {0}
  BY Numbers
<1> DEFINE a == i \div Stages
           b == (i + n) \div Stages
           x == i % Stages
           y == (i + n) % Stages
<1>2. /\ a \in Int /\ x \in 0 .. Stages - 1 /\ i = Stages * a + x
      /\ b \in Int /\ y \in 0 .. Stages - 1 /\ i + n = Stages * b + y
  BY <1>1
<1> HIDE DEF a, b, x, y
<1> SUFFICES ASSUME x = y PROVE FALSE
  BY DEF x, y
<1>3. n = Stages * (b - a)
  BY <1>1, <1>2
<1>4. CASE b - a <= 0
  <2>1. Stages * (a - b) >= 0
    BY <1>1, <1>2, <1>4
  <2>2. Stages * (a - b) = -(Stages * (b - a))
    BY <1>1, <1>2
  <2> QED BY <1>1, <1>3, <2>1, <2>2
<1>5. CASE b - a >= 1
  <2>1. Stages * (b - a - 1) >= 0
    BY <1>1, <1>2, <1>5
  <2>2. Stages * (b - a - 1) = Stages * (b - a) - Stages
    BY <1>1, <1>2
  <2> QED BY <1>1, <1>3, <2>1, <2>2
<1> QED BY <1>2, <1>4, <1>5

\* A k-tile stays where its copy put it until the warp has waited for the one
\* after the next: no copy lands on a stage that is still in use.
LEMMA StagedStep ==
  ASSUME Shapes, ControlInv, Lockstep, RoutesInv, FlightInv, StagedInv,
         NEW v \in Warp, Stepped(v), WarpStep(v)
  PROVE  StagedInv'
<1> DEFINE r == warp[v]
           s == warp'[v]
           f == flight[v]
<1>1. /\ Control(cta, work, r) /\ Warp' = Warp
      /\ \A w \in Warp : w # v => warp'[w] = warp[w]
      /\ r.tile \in 1 .. Len(work) /\ Len(work) \in Nat
      /\ Count(work, r) \in Nat \ {0} /\ First(work, r) \in Nat
      /\ r.idx \in Nat /\ r.kk \in 0 .. Bundles - 1
      /\ cta' = cta /\ work' = work /\ \A u \in Warp : warp[u].syncs >= r.syncs
  BY StepFacts DEF Stepped
<1>2. Advance(cta, work, r, s) /\ DOMAIN s = Fields /\ s.at \in Labels
  BY StepFacts DEF Stepped, Control
<1>3. /\ r.at \in {"first", "next", "ahead"} =>
              /\ Waits(s) = Waits(r) /\ s.at \in PipeLabels /\ Stays(r, s)
              /\ s.at = "wait" <=> r.at = "ahead"
      /\ r.at \in {"ahead", "wait"} => Waits(r) = r.idx
      /\ r.at = "wait" => Waits(s) = r.idx + 1 /\ Stays(r, s)
      /\ r.at = "mma" =>
              \/ s.at \in {"first", "next"} /\ Waits(s) = Waits(r)
              \/ s.at = StartOf(cta) /\ Waits(r) = Count(work, r) /\ r.idx + 1 = Count(work, r) /\ r.kk = Bundles - 1
  BY <1>1, <1>2, CtaFacts, AdvanceWaits
<1>4. Flight(work, r, f) /\ f \in Seq(Groups) /\ Len(f) \in Nat
  BY LenProperties DEF FlightInv, Flight
<1>5. work[r.tile].count = Count(work, r) /\ work[r.tile].first = First(work, r)
  BY DEF Count, First
<1>6. \A w \in Warp : /\ Beside(cta, work, r, warp[w])
                      /\ r.at \in Labels /\ warp[w].at \in Labels /\ r.syncs \in Nat
                      /\ cta.rows \in {1, 2, 4}
  BY <1>1, WithCompany
<1> DEFINE InPlaceAll(w, t, m) ==
             \A i \in InPlace(work, t) : m[i % Stages][w] = Data(t.tile, First(work, t) + i)
<1>7. \A w \in Warp : warp[w].at \in PipeLabels => InPlaceAll(w, warp[w], smem)
  BY DEF StagedInv
<1> DEFINE Others == \A w \in Warp : w # v /\ warp[w].at \in PipeLabels => InPlaceAll(w, warp[w], smem')
           Mine == s.at \in PipeLabels => InPlaceAll(v, s, smem')
<1> SUFFICES Others /\ Mine
  <2>1. \A w \in Warp : warp'[w].at \in PipeLabels => InPlaceAll(w, warp'[w], smem')
    BY <1>1
  <2> QED BY <1>1, <2>1 DEF StagedInv
<1>8. \A t, i : i \in InPlace(work, t) => i \in Nat
  BY DEF InPlace
<1> HIDE DEF r, s, f
<1>10. CASE smem' = smem /\ r.at \in {"first", "next", "ahead"}
  <2>1. InPlace(work, s) \subseteq InPlace(work, r) /\ First(work, s) = First(work, r) /\ s.tile = r.tile
    BY <1>3, <1>10 DEF InPlace, Stays, Count, First
  <2>2. InPlaceAll(v, r, smem)
    BY <1>7, <1>10 DEF PipeLabels, r
  <2> QED BY <1>7, <1>10, <2>1, <2>2
<1>11. CASE smem' = smem /\ r.at = "mma"
  <2>1. s.tile = r.tile
    BY <1>2, <1>11 DEF Advance
  <2>2. CASE s.at \in {"first", "next"} /\ Waits(s) = Waits(r)
    <3>1. InPlace(work, s) \subseteq InPlace(work, r) /\ First(work, s) = First(work, r)
      BY <1>11, <2>1, <2>2 DEF InPlace, Count, First
    <3>2. InPlaceAll(v, r, smem)
      BY <1>7, <1>11 DEF PipeLabels, r
    <3> QED BY <1>7, <1>11, <2>1, <3>1, <3>2
  <2>3. CASE s.at = StartOf(cta)
    <3>1. s.at \notin PipeLabels
      BY <2>3 DEF StartOf, PipeLabels
    <3> QED BY <1>7, <1>11, <3>1
  <2> QED BY <1>3, <1>11, <2>2, <2>3
<1>12. CASE smem' = smem /\ r.at \in {"routes", "count", "valid", "prologue"} \cup FoldLabels \cup EndLabels
  <2>1. s.at \notin PipeLabels
    BY <1>2, <1>12, AdvanceLabels DEF PipeLabels
  <2> QED BY <1>7, <1>12, <2>1
<1>13. CASE r.at \in {"count"} \cup FoldLabels \cup EndLabels
  <2>1. s.at \notin PipeLabels
    BY <1>2, <1>13, AdvanceLabels
  <2>2. ASSUME NEW w \in Warp PROVE warp[w].at \notin PipeLabels
    <3>1. /\ r.at = "count" => warp[w].at \in {"count", "valid"}
          /\ r.at = "fold" => warp[w].at \in {"fold", "foldHalf"}
          /\ r.at = "foldHalf" => warp[w].at \in {"foldHalf", "foldIn"}
          /\ r.at = "foldIn" => warp[w].at \in {"foldIn", StartOf(cta), "turn"}
          /\ r.at \in EndLabels => warp[w].at \in EndLabels \cup {"routes"}
      BY <1>6, BesideLabels
    <3> QED BY <1>13, <3>1 DEF PipeLabels, FoldLabels, EndLabels, StartOf
  <2> QED BY <2>1, <2>2
<1>14. CASE ReadRoutes(v)
  <2>1. r.at = "routes"
    BY <1>14 DEF ReadRoutes, At, r
  <2>2. \A n \in 1 .. Len(f) : f[n] = NoGroup
    BY <1>4, <2>1 DEF Flight, PipeLabels
  <2>3. CASE cta.packed
    <3>1. WaitGroup(v, 0)
      BY <1>14, <2>3 DEF ReadRoutes
    <3>2. smem' = smem
      BY <1>4, <2>2, <3>1, WaitAll DEF f
    <3> QED BY <1>12, <2>1, <3>2
  <2>4. CASE ~cta.packed
    <3>2. smem' = smem
      BY <1>14, <2>4 DEF ReadRoutes
    <3> QED BY <1>12, <2>1, <3>2
  <2> QED BY <2>3, <2>4
<1>15. CASE Primed(v) \/ WaitStages(v)
  <2> DEFINE i0 == IF r.at = "primed" THEN 0 ELSE r.idx + 1
  <2>1. r.at \in {"primed", "wait"} /\ WaitGroup(v, Behind)
    BY <1>15 DEF Primed, WaitStages, At, r
  <2>2. i0 \in Nat
    BY <1>1
  <2>3. routes = r.tile
    BY <1>1, <2>1, RoutesNow DEF r
  <2>4. Lands(v, r.tile, i0)
    <3>1. CASE r.at = "primed"
      <4> DEFINE m == Len(f) - (Stages - 1) + 1
      <4>1. m \in Nat \ {0} /\ Len(f) = m + Behind
        BY <1>4, <3>1, Numbers DEF Flight, Behind
      <4>2. \A n \in 1 .. Len(f) : f[n] = IF n <= m - 1 THEN NoGroup ELSE GroupOf(work, r.tile, n - (m - 1) - 1)
        BY <1>4, <3>1, Numbers DEF Flight
      <4> HIDE DEF m
      <4>3. \A n \in 1 .. m - 1 : f[n] = NoGroup
        BY <4>1, <4>2, Numbers DEF Behind
      <4>4. f[m] = GroupOf(work, r.tile, 0)
        <5>1. m \in 1 .. Len(f) /\ ~(m <= m - 1) /\ m - (m - 1) - 1 = 0
          BY <4>1, Numbers DEF Behind
        <5> QED BY <4>2, <5>1
      <4>5. LandsFirst(v, f, m, r.tile, 0)
        <5>1. f = flight[v] /\ 0 \in Nat
          BY DEF f
        <5> QED BY <1>1, <1>4, <2>1, <4>1, <4>3, <4>4, <5>1, WaitOne
      <4> QED BY <3>1, <4>5 DEF LandsFirst
    <3>2. CASE r.at = "wait"
      <4>1. Len(f) = Stages - 1 /\ \A n \in 1 .. Len(f) : f[n] = GroupOf(work, r.tile, r.idx + n)
        BY <1>3, <1>4, <3>2 DEF Flight, PipeLabels
      <4>2. Len(f) = 1 + Behind /\ f[1] = GroupOf(work, r.tile, r.idx + 1)
        BY <4>1, Numbers DEF Behind
      <4>3. LandsFirst(v, f, 1, r.tile, r.idx + 1)
        <5>1. \A n \in 1 .. 1 - 1 : f[n] = NoGroup
          OBVIOUS
        <5>2. 1 \in Nat \ {0} /\ f = flight[v] /\ r.idx + 1 \in Nat
          BY <1>1 DEF f
        <5> QED BY <1>1, <1>4, <2>1, <4>2, <5>1, <5>2, WaitOne
      <4> QED BY <3>2, <4>3 DEF LandsFirst
    <3> QED BY <2>1, <3>1, <3>2
  <2>5. \A p \in Stage : /\ \A w \in Warp : w # v => smem'[p][w] = smem[p][w]
                         /\ smem'[p][v] = IF i0 < Count(work, r) /\ p = i0 % Stages
                                            THEN Data(r.tile, First(work, r) + i0) ELSE smem[p][v]
    <3>1. \A p \in Stage : smem'[p] = [smem[p] EXCEPT ![v] = smem'[p][v]] /\ DOMAIN smem[p] = Warp
      BY <2>4 DEF Lands, Shapes, FunOver
    <3>2. \A p \in Stage : \A w \in Warp : w # v => smem'[p][w] = smem[p][w]
      BY <3>1
    <3> QED BY <1>5, <2>3, <2>4, <3>2 DEF Lands
  <2> HIDE DEF i0
  <2>6. \A i \in Nat : i % Stages \in Stage
    BY Numbers DEF Stage
  <2>7. Others
    BY <1>7, <1>8, <2>5, <2>6
  <2>8. s.tile = r.tile /\ s.at \in {"first", "mma"} /\ Waits(s) = i0
    <3>1. CASE r.at = "primed"
      <4>1. s.at = "first" /\ Stays(r, s)
        BY <1>2, <3>1, AdvanceLabels
      <4>2. s.idx = 0 /\ s.tile = r.tile
        BY <1>1, <3>1, <4>1 DEF Stays, Control
      <4> QED BY <3>1, <4>1, <4>2 DEF Waits, Past, i0
    <3>2. CASE r.at = "wait"
      <4>1. s.at = "mma"
        BY <1>2, <3>2, AdvanceLabels
      <4> QED BY <1>3, <3>2, <4>1 DEF Stays, i0
    <3> QED BY <2>1, <3>1, <3>2
  <2>9. First(work, s) = First(work, r) /\ Count(work, s) = Count(work, r)
    BY <2>8 DEF First, Count
  <2>10. ASSUME NEW i \in InPlace(work, s)
         PROVE  smem'[i % Stages][v] = Data(s.tile, First(work, s) + i)
    <3>1. i \in Nat /\ i < Count(work, r) /\ (i = i0 \/ i + 1 = i0)
      BY <1>1, <2>8, <2>9 DEF InPlace
    <3>2. CASE i = i0
      BY <2>5, <2>6, <2>8, <2>9, <3>1, <3>2
    <3>3. CASE i + 1 = i0
      <4>1. r.at = "wait" /\ i = r.idx
        BY <1>1, <2>1, <3>1, <3>3 DEF i0
      <4>2. InPlaceAll(v, r, smem)
        BY <1>7, <4>1 DEF PipeLabels, r
      <4>3. i \in InPlace(work, r)
        BY <1>1, <1>3, <3>1, <4>1 DEF InPlace
      <4>4. smem[i % Stages][v] = Data(r.tile, First(work, r) + i)
        BY <4>2, <4>3
      <4>5. i % Stages # (i + 1) % Stages
        BY <3>1, StagesApart, Numbers
      <4> QED BY <2>5, <2>6, <2>8, <2>9, <3>1, <3>3, <4>4, <4>5
    <3> QED BY <3>1, <3>2, <3>3
  <2> QED BY <2>7, <2>10
<1>16. CASE LoadFirst(v) \/ LoadNext(v) \/ Lookahead(v)
  <2>1. smem' = smem /\ r.at \in {"first", "next", "ahead"}
    BY <1>16 DEF LoadFirst, LoadNext, Lookahead, At, memory, r
  <2> QED BY <1>10, <2>1
<1>17. CASE Accumulate(v)
  <2>1. smem' = smem /\ r.at = "mma"
    BY <1>17 DEF Accumulate, At, memory, r
  <2> QED BY <1>11, <2>1
<1>18. CASE ReadCount(v) \/ Prologue(v)
  <2>1. smem' = smem /\ r.at \in {"valid", "prologue"}
    BY <1>18 DEF ReadCount, Prologue, At, memory, r
  <2> QED BY <1>12, <2>1
<1>19. CASE ~(\/ ReadRoutes(v) \/ Primed(v) \/ WaitStages(v) \/ LoadFirst(v) \/ LoadNext(v) \/ Lookahead(v)
              \/ Accumulate(v) \/ ReadCount(v) \/ Prologue(v))
  <2>1. r.at \in {"count"} \cup FoldLabels \cup EndLabels
    BY <1>19 DEF WarpStep, CountRows, FoldOuter, FoldHalf, FoldIn, TakeTurn, Merge, Store, Drain, At,
                 FoldLabels, EndLabels, r
  <2> QED BY <1>13, <2>1
<1> QED BY <1>14, <1>15, <1>16, <1>17, <1>18, <1>19

-----------------------------------------------------------------------------
(* Strips of bundles.                                                      *)

\* Quotient and remainder are what they are the parts of.
LEMMA Quotient ==
  ASSUME NEW q \in Nat, NEW b \in Nat \ {0}, NEW x \in 0 .. b - 1
  PROVE  (q * b + x) \div b = q /\ (q * b + x) % b = x
<1> DEFINE n == q * b + x
           p == n \div b
           y == n % b
<1>1. n \in Nat /\ q * b \in Nat
  OBVIOUS
<1>2. p \in Int /\ y \in 0 .. b - 1 /\ n = b * p + y
  BY <1>1
<1> HIDE DEF p, y
<1>3. b * p - b * q = x - y
  BY <1>2
<1>4. b * (p - q) = b * p - b * q
  BY <1>2
<1>5. CASE p - q >= 1
  <2>1. b * (p - q - 1) >= 0
    BY <1>2, <1>5
  <2>2. b * (p - q - 1) = b * (p - q) - b
    BY <1>2
  <2> QED BY <1>2, <1>3, <1>4, <2>1, <2>2
<1>6. CASE q - p >= 1
  <2>1. b * (q - p - 1) >= 0
    BY <1>2, <1>6
  <2>2. b * (q - p - 1) = -(b * (p - q)) - b
    BY <1>2
  <2> QED BY <1>2, <1>3, <1>4, <2>1, <2>2
<1>7. p = q
  BY <1>2, <1>5, <1>6
<1>8. y = x
  BY <1>2, <1>3, <1>7
<1> QED BY <1>7, <1>8 DEF p, y

\* ... and every number has them.
LEMMA QuotientNat ==
  ASSUME NEW a \in Nat, NEW b \in Nat \ {0}
  PROVE  a \div b \in Nat /\ a % b \in 0 .. b - 1 /\ a = b * (a \div b) + (a % b)
OBVIOUS

\* The stage after that of a k-tile is that of the next.
LEMMA NextStage ==
  ASSUME NEW i \in Nat
  PROVE  ((i % Stages) + 1) % Stages = (i + 1) % Stages
<1> DEFINE a == i \div Stages
           x == i % Stages
<1>1. a \in Nat /\ x \in 0 .. Stages - 1 /\ i = Stages * a + x /\ Stages \in Nat \ {0}
  BY Numbers
<1> HIDE DEF a, x
<1>2. CASE x + 1 < Stages
  <2>1. x + 1 \in 0 .. Stages - 1 /\ i + 1 = a * Stages + (x + 1) /\ x + 1 = 0 * Stages + (x + 1)
    BY <1>1, <1>2
  <2>2. (i + 1) % Stages = x + 1 /\ (x + 1) % Stages = x + 1
    BY <1>1, <2>1, Quotient
  <2> QED BY <2>2 DEF x
<1>3. CASE x + 1 = Stages
  <2>1. 0 \in 0 .. Stages - 1 /\ i + 1 = (a + 1) * Stages + 0 /\ x + 1 = 1 * Stages + 0
        /\ a + 1 \in Nat /\ 1 \in Nat
    BY <1>1, <1>3
  <2>2. (i + 1) % Stages = 0
    BY <1>1, <2>1, Quotient
  <2>3. (x + 1) % Stages = 0
    BY <1>1, <2>1, Quotient
  <2> QED BY <2>2, <2>3 DEF x
<1> QED BY <1>1, <1>2, <1>3

Pieces(w, j) == {Bundle(j, k, w, kk) : k \in Nat, kk \in Nat}

\* A strip is a sequence of bundles.
LEMMA StripSeq ==
  ASSUME Shapes, NEW j \in 1 .. Len(work), NEW w, NEW n \in Nat
  PROVE  /\ Strip(work, w, j, n) \in Seq(Pieces(w, j)) /\ Len(Strip(work, w, j, n)) = n
         /\ \A i \in 1 .. n : Strip(work, w, j, n)[i] =
                Bundle(j, work[j].first + ((i - 1) \div Bundles), w, (i - 1) % Bundles)
<1>1. work[j].first \in Nat
  BY TileFacts
<1> DEFINE e(i) == Bundle(j, work[j].first + ((i - 1) \div Bundles), w, (i - 1) % Bundles)
<1>2. ASSUME NEW i \in 1 .. n PROVE e(i) \in Pieces(w, j)
  <2> DEFINE k == work[j].first + ((i - 1) \div Bundles)
             kk == (i - 1) % Bundles
  <2>1. i - 1 \in Nat /\ Bundles \in Nat \ {0}
    BY Numbers
  <2>2. k \in Nat /\ kk \in Nat
    <3>1. /\ (i - 1) \div Bundles \in Nat /\ (i - 1) % Bundles \in 0 .. Bundles - 1
          /\ i - 1 = Bundles * ((i - 1) \div Bundles) + ((i - 1) % Bundles)
      BY <2>1, QuotientNat
    <3> QED BY <1>1, <2>1, <3>1
  <2> HIDE DEF k, kk
  <2>3. Bundle(j, k, w, kk) \in Pieces(w, j)
    BY <2>2 DEF Pieces
  <2> QED BY <2>3 DEF k, kk
<1>3. Strip(work, w, j, n) = [i \in 1 .. n |-> e(i)]
  BY DEF Strip
<1> HIDE DEF e
<1>4. Strip(work, w, j, n) \in Seq(Pieces(w, j)) /\ Len(Strip(work, w, j, n)) = n
  BY <1>2, <1>3
<1>5. \A i \in 1 .. n : Strip(work, w, j, n)[i] = e(i)
  BY <1>3
<1> QED BY <1>4, <1>5 DEF e

\* A strip grows by its next bundle.
LEMMA StripGrows ==
  ASSUME Shapes, NEW j \in 1 .. Len(work), NEW w, NEW idx \in Nat, NEW kk \in 0 .. Bundles - 1
  PROVE  Append(Strip(work, w, j, idx * Bundles + kk), Bundle(j, work[j].first + idx, w, kk))
           = Strip(work, w, j, idx * Bundles + kk + 1)
<1> DEFINE n == idx * Bundles + kk
           a == Strip(work, w, j, n)
           e == Bundle(j, work[j].first + idx, w, kk)
           b == Strip(work, w, j, n + 1)
<1>1. n \in Nat /\ n + 1 \in Nat /\ Bundles \in Nat \ {0}
  BY Numbers
<1>2. n \div Bundles = idx /\ n % Bundles = kk
  BY <1>1, Quotient
<1> HIDE DEF n
<1>3. /\ a \in Seq(Pieces(w, j)) /\ Len(a) = n /\ b \in Seq(Pieces(w, j)) /\ Len(b) = n + 1
      /\ \A i \in 1 .. n : a[i] = Bundle(j, work[j].first + ((i - 1) \div Bundles), w, (i - 1) % Bundles)
      /\ \A i \in 1 .. n + 1 : b[i] = Bundle(j, work[j].first + ((i - 1) \div Bundles), w, (i - 1) % Bundles)
  BY <1>1, StripSeq
<1>4. e \in Pieces(w, j)
  <2>1. work[j].first + idx \in Nat /\ kk \in Nat
    BY TileFacts, Numbers
  <2> QED BY <2>1 DEF Pieces
<1>5. b[n + 1] = e
  <2>1. n + 1 \in 1 .. n + 1 /\ n + 1 - 1 = n
    BY <1>1
  <2> QED BY <1>2, <1>3, <2>1
<1> HIDE DEF a, b, e
<1>6. /\ Append(a, e) \in Seq(Pieces(w, j)) /\ Len(Append(a, e)) = n + 1
      /\ \A i \in 1 .. n : Append(a, e)[i] = a[i]
      /\ Append(a, e)[n + 1] = e
  BY <1>3, <1>4, AppendProperties
<1>7. \A i \in 1 .. n : b[i] = a[i]
  BY <1>1, <1>3
<1>8. \A i \in 1 .. n + 1 : Append(a, e)[i] = b[i]
  BY <1>1, <1>5, <1>6, <1>7
<1>9. Append(a, e) = b
  BY <1>3, <1>6, <1>8, SeqEqual
<1> QED BY <1>9 DEF a, b, e, n

-----------------------------------------------------------------------------
(* What a warp sees in shared memory.                                      *)

\* The others have the k-tile it is about to load in its place, and no copy
\* is under way there.
LEMMA LoadSees ==
  ASSUME Shapes, ControlInv, Lockstep, FlightInv, StagedInv,
         NEW v \in Warp, \A u \in Warp : warp[u].syncs >= warp[v].syncs,
         warp[v].at \in {"first", "next"}, warp[v].tile \in 1 .. Len(work),
         NEW i \in Nat, i = Waits(warp[v]), i < Count(work, warp[v])
  PROVE  SeenAt({i % Stages} \X Warp) = {Data(warp[v].tile, First(work, warp[v]) + i)}
<1> DEFINE r == warp[v]
           p == i % Stages
           d == Data(r.tile, First(work, r) + i)
<1>1. p \in Stage /\ Stages \in Nat /\ Stages >= 2
  BY Numbers DEF Stage
<1>2. ASSUME NEW w \in Warp PROVE Seen(p, w) = d
  <2> DEFINE t == warp[w]
             f == flight[w]
  <2>1. /\ Beside(cta, work, r, t) /\ r.at \in Labels /\ t.at \in Labels /\ r.syncs \in Nat
    BY WithCompany
  <2>2. r.at \in PipeLabels
    BY DEF PipeLabels
  <2>3. Flight(work, t, f) /\ f \in Seq(Groups) /\ Len(f) \in Nat /\ DOMAIN f = 1 .. Len(f)
    BY LenProperties DEF FlightInv, Flight
  <2> HIDE DEF t, f, p
  <2>4. Num(r) = i /\ Part(work, r) = "pipe"
    BY <2>2 DEF Num, Part
  <2> HIDE DEF r
  <2>5. t.tile = r.tile /\ t.at \in PipeLabels /\ (Waits(t) = i \/ (Waits(t) = i + 1 /\ t.at = "mma"))
    <3>1. CASE Same(work, r, t)
      <4>1. t.tile = r.tile /\ Part(work, t) = "pipe" /\ Num(t) = i
        BY <2>4, <3>1 DEF Same
      <4>2. t.at \in PipeLabels
        BY <2>1, <4>1 DEF Part, Labels, FoldLabels, EndLabels
      <4> QED BY <4>1, <4>2 DEF Num
    <3>2. CASE Spot(t) = Following(cta, work, r)
      <4>1. Spot(t) = AfterPipe(cta, work, r)
        BY <2>2, <3>2 DEF Following, PipeLabels
      <4>2. i # Count(work, r)
        BY TileFacts DEF Count, r
      <4>3. CASE Over(work, r) = 0
        <5>1. t.at = "mma" /\ t.tile = r.tile /\ t.idx = i /\ t.kk = Bundles - 2
          BY <2>4, <4>1, <4>3 DEF AfterPipe, Spot
        <5> QED BY <5>1, Numbers DEF Waits, Past, PipeLabels
      <4>4. CASE Over(work, r) # 0
        <5>1. t.at = "first" /\ t.tile = r.tile /\ t.idx = i
          BY <2>4, <4>1, <4>2, <4>4 DEF AfterPipe, Spot
        <5> QED BY <5>1 DEF Waits, Past, PipeLabels
      <4> QED BY <4>3, <4>4
    <3> QED BY <2>1, <3>1, <3>2 DEF Beside
  <2>6. Count(work, t) = Count(work, r) /\ First(work, t) = First(work, r)
    BY <2>5 DEF Count, First
  <2>7. smem[p][w] = d
    <3>1. i \in InPlace(work, t)
      <4>1. Count(work, r) \in Nat
        BY TileFacts DEF Count, r
      <4> QED BY <2>5, <2>6, <4>1 DEF InPlace, r
    <3> QED BY <2>5, <2>6, <3>1 DEF StagedInv, t, p, d
  <2>8. ASSUME NEW n \in DOMAIN f, f[n] # NoGroup, f[n].stage = p PROVE FALSE
    <3>1. /\ Len(f) = IF t.at = "wait" THEN Stages - 1 ELSE Stages - 2
          /\ f[n] = GroupOf(work, t.tile, Waits(t) + n)
      BY <2>3, <2>5, <2>8 DEF Flight
    <3>2. Waits(t) + n \in Nat /\ n \in 1 .. Stages - 1
      BY <1>1, <2>3, <2>5, <2>8, <3>1
    <3>3. f[n].stage = (Waits(t) + n) % Stages
      <4>1. t.tile \in 1 .. Len(work) /\ work[t.tile].count \in Nat
        BY <2>5, TileFacts DEF r
      <4> QED BY <2>8, <3>1, <3>2, <4>1, GroupTyped
    <3>4. \E x \in 1 .. Stages - 1 : Waits(t) + n = i + x
      <4>1. CASE Waits(t) = i
        BY <3>2, <4>1
      <4>2. CASE Waits(t) = i + 1 /\ t.at = "mma"
        <5>1. n + 1 \in 1 .. Stages - 1 /\ Waits(t) + n = i + (n + 1)
          BY <1>1, <2>3, <2>8, <3>1, <4>2
        <5> QED BY <5>1
      <4> QED BY <2>5, <4>1, <4>2
    <3> QED BY <2>8, <3>3, <3>4, StagesApart DEF p
  <2> QED BY <2>7, <2>8 DEF Seen, f
<1>3. \A x \in {p} \X Warp : Seen(x[1], x[2]) = d
  <2> SUFFICES ASSUME NEW x \in {p} \X Warp PROVE Seen(x[1], x[2]) = d
    OBVIOUS
  <2>1. x[1] = p /\ x[2] \in Warp
    OBVIOUS
  <2> QED BY <1>2, <2>1
<1>4. <<p, v>> \in {p} \X Warp
  OBVIOUS
<1> HIDE DEF p, d
<1>5. SeenAt({p} \X Warp) = {d}
  BY <1>3, <1>4 DEF SeenAt
<1> QED BY <1>5 DEF p, d

\* Cells that hold one thing, with no copies under way.
LEMMA HeldSeen ==
  ASSUME NEW cells, NEW x, cells # {}, \A cell \in cells : cell[2] \in Warp,
         \A w \in Warp : flight[w] \in Seq(Groups) /\ \A n \in 1 .. Len(flight[w]) : flight[w][n] = NoGroup,
         Held(cells, x)
  PROVE  /\ SeenAt(cells) = {x}
         /\ \A kind : x.kind = kind => Content(cells, kind) = x
<1>1. ASSUME NEW cell \in cells PROVE Seen(cell[1], cell[2]) = x
  <2>1. \A n \in DOMAIN flight[cell[2]] : flight[cell[2]][n] = NoGroup
    BY <1>1, LenProperties
  <2> QED BY <1>1, <2>1 DEF Seen, Held
<1>2. SeenAt(cells) = {x}
  BY <1>1 DEF SeenAt
<1>3. Cardinality({x}) = 1 /\ (CHOOSE y \in {x} : TRUE) = x
  BY FS_Singleton
<1> QED BY <1>2, <1>3 DEF Content

-----------------------------------------------------------------------------
(* Rows and columns of warps.                                              *)

\* A warp is in a row and a column,
LEMMA PlaceOf ==
  ASSUME Shapes, NEW w \in Warp
  PROVE  /\ w = RowOf(w) * cta.cols + ColOf(w)
         /\ ColOf(w) \in Col /\ RowOf(w) \in 0 .. cta.rows - 1
<1>1. w \in Nat /\ cta.cols \in Nat \ {0} /\ cta.rows \in {1, 2, 4} /\ w < cta.rows * cta.cols
  BY CtaFacts DEF Warp
<1> DEFINE a == w \div cta.cols
           x == w % cta.cols
<1>2. a \in Nat /\ x \in 0 .. cta.cols - 1 /\ w = cta.cols * a + x
  <2>1. /\ w \div cta.cols \in Nat /\ w % cta.cols \in 0 .. cta.cols - 1
        /\ w = cta.cols * (w \div cta.cols) + (w % cta.cols)
    BY <1>1, QuotientNat
  <2> QED BY <2>1
<1> HIDE DEF a, x
<1>3. a < cta.rows
  <2>1. CASE a >= cta.rows
    <3>1. cta.cols * (a - cta.rows) >= 0
      BY <1>1, <1>2, <2>1
    <3>2. cta.cols * (a - cta.rows) = cta.cols * a - cta.rows * cta.cols
      BY <1>1, <1>2
    <3> QED BY <1>1, <1>2, <3>1, <3>2
  <2> QED BY <1>1, <1>2, <2>1
<1>4. w = a * cta.cols + x
  BY <1>1, <1>2
<1>5. RowOf(w) = a /\ ColOf(w) = x
  BY DEF RowOf, ColOf, a, x
<1>6. x \in Col /\ a \in 0 .. cta.rows - 1
  BY <1>1, <1>2, <1>3 DEF Col
<1> QED BY <1>4, <1>5, <1>6

\* ... and in every row of a column there is one.
LEMMA Places ==
  ASSUME Shapes, NEW q \in Col, NEW k \in 0 .. cta.rows - 1
  PROVE  /\ k * cta.cols + q \in Warp
         /\ RowOf(k * cta.cols + q) = k /\ ColOf(k * cta.cols + q) = q
<1>1. cta.cols \in Nat \ {0} /\ cta.rows \in {1, 2, 4} /\ q \in 0 .. cta.cols - 1 /\ k \in Nat
  BY CtaFacts DEF Col
<1>2. k * cta.cols + q < cta.rows * cta.cols
  <2>1. cta.cols * (cta.rows - 1 - k) >= 0
    BY <1>1
  <2>2. cta.cols * (cta.rows - 1 - k) = cta.rows * cta.cols - cta.cols - k * cta.cols
    BY <1>1
  <2> QED BY <1>1, <2>1, <2>2
<1>3. k * cta.cols + q \in Nat
  BY <1>1
<1>4. k * cta.cols + q \in Warp
  BY <1>1, <1>2, <1>3 DEF Warp
<1> QED BY <1>1, <1>4, Quotient DEF RowOf, ColOf

\* The warps of a column, by their rows.
LEMMA ColumnWarps ==
  ASSUME Shapes, NEW q \in Col
  PROVE  /\ q \in Warp /\ RowOf(q) = 0 /\ ColOf(q) = q
         /\ cta.rows \in {2, 4} =>
              cta.cols + q \in Warp /\ RowOf(cta.cols + q) = 1 /\ ColOf(cta.cols + q) = q
         /\ cta.rows = 4 =>
              /\ 2 * cta.cols + q \in Warp /\ RowOf(2 * cta.cols + q) = 2 /\ ColOf(2 * cta.cols + q) = q
              /\ 3 * cta.cols + q \in Warp /\ RowOf(3 * cta.cols + q) = 3 /\ ColOf(3 * cta.cols + q) = q
<1>1. cta.cols \in Nat \ {0} /\ cta.rows \in {1, 2, 4} /\ q \in Nat
  BY CtaFacts DEF Col
<1>2. 0 * cta.cols + q = q /\ 1 * cta.cols + q = cta.cols + q
  BY <1>1
<1>3. /\ 0 * cta.cols + q \in Warp /\ RowOf(0 * cta.cols + q) = 0 /\ ColOf(0 * cta.cols + q) = q
  BY <1>1, Places
<1>4. CASE cta.rows = 1
  BY <1>1, <1>2, <1>3, <1>4
<1>5. CASE cta.rows = 2
  <2>1. 1 * cta.cols + q \in Warp /\ RowOf(1 * cta.cols + q) = 1 /\ ColOf(1 * cta.cols + q) = q
    BY <1>5, Places
  <2> QED BY <1>2, <1>3, <1>5, <2>1
<1>6. CASE cta.rows = 4
  <2>1. 1 * cta.cols + q \in Warp /\ RowOf(1 * cta.cols + q) = 1 /\ ColOf(1 * cta.cols + q) = q
    BY <1>6, Places
  <2>2. 2 * cta.cols + q \in Warp /\ RowOf(2 * cta.cols + q) = 2 /\ ColOf(2 * cta.cols + q) = q
    BY <1>6, Places
  <2>3. 3 * cta.cols + q \in Warp /\ RowOf(3 * cta.cols + q) = 3 /\ ColOf(3 * cta.cols + q) = q
    BY <1>6, Places
  <2> QED BY <1>2, <1>3, <1>6, <2>1, <2>2, <2>3
<1> QED BY <1>1, <1>4, <1>5, <1>6

\* Which warp is the one in a row of a column.
LEMMA RowCases ==
  ASSUME Shapes, NEW w \in Warp
  PROVE  /\ RowOf(w) = 0 => w = ColOf(w)
         /\ RowOf(w) = 1 => w = cta.cols + ColOf(w) /\ cta.rows \in {2, 4}
         /\ RowOf(w) = 2 => w = 2 * cta.cols + ColOf(w) /\ cta.rows = 4
         /\ RowOf(w) = 3 => w = 3 * cta.cols + ColOf(w) /\ cta.rows = 4
         /\ RowOf(w) \in 0 .. 3 /\ ColOf(w) \in Col
         /\ cta.rows = 2 => RowOf(w) \in {0, 1}
         /\ cta.rows = 1 => RowOf(w) = 0
<1>1. cta.cols \in Nat \ {0} /\ cta.rows \in {1, 2, 4}
  BY CtaFacts
<1>2. /\ w = RowOf(w) * cta.cols + ColOf(w) /\ ColOf(w) \in Nat
      /\ ColOf(w) \in Col /\ RowOf(w) \in 0 .. cta.rows - 1
  BY PlaceOf DEF Col
<1>3. RowOf(w) = 0 => w = ColOf(w)
  BY <1>1, <1>2
<1>4. RowOf(w) = 1 => w = cta.cols + ColOf(w) /\ cta.rows \in {2, 4}
  BY <1>1, <1>2
<1>5. RowOf(w) = 2 => w = 2 * cta.cols + ColOf(w) /\ cta.rows = 4
  BY <1>1, <1>2
<1>6. RowOf(w) = 3 => w = 3 * cta.cols + ColOf(w) /\ cta.rows = 4
  BY <1>1, <1>2
<1>7. /\ RowOf(w) \in 0 .. 3 /\ ColOf(w) \in Col
      /\ cta.rows = 2 => RowOf(w) \in {0, 1}
      /\ cta.rows = 1 => RowOf(w) = 0
  BY <1>1, <1>2
<1> QED BY <1>3, <1>4, <1>5, <1>6, <1>7

-----------------------------------------------------------------------------
(* The slots of the fold.                                                  *)

\* A slot of the fold begins at a stage of its own.
LEMMA SlotFacts ==
  ASSUME Shapes, NEW q \in Col
  PROVE  /\ <<0, q>> \in SlotCells(0, q)
         /\ cta.rows = 4 => <<1, q>> \in SlotCells(1, q)
         /\ \A slot : \A cell \in SlotCells(slot, q) :
              cell[1] \in Stage /\ cell[2] \in Warp /\ ColOf(cell[2]) = q
         /\ cta.rows = 4 => /\ \A cell \in SlotCells(0, q) : cell[1] = 0
                            /\ \A cell \in SlotCells(1, q) : cell[1] = 1
<1>1. /\ cta.rows \in {1, 2, 4} /\ q \in {v \in Warp : ColOf(v) = q}
      /\ Stages \in Nat /\ Stages >= 2
  BY CtaFacts, ColumnWarps, Numbers
<1>2. 0 \in SlotStages(0)
  BY <1>1 DEF SlotStages, Stage
<1>3. cta.rows = 4 => /\ 1 \in SlotStages(1)
                      /\ SlotStages(0) \subseteq {0} /\ SlotStages(1) \subseteq {1}
  BY <1>1 DEF SlotStages, Stage
<1>4. \A slot : SlotStages(slot) \subseteq Stage
  BY DEF SlotStages
<1> QED BY <1>1, <1>2, <1>3, <1>4 DEF SlotCells

\* From the fold on, and while the rows are counted, no copies are under way.
LEMMA NoCopies ==
  ASSUME Shapes, ControlInv, Lockstep, FlightInv, NEW v \in Warp,
         \A u \in Warp : warp[u].syncs >= warp[v].syncs,
         warp[v].at \in {"routes", "count", "valid"} \cup FoldLabels \cup EndLabels
  PROVE  \A w \in Warp : flight[w] \in Seq(Groups)
                         /\ \A n \in 1 .. Len(flight[w]) : flight[w][n] = NoGroup
<1> SUFFICES ASSUME NEW w \in Warp
             PROVE  flight[w] \in Seq(Groups) /\ \A n \in 1 .. Len(flight[w]) : flight[w][n] = NoGroup
  OBVIOUS
<1> DEFINE r == warp[v]
           t == warp[w]
<1>1. /\ Beside(cta, work, r, t) /\ r.at \in Labels /\ t.at \in Labels /\ r.syncs \in Nat
      /\ cta.rows \in {1, 2, 4}
  BY WithCompany
<1> HIDE DEF r, t
<1>2. /\ r.at = "routes" => t.at \in {"routes", "count", "prologue"}
      /\ r.at = "count" => t.at \in {"count", "valid"}
      /\ r.at = "valid" => t.at \in {"valid", "prologue"}
      /\ r.at = "fold" => t.at \in {"fold", "foldHalf"}
      /\ r.at = "foldHalf" => t.at \in {"foldHalf", "foldIn"}
      /\ r.at = "foldIn" => t.at \in {"foldIn", StartOf(cta), "turn"}
      /\ r.at \in EndLabels => t.at \in EndLabels \cup {"routes"}
  BY <1>1, BesideLabels
<1>3. t.at \notin PipeLabels \cup {"primed"}
  BY <1>2 DEF StartOf, PipeLabels, FoldLabels, EndLabels, r
<1>4. Flight(work, t, flight[w])
  BY DEF FlightInv, t
<1> QED BY <1>3, <1>4 DEF Flight

\* What was handed over is what the sum is made with.
LEMMA SlotSums ==
  ASSUME NEW slot, NEW q, NEW x, SlotCells(slot, q) # {},
         \A cell \in SlotCells(slot, q) : cell[2] \in Warp,
         \A w \in Warp : flight[w] \in Seq(Groups) /\ \A n \in 1 .. Len(flight[w]) : flight[w][n] = NoGroup,
         Held(SlotCells(slot, q), Partial(x))
  PROVE  SlotSum(slot, q) = x
<1>1. Partial(x).kind = "partial" /\ Partial(x).sum = x /\ Garbage.kind = "garbage"
  BY DEF Partial, Garbage
<1>2. Partial(x) # Garbage
  BY <1>1
<1>3. Content(SlotCells(slot, q), "partial") = Partial(x)
  <2> HIDE DEF Partial
  <2>1. /\ SeenAt(SlotCells(slot, q)) = {Partial(x)}
        /\ \A kind : Partial(x).kind = kind => Content(SlotCells(slot, q), kind) = Partial(x)
    BY HeldSeen
  <2> QED BY <1>1, <2>1
<1> QED BY <1>1, <1>2, <1>3 DEF SlotSum

-----------------------------------------------------------------------------
(* Registers.                                                              *)

\* What the rows that fold find in the slots.
LEMMA FoldSums ==
  ASSUME Shapes, ControlInv, Lockstep, FlightInv, SlotsInv, NEW v \in Warp,
         \A u \in Warp : warp[u].syncs >= warp[v].syncs
  PROVE  /\ warp[v].at = "foldHalf" /\ RowOf(v) = 1 /\ cta.rows = 4 =>
              /\ SlotSum(0, ColOf(v)) = Full(work, 2 * cta.cols + ColOf(v), warp[v].tile)
              /\ SlotSum(1, ColOf(v)) = Full(work, 3 * cta.cols + ColOf(v), warp[v].tile)
         /\ warp[v].at = "foldIn" /\ RowOf(v) = 0 =>
              SlotSum(0, ColOf(v)) = Half(cta, work, ColOf(v), warp[v].tile)
<1> DEFINE q == ColOf(v)
<1>1. q \in Col
  BY RowCases
<1>2. /\ \A slot : \A cell \in SlotCells(slot, q) : cell[2] \in Warp
      /\ SlotCells(0, q) # {} /\ (cta.rows = 4 => SlotCells(1, q) # {})
  BY <1>1, SlotFacts
<1>3. ASSUME warp[v].at \in {"foldHalf", "foldIn"}
      PROVE  \A w \in Warp : flight[w] \in Seq(Groups)
                             /\ \A n \in 1 .. Len(flight[w]) : flight[w][n] = NoGroup
  BY <1>3, NoCopies DEF FoldLabels
<1> HIDE DEF q
<1>4. CASE warp[v].at = "foldHalf" /\ RowOf(v) = 1 /\ cta.rows = 4
  <2>1. v = cta.cols + q /\ 2 * cta.cols + q \in Warp /\ 3 * cta.cols + q \in Warp
    BY <1>1, <1>4, RowCases, ColumnWarps DEF q
  <2>2. /\ Gone(warp[2 * cta.cols + q], warp[cta.cols + q], "fold", "foldHalf")
        /\ Gone(warp[3 * cta.cols + q], warp[cta.cols + q], "fold", "foldHalf")
    BY <1>4, <2>1 DEF Gone
  <2>3. /\ Held(SlotCells(0, q), Partial(Full(work, 2 * cta.cols + q, warp[v].tile)))
        /\ Held(SlotCells(1, q), Partial(Full(work, 3 * cta.cols + q, warp[v].tile)))
    BY <1>1, <1>4, <2>1, <2>2 DEF SlotsInv
  <2>4. SlotSum(0, q) = Full(work, 2 * cta.cols + q, warp[v].tile)
    BY <1>2, <1>3, <1>4, <2>3, SlotSums
  <2>5. SlotSum(1, q) = Full(work, 3 * cta.cols + q, warp[v].tile)
    BY <1>2, <1>3, <1>4, <2>3, SlotSums
  <2> QED BY <1>4, <2>4, <2>5 DEF q
<1>5. CASE warp[v].at = "foldIn" /\ RowOf(v) = 0
  <2>1. v = q /\ cta.rows \in {2, 4}
    BY <1>5, RowCases DEF ControlInv, Control, FoldLabels, q
  <2>2. cta.cols + q \in Warp
    BY <1>1, <2>1, ColumnWarps
  <2>3. Gone(warp[cta.cols + q], warp[q], "foldHalf", "foldIn")
    BY <1>5, <2>1, <2>2 DEF Gone
  <2>4. Held(SlotCells(0, q), Partial(Half(cta, work, q, warp[q].tile)))
    BY <1>1, <2>1, <2>3 DEF SlotsInv
  <2>5. SlotSum(0, q) = Half(cta, work, q, warp[q].tile)
    BY <1>2, <1>3, <1>5, <2>4, SlotSums
  <2> QED BY <1>5, <2>1, <2>5 DEF q
<1> QED BY <1>4, <1>5

\* The registers of the warp that takes the step.
LEMMA FetchedStep ==
  ASSUME Shapes, ControlInv, Lockstep, FlightInv, StagedInv, RegistersInv,
         NEW v \in Warp, Stepped(v), WarpStep(v)
  PROVE  Fetched(work, v, warp'[v], cur'[v], next'[v])
<1> DEFINE r == warp[v]
           s == warp'[v]
           k == First(work, r) + r.idx
<1>1. /\ Control(cta, work, r)
      /\ r.tile \in 1 .. Len(work) /\ Len(work) \in Nat
      /\ Count(work, r) \in Nat \ {0} /\ First(work, r) \in Nat
      /\ r.idx \in Nat /\ r.kk \in 0 .. Bundles - 1
      /\ \A u \in Warp : warp[u].syncs >= r.syncs
  BY StepFacts DEF Stepped
<1>2. Advance(cta, work, r, s)
  BY DEF Stepped
<1>3. Fetched(work, v, r, cur[v], next[v])
  BY DEF RegistersInv
<1>4. TileOf(v).first = First(work, r) /\ TileOf(v).count = Count(work, r)
  BY DEF TileOf, First, Count
<1>5. DOMAIN cur = Warp /\ DOMAIN next = Warp
  BY DEF Shapes, FunOver
<1>6. Bundles \in Nat /\ Bundles >= 2 /\ Stages \in Nat /\ Stages >= 2
  BY Numbers
<1> HIDE DEF r, s
<1>7. CASE LoadFirst(v)
  <2>1. r.at = "first" /\ cur' = [cur EXCEPT ![v] = Load(v, 0, 0, k)]
    BY <1>4, <1>7 DEF LoadFirst, At, r
  <2>2. r.kk = 0 /\ r.idx % Stages = 0 /\ r.idx < Count(work, r)
    BY <1>1, <2>1 DEF Control, PipeLabels
  <2>3. Waits(r) = r.idx
    BY <2>1 DEF Waits, Past
  <2>4. SeenAt({r.idx % Stages} \X Warp) = {Data(r.tile, First(work, r) + r.idx)}
    BY <1>1, <2>1, <2>2, <2>3, LoadSees DEF r
  <2>5. cur'[v] = Bundle(r.tile, k, v, 0)
    BY <1>5, <2>1, <2>2, <2>4 DEF Load, r
  <2>6. s.at = "next" /\ Stays(r, s)
    BY <1>2, <2>1 DEF Advance
  <2> QED BY <2>2, <2>5, <2>6 DEF Fetched, Stays, First, s
<1>8. CASE LoadNext(v)
  <2>1. /\ r.at = "next" /\ cur' = cur
        /\ next' = [next EXCEPT ![v] =
             IF r.kk + 1 < Bundles THEN Load(v, Pipe(v), r.kk + 1, k)
             ELSE IF r.idx + 1 < Count(work, r) THEN Load(v, (Pipe(v) + 1) % Stages, 0, k + 1)
             ELSE Empty]
    BY <1>4, <1>8 DEF LoadNext, At, r
  <2>2. r.idx < Count(work, r)
    BY <1>1, <2>1 DEF Control, PipeLabels
  <2>3. Pipe(v) = r.idx % Stages
    BY DEF Pipe, r
  <2>4. s.at \in {"ahead", "mma"} /\ Stays(r, s)
    BY <1>2, <2>1 DEF Advance
  <2>5. next'[v] = IF r.kk + 1 < Bundles THEN Bundle(r.tile, k, v, r.kk + 1)
                   ELSE IF r.idx + 1 < Count(work, r) THEN Bundle(r.tile, k + 1, v, 0)
                   ELSE Empty
    <3>1. CASE r.kk + 1 < Bundles
      <4>1. Waits(r) = r.idx
        BY <1>1, <1>6, <2>1, <3>1 DEF Waits, Past
      <4>2. SeenAt({r.idx % Stages} \X Warp) = {Data(r.tile, First(work, r) + r.idx)}
        BY <1>1, <2>1, <2>2, <4>1, LoadSees DEF r
      <4>3. next'[v] = Load(v, r.idx % Stages, r.kk + 1, k)
        BY <1>5, <2>1, <2>3, <3>1
      <4> QED BY <3>1, <4>2, <4>3 DEF Load, r
    <3>2. CASE ~(r.kk + 1 < Bundles) /\ r.idx + 1 < Count(work, r)
      <4> DEFINE i == r.idx + 1
      <4>1. Waits(r) = i /\ i \in Nat /\ k + 1 = First(work, r) + i
        <5>1. r.kk = Bundles - 1
          BY <1>1, <1>6, <3>2
        <5>3. i \in Nat /\ k + 1 = First(work, r) + i
          BY <1>1
        <5>2. Past(r)
          BY <2>1, <5>1 DEF Past
        <5> QED BY <5>2, <5>3 DEF Waits
      <4>2. SeenAt({i % Stages} \X Warp) = {Data(r.tile, First(work, r) + i)}
        BY <1>1, <2>1, <3>2, <4>1, LoadSees DEF r
      <4>3. next'[v] = Load(v, i % Stages, 0, k + 1)
        BY <1>1, <1>5, <2>1, <2>3, <3>2, NextStage
      <4> HIDE DEF i, k
      <4> QED BY <3>2, <4>1, <4>2, <4>3 DEF Load, r
    <3>3. CASE ~(r.kk + 1 < Bundles) /\ ~(r.idx + 1 < Count(work, r))
      BY <1>5, <2>1, <3>3
    <3> QED BY <3>1, <3>2, <3>3
  <2>6. cur'[v] = Bundle(r.tile, k, v, r.kk)
    BY <1>3, <2>1 DEF Fetched
  <2>7. First(work, s) = First(work, r) /\ Count(work, s) = Count(work, r)
    BY <2>4 DEF First, Count, Stays
  <2> QED BY <2>4, <2>5, <2>6, <2>7 DEF Fetched, Stays, s
<1>9. CASE Lookahead(v) \/ WaitStages(v)
  <2>1. r.at \in {"ahead", "wait"} /\ cur' = cur /\ next' = next
    BY <1>9 DEF Lookahead, WaitStages, At, regs, r
  <2>2. s.at \in {"wait", "mma"} /\ Stays(r, s)
    BY <1>2, <2>1 DEF Advance
  <2>3. First(work, s) = First(work, r) /\ Count(work, s) = Count(work, r)
    BY <2>2 DEF First, Count, Stays
  <2> QED BY <1>3, <2>1, <2>2, <2>3 DEF Fetched, Stays, s
<1>10. CASE Accumulate(v)
  <2>1. r.at = "mma" /\ cur' = [cur EXCEPT ![v] = next[v]] /\ next' = next
    BY <1>10 DEF Accumulate, At, r
  <2>2. cur'[v] = IF r.kk + 1 < Bundles THEN Bundle(r.tile, k, v, r.kk + 1)
                  ELSE IF r.idx + 1 < Count(work, r) THEN Bundle(r.tile, k + 1, v, 0)
                  ELSE Empty
    BY <1>3, <1>5, <2>1 DEF Fetched
  <2>3. s.tile = r.tile /\ First(work, s) = First(work, r)
    BY <1>2, <2>1 DEF Advance, First
  <2>4. CASE r.kk + 1 < Bundles
    <3>1. s.at = "next" /\ s.kk = r.kk + 1 /\ s.idx = r.idx
      BY <1>2, <2>1, <2>4 DEF Advance
    <3> QED BY <2>2, <2>3, <2>4, <3>1 DEF Fetched, s
  <2>5. CASE ~(r.kk + 1 < Bundles) /\ r.idx + 1 # Count(work, r)
    <3>1. s.at \in {"first", "next"} /\ s.kk = 0 /\ s.idx = r.idx + 1
      BY <1>2, <2>1, <2>5 DEF Advance
    <3>2. r.idx + 1 < Count(work, r)
      BY <1>1, <2>1, <2>5 DEF Control, PipeLabels
    <3>3. cur'[v] = Bundle(s.tile, First(work, s) + s.idx, v, s.kk)
      <4>1. k + 1 = First(work, s) + s.idx
        BY <1>1, <2>3, <3>1
      <4> QED BY <2>2, <2>3, <2>5, <3>1, <3>2, <4>1
    <3> QED BY <3>1, <3>3 DEF Fetched, s
  <2>6. CASE ~(r.kk + 1 < Bundles) /\ r.idx + 1 = Count(work, r)
    <3>1. s.at \in {"fold", "foldHalf", "turn"}
      BY <1>2, <2>1, <2>6 DEF Advance, StartOf
    <3> QED BY <3>1 DEF Fetched, s
  <2> QED BY <2>4, <2>5, <2>6
<1>11. CASE r.at \notin {"first", "next", "ahead", "wait", "mma"}
  <2>1. s.at \notin {"next", "ahead", "wait", "mma"}
    BY <1>2, <1>11 DEF Advance, StartOf
  <2> QED BY <2>1 DEF Fetched, s
<1> QED BY <1>7, <1>8, <1>9, <1>10, <1>11
        DEF WarpStep, ReadRoutes, CountRows, ReadCount, Prologue, Primed, FoldOuter, FoldHalf,
            FoldIn, TakeTurn, Merge, Store, Drain, At, r

\* ... what it has accumulated: the strip of bundles so far, then the column.
LEMMA AccumulatedStep ==
  ASSUME Shapes, ControlInv, Lockstep, FlightInv, RegistersInv, SlotsInv,
         NEW v \in Warp, Stepped(v), WarpStep(v)
  PROVE  Accumulated(cta, work, v, warp'[v], acc'[v])
<1> DEFINE r == warp[v]
           s == warp'[v]
           a == acc[v]
           j == r.tile
           q == ColOf(v)
<1>1. /\ Control(cta, work, r)
      /\ j \in 1 .. Len(work) /\ Len(work) \in Nat
      /\ Count(work, r) \in Nat \ {0} /\ First(work, r) \in Nat
      /\ r.idx \in Nat /\ r.kk \in 0 .. Bundles - 1
      /\ \A u \in Warp : warp[u].syncs >= r.syncs
  BY StepFacts DEF Stepped
<1>2. Advance(cta, work, r, s)
  BY DEF Stepped
<1>3. Accumulated(cta, work, v, r, a)
  BY DEF RegistersInv
<1>4. Block = 0 .. cta.blocks - 1 /\ cta.blocks \in Nat \ {0} /\ cta.rows \in {1, 2, 4}
  BY CtaFacts
<1>5. DOMAIN acc = Warp /\ acc = [w \in Warp |-> acc[w]]
      /\ \A w \in Warp : DOMAIN acc[w] = Block /\ acc[w] = [b \in Block |-> acc[w][b]]
  BY DEF Shapes, FunOver
<1>6. Bundles \in Nat /\ Bundles >= 2 /\ Stages \in Nat /\ Stages >= 2
  BY Numbers
<1>7. RowIn(cta, v) = RowOf(v) /\ ColIn(cta, v) = q
  BY DEF RowIn, RowOf, ColIn, ColOf
<1>8. work[j].first = First(work, r) /\ work[j].count = Count(work, r)
  BY DEF First, Count
<1> HIDE DEF r, s, a, j, q
<1>9. j = r.tile
  BY DEF j
<1>10. CASE acc' = acc /\ r.at \in {"first", "next", "ahead", "wait"}
  <2>1. s.at \in PipeLabels /\ Stays(r, s) /\ r.at \in PipeLabels
    BY <1>2, <1>10 DEF Advance, PipeLabels
  <2>2. s.at \notin FoldLabels \cup EndLabels
    BY <2>1 DEF PipeLabels, FoldLabels, EndLabels
  <2> QED BY <1>3, <1>10, <2>1, <2>2 DEF Accumulated, Stays, s, a
<1>11. CASE r.at \in {"routes", "count", "valid", "prologue", "drain"} \/ s.at = "routes"
  <2>1. s.at \notin PipeLabels \cup FoldLabels \cup EndLabels
    BY <1>2, <1>11 DEF Advance, PipeLabels, FoldLabels, EndLabels
  <2> QED BY <2>1 DEF Accumulated, s
<1>12. CASE acc' = acc /\ r.at = "fold"
  <2>1. s.at = "foldHalf" /\ Stays(r, s) /\ r.at \in FoldLabels
    BY <1>2, <1>12 DEF Advance, FoldLabels
  <2>2. \A b : Own(cta, v, s, b) => Own(cta, v, r, b)
    BY <2>1, <1>12 DEF Own, Stays
  <2>3. s.at \notin PipeLabels \cup EndLabels
    BY <2>1 DEF PipeLabels, EndLabels
  <2> QED BY <1>3, <1>12, <2>1, <2>2, <2>3 DEF Accumulated, Stays, s, a
<1>13. CASE acc' = acc /\ r.at \in {"turn", "merge", "store"} /\ s.at # "routes"
  <2>1. s.at \in EndLabels /\ s.tile = r.tile /\ r.at \in EndLabels
    BY <1>2, <1>13 DEF Advance, Stays, EndLabels
  <2>2. s.at \notin PipeLabels \cup FoldLabels
    BY <2>1 DEF PipeLabels, EndLabels, FoldLabels
  <2> QED BY <1>3, <1>13, <2>1, <2>2 DEF Accumulated, s, a
<1>14. CASE Primed(v)
  <2>1. r.at = "primed" /\ acc' = [acc EXCEPT ![v] = [b \in Block |-> <<>>]]
    BY <1>14 DEF Primed, At, r
  <2>2. s.at = "first" /\ Stays(r, s) /\ r.idx = 0 /\ r.kk = 0
    BY <1>1, <1>2, <2>1 DEF Advance, Control
  <2>3. \A b \in Block : acc'[v][b] = <<>>
    BY <1>5, <2>1
  <2>4. Strip(work, v, s.tile, 0) = <<>>
    BY DEF Strip
  <2>5. s.idx * Bundles + s.kk = 0
    BY <1>6, <2>2 DEF Stays
  <2>6. s.at \notin FoldLabels \cup EndLabels
    BY <2>2 DEF FoldLabels, EndLabels
  <2> QED BY <1>4, <2>3, <2>4, <2>5, <2>6 DEF Accumulated, s
<1>15. CASE Accumulate(v)
  <2> DEFINE n == r.idx * Bundles + r.kk
  <2>1. r.at = "mma" /\ acc' = [acc EXCEPT ![v] = [b \in Block |-> Append(a[b], Product(v))]]
    BY <1>15 DEF Accumulate, At, r, a
  <2>2. cur[v] = Bundle(j, First(work, r) + r.idx, v, r.kk)
    BY <2>1 DEF RegistersInv, Fetched, r, j
  <2>3. Product(v) = Bundle(j, First(work, r) + r.idx, v, r.kk)
    BY <2>2 DEF Product, DecodedK, TileOf, First, Bundle, r
  <2>4. \A b \in Block : a[b] = Strip(work, v, j, n)
    BY <1>3, <1>4, <1>9, <2>1 DEF Accumulated, PipeLabels
  <2>5. Append(Strip(work, v, j, n), Bundle(j, work[j].first + r.idx, v, r.kk)) = Strip(work, v, j, n + 1)
    BY <1>1, StripGrows
  <2>6. \A b \in Block : acc'[v][b] = Strip(work, v, j, n + 1)
    <3> HIDE DEF n
    <3> QED BY <1>5, <1>8, <2>1, <2>3, <2>4, <2>5
  <2>7. s.tile = j /\ s.block = r.block /\ r.block = 0
    BY <1>1, <1>2, <1>9, <2>1 DEF Advance, Control, PipeLabels
  <2>8. CASE s.at \in {"first", "next"}
    <3>1. s.idx * Bundles + s.kk = n + 1
      <4>1. CASE r.kk + 1 < Bundles
        <5>1. s.kk = r.kk + 1 /\ s.idx = r.idx
          BY <1>2, <2>1, <4>1 DEF Advance
        <5> QED BY <1>1, <1>6, <5>1
      <4>2. CASE ~(r.kk + 1 < Bundles)
        <5>1. s.kk = 0 /\ s.idx = r.idx + 1
          BY <1>2, <2>1, <4>2 DEF Advance
        <5>2. r.kk = Bundles - 1
          BY <1>1, <1>6, <4>2
        <5>3. (r.idx + 1) * Bundles = r.idx * Bundles + Bundles
          BY <1>1, <1>6
        <5>4. s.idx * Bundles + s.kk = (r.idx + 1) * Bundles /\ r.idx * Bundles \in Nat
          BY <1>1, <1>6, <5>1
        <5> QED BY <1>6, <5>2, <5>3, <5>4
      <4> QED BY <4>1, <4>2
    <3>2. s.at \notin FoldLabels \cup EndLabels
      BY <2>8 DEF FoldLabels, EndLabels
    <3> HIDE DEF n
    <3> QED BY <1>4, <2>6, <2>7, <3>1, <3>2 DEF Accumulated, s
  <2>9. CASE s.at \notin {"first", "next"}
    <3>1. ~(r.kk + 1 < Bundles) /\ r.idx + 1 = Count(work, r) /\ s.at = StartOf(cta)
      BY <1>2, <2>1, <2>9 DEF Advance
    <3>2. n + 1 = Count(work, r) * Bundles
      <4>1. r.kk = Bundles - 1
        BY <1>1, <1>6, <3>1
      <4>2. (r.idx + 1) * Bundles = r.idx * Bundles + Bundles
        BY <1>1, <1>6
      <4>3. r.idx * Bundles \in Nat /\ n = r.idx * Bundles + (Bundles - 1)
        BY <1>1, <1>6, <4>1
      <4>4. Count(work, r) * Bundles = r.idx * Bundles + Bundles
        BY <3>1, <4>2
      <4> HIDE DEF n
      <4> QED BY <1>6, <4>3, <4>4
    <3> HIDE DEF n
    <3>3. \A b \in Block : acc'[v][b] = Full(work, v, s.tile)
      BY <1>8, <2>6, <2>7, <3>2 DEF Full
    <3>4. CASE cta.rows = 1
      <4>1. s.at = "turn" /\ RowOf(v) = 0 /\ v = q
        BY <3>1, <3>4, RowCases DEF StartOf, q
      <4>2. \A b \in Block : acc'[v][b] = Column(cta, work, q, s.tile)
        BY <3>3, <3>4, <4>1 DEF Column
      <4>3. acc'[v] = [b \in Block |-> acc'[v][b]]
        BY <1>5, <2>1
      <4>4. acc'[v] = [b \in Block |-> Column(cta, work, q, s.tile)]
        BY <4>2, <4>3
      <4>5. s.at \notin PipeLabels \cup FoldLabels
        BY <4>1 DEF PipeLabels, FoldLabels
      <4> QED BY <1>4, <1>7, <4>4, <4>5 DEF Accumulated, s
    <3>5. CASE cta.rows # 1
      <4>1. s.at \notin PipeLabels \cup EndLabels
        BY <1>4, <3>1, <3>5 DEF StartOf, PipeLabels, EndLabels
      <4>2. \A b \in 0 .. cta.blocks - 1 : ~(b < s.block)
        BY <2>7
      <4> QED BY <1>4, <3>3, <4>1, <4>2 DEF Accumulated, s
    <3> QED BY <3>4, <3>5
  <2> QED BY <2>8, <2>9
<1>16. CASE FoldHalf(v)
  <2>1. r.at = "foldHalf" /\ r.at \in FoldLabels
    BY <1>16 DEF FoldHalf, At, FoldLabels, r
  <2>2. s.at = "foldIn" /\ Stays(r, s)
    BY <1>2, <2>1 DEF Advance
  <2>3. \A b \in Block : b # r.block \/ RowOf(v) # 1 => acc'[v][b] = a[b]
    BY <1>5, <1>16 DEF FoldHalf, a, r
  <2>4. s.at \notin PipeLabels \cup EndLabels
    BY <2>2 DEF PipeLabels, EndLabels
  <2>5. ASSUME NEW b \in Block, Own(cta, v, s, b) PROVE acc'[v][b] = Full(work, v, s.tile)
    <3>1. b >= r.block /\ ~(b = r.block /\ RowOf(v) = 1)
      BY <1>7, <2>2, <2>5 DEF Own, Stays
    <3>2. Own(cta, v, r, b)
      BY <2>1, <3>1 DEF Own
    <3>3. a[b] = Full(work, v, r.tile)
      BY <1>3, <1>4, <2>1, <3>2 DEF Accumulated
    <3> QED BY <2>2, <2>3, <3>1, <3>3 DEF Stays
  <2>6. ASSUME RowOf(v) = 0, NEW b \in Block, b < s.block PROVE acc'[v][b] = Column(cta, work, q, s.tile)
    <3>1. a[b] = Column(cta, work, q, r.tile)
      BY <1>3, <1>4, <1>7, <2>1, <2>2, <2>6 DEF Accumulated, Stays
    <3> QED BY <2>2, <2>3, <2>6, <3>1 DEF Stays
  <2> QED BY <1>4, <1>7, <2>4, <2>5, <2>6 DEF Accumulated, s
<1>17. CASE FoldIn(v)
  <2>1. r.at = "foldIn" /\ r.at \in FoldLabels /\ cta.rows \in {2, 4} /\ r.block \in Block
    <3>1. r.at = "foldIn"
      BY <1>17 DEF FoldIn, At, r
    <3> QED BY <1>1, <1>4, <3>1 DEF Control, FoldLabels
  <2>2. s.tile = r.tile
    BY <1>2, <2>1 DEF Advance
  <2>3. acc' = IF RowOf(v) = 0 THEN [acc EXCEPT ![v][r.block] = @ \o SlotSum(0, q)] ELSE acc
    BY <1>17 DEF FoldIn, r, q
  <2>4. \A b \in Block : b # r.block \/ RowOf(v) # 0 => acc'[v][b] = a[b]
    BY <1>5, <2>3 DEF a
  <2>5. ASSUME RowOf(v) = 0 PROVE acc'[v][r.block] = Column(cta, work, q, r.tile)
    <3>1. Own(cta, v, r, r.block)
      BY <1>4, <1>7, <2>1, <2>5 DEF Own
    <3>2. a[r.block] = Full(work, q, r.tile)
      <4>1. v = q
        BY <2>5, RowCases DEF q
      <4> QED BY <1>3, <1>4, <2>1, <3>1, <4>1 DEF Accumulated
    <3>3. SlotSum(0, q) = Half(cta, work, q, r.tile)
      BY <1>1, <2>1, <2>5, FoldSums DEF r, q
    <3>4. acc'[v][r.block] = a[r.block] \o SlotSum(0, q)
      BY <1>5, <2>1, <2>3, <2>5 DEF a
    <3> QED BY <2>1, <3>2, <3>3, <3>4 DEF Column
  <2>6. ASSUME RowOf(v) = 0, NEW b \in Block, b <= r.block
        PROVE  acc'[v][b] = Column(cta, work, q, r.tile)
    <3>1. CASE b = r.block
      BY <2>5, <2>6, <3>1
    <3>2. CASE b # r.block
      <4>1. b < r.block
        BY <1>4, <2>1, <2>6, <3>2
      <4>2. a[b] = Column(cta, work, q, r.tile)
        BY <1>3, <1>4, <1>7, <2>1, <2>6, <4>1 DEF Accumulated
      <4> QED BY <2>4, <3>2, <4>2
    <3> QED BY <3>1, <3>2
  <2>7. CASE r.block + 1 < cta.blocks
    <3>1. s.at \in {"fold", "foldHalf"} /\ s.block = r.block + 1
      BY <1>2, <2>1, <2>7 DEF Advance, StartOf
    <3>2. s.at \notin PipeLabels \cup EndLabels
      BY <3>1 DEF PipeLabels, EndLabels
    <3>3. ASSUME NEW b \in Block, Own(cta, v, s, b) PROVE acc'[v][b] = Full(work, v, s.tile)
      <4>1. b > r.block
        BY <1>4, <2>1, <3>1, <3>3 DEF Own
      <4>2. Own(cta, v, r, b)
        BY <1>4, <2>1, <4>1 DEF Own
      <4>3. a[b] = Full(work, v, r.tile)
        BY <1>3, <1>4, <2>1, <4>2 DEF Accumulated
      <4> QED BY <1>4, <2>1, <2>2, <2>4, <4>1, <4>3
    <3>4. ASSUME RowOf(v) = 0, NEW b \in Block, b < s.block
          PROVE  acc'[v][b] = Column(cta, work, q, s.tile)
      <4>1. b <= r.block
        BY <1>4, <2>1, <3>1, <3>4
      <4> QED BY <2>2, <2>6, <3>4, <4>1
    <3> QED BY <1>4, <1>7, <3>2, <3>3, <3>4 DEF Accumulated, s
  <2>8. CASE ~(r.block + 1 < cta.blocks)
    <3>1. s.at = "turn"
      BY <1>2, <2>1, <2>8 DEF Advance
    <3>2. s.at \notin PipeLabels \cup FoldLabels
      BY <3>1 DEF PipeLabels, FoldLabels
    <3>3. ASSUME RowOf(v) = 0 PROVE acc'[v] = [b \in Block |-> Column(cta, work, q, s.tile)]
      <4>1. \A b \in Block : b <= r.block
        BY <1>4, <2>1, <2>8
      <4>2. \A b \in Block : acc'[v][b] = Column(cta, work, q, s.tile)
        BY <2>2, <2>6, <3>3, <4>1
      <4>3. acc'[v] = [b \in Block |-> acc'[v][b]]
        BY <1>5, <2>3, <3>3
      <4> QED BY <4>2, <4>3
    <3> QED BY <1>4, <1>7, <3>2, <3>3 DEF Accumulated, s
  <2> QED BY <2>7, <2>8
<1>18. CASE LoadFirst(v) \/ LoadNext(v) \/ Lookahead(v) \/ WaitStages(v)
  <2>1. acc' = acc /\ r.at \in {"first", "next", "ahead", "wait"}
    BY <1>18 DEF LoadFirst, LoadNext, Lookahead, WaitStages, At, regs, r
  <2> QED BY <1>10, <2>1
<1>19. CASE FoldOuter(v)
  <2>1. acc' = acc /\ r.at = "fold"
    BY <1>19 DEF FoldOuter, At, regs, r
  <2> QED BY <1>12, <2>1
<1>20. CASE TakeTurn(v) \/ Merge(v) \/ Store(v)
  <2>1. acc' = acc /\ r.at \in {"turn", "merge", "store"}
    BY <1>20 DEF TakeTurn, Merge, Store, At, regs, r
  <2> QED BY <1>11, <1>13, <2>1
<1>21. CASE ReadRoutes(v) \/ CountRows(v) \/ ReadCount(v) \/ Prologue(v) \/ Drain(v)
  <2>1. r.at \in {"routes", "count", "valid", "prologue", "drain"}
    BY <1>21 DEF ReadRoutes, CountRows, ReadCount, Prologue, Drain, At, r
  <2> QED BY <1>11, <2>1
<1> QED BY <1>14, <1>15, <1>16, <1>17, <1>18, <1>19, <1>20, <1>21 DEF WarpStep

-----------------------------------------------------------------------------
(* Routes and their count.                                                 *)

\* A step touches the registers of its own warp only.
LEMMA RegistersStep ==
  ASSUME Shapes, ControlInv, Lockstep, FlightInv, StagedInv, RegistersInv, SlotsInv,
         NEW v \in Warp, Stepped(v), WarpStep(v)
  PROVE  RegistersInv'
<1>1. /\ DOMAIN acc = Warp /\ DOMAIN cur = Warp /\ DOMAIN next = Warp
  BY DEF Shapes, FunOver
<1>2. \A w \in Warp : w # v => acc'[w] = acc[w]
  BY <1>1 DEF WarpStep, ReadRoutes, CountRows, ReadCount, Prologue, Primed, LoadFirst, LoadNext,
         Lookahead, WaitStages, Accumulate, FoldOuter, FoldHalf, FoldIn, TakeTurn, Merge, Store, Drain, regs
<1>3. \A w \in Warp : w # v => cur'[w] = cur[w]
  BY <1>1 DEF WarpStep, ReadRoutes, CountRows, ReadCount, Prologue, Primed, LoadFirst, LoadNext,
         Lookahead, WaitStages, Accumulate, FoldOuter, FoldHalf, FoldIn, TakeTurn, Merge, Store, Drain, regs
<1>4. \A w \in Warp : w # v => next'[w] = next[w]
  BY <1>1 DEF WarpStep, ReadRoutes, CountRows, ReadCount, Prologue, Primed, LoadFirst, LoadNext,
         Lookahead, WaitStages, Accumulate, FoldOuter, FoldHalf, FoldIn, TakeTurn, Merge, Store, Drain, regs
<1>5. /\ cta' = cta /\ work' = work /\ Warp' = Warp
      /\ \A w \in Warp : w # v => warp'[w] = warp[w]
  BY StepFacts DEF Stepped
<1>6. /\ Accumulated(cta, work, v, warp'[v], acc'[v])
      /\ Fetched(work, v, warp'[v], cur'[v], next'[v])
  BY AccumulatedStep, FetchedStep
<1>7. ASSUME NEW w \in Warp
      PROVE  /\ Accumulated(cta, work, w, warp'[w], acc'[w])
             /\ Fetched(work, w, warp'[w], cur'[w], next'[w])
  <2>1. CASE w = v
    BY <1>6, <2>1
  <2>2. CASE w # v
    <3>1. /\ Accumulated(cta, work, w, warp[w], acc[w])
          /\ Fetched(work, w, warp[w], cur[w], next[w])
      BY DEF RegistersInv
    <3>2. warp'[w] = warp[w] /\ acc'[w] = acc[w] /\ cur'[w] = cur[w] /\ next'[w] = next[w]
      BY <1>2, <1>3, <1>4, <1>5, <2>2
    <3> QED BY <3>1, <3>2
  <2> QED BY <2>1, <2>2
<1> QED BY <1>5, <1>7 DEF RegistersInv

\* What the other warps are at, all at once.
LEMMA Others ==
  ASSUME Shapes, ControlInv, Lockstep, NEW v \in Warp,
         \A u \in Warp : warp[u].syncs >= warp[v].syncs, NEW w \in Warp
  PROVE  /\ warp[v].at = "routes" => warp[w].at \in {"routes", "count", "prologue"}
         /\ warp[v].at = "count" => warp[w].at \in {"count", "valid"}
         /\ warp[v].at = "valid" => warp[w].at \in {"valid", "prologue"}
         /\ warp[v].at \in {"prologue", "primed"} => warp[w].at \in {"prologue", "primed", "first"}
         /\ warp[v].at \in PipeLabels => warp[w].at \in PipeLabels \cup {StartOf(cta)}
         /\ warp[v].at = "fold" => warp[w].at \in {"fold", "foldHalf"}
         /\ warp[v].at = "foldHalf" => warp[w].at \in {"foldHalf", "foldIn"}
         /\ warp[v].at = "foldIn" => warp[w].at \in {"foldIn", StartOf(cta), "turn"}
         /\ warp[v].at \in EndLabels => warp[w].at \in EndLabels \cup {"routes"}
         /\ warp[v].at = "merge" => warp[w].at \in {"merge", "store", "routes"}
         /\ warp[v].at = "drain" => warp[w].at \in {"drain", "routes"}
         /\ warp[w].syncs = warp[v].syncs => warp[w].tile = warp[v].tile
         /\ warp[w].at # "routes" => warp[w].tile = warp[v].tile
         /\ warp[v].at # "routes" /\ warp[w].at = "routes" => warp[w].tile = warp[v].tile + 1
<1>1. /\ Beside(cta, work, warp[v], warp[w])
      /\ warp[v].at \in Labels /\ warp[w].at \in Labels /\ warp[v].syncs \in Nat
      /\ cta.rows \in {1, 2, 4}
  BY WithCompany
<1> QED BY <1>1, BesideLabels

\* The routes are those of the tile the warps are at, and so is the count of
\* valid rows that each has read.
LEMMA RoutesStep ==
  ASSUME Shapes, ControlInv, Lockstep, RoutesInv, CountInv, FlightInv,
         NEW v \in Warp, Stepped(v), WarpStep(v)
  PROVE  RoutesInv'
<1> DEFINE r == warp[v]
           s == warp'[v]
<1>1. /\ cta' = cta /\ work' = work /\ Warp' = Warp
      /\ \A w \in Warp : w # v => warp'[w] = warp[w]
      /\ \A u \in Warp : warp[u].syncs >= r.syncs
      /\ Advance(cta, work, r, s) /\ r.tile \in Nat /\ 0 \in Warp
  BY StepFacts, CtaFacts DEF Stepped
<1>2. \/ r.at # "routes" /\ s.at = "routes" /\ s.tile = r.tile + 1
      \/ s.at # "routes" /\ s.tile = r.tile
  BY <1>1 DEF Advance, Stays, StartOf
<1>3. DOMAIN valid = Warp
  BY DEF Shapes, FunOver
<1>4. \/ r.at = "routes" /\ routes' = IF v = 0 THEN r.tile ELSE routes
      \/ r.at # "routes" /\ routes' = routes
  BY DEF WarpStep, ReadRoutes, CountRows, ReadCount, Prologue, Primed, LoadFirst, LoadNext,
         Lookahead, WaitStages, Accumulate, FoldOuter, FoldHalf, FoldIn, TakeTurn, Merge, Store, Drain,
         At, memory
<1>5. \/ r.at = "routes" /\ (IF cta.packed THEN valid' = valid ELSE valid' = [valid EXCEPT ![v] = CountOf(r.tile)])
      \/ r.at = "valid" /\ valid' = [valid EXCEPT ![v] = Seen(0, 0)]
      \/ r.at \notin {"routes", "valid"} /\ valid' = valid
  BY DEF WarpStep, ReadRoutes, CountRows, ReadCount, Prologue, Primed, LoadFirst, LoadNext,
         Lookahead, WaitStages, Accumulate, FoldOuter, FoldHalf, FoldIn, TakeTurn, Merge, Store, Drain,
         At, regs
<1>6. r.at = "valid" => Seen(0, 0) = CountOf(r.tile)
  <2> SUFFICES ASSUME r.at = "valid" PROVE Seen(0, 0) = CountOf(r.tile)
    OBVIOUS
  <2>1. warp[LastWarp(cta)].at # "count"
    BY <1>1, CtaFacts, Others
  <2>2. smem[0][0] = CountOf(r.tile)
    BY <2>1 DEF CountInv
  <2>3. flight[0] \in Seq(Groups) /\ \A n \in 1 .. Len(flight[0]) : flight[0][n] = NoGroup
    BY <1>1, NoCopies
  <2>4. DOMAIN flight[0] = 1 .. Len(flight[0])
    BY <2>3, LenProperties
  <2> QED BY <2>2, <2>3, <2>4 DEF Seen
<1> HIDE DEF r, s
<1>7. routes' = IF warp'[0].at = "routes" THEN warp'[0].tile - 1 ELSE warp'[0].tile
  <2>1. CASE v = 0
    BY <1>1, <1>2, <1>4, <2>1 DEF RoutesInv, r, s
  <2>2. CASE v # 0
    BY <1>1, <1>4, <2>2 DEF RoutesInv
  <2> QED BY <2>1, <2>2
<1>8. ASSUME NEW w \in Warp, warp'[w].at \notin {"routes", "count", "valid"}
      PROVE  valid'[w] = CountOf(warp'[w].tile)
  <2>1. CASE w # v
    <3>1. valid'[w] = valid[w]
      BY <1>3, <1>5, <2>1
    <3> QED BY <1>1, <1>8, <2>1, <3>1 DEF RoutesInv
  <2>2. CASE w = v
    <3>1. s.at \notin {"routes", "count", "valid"} /\ s.tile = r.tile
      BY <1>2, <1>8, <2>2 DEF s
    <3>2. r.at = "routes" => ~cta.packed
      BY <1>1, <3>1 DEF Advance
    <3>3. r.at # "count"
      BY <1>1, <3>1 DEF Advance
    <3>4. CASE r.at \in {"routes", "valid"}
      BY <1>3, <1>5, <1>6, <2>2, <3>1, <3>2, <3>4 DEF s
    <3>5. CASE r.at \notin {"routes", "valid"}
      BY <1>5, <2>2, <3>1, <3>3, <3>5 DEF RoutesInv, r, s
    <3> QED BY <3>4, <3>5
  <2> QED BY <2>1, <2>2
<1> QED BY <1>1, <1>7, <1>8 DEF RoutesInv

\* The count of valid rows stays in the word under stage 0 until every warp
\* has read it.
LEMMA CountStep ==
  ASSUME Shapes, ControlInv, Lockstep, RoutesInv, CountInv,
         NEW v \in Warp, Stepped(v), WarpStep(v)
  PROVE  CountInv'
<1> DEFINE r == warp[v]
           s == warp'[v]
           last == LastWarp(cta)
<1>1. /\ cta' = cta /\ work' = work /\ Warp' = Warp
      /\ \A w \in Warp : w # v => warp'[w] = warp[w]
      /\ \A u \in Warp : warp[u].syncs >= r.syncs
      /\ Advance(cta, work, r, s) /\ 0 \in Warp /\ last \in Warp
  BY StepFacts, CtaFacts DEF Stepped
<1> SUFFICES ASSUME NEW w \in Warp, warp'[w].at = "valid", warp'[last].at # "count"
             PROVE  smem'[0][0] = CountOf(warp'[w].tile)
  BY <1>1 DEF CountInv
<1>2. /\ r.at = "count" => s.at = "valid" /\ s.tile = r.tile
      /\ s.at = "valid" => r.at = "count"
  BY <1>1 DEF Advance, Stays, StartOf
<1>3. CASE r.at = "count"
  <2>1. \A u \in Warp : warp[u].at \in {"count", "valid"} /\ warp[u].tile = r.tile
    BY <1>1, <1>3, Others
  <2>2. warp'[w].tile = r.tile
    BY <1>1, <1>2, <1>3, <2>1
  <2>3. smem' = IF v + 1 \notin Warp THEN [smem EXCEPT ![0][0] = CountOf(routes)] ELSE smem
    BY <1>3 DEF WarpStep, ReadRoutes, CountRows, ReadCount, Prologue, Primed, LoadFirst, LoadNext,
         Lookahead, WaitStages, Accumulate, FoldOuter, FoldHalf, FoldIn, TakeTurn, Merge, Store, Drain, At
  <2>4. CASE v = last
    <3>1. v + 1 \notin Warp
      <4>1. cta.rows * cta.cols \in Nat
        BY CtaFacts
      <4> QED BY <2>4, <4>1 DEF LastWarp, Warp
    <3>2. routes = r.tile
      BY <1>1, <1>3, RoutesNow
    <3>3. 0 \in DOMAIN smem /\ 0 \in DOMAIN smem[0]
      BY <1>1, Numbers DEF Shapes, FunOver
    <3> QED BY <2>2, <2>3, <3>1, <3>2, <3>3
  <2>5. CASE v # last
    <3>1. v + 1 \in Warp
      <4>1. cta.rows * cta.cols \in Nat
        BY CtaFacts
      <4> QED BY <2>5, <4>1 DEF LastWarp, Warp
    <3>2. warp[last].at = "valid" /\ warp[last].tile = r.tile
      BY <1>1, <2>1, <2>5
    <3>3. smem[0][0] = CountOf(r.tile)
      BY <1>1, <3>2 DEF CountInv
    <3> QED BY <2>2, <2>3, <3>1, <3>3
  <2> QED BY <2>4, <2>5
<1>4. CASE r.at = "valid"
  <2>1. smem' = smem
    BY <1>4 DEF WarpStep, ReadRoutes, CountRows, ReadCount, Prologue, Primed, LoadFirst, LoadNext,
         Lookahead, WaitStages, Accumulate, FoldOuter, FoldHalf, FoldIn, TakeTurn, Merge, Store, Drain, At, memory
  <2>2. w # v /\ warp[w].at = "valid"
    BY <1>1, <1>2, <1>4
  <2>3. warp[last].at # "count"
    BY <1>1, <1>4, Others
  <2> QED BY <1>1, <2>1, <2>2, <2>3 DEF CountInv
<1>5. CASE r.at \notin {"count", "valid"}
  <2>1. w # v /\ warp[w].at = "valid"
    BY <1>1, <1>2, <1>5
  <2>2. r.at \in Labels
    BY DEF ControlInv, Control
  <2>3. /\ r.at = "routes" => warp[w].at \in {"routes", "count", "prologue"}
        /\ r.at \in {"prologue", "primed"} => warp[w].at \in {"prologue", "primed", "first"}
        /\ r.at \in PipeLabels => warp[w].at \in PipeLabels \cup {StartOf(cta)}
        /\ r.at = "fold" => warp[w].at \in {"fold", "foldHalf"}
        /\ r.at = "foldHalf" => warp[w].at \in {"foldHalf", "foldIn"}
        /\ r.at = "foldIn" => warp[w].at \in {"foldIn", StartOf(cta), "turn"}
        /\ r.at \in EndLabels => warp[w].at \in EndLabels \cup {"routes"}
    BY <1>1, Others
  <2> QED BY <1>5, <2>1, <2>2, <2>3 DEF Labels, PipeLabels, FoldLabels, EndLabels, StartOf
<1> QED BY <1>3, <1>4, <1>5

-----------------------------------------------------------------------------
(* The slots, step by step.                                                *)

\* How warps share the fold.
FoldBeside(c, r, t) ==
  /\ t.syncs \in {r.syncs, r.syncs + 1}
  /\ t.at \in FoldLabels => r.at \in FoldLabels \/ (t.at = StartOf(c) /\ t.syncs = r.syncs + 1)
  /\ r.at \in FoldLabels /\ t.syncs = r.syncs => t.at = r.at
  /\ t.syncs = r.syncs + 1 => /\ r.at = "fold" => t.at = "foldHalf"
                              /\ r.at = "foldHalf" => t.at = "foldIn"
                              /\ r.at = "foldIn" => t.at \in {StartOf(c), "turn"}

\* ... all of them, before and after a step.
LEMMA FoldCompany ==
  ASSUME Shapes, ControlInv, Lockstep, NEW v \in Warp, Stepped(v)
  PROVE  /\ \A w \in Warp : /\ FoldBeside(cta, warp[v], warp[w])
                            /\ FoldBeside(cta, warp[v], warp'[w])
                            /\ warp[w].at # "routes" => warp[w].tile = warp[v].tile
                            /\ warp[w].syncs \in Nat
         /\ warp[v].at \in FoldLabels => warp'[v].syncs = warp[v].syncs + 1 /\ warp'[v].tile = warp[v].tile
<1>1. /\ \A u \in Warp : warp[u].syncs >= warp[v].syncs
      /\ \A w \in Warp : w # v => warp'[w] = warp[w]
      /\ Advance(cta, work, warp[v], warp'[v])
  BY StepFacts DEF Stepped
<1>2. ASSUME NEW w \in Warp PROVE FoldBeside(cta, warp[v], warp[w])
  <2>1. /\ Beside(cta, work, warp[v], warp[w])
        /\ warp[v].at \in Labels /\ warp[w].at \in Labels /\ warp[v].syncs \in Nat
        /\ cta.rows \in {1, 2, 4}
    BY <1>1, WithCompany
  <2> DEFINE r == warp[v]
             t == warp[w]
  <2> HIDE DEF r, t
  <2>2. CASE t.syncs = r.syncs /\ Same(work, r, t)
    <3>1. Part(work, r) = Part(work, t)
      BY <2>2 DEF Same
    <3>2. r.at \in FoldLabels \/ t.at \in FoldLabels => t.at = r.at
      BY <3>1, <2>1 DEF Part, Labels, PipeLabels, FoldLabels, EndLabels, r, t
    <3>3. t.syncs # r.syncs + 1
      BY <2>1, <2>2 DEF r, t
    <3> QED BY <2>2, <3>2, <3>3 DEF FoldBeside, r, t
  <2>3. CASE t.syncs = r.syncs + 1 /\ Spot(t) = Following(cta, work, r)
    <3>1. t.syncs # r.syncs
      BY <2>1, <2>3 DEF r, t
    <3>2. t.at = Following(cta, work, r)[1]
      BY <2>3 DEF Spot
    <3>3. r.at \in FoldLabels => /\ r.at = "fold" => t.at = "foldHalf"
                                 /\ r.at = "foldHalf" => t.at = "foldIn"
                                 /\ r.at = "foldIn" => t.at \in {StartOf(cta), "turn"}
      BY <3>2 DEF Following, AfterFold, FoldLabels, PipeLabels
    <3>4. r.at \in PipeLabels => t.at \in {"mma", "first", StartOf(cta)}
      BY <3>2 DEF Following, AfterPipe, PipeLabels
    <3>5. r.at \in EndLabels => t.at \in EndLabels \cup {"routes"}
      BY <3>2 DEF Following, AfterEnd, PipeLabels, FoldLabels, EndLabels
    <3>6. r.at \in {"routes", "count", "valid", "prologue", "primed"} =>
            t.at \in {"count", "valid", "prologue", "first"}
      BY <3>2 DEF Following
    <3>7. r.at \in Labels
      BY <2>1 DEF r
    <3> QED BY <2>3, <3>1, <3>3, <3>4, <3>5, <3>6, <3>7
            DEF FoldBeside, Labels, PipeLabels, FoldLabels, EndLabels, r, t
  <2> QED BY <2>1, <2>2, <2>3 DEF Beside, r, t
<1>3. warp[v].syncs \in Nat /\ warp[v].at \in Labels
  BY DEF ControlInv, Control
<1>4. /\ FoldBeside(cta, warp[v], warp'[v])
      /\ warp[v].at \in FoldLabels => warp'[v].syncs = warp[v].syncs + 1 /\ warp'[v].tile = warp[v].tile
  <2> DEFINE r == warp[v]
             s == warp'[v]
  <2>1. Advance(cta, work, r, s) /\ r.syncs \in Nat
    BY <1>1, <1>3
  <2> HIDE DEF r, s
  <2>2. s.syncs \in {r.syncs, r.syncs + 1}
    BY <2>1 DEF Advance
  <2>3. r.at \in FoldLabels =>
          /\ s.syncs = r.syncs + 1 /\ s.tile = r.tile
          /\ r.at = "fold" => s.at = "foldHalf"
          /\ r.at = "foldHalf" => s.at = "foldIn"
          /\ r.at = "foldIn" => s.at \in {StartOf(cta), "turn"}
    BY <2>1 DEF Advance, FoldLabels, Stays
  <2>4. s.at \in FoldLabels => r.at \in FoldLabels \/ (s.at = StartOf(cta) /\ s.syncs = r.syncs + 1)
    BY <2>1 DEF Advance, FoldLabels
  <2>5. s.syncs = r.syncs => s.syncs # r.syncs + 1
    BY <2>1
  <2> QED BY <2>2, <2>3, <2>4, <2>5 DEF FoldBeside, FoldLabels, r, s
<1>5. \A w \in Warp : FoldBeside(cta, warp[v], warp'[w])
  BY <1>1, <1>2, <1>4
<1>6. \A w \in Warp : (warp[w].at # "routes" => warp[w].tile = warp[v].tile) /\ warp[w].syncs \in Nat
  BY <1>1, Others DEF ControlInv, Control
<1> QED BY <1>2, <1>4, <1>5, <1>6

\* What a cell holds after a use of the stages as scratch memory.
LEMMA Scratched ==
  ASSUME Shapes, NEW cells, NEW x, smem' = Scratch(cells, x),
         NEW p \in Stage, NEW u \in Warp
  PROVE  smem'[p][u] = IF <<p, u>> \in cells THEN x ELSE smem[p][u]
BY DEF Scratch

\* Where the slots of two columns, or two slots of four rows, are.
LEMMA SlotsApart ==
  ASSUME Shapes, NEW q \in Col, NEW k, NEW cell \in SlotCells(k, q)
  PROVE  /\ cell = <<cell[1], cell[2]>> /\ cell[1] \in Stage /\ cell[2] \in Warp
         /\ \A m : \A c \in Col : c # q => cell \notin SlotCells(m, c)
         /\ cta.rows = 4 /\ k = 0 => cell \notin SlotCells(1, q)
         /\ cta.rows = 4 /\ k = 1 => cell \notin SlotCells(0, q)
<1>1. cell = <<cell[1], cell[2]>>
  BY DEF SlotCells
<1>2. cell[1] \in Stage /\ cell[2] \in Warp /\ ColOf(cell[2]) = q
  BY SlotFacts
<1>3. \A m : \A c \in Col : c # q => cell \notin SlotCells(m, c)
  BY <1>2, SlotFacts
<1>4. cta.rows = 4 => /\ \A x \in SlotCells(0, q) : x[1] = 0
                      /\ \A x \in SlotCells(1, q) : x[1] = 1
  BY SlotFacts
<1> QED BY <1>1, <1>2, <1>3, <1>4

\* A hand-over of the outer rows.
LEMMA OuterStep ==
  ASSUME Shapes, ControlInv, Lockstep, RegistersInv,
         NEW v \in Warp, Stepped(v), WarpStep(v),
         cta.rows = 4, NEW q \in Col, NEW k \in {2, 3}, NEW a, NEW b,
         a = k * cta.cols + q, b = cta.cols + q,
         Gone(warp[a], warp[b], "fold", "foldHalf") =>
           Held(SlotCells(k - 2, q), Partial(Full(work, a, warp[b].tile))),
         Gone(warp'[a], warp'[b], "fold", "foldHalf")
  PROVE  \A cell \in SlotCells(k - 2, q) :
           smem'[cell[1]][cell[2]] = Partial(Full(work, a, warp'[b].tile))
<1> DEFINE r == warp[v]
           s == warp'[v]
           x == Partial(Full(work, a, r.tile))
<1>1. /\ \A w \in Warp : FoldBeside(cta, r, warp[w]) /\ FoldBeside(cta, r, warp'[w])
                         /\ (warp[w].at # "routes" => warp[w].tile = r.tile) /\ warp[w].syncs \in Nat
      /\ r.at \in FoldLabels => s.syncs = r.syncs + 1 /\ s.tile = r.tile
      /\ \A w \in Warp : w # v => warp'[w] = warp[w]
      /\ \A w \in Warp : warp[w].syncs >= r.syncs
  BY FoldCompany, StepFacts DEF Stepped
<1>2. /\ a \in Warp /\ RowOf(a) = k /\ ColOf(a) = q
      /\ b \in Warp /\ RowOf(b) = 1 /\ ColOf(b) = q
  BY ColumnWarps
<1>3. StartOf(cta) = "fold"
  BY DEF StartOf
<1>4. r.at \in FoldLabels /\ r.at # "foldIn"
  <2>1. warp'[b].at \in FoldLabels /\ warp'[b].at \in {"fold", "foldHalf"}
    BY DEF Gone, FoldLabels
  <2>2. warp'[a].syncs <= r.syncs + 1 /\ r.syncs \in Nat
    BY <1>1, <1>2 DEF FoldBeside
  <2>3. ASSUME warp'[b].at = "fold" /\ warp'[b].syncs = r.syncs + 1 PROVE FALSE
    <3>1. warp'[a].syncs > warp'[b].syncs
      BY <2>3 DEF Gone
    <3> QED BY <2>2, <2>3, <3>1, <1>1, <1>2 DEF FoldBeside
  <2>4. FoldBeside(cta, r, warp'[b])
    BY <1>1, <1>2
  <2>5. r.at \in FoldLabels
    BY <1>3, <2>1, <2>3, <2>4 DEF FoldBeside
  <2>6. r.at # "foldIn"
    BY <1>3, <2>1, <2>3, <2>4, <2>5 DEF FoldBeside
  <2> QED BY <2>5, <2>6
<1>5. warp'[b].tile = r.tile /\ warp[b].tile = r.tile
  <2>1. warp[b].at # "routes"
    <3>1. FoldBeside(cta, r, warp[b])
      BY <1>1, <1>2
    <3> QED BY <1>3, <1>4, <3>1 DEF FoldBeside, FoldLabels
  <2> QED BY <1>1, <1>2, <1>4, <2>1
<1>6. \A m : \A cell \in SlotCells(m, q) : cell = <<cell[1], cell[2]>> /\ cell[1] \in Stage /\ cell[2] \in Warp
  BY SlotsApart
<1>7. CASE r.at = "fold"
  <2>1. FoldOuter(v)
    BY <1>7 DEF WarpStep, ReadRoutes, CountRows, ReadCount, Prologue, Primed, LoadFirst, LoadNext,
         Lookahead, WaitStages, Accumulate, FoldOuter, FoldHalf, FoldIn, TakeTurn, Merge, Store, Drain, At
  <2>2. smem' = IF RowOf(v) \in {2, 3}
          THEN Scratch(SlotCells(RowOf(v) - 2, ColOf(v)), Partial(acc[v][r.block])) ELSE smem
    BY <2>1 DEF FoldOuter
  <2>3. CASE v = a
    <3>1. acc[v][r.block] = Full(work, v, r.tile)
      <4>1. r.block \in 0 .. cta.blocks - 1
        BY StepFacts
      <4>2. Own(cta, v, r, r.block)
        BY <1>7, <4>1 DEF Own
      <4> QED BY <1>4, <4>1, <4>2 DEF RegistersInv, Accumulated
    <3>2. smem' = Scratch(SlotCells(k - 2, q), x)
      BY <1>2, <2>2, <2>3, <3>1
    <3> HIDE DEF x
    <3>3. \A cell \in SlotCells(k - 2, q) : smem'[cell[1]][cell[2]] = x
      BY <1>6, <3>2, Scratched
    <3> QED BY <1>5, <3>3 DEF x
  <2>4. CASE v # a
    <3>1. Gone(warp[a], warp[b], "fold", "foldHalf")
      <4>1. warp'[a] = warp[a]
        BY <1>1, <1>2, <2>4
      <4>2. CASE b # v
        <5>1. warp'[b] = warp[b]
          BY <1>1, <1>2, <4>2
        <5> QED BY <4>1, <5>1
      <4>3. CASE b = v
        <5>1. s.at = "foldHalf" /\ s.syncs = r.syncs + 1 /\ r.syncs \in Nat
          BY <1>1, <1>4, <1>7 DEF FoldBeside
        <5>2. warp[a].syncs >= r.syncs + 1 /\ warp[a].syncs \in Nat
          BY <1>1, <1>2, <4>1, <4>3, <5>1 DEF Gone
        <5> QED BY <1>7, <4>3, <5>1, <5>2 DEF Gone
      <4> QED BY <4>2, <4>3
    <3>2. \A cell \in SlotCells(k - 2, q) : smem[cell[1]][cell[2]] = x
      BY <1>5, <3>1 DEF Held
    <3>3. ASSUME RowOf(v) \in {2, 3}, NEW cell \in SlotCells(k - 2, q)
          PROVE  cell \notin SlotCells(RowOf(v) - 2, ColOf(v))
      <4>1. CASE ColOf(v) # q
        BY <3>3, <4>1, SlotsApart, RowCases
      <4>2. CASE ColOf(v) = q
        <5>1. RowOf(v) # k
          BY <2>4, <3>3, <4>2, RowCases
        <5> QED BY <3>3, <4>2, <5>1, SlotsApart
      <4> QED BY <4>1, <4>2
    <3> HIDE DEF x
    <3>4. \A cell \in SlotCells(k - 2, q) : smem'[cell[1]][cell[2]] = x
      BY <1>6, <2>2, <3>2, <3>3, Scratched
    <3> QED BY <1>5, <3>4 DEF x
  <2> QED BY <2>3, <2>4
<1>8. CASE r.at = "foldHalf"
  <2>1. FoldHalf(v)
    BY <1>8 DEF WarpStep, ReadRoutes, CountRows, ReadCount, Prologue, Primed, LoadFirst, LoadNext,
         Lookahead, WaitStages, Accumulate, FoldOuter, FoldHalf, FoldIn, TakeTurn, Merge, Store, Drain, At
  <2>2. \/ smem' = smem
        \/ RowOf(v) = 1 /\ \E y : smem' = Scratch(SlotCells(0, ColOf(v)), y)
    BY <2>1 DEF FoldHalf
  <2>3. v # b
    <3>1. s.at = "foldIn"
      BY <1>1, <1>4, <1>8 DEF FoldBeside
    <3> QED BY <3>1 DEF Gone
  <2>4. Gone(warp[a], warp[b], "fold", "foldHalf")
    <3>1. warp'[b] = warp[b] /\ warp[b].at \in {"fold", "foldHalf"}
      BY <1>1, <1>2, <2>3 DEF Gone
    <3>2. warp[b].at = "foldHalf" /\ warp[b].syncs = r.syncs
      <4>1. FoldBeside(cta, r, warp[b])
        BY <1>1, <1>2
      <4> QED BY <1>4, <1>8, <3>1, <4>1 DEF FoldBeside
    <3> QED BY <1>1, <1>2, <3>2 DEF Gone
  <2>5. \A cell \in SlotCells(k - 2, q) : smem[cell[1]][cell[2]] = x
    BY <1>5, <2>4 DEF Held
  <2>6. RowOf(v) = 1 => \A cell \in SlotCells(k - 2, q) : cell \notin SlotCells(0, ColOf(v))
    BY <2>3, SlotsApart, RowCases
  <2> HIDE DEF x
  <2>7. \A cell \in SlotCells(k - 2, q) : smem'[cell[1]][cell[2]] = x
    BY <1>6, <2>2, <2>5, <2>6, Scratched
  <2> QED BY <1>5, <2>7 DEF x
<1> QED BY <1>4, <1>7, <1>8 DEF FoldLabels

\* A hand-over of row 1.
LEMMA HalfStep ==
  ASSUME Shapes, ControlInv, Lockstep, FlightInv, RegistersInv, SlotsInv,
         NEW v \in Warp, Stepped(v), WarpStep(v),
         cta.rows \in {2, 4}, NEW q \in Col, NEW a, a = cta.cols + q,
         Gone(warp[a], warp[q], "foldHalf", "foldIn") =>
           Held(SlotCells(0, q), Partial(Half(cta, work, q, warp[q].tile))),
         Gone(warp'[a], warp'[q], "foldHalf", "foldIn")
  PROVE  \A cell \in SlotCells(0, q) :
           smem'[cell[1]][cell[2]] = Partial(Half(cta, work, q, warp'[q].tile))
<1> DEFINE r == warp[v]
           s == warp'[v]
           x == Partial(Half(cta, work, q, r.tile))
<1>1. /\ \A w \in Warp : FoldBeside(cta, r, warp[w]) /\ FoldBeside(cta, r, warp'[w])
                         /\ (warp[w].at # "routes" => warp[w].tile = r.tile) /\ warp[w].syncs \in Nat
      /\ r.at \in FoldLabels => s.syncs = r.syncs + 1 /\ s.tile = r.tile
      /\ \A w \in Warp : w # v => warp'[w] = warp[w]
      /\ \A w \in Warp : warp[w].syncs >= r.syncs
  BY FoldCompany, StepFacts DEF Stepped
<1>2. /\ a \in Warp /\ RowOf(a) = 1 /\ ColOf(a) = q
      /\ q \in Warp /\ RowOf(q) = 0 /\ ColOf(q) = q
  BY ColumnWarps
<1>3. StartOf(cta) \in {"fold", "foldHalf"}
  BY DEF StartOf
<1>4. /\ r.at \in {"foldHalf", "foldIn"}
      /\ warp'[q].at = "foldHalf" => warp'[q].syncs # r.syncs + 1
  <2>1. warp'[q].at \in FoldLabels /\ warp'[q].at \in {"foldHalf", "foldIn"}
    BY DEF Gone, FoldLabels
  <2>2. warp'[a].syncs <= r.syncs + 1 /\ r.syncs \in Nat
    BY <1>1, <1>2 DEF FoldBeside
  <2>3. ASSUME warp'[q].at = "foldHalf" /\ warp'[q].syncs = r.syncs + 1 PROVE FALSE
    <3>1. warp'[a].syncs > warp'[q].syncs
      BY <2>3 DEF Gone
    <3> QED BY <2>2, <2>3, <3>1, <1>1, <1>2 DEF FoldBeside
  <2>4. FoldBeside(cta, r, warp'[q])
    BY <1>1, <1>2
  <2>5. r.at \in FoldLabels
    BY <1>3, <2>1, <2>3, <2>4 DEF FoldBeside
  <2>6. r.at # "fold"
    BY <1>3, <2>1, <2>3, <2>4, <2>5 DEF FoldBeside
  <2> QED BY <2>3, <2>5, <2>6 DEF FoldLabels
<1>5. warp'[q].tile = r.tile /\ warp[q].tile = r.tile
  <2>1. warp[q].at # "routes"
    <3>1. FoldBeside(cta, r, warp[q])
      BY <1>1, <1>2
    <3> QED BY <1>3, <1>4, <3>1 DEF FoldBeside, FoldLabels
  <2> QED BY <1>1, <1>2, <1>4, <2>1 DEF FoldLabels
<1>6. \A m : \A cell \in SlotCells(m, q) : cell = <<cell[1], cell[2]>> /\ cell[1] \in Stage /\ cell[2] \in Warp
  BY SlotsApart
<1>7. CASE r.at = "foldHalf"
  <2>1. FoldHalf(v)
    BY <1>7 DEF WarpStep, ReadRoutes, CountRows, ReadCount, Prologue, Primed, LoadFirst, LoadNext,
         Lookahead, WaitStages, Accumulate, FoldOuter, FoldHalf, FoldIn, TakeTurn, Merge, Store, Drain, At
  <2> DEFINE sum == IF cta.rows = 4 THEN acc[v][r.block] \o SlotSum(1, ColOf(v)) \o SlotSum(0, ColOf(v))
                    ELSE acc[v][r.block]
  <2>2. smem' = IF RowOf(v) = 1 THEN Scratch(SlotCells(0, ColOf(v)), Partial(sum)) ELSE smem
    BY <2>1 DEF FoldHalf
  <2>3. CASE v = a
    <3>1. acc[v][r.block] = Full(work, v, r.tile)
      <4>1. r.block \in 0 .. cta.blocks - 1
        BY StepFacts
      <4>2. Own(cta, v, r, r.block)
        BY <1>7, <4>1 DEF Own
      <4> QED BY <1>7, <4>1, <4>2 DEF RegistersInv, Accumulated, FoldLabels
    <3>2. cta.rows = 4 => /\ SlotSum(0, q) = Full(work, 2 * cta.cols + q, r.tile)
                          /\ SlotSum(1, q) = Full(work, 3 * cta.cols + q, r.tile)
      BY <1>1, <1>2, <1>7, <2>3, FoldSums
    <3>3. sum = Half(cta, work, q, r.tile)
      BY <1>2, <2>3, <3>1, <3>2 DEF Half
    <3> HIDE DEF sum
    <3>4. smem' = Scratch(SlotCells(0, q), x)
      BY <1>2, <2>2, <2>3, <3>3
    <3> HIDE DEF x
    <3>5. \A cell \in SlotCells(0, q) : smem'[cell[1]][cell[2]] = x
      BY <1>6, <3>4, Scratched
    <3> QED BY <1>5, <3>5 DEF x
  <2>4. CASE v # a
    <3>1. Gone(warp[a], warp[q], "foldHalf", "foldIn")
      <4>1. warp'[a] = warp[a]
        BY <1>1, <1>2, <2>4
      <4>2. CASE q # v
        <5>1. warp'[q] = warp[q]
          BY <1>1, <1>2, <4>2
        <5> QED BY <4>1, <5>1
      <4>3. CASE q = v
        <5>1. s.at = "foldIn" /\ s.syncs = r.syncs + 1 /\ r.syncs \in Nat
          BY <1>1, <1>7 DEF FoldBeside, FoldLabels
        <5>2. warp[a].syncs >= r.syncs + 1 /\ warp[a].syncs \in Nat
          BY <1>1, <1>2, <4>1, <4>3, <5>1 DEF Gone
        <5> QED BY <1>7, <4>3, <5>1, <5>2 DEF Gone
      <4> QED BY <4>2, <4>3
    <3>2. \A cell \in SlotCells(0, q) : smem[cell[1]][cell[2]] = x
      BY <1>5, <3>1 DEF Held
    <3>3. RowOf(v) = 1 => \A cell \in SlotCells(0, q) : cell \notin SlotCells(0, ColOf(v))
      BY <2>4, SlotsApart, RowCases
    <3> HIDE DEF x, sum
    <3>4. \A cell \in SlotCells(0, q) : smem'[cell[1]][cell[2]] = x
      BY <1>6, <2>2, <3>2, <3>3, Scratched
    <3> QED BY <1>5, <3>4 DEF x
  <2> QED BY <2>3, <2>4
<1>8. CASE r.at = "foldIn"
  <2>1. smem' = smem
    BY <1>8 DEF WarpStep, ReadRoutes, CountRows, ReadCount, Prologue, Primed, LoadFirst, LoadNext,
         Lookahead, WaitStages, Accumulate, FoldOuter, FoldHalf, FoldIn, TakeTurn, Merge, Store, Drain, At, memory
  <2>2. warp'[q].at \in {"foldHalf", "foldIn"}
    BY DEF Gone
  <2>3. warp'[q].syncs = r.syncs /\ warp'[q].at = "foldIn"
    <3>1. FoldBeside(cta, r, warp'[q])
      BY <1>1, <1>2
    <3> QED BY <1>3, <1>4, <1>8, <2>2, <3>1 DEF FoldBeside, FoldLabels
  <2>4. v # q
    <3>1. s.syncs = r.syncs + 1 /\ r.syncs \in Nat
      BY <1>1, <1>8 DEF FoldLabels
    <3> QED BY <2>3, <3>1
  <2>5. Gone(warp[a], warp[q], "foldHalf", "foldIn")
    <3>1. warp'[q] = warp[q]
      BY <1>1, <1>2, <2>4
    <3> QED BY <1>1, <1>2, <2>3, <3>1 DEF Gone
  <2>6. \A cell \in SlotCells(0, q) : smem[cell[1]][cell[2]] = x
    BY <1>5, <2>5 DEF Held
  <2> QED BY <1>5, <2>1, <2>6
<1> QED BY <1>4, <1>7, <1>8

\* What a row hands over stays in its slot until the row below has added it.
LEMMA SlotsStep ==
  ASSUME Shapes, ControlInv, Lockstep, FlightInv, RegistersInv, SlotsInv,
         NEW v \in Warp, Stepped(v), WarpStep(v)
  PROVE  SlotsInv'
<1>1. /\ cta' = cta /\ work' = work /\ Warp' = Warp /\ Col' = Col
  BY StepFacts DEF Stepped
<1>2. \A slot, q : SlotCells(slot, q)' = SlotCells(slot, q)
  BY <1>1 DEF SlotCells, SlotStages, ColOf
<1>3. ASSUME NEW q \in Col, cta.rows = 4,
             Gone(warp'[2 * cta.cols + q], warp'[cta.cols + q], "fold", "foldHalf")
      PROVE  \A cell \in SlotCells(0, q) :
               smem'[cell[1]][cell[2]] = Partial(Full(work, 2 * cta.cols + q, warp'[cta.cols + q].tile))
  <2>1. Gone(warp[2 * cta.cols + q], warp[cta.cols + q], "fold", "foldHalf") =>
              Held(SlotCells(0, q), Partial(Full(work, 2 * cta.cols + q, warp[cta.cols + q].tile)))
    BY <1>3 DEF SlotsInv
  <2>2. PICK a : a = 2 * cta.cols + q
    OBVIOUS
  <2>3. PICK b : b = cta.cols + q
    OBVIOUS
  <2>4. 2 \in {2, 3} /\ 2 - 2 = 0
    OBVIOUS
  <2>5. \A cell \in SlotCells(2 - 2, q) :
          smem'[cell[1]][cell[2]] = Partial(Full(work, a, warp'[b].tile))
    BY <1>3, <2>1, <2>2, <2>3, <2>4, OuterStep
  <2> QED BY <2>2, <2>3, <2>4, <2>5
<1>4. ASSUME NEW q \in Col, cta.rows = 4,
             Gone(warp'[3 * cta.cols + q], warp'[cta.cols + q], "fold", "foldHalf")
      PROVE  \A cell \in SlotCells(1, q) :
               smem'[cell[1]][cell[2]] = Partial(Full(work, 3 * cta.cols + q, warp'[cta.cols + q].tile))
  <2>1. Gone(warp[3 * cta.cols + q], warp[cta.cols + q], "fold", "foldHalf") =>
              Held(SlotCells(1, q), Partial(Full(work, 3 * cta.cols + q, warp[cta.cols + q].tile)))
    BY <1>4 DEF SlotsInv
  <2>2. PICK a : a = 3 * cta.cols + q
    OBVIOUS
  <2>3. PICK b : b = cta.cols + q
    OBVIOUS
  <2>4. 3 \in {2, 3} /\ 3 - 2 = 1
    OBVIOUS
  <2>5. \A cell \in SlotCells(3 - 2, q) :
          smem'[cell[1]][cell[2]] = Partial(Full(work, a, warp'[b].tile))
    BY <1>4, <2>1, <2>2, <2>3, <2>4, OuterStep
  <2> QED BY <2>2, <2>3, <2>4, <2>5
<1>5. ASSUME NEW q \in Col, cta.rows \in {2, 4},
             Gone(warp'[cta.cols + q], warp'[q], "foldHalf", "foldIn")
      PROVE  \A cell \in SlotCells(0, q) :
               smem'[cell[1]][cell[2]] = Partial(Half(cta, work, q, warp'[q].tile))
  <2>1. Gone(warp[cta.cols + q], warp[q], "foldHalf", "foldIn") =>
              Held(SlotCells(0, q), Partial(Half(cta, work, q, warp[q].tile)))
    BY <1>5 DEF SlotsInv
  <2>2. PICK a : a = cta.cols + q
    OBVIOUS
  <2>3. \A cell \in SlotCells(0, q) :
          smem'[cell[1]][cell[2]] = Partial(Half(cta, work, q, warp'[q].tile))
    BY <1>5, <2>1, <2>2, HalfStep
  <2> QED BY <2>3
<1> QED BY <1>1, <1>2, <1>3, <1>4, <1>5 DEF SlotsInv, Held

-----------------------------------------------------------------------------
(* The output.                                                             *)

\* How warps share the end of a tile.
EndBeside(ts, r, t) ==
  /\ t.syncs \in {r.syncs, r.syncs + 1}
  /\ t.syncs = r.syncs => Part(ts, t) = Part(ts, r)
  /\ t.syncs = r.syncs + 1 /\ t.at = "drain" => Part(ts, r) = "store"

\* ... all of them, before and after a step.
LEMMA EndCompany ==
  ASSUME Shapes, ControlInv, Lockstep, NEW v \in Warp, Stepped(v)
  PROVE  \A w \in Warp : /\ EndBeside(work, warp[v], warp[w])
                         /\ EndBeside(work, warp[v], warp'[w])
                         /\ warp[w].at # "routes" => warp[w].tile = warp[v].tile
                         /\ warp[v].at # "routes" /\ warp'[w].at # "routes" => warp'[w].tile = warp[v].tile
                         /\ warp[w].syncs \in Nat
<1>1. /\ \A u \in Warp : warp[u].syncs >= warp[v].syncs
      /\ \A w \in Warp : w # v => warp'[w] = warp[w]
      /\ Advance(cta, work, warp[v], warp'[v])
      /\ Ends(cta, work, warp[v], warp'[v])
  BY StepFacts DEF Stepped
<1>2. warp[v].syncs \in Nat /\ warp[v].at \in Labels
  BY DEF ControlInv, Control
<1>3. ASSUME NEW w \in Warp PROVE EndBeside(work, warp[v], warp[w])
  <2>1. /\ Beside(cta, work, warp[v], warp[w])
        /\ warp[v].at \in Labels /\ warp[w].at \in Labels /\ warp[v].syncs \in Nat
    BY <1>1, WithCompany
  <2> DEFINE r == warp[v]
             t == warp[w]
  <2> HIDE DEF r, t
  <2>2. CASE t.syncs = r.syncs /\ Same(work, r, t)
    <3>1. t.syncs # r.syncs + 1
      BY <2>1, <2>2 DEF r, t
    <3> QED BY <2>2, <3>1 DEF EndBeside, Same, r, t
  <2>3. CASE t.syncs = r.syncs + 1 /\ Spot(t) = Following(cta, work, r)
    <3>1. t.syncs # r.syncs
      BY <2>1, <2>3 DEF r, t
    <3>2. ASSUME t.at = "drain" PROVE Part(work, r) = "store"
      <4>1. Following(cta, work, r)[1] = "drain"
        BY <2>3, <3>2 DEF Spot
      <4>2. r.at \notin {"routes", "count", "valid", "prologue", "primed"} \cup PipeLabels \cup FoldLabels
        BY <4>1 DEF Following, AfterPipe, AfterFold, PipeLabels, FoldLabels, StartOf
      <4>3. Following(cta, work, r) = AfterEnd(cta, work, r)
        BY <4>2 DEF Following
      <4> QED BY <4>1, <4>3 DEF AfterEnd
    <3> QED BY <2>3, <3>1, <3>2 DEF EndBeside, r, t
  <2> QED BY <2>1, <2>2, <2>3 DEF Beside, r, t
<1>4. EndBeside(work, warp[v], warp'[v])
  <2> DEFINE r == warp[v]
             s == warp'[v]
  <2>1. Advance(cta, work, r, s) /\ r.syncs \in Nat /\ Moved(cta, work, r, s)
    BY <1>1, <1>2 DEF Ends
  <2> HIDE DEF r, s
  <2>2. s.syncs = r.syncs => Part(work, s) = Part(work, r)
    BY <2>1 DEF Moved, Same
  <2>3. s.at = "drain" => r.at = "store"
    BY <2>1 DEF Advance, StartOf
  <2>4. r.at = "store" => Part(work, r) = "store"
    BY DEF Part, PipeLabels
  <2>5. s.syncs \in {r.syncs, r.syncs + 1}
    BY <2>1 DEF Moved
  <2> QED BY <2>2, <2>3, <2>4, <2>5 DEF EndBeside, r, s
<1>5. \A w \in Warp : EndBeside(work, warp[v], warp'[w])
  BY <1>1, <1>3, <1>4
<1>6. \A w \in Warp : (warp[w].at # "routes" => warp[w].tile = warp[v].tile) /\ warp[w].syncs \in Nat
  BY <1>1, Others DEF ControlInv, Control
<1>7. warp[v].at # "routes" /\ warp'[v].at # "routes" => warp'[v].tile = warp[v].tile
  BY <1>1 DEF Advance, Stays
<1> QED BY <1>1, <1>3, <1>5, <1>6, <1>7

\* What row 0 has laid out stays there until every warp has taken its share.
LEMMA OutputStep ==
  ASSUME Shapes, ControlInv, Lockstep, RegistersInv, OutputInv,
         NEW u \in Warp, Stepped(u), WarpStep(u)
  PROVE  OutputInv'
<1> DEFINE r == warp[u]
           s == warp'[u]
           x(c) == Laid(cta, work, c, r.tile)
<1>1. /\ cta' = cta /\ work' = work /\ Warp' = Warp /\ Col' = Col /\ Block' = Block
      /\ \A w \in Warp : w # u => warp'[w] = warp[w]
      /\ \A w \in Warp : warp[w].syncs >= r.syncs
      /\ Advance(cta, work, r, s) /\ r.syncs \in Nat
  BY StepFacts DEF Stepped
<1>2. \A c : OutputCells(c)' = OutputCells(c)
  BY <1>1 DEF OutputCells, OutputStages, RowOf, ColOf
<1>3. \A w \in Warp : /\ EndBeside(work, r, warp[w]) /\ EndBeside(work, r, warp'[w])
                      /\ warp[w].at # "routes" => warp[w].tile = r.tile
                      /\ r.at # "routes" /\ warp'[w].at # "routes" => warp'[w].tile = r.tile
                      /\ warp[w].syncs \in Nat
  BY EndCompany
<1> SUFFICES ASSUME NEW q \in Col, NEW v \in Warp, Stored(work, warp'[q], warp'[v])
             PROVE  \A cell \in OutputCells(q) :
                      smem'[cell[1]][cell[2]] = Laid(cta, work, q, warp'[v].tile)
  BY <1>1, <1>2 DEF OutputInv, Held
<1>4. q \in Warp /\ RowOf(q) = 0 /\ ColOf(q) = q
  BY ColumnWarps
<1>5. Part(work, r) \in {"store", "drain"}
  <2>1. EndBeside(work, r, warp'[q]) /\ EndBeside(work, r, warp'[v])
    BY <1>3, <1>4
  <2>2. CASE Part(work, warp'[v]) = "store" /\ warp'[q].syncs > warp'[v].syncs
    BY <1>1, <2>1, <2>2 DEF EndBeside
  <2>3. CASE warp'[v].at = "drain"
    <3>1. Part(work, warp'[v]) = "drain"
      BY <2>3 DEF Part, PipeLabels
    <3> QED BY <1>1, <2>1, <2>3, <3>1 DEF EndBeside
  <2> QED BY <2>2, <2>3 DEF Stored
<1>6. r.at \in {"turn", "store", "drain"} /\ (r.at = "turn" => ~Split(work, r))
      /\ (r.at = "drain" <=> Part(work, r) = "drain")
  BY <1>5 DEF Part, PipeLabels
<1>7. warp'[v].at # "routes"
  BY DEF Stored, Part, PipeLabels
<1>8. warp'[v].tile = r.tile
  BY <1>3, <1>6, <1>7
<1>9. ASSUME Stored(work, warp[q], warp[v])
      PROVE  \A cell \in OutputCells(q) : smem[cell[1]][cell[2]] = x(q)
  <2>1. warp[v].at # "routes"
    BY <1>9 DEF Stored, Part, PipeLabels
  <2>2. warp[v].tile = r.tile
    BY <1>3, <2>1
  <2> QED BY <1>9, <2>2 DEF OutputInv, Held
<1>10. \A cell \in OutputCells(q) : cell = <<cell[1], cell[2]>> /\ cell[1] \in Stage /\ cell[2] \in Warp
  BY DEF OutputCells, OutputStages
<1>11. CASE r.at = "turn"
  <2>1. smem' = smem
    BY <1>11 DEF WarpStep, ReadRoutes, CountRows, ReadCount, Prologue, Primed, LoadFirst, LoadNext,
         Lookahead, WaitStages, Accumulate, FoldOuter, FoldHalf, FoldIn, TakeTurn, Merge, Store, Drain, At, memory
  <2>2. s.at = "store" /\ s.syncs = r.syncs /\ s.tile = r.tile
    BY <1>1, <1>6, <1>11 DEF Advance, Stays
  <2>3. Part(work, s) = "store" /\ Part(work, r) = "store"
    BY <1>5, <1>6, <1>11, <2>2 DEF Part, PipeLabels
  <2>4. \A w \in Warp : warp'[w].syncs = warp[w].syncs /\ Part(work, warp'[w]) = Part(work, warp[w])
                        /\ (warp'[w].at = "drain" => warp[w].at = "drain")
    BY <1>1, <2>2, <2>3
  <2>5. Stored(work, warp[q], warp[v])
    BY <1>4, <2>4 DEF Stored
  <2> QED BY <1>8, <1>9, <2>1, <2>5
<1>12. CASE r.at = "drain"
  <2>1. smem' = smem
    BY <1>12 DEF WarpStep, ReadRoutes, CountRows, ReadCount, Prologue, Primed, LoadFirst, LoadNext,
         Lookahead, WaitStages, Accumulate, FoldOuter, FoldHalf, FoldIn, TakeTurn, Merge, Store, Drain, At, memory
  <2>2. s.at = "routes"
    BY <1>1, <1>12 DEF Advance
  <2>3. v # u /\ warp'[v] = warp[v]
    BY <1>1, <1>7, <2>2
  <2>4. warp[v].at \in {"drain", "routes"}
    BY <1>1, <1>12, Others
  <2>5. warp[v].at = "drain"
    BY <1>7, <2>3, <2>4
  <2>6. warp[v].syncs = r.syncs
    BY <1>3, <1>6, <1>12, <2>5 DEF EndBeside
  <2>7. Stored(work, warp[q], warp[v])
    BY <1>1, <1>4, <2>5, <2>6 DEF Stored
  <2> QED BY <1>8, <1>9, <2>1, <2>7
<1>13. CASE r.at = "store"
  <2>1. Store(u)
    BY <1>13 DEF WarpStep, ReadRoutes, CountRows, ReadCount, Prologue, Primed, LoadFirst, LoadNext,
         Lookahead, WaitStages, Accumulate, FoldOuter, FoldHalf, FoldIn, TakeTurn, Merge, Store, Drain, At
  <2>2. smem' = IF RowOf(u) = 0 THEN Scratch(OutputCells(ColOf(u)), Output(acc[u])) ELSE smem
    BY <2>1 DEF Store
  <2>3. s.at = "drain" /\ s.syncs = r.syncs + 1
    BY <1>1, <1>13 DEF Advance
  <2>4. Part(work, r) = "store"
    BY <1>13 DEF Part, PipeLabels
  <2>5. CASE u = q
    <3>1. acc[u] = [b \in Block |-> Column(cta, work, q, r.tile)]
      <4>1. Accumulated(cta, work, u, r, acc[u])
        BY DEF RegistersInv
      <4>2. RowIn(cta, u) = 0 /\ ColIn(cta, u) = q /\ Block = 0 .. cta.blocks - 1
        BY <1>4, <2>5, CtaFacts DEF RowIn, ColIn, RowOf, ColOf
      <4> QED BY <1>13, <4>1, <4>2 DEF Accumulated, EndLabels
    <3>2. smem' = Scratch(OutputCells(q), x(q))
      BY <1>4, <2>2, <2>5, <3>1, CtaFacts DEF Laid
    <3> HIDE DEF x
    <3>3. \A cell \in OutputCells(q) : smem'[cell[1]][cell[2]] = x(q)
      BY <1>10, <3>2, Scratched
    <3> QED BY <1>8, <3>3 DEF x
  <2>6. CASE u # q
    <3>1. warp'[q] = warp[q]
      BY <1>1, <1>4, <2>6
    <3>2. Stored(work, warp[q], warp[v])
      <4>1. CASE v = u
        <5>1. warp[q].syncs > r.syncs
          <6>1. warp[q].syncs >= r.syncs + 1
            <7>1. Part(work, s) = "drain"
              BY <2>3 DEF Part, PipeLabels
            <7> QED BY <2>3, <3>1, <4>1, <7>1 DEF Stored
          <6> QED BY <1>1, <1>3, <1>4, <6>1
        <5> QED BY <2>4, <4>1, <5>1 DEF Stored
      <4>2. CASE v # u
        BY <1>1, <3>1, <4>2
      <4> QED BY <4>1, <4>2
    <3>3. \A cell \in OutputCells(q) : smem[cell[1]][cell[2]] = x(q)
      BY <1>9, <3>2
    <3>4. RowOf(u) = 0 => ColOf(u) # q
      BY <2>6, RowCases
    <3>5. \A c : c # q => \A cell \in OutputCells(q) : cell \notin OutputCells(c)
      BY DEF OutputCells
    <3> HIDE DEF x
    <3>6. \A cell \in OutputCells(q) : smem'[cell[1]][cell[2]] = x(q)
      BY <1>10, <2>2, <3>3, <3>4, <3>5, Scratched
    <3> QED BY <1>8, <3>6 DEF x
  <2> QED BY <2>5, <2>6
<1> QED BY <1>6, <1>11, <1>12, <1>13

\* The output of a column takes at least a cell.
LEMMA OutputCellsThere ==
  ASSUME Shapes, NEW q \in Col
  PROVE  OutputCells(q) # {} /\ \A cell \in OutputCells(q) : cell[2] \in Warp
<1>1. cta.cols \in Nat \ {0} /\ q \in 0 .. cta.cols - 1 /\ cta.rows \in Nat /\ cta.blocks \in Nat
  BY CtaFacts DEF Col
<1>2. q \in Warp /\ RowOf(q) = 0 /\ ColOf(q) = q
  BY ColumnWarps
<1>3. (0 + q) % cta.cols = q
  <2>1. 0 * cta.cols + q = q /\ 0 + q = q
    BY <1>1
  <2>2. (0 * cta.cols + q) % cta.cols = q
    BY <1>1, Quotient
  <2> QED BY <2>1, <2>2
<1>4. 0 \in OutputStages
  BY <1>1, Numbers DEF OutputStages
<1>5. <<0, q>> \in OutputCells(q)
  BY <1>2, <1>3, <1>4 DEF OutputCells
<1> QED BY <1>5 DEF OutputCells

\* What a warp that takes its share of the output finds.
LEMMA DrainSees ==
  ASSUME Shapes, ControlInv, Lockstep, FlightInv, OutputInv, NEW v \in Warp,
         \A u \in Warp : warp[u].syncs >= warp[v].syncs, warp[v].at = "drain", NEW q \in Col
  PROVE  Content(OutputCells(q), "output") = Laid(cta, work, q, warp[v].tile)
<1> DEFINE x == Laid(cta, work, q, warp[v].tile)
<1>1. q \in Warp
  BY ColumnWarps
<1>2. Stored(work, warp[q], warp[v])
  BY <1>1 DEF Stored
<1>3. Held(OutputCells(q), x)
  BY <1>2 DEF OutputInv
<1>4. \A w \in Warp : flight[w] \in Seq(Groups) /\ \A n \in 1 .. Len(flight[w]) : flight[w][n] = NoGroup
  BY NoCopies DEF EndLabels
<1>5. x.kind = "output"
  BY DEF Laid, Output
<1> HIDE DEF x
<1>6. \A kind : x.kind = kind => Content(OutputCells(q), kind) = x
  BY <1>3, <1>4, OutputCellsThere, HeldSeen
<1> QED BY <1>5, <1>6 DEF x

\* What leaves the CTA.
LEMMA ResultRight ==
  ASSUME Shapes, ControlInv, Lockstep, RoutesInv, NEW v \in Warp,
         \A u \in Warp : warp[u].syncs >= warp[v].syncs, warp[v].at \in {"merge", "drain"},
         NEW cols, DOMAIN cols \subseteq Col,
         \A q \in DOMAIN cols : \A b \in Block : cols[q][b] = Column(cta, work, q, warp[v].tile)
  PROVE  Result(v, cols) # Empty /\ Right(cta, work, warp[v].tile, Result(v, cols))
<1>1. routes = warp[v].tile
  BY RoutesNow
<1>2. valid[v] = CountOf(warp[v].tile)
  BY DEF RoutesInv
<1>3. /\ DOMAIN Result(v, cols) = {"cols", "routes", "valid"} /\ DOMAIN Empty = {"kind"}
      /\ Result(v, cols).cols = cols /\ Result(v, cols).routes = routes /\ Result(v, cols).valid = valid[v]
  BY DEF Result, Empty
<1>4. Result(v, cols) # Empty
  BY <1>3
<1>5. Right(cta, work, warp[v].tile, Result(v, cols))
  BY <1>1, <1>2, <1>3, CtaFacts DEF Right, Col
<1> QED BY <1>4, <1>5

\* What leaves the CTA is a whole column, with the routes and the count of its
\* own tile.
LEMMA OutStep ==
  ASSUME Shapes, ControlInv, Lockstep, RoutesInv, FlightInv, RegistersInv, OutputInv, OutInv,
         NEW v \in Warp, Stepped(v), WarpStep(v)
  PROVE  OutInv'
<1> DEFINE r == warp[v]
           s == warp'[v]
<1>1. /\ cta' = cta /\ work' = work /\ Warp' = Warp
      /\ \A w \in Warp : w # v => warp'[w] = warp[w]
      /\ \A w \in Warp : warp[w].syncs >= r.syncs
      /\ Advance(cta, work, r, s) /\ r.tile \in 1 .. Len(work) /\ Len(work) \in Nat
      /\ DOMAIN work = 1 .. Len(work)
  BY StepFacts, WorkFacts DEF Stepped
<1>2. /\ DOMAIN out = DOMAIN work /\ \A j \in DOMAIN work : DOMAIN out[j] = Warp
  BY DEF Shapes, FunOver
<1>3. RowIn(cta, v) = RowOf(v) /\ ColIn(cta, v) = ColOf(v) /\ Block = 0 .. cta.blocks - 1
      /\ ColOf(v) \in Col
  BY CtaFacts, RowCases DEF RowIn, RowOf, ColIn, ColOf
<1> DEFINE Goal == \A j \in DOMAIN work, w \in Warp :
             /\ out'[j][w] # Empty => Right(cta, work, j, out'[j][w])
             /\ j < warp'[w].tile /\ (RowIn(cta, w) = 0 \/ work[j].slice = work[j].slices - 1) =>
                  out'[j][w] # Empty
<1> SUFFICES Goal
  BY <1>1 DEF OutInv
<1>4. CASE out' = out /\ s.tile = r.tile
  BY <1>1, <1>4 DEF OutInv
<1>5. ASSUME NEW cols, out' = [out EXCEPT ![r.tile][v] = Result(v, cols)],
             Result(v, cols) # Empty, Right(cta, work, r.tile, Result(v, cols)),
             s.tile = r.tile + 1
      PROVE  Goal
  <2> SUFFICES ASSUME NEW j \in DOMAIN work, NEW w \in Warp
               PROVE  /\ out'[j][w] # Empty => Right(cta, work, j, out'[j][w])
                      /\ j < warp'[w].tile /\ (RowIn(cta, w) = 0 \/ work[j].slice = work[j].slices - 1) =>
                           out'[j][w] # Empty
    OBVIOUS
  <2> HIDE DEF r, s
  <2>1. CASE j = r.tile /\ w = v
    <3>1. out'[j][w] = Result(v, cols)
      BY <1>1, <1>2, <1>5, <2>1
    <3> QED BY <1>5, <2>1, <3>1
  <2>2. CASE ~(j = r.tile /\ w = v)
    <3>1. out'[j][w] = out[j][w]
      BY <1>1, <1>2, <1>5, <2>2
    <3>2. j < warp'[w].tile => j < warp[w].tile
      <4>1. CASE w # v
        BY <1>1, <4>1
      <4>2. CASE w = v
        <5>1. j # r.tile
          BY <2>2, <4>2
        <5> QED BY <1>1, <1>5, <4>2, <5>1 DEF r, s
      <4> QED BY <4>1, <4>2
    <3> QED BY <3>1, <3>2 DEF OutInv
  <2> QED BY <2>1, <2>2
<1>6. CASE Drain(v)
  <2>1. r.at = "drain" /\ s.tile = r.tile + 1
    <3>1. r.at = "drain"
      BY <1>6 DEF Drain, At
    <3> QED BY <1>1, <3>1 DEF Advance
  <2> DEFINE column(c) == Content(OutputCells(c), "output")
             cols == [c \in Col |-> IF column(c) = Garbage THEN [b \in Block |-> <<Garbage>>]
                                ELSE column(c).blocks]
  <2>2. out' = [out EXCEPT ![r.tile][v] = Result(v, cols)]
    BY <1>6 DEF Drain
  <2>3. ASSUME NEW q \in Col PROVE \A b \in Block : cols[q][b] = Column(cta, work, q, r.tile)
    <3>1. column(q) = Laid(cta, work, q, r.tile)
      BY <1>1, <2>1, DrainSees
    <3>2. /\ Laid(cta, work, q, r.tile).kind = "output" /\ Garbage.kind = "garbage"
          /\ \A b \in Block : Laid(cta, work, q, r.tile).blocks[b] = Column(cta, work, q, r.tile)
      BY <1>3 DEF Laid, Output, Garbage
    <3>3. Laid(cta, work, q, r.tile) # Garbage
      BY <3>2
    <3> HIDE DEF column
    <3>4. cols[q] = column(q).blocks
      BY <3>1, <3>3
    <3> QED BY <3>1, <3>2, <3>4
  <2>4. DOMAIN cols = Col
    OBVIOUS
  <2> HIDE DEF cols
  <2>5. Result(v, cols) # Empty /\ Right(cta, work, r.tile, Result(v, cols))
    BY <1>1, <2>1, <2>3, <2>4, ResultRight
  <2> QED BY <1>5, <2>1, <2>2, <2>5
<1>7. CASE Merge(v)
  <2>1. r.at = "merge"
    BY <1>7 DEF Merge, At
  <2>2. LastSlice(v) <=> IsFinal(work, r)
    BY DEF LastSlice, TileOf, IsFinal
  <2>3. CASE IsFinal(work, r)
    <3>1. out' = out
      BY <1>7, <2>2, <2>3 DEF Merge
    <3>2. s.tile = r.tile
      BY <1>1, <2>1, <2>3 DEF Advance, Stays
    <3> QED BY <1>4, <3>1, <3>2
  <2>4. CASE ~IsFinal(work, r)
    <3>1. s.tile = r.tile + 1
      BY <1>1, <2>1, <2>4 DEF Advance, Stays
    <3>2. CASE RowOf(v) = 0
      <4> DEFINE cols == [c \in {ColOf(v)} |-> acc[v]]
      <4>1. out' = [out EXCEPT ![r.tile][v] = Result(v, cols)]
        BY <1>7, <2>2, <2>4, <3>2 DEF Merge
      <4>2. acc[v] = [b \in Block |-> Column(cta, work, ColOf(v), r.tile)]
        <5>1. Accumulated(cta, work, v, r, acc[v])
          BY DEF RegistersInv
        <5> QED BY <1>3, <2>1, <3>2, <5>1 DEF Accumulated, EndLabels
      <4>3. DOMAIN cols \subseteq Col
        BY <1>3
      <4>4. \A q \in DOMAIN cols : \A b \in Block : cols[q][b] = Column(cta, work, q, r.tile)
        BY <4>2
      <4> HIDE DEF cols
      <4>5. Result(v, cols) # Empty /\ Right(cta, work, r.tile, Result(v, cols))
        BY <1>1, <2>1, <4>3, <4>4, ResultRight
      <4> QED BY <1>5, <3>1, <4>1, <4>5
    <3>3. CASE RowOf(v) # 0
      <4>1. out' = out
        BY <1>7, <2>2, <2>4, <3>3 DEF Merge
      <4> SUFFICES ASSUME NEW j \in DOMAIN work, NEW w \in Warp, j < warp'[w].tile,
                          RowIn(cta, w) = 0 \/ work[j].slice = work[j].slices - 1
                   PROVE  out[j][w] # Empty
        BY <4>1 DEF OutInv
      <4>2. CASE w # v
        BY <1>1, <4>2 DEF OutInv
      <4>3. CASE w = v
        <5>1. j # r.tile
          BY <1>3, <2>4, <3>3, <4>3 DEF IsFinal
        <5>2. j < r.tile
          BY <1>1, <3>1, <4>3, <5>1
        <5> QED BY <4>3, <5>2 DEF OutInv
      <4> QED BY <4>2, <4>3
    <3> QED BY <3>2, <3>3
  <2> QED BY <2>3, <2>4
<1>8. CASE ~Drain(v) /\ ~Merge(v)
  <2>1. out' = out
    BY <1>8 DEF WarpStep, ReadRoutes, CountRows, ReadCount, Prologue, Primed, LoadFirst, LoadNext,
         Lookahead, WaitStages, Accumulate, FoldOuter, FoldHalf, FoldIn, TakeTurn, Store
  <2>2. r.at \notin {"drain", "merge"}
    BY <1>8 DEF WarpStep, ReadRoutes, CountRows, ReadCount, Prologue, Primed, LoadFirst, LoadNext,
         Lookahead, WaitStages, Accumulate, FoldOuter, FoldHalf, FoldIn, TakeTurn, Store, At
  <2>3. s.tile = r.tile
    BY <1>1, <2>2 DEF Advance, Stays
  <2> QED BY <1>4, <2>1, <2>3
<1> QED BY <1>6, <1>7, <1>8

-----------------------------------------------------------------------------
(* Shapes.                                                                 *)

\* A function stays one on its domain when it is changed at a point,
LEMMA FunExcept ==
  ASSUME NEW f, NEW S, FunOver(f, S), NEW a, NEW y
  PROVE  FunOver([f EXCEPT ![a] = y], S)
BY DEF FunOver

\* ... or at a point of one of its values.
LEMMA FunExceptIn ==
  ASSUME NEW f, NEW S, NEW T, FunOver(f, S), \A x \in S : FunOver(f[x], T), NEW a, NEW b, NEW y
  PROVE  /\ FunOver([f EXCEPT ![a][b] = y], S)
         /\ \A x \in S : FunOver([f EXCEPT ![a][b] = y][x], T)
BY DEF FunOver

\* The variables keep their shapes.
LEMMA ShapesStep ==
  ASSUME Shapes, ControlInv, FlightInv, NEW v \in Warp, Stepped(v), WarpStep(v)
  PROVE  Shapes'
<1>1. /\ cta' = cta /\ work' = work /\ Warp' = Warp /\ Block' = Block /\ Stage' = Stage
      /\ warp' = [warp EXCEPT ![v] = warp'[v]] /\ flight' = [flight EXCEPT ![v] = flight'[v]]
  BY StepFacts, FlightStep DEF Stepped, Stage
<1>2. /\ cta \in Ctas /\ work \in Works
      /\ FunOver(warp, Warp) /\ FunOver(flight, Warp) /\ FunOver(valid, Warp)
      /\ FunOver(cur, Warp) /\ FunOver(next, Warp)
      /\ FunOver(acc, Warp) /\ (\A w \in Warp : FunOver(acc[w], Block))
      /\ FunOver(smem, Stage) /\ (\A p \in Stage : FunOver(smem[p], Warp))
      /\ FunOver(out, DOMAIN work) /\ (\A j \in DOMAIN work : FunOver(out[j], Warp))
  BY DEF Shapes
<1>3. FunOver(warp', Warp)
  BY <1>1, <1>2, FunExcept
<1>4. FunOver(flight', Warp)
  BY <1>1, <1>2, FunExcept
<1>5. FunOver(valid', Warp)
  <2>1. valid' = valid \/ \E y : valid' = [valid EXCEPT ![v] = y]
    BY DEF WarpStep, ReadRoutes, CountRows, ReadCount, Prologue, Primed, LoadFirst, LoadNext,
         Lookahead, WaitStages, Accumulate, FoldOuter, FoldHalf, FoldIn, TakeTurn, Merge, Store, Drain, regs
  <2>2. ASSUME NEW y, valid' = [valid EXCEPT ![v] = y] PROVE FunOver(valid', Warp)
    BY <1>2, <2>2, FunExcept
  <2> QED BY <1>2, <2>1, <2>2
<1>6. FunOver(cur', Warp)
  <2>1. cur' = cur \/ \E y : cur' = [cur EXCEPT ![v] = y]
    BY DEF WarpStep, ReadRoutes, CountRows, ReadCount, Prologue, Primed, LoadFirst, LoadNext,
         Lookahead, WaitStages, Accumulate, FoldOuter, FoldHalf, FoldIn, TakeTurn, Merge, Store, Drain, regs
  <2>2. ASSUME NEW y, cur' = [cur EXCEPT ![v] = y] PROVE FunOver(cur', Warp)
    BY <1>2, <2>2, FunExcept
  <2> QED BY <1>2, <2>1, <2>2
<1>7. FunOver(next', Warp)
  <2>1. next' = next \/ \E y : next' = [next EXCEPT ![v] = y]
    BY DEF WarpStep, ReadRoutes, CountRows, ReadCount, Prologue, Primed, LoadFirst, LoadNext,
         Lookahead, WaitStages, Accumulate, FoldOuter, FoldHalf, FoldIn, TakeTurn, Merge, Store, Drain, regs
  <2>2. ASSUME NEW y, next' = [next EXCEPT ![v] = y] PROVE FunOver(next', Warp)
    BY <1>2, <2>2, FunExcept
  <2> QED BY <1>2, <2>1, <2>2
<1>8. FunOver(acc', Warp) /\ \A w \in Warp : FunOver(acc'[w], Block)
  <2>1. \/ acc' = acc
        \/ \E b, y : acc' = [acc EXCEPT ![v][b] = y]
        \/ \E y : acc' = [acc EXCEPT ![v] = y] /\ FunOver(y, Block)
    <3>1. CASE Primed(v)
      <4>1. acc' = [acc EXCEPT ![v] = [b \in Block |-> <<>>]]
        BY <3>1 DEF Primed
      <4>2. FunOver([b \in Block |-> <<>>], Block)
        BY DEF FunOver
      <4> QED BY <4>1, <4>2
    <3>2. CASE Accumulate(v)
      <4> DEFINE y == [b \in Block |-> Append(acc[v][b], Product(v))]
      <4>1. acc' = [acc EXCEPT ![v] = y]
        BY <3>2 DEF Accumulate
      <4>2. FunOver(y, Block)
        BY DEF FunOver
      <4> QED BY <4>1, <4>2
    <3>3. CASE FoldHalf(v)
      <4>1. acc' = acc \/ \E y : acc' = [acc EXCEPT ![v][warp[v].block] = y]
        BY <3>3 DEF FoldHalf
      <4> QED BY <4>1
    <3>4. CASE FoldIn(v)
      <4>1. acc' = IF RowOf(v) = 0
                     THEN [acc EXCEPT ![v][warp[v].block] = acc[v][warp[v].block] \o SlotSum(0, ColOf(v))]
                     ELSE acc
        BY <3>4 DEF FoldIn
      <4> QED BY <4>1
    <3> QED BY <3>1, <3>2, <3>3, <3>4 DEF WarpStep, ReadRoutes, CountRows, ReadCount, Prologue, LoadFirst,
              LoadNext, Lookahead, WaitStages, FoldOuter, TakeTurn, Merge, Store, Drain, regs
  <2>2. CASE acc' = acc
    BY <1>2, <2>2
  <2>3. ASSUME NEW b, NEW y, acc' = [acc EXCEPT ![v][b] = y]
        PROVE  FunOver(acc', Warp) /\ \A w \in Warp : FunOver(acc'[w], Block)
    BY <1>2, <2>3, FunExceptIn
  <2>4. ASSUME NEW y, acc' = [acc EXCEPT ![v] = y], FunOver(y, Block)
        PROVE  FunOver(acc', Warp) /\ \A w \in Warp : FunOver(acc'[w], Block)
    <3>1. FunOver(acc', Warp)
      BY <1>2, <2>4, FunExcept
    <3>2. \A w \in Warp : acc'[w] = IF w = v THEN y ELSE acc[w]
      BY <1>2, <2>4 DEF FunOver
    <3> QED BY <1>2, <2>4, <3>1, <3>2
  <2> QED BY <2>1, <2>2, <2>3, <2>4
<1>9. FunOver(smem', Stage) /\ \A p \in Stage : FunOver(smem'[p], Warp)
  <2>1. \/ smem' = smem
        \/ \E y : smem' = [smem EXCEPT ![0][0] = y]
        \/ \E cells, y : smem' = Scratch(cells, y)
        \/ \E n : WaitGroup(v, n)
    BY DEF WarpStep, ReadRoutes, CountRows, ReadCount, Prologue, Primed, LoadFirst, LoadNext,
         Lookahead, WaitStages, Accumulate, FoldOuter, FoldHalf, FoldIn, TakeTurn, Merge, Store, Drain, memory
  <2>2. CASE smem' = smem
    BY <1>2, <2>2
  <2>3. ASSUME NEW y, smem' = [smem EXCEPT ![0][0] = y]
        PROVE  FunOver(smem', Stage) /\ \A p \in Stage : FunOver(smem'[p], Warp)
    BY <1>2, <2>3, FunExceptIn
  <2>4. ASSUME NEW cells, NEW y, smem' = Scratch(cells, y)
        PROVE  FunOver(smem', Stage) /\ \A p \in Stage : FunOver(smem'[p], Warp)
    BY <2>4 DEF Scratch, FunOver
  <2>5. ASSUME NEW n, WaitGroup(v, n)
        PROVE  FunOver(smem', Stage) /\ \A p \in Stage : FunOver(smem'[p], Warp)
    <3>1. DOMAIN smem' = Stage /\ smem' = [p \in Stage |-> smem'[p]]
      BY <2>5 DEF WaitGroup
    <3>2. \A p \in Stage : \E y : smem'[p] = [smem[p] EXCEPT ![v] = y]
      BY <2>5 DEF WaitGroup
    <3>3. \A p \in Stage : FunOver(smem'[p], Warp)
      <4> SUFFICES ASSUME NEW p \in Stage, NEW y, smem'[p] = [smem[p] EXCEPT ![v] = y]
                   PROVE  FunOver(smem'[p], Warp)
        BY <3>2
      <4>1. FunOver(smem[p], Warp)
        BY <1>2
      <4>2. FunOver([smem[p] EXCEPT ![v] = y], Warp)
        BY <4>1, FunExcept
      <4> QED BY <4>2
    <3> QED BY <3>1, <3>3 DEF FunOver
  <2> QED BY <2>1, <2>2, <2>3, <2>4, <2>5
<1>10. FunOver(out', DOMAIN work) /\ \A j \in DOMAIN work : FunOver(out'[j], Warp)
  <2>1. out' = out \/ \E y : out' = [out EXCEPT ![warp[v].tile][v] = y]
    BY DEF WarpStep, ReadRoutes, CountRows, ReadCount, Prologue, Primed, LoadFirst, LoadNext,
         Lookahead, WaitStages, Accumulate, FoldOuter, FoldHalf, FoldIn, TakeTurn, Merge, Store, Drain
  <2>2. ASSUME NEW y, out' = [out EXCEPT ![warp[v].tile][v] = y]
        PROVE  FunOver(out', DOMAIN work) /\ \A j \in DOMAIN work : FunOver(out'[j], Warp)
    BY <1>2, <2>2, FunExceptIn
  <2> QED BY <1>2, <2>1, <2>2
<1> QED BY <1>1, <1>2, <1>3, <1>4, <1>5, <1>6, <1>7, <1>8, <1>9, <1>10, Zenon DEF Shapes

-----------------------------------------------------------------------------
(* What a column is made of.                                               *)

\* A sequence with each member of a set in it exactly once.
Lists(s, S) == s \in Seq(S) /\ IsInjective(s) /\ Range(s) = S

\* Two such sequences of different things make one of both.
LEMMA ListsJoin ==
  ASSUME NEW s, NEW t, NEW S, NEW T, Lists(s, S), Lists(t, T), S \cap T = {}
  PROVE  Lists(s \o t, S \cup T)
<1>1. /\ s \in Seq(S \cup T) /\ t \in Seq(S \cup T) /\ Len(s) \in Nat /\ Len(t) \in Nat
      /\ DOMAIN s = 1 .. Len(s) /\ DOMAIN t = 1 .. Len(t)
  BY LenProperties DEF Lists
<1>2. /\ s \o t \in Seq(S \cup T) /\ Len(s \o t) = Len(s) + Len(t)
      /\ \A i \in 1 .. Len(s) + Len(t) :
           (s \o t)[i] = IF i <= Len(s) THEN s[i] ELSE t[i - Len(s)]
  BY <1>1, ConcatProperties
<1>3. DOMAIN (s \o t) = 1 .. Len(s) + Len(t)
  BY <1>2, LenProperties
<1>4. /\ \A i \in 1 .. Len(s) : s[i] \in S
      /\ \A i \in 1 .. Len(t) : t[i] \in T
      /\ \A i, k \in 1 .. Len(s) : s[i] = s[k] => i = k
      /\ \A i, k \in 1 .. Len(t) : t[i] = t[k] => i = k
      /\ \A x \in S : \E i \in 1 .. Len(s) : s[i] = x
      /\ \A x \in T : \E i \in 1 .. Len(t) : t[i] = x
  BY <1>1 DEF Lists, IsInjective, Range
<1> DEFINE u == s \o t
           m == Len(s)
           n == Len(t)
<1>5. /\ m \in Nat /\ n \in Nat /\ DOMAIN u = 1 .. m + n
      /\ \A i \in 1 .. m + n : u[i] = IF i <= m THEN s[i] ELSE t[i - m]
  BY <1>1, <1>2, <1>3
<1> HIDE DEF u, m, n
<1>6. \A i \in 1 .. m + n : IF i <= m THEN i \in 1 .. m ELSE i - m \in 1 .. n
  BY <1>5
<1>7. IsInjective(u)
  <2> SUFFICES ASSUME NEW i \in 1 .. m + n, NEW k \in 1 .. m + n, u[i] = u[k] PROVE i = k
    BY <1>5 DEF IsInjective
  <2>1. CASE i <= m /\ k <= m
    BY <1>4, <1>5, <1>6, <2>1 DEF m
  <2>2. CASE ~(i <= m) /\ ~(k <= m)
    <3>1. i - m \in 1 .. n /\ k - m \in 1 .. n
      BY <1>6, <2>2
    <3>2. t[i - m] = t[k - m]
      BY <1>5, <2>2
    <3>3. i - m = k - m
      BY <1>4, <3>1, <3>2 DEF n
    <3> QED BY <1>5, <3>3
  <2>3. CASE i <= m /\ ~(k <= m)
    <3>1. u[i] \in S /\ u[k] \in T
      BY <1>4, <1>5, <1>6, <2>3 DEF m, n
    <3> QED BY <3>1
  <2>4. CASE ~(i <= m) /\ k <= m
    <3>1. u[i] \in T /\ u[k] \in S
      BY <1>4, <1>5, <1>6, <2>4 DEF m, n
    <3> QED BY <3>1
  <2> QED BY <2>1, <2>2, <2>3, <2>4
<1>8. Range(u) = S \cup T
  <2>1. \A i \in 1 .. m + n : u[i] \in S \cup T
    BY <1>4, <1>5, <1>6 DEF m, n
  <2>2. ASSUME NEW x \in S PROVE \E i \in DOMAIN u : u[i] = x
    <3>1. PICK i \in 1 .. m : s[i] = x
      BY <1>4 DEF m
    <3>2. i \in 1 .. m + n /\ i <= m
      BY <1>5
    <3> QED BY <1>5, <3>1, <3>2
  <2>3. ASSUME NEW x \in T PROVE \E i \in DOMAIN u : u[i] = x
    <3>1. PICK i \in 1 .. n : t[i] = x
      BY <1>4 DEF n
    <3>2. i + m \in 1 .. m + n /\ ~(i + m <= m) /\ (i + m) - m = i
      BY <1>5
    <3>3. u[i + m] = x
      BY <1>5, <3>1, <3>2
    <3> QED BY <1>5, <3>2, <3>3
  <2> QED BY <1>5, <2>1, <2>2, <2>3 DEF Range
<1> QED BY <1>2, <1>7, <1>8 DEF Lists, u

\* What a warp brings to its column.
Share(j, w) ==
  {Bundle(j, k, w, kk) : k \in work[j].first .. work[j].first + work[j].count - 1, kk \in 0 .. Bundles - 1}

\* No two warps bring the same.
LEMMA SharesApart ==
  ASSUME NEW j, NEW v, NEW w, v # w
  PROVE  Share(j, v) \cap Share(j, w) = {}
BY DEF Share, Bundle

\* A warp that has gone through all k-tiles has brought its share.
LEMMA FullLists ==
  ASSUME Shapes, NEW j \in 1 .. Len(work), NEW w
  PROVE  Lists(Full(work, w, j), Share(j, w))
<1> DEFINE f == work[j].first
           n == work[j].count
           s == Full(work, w, j)
<1>1. f \in Nat /\ n \in Nat \ {0} /\ Bundles \in Nat \ {0} /\ n * Bundles \in Nat
  BY TileFacts, Numbers
<1>2. /\ s \in Seq(Pieces(w, j)) /\ Len(s) = n * Bundles
      /\ \A i \in 1 .. n * Bundles : s[i] = Bundle(j, f + ((i - 1) \div Bundles), w, (i - 1) % Bundles)
  BY <1>1, StripSeq DEF Full
<1>3. DOMAIN s = 1 .. n * Bundles
  BY <1>1, <1>2, LenProperties
<1> HIDE DEF f, n, s
<1>4. ASSUME NEW i \in 1 .. n * Bundles
      PROVE  /\ i - 1 \in Nat /\ (i - 1) \div Bundles \in 0 .. n - 1 /\ (i - 1) % Bundles \in 0 .. Bundles - 1
             /\ i - 1 = Bundles * ((i - 1) \div Bundles) + ((i - 1) % Bundles)
             /\ s[i] \in Share(j, w)
  <2>1. i - 1 \in Nat /\ i - 1 < n * Bundles
    BY <1>1
  <2> DEFINE a == (i - 1) \div Bundles
             x == (i - 1) % Bundles
  <2>2. a \in Nat /\ x \in 0 .. Bundles - 1 /\ i - 1 = Bundles * a + x
    BY <1>1, <2>1, QuotientNat
  <2>3. s[i] = Bundle(j, f + a, w, x)
    BY <1>2
  <2> HIDE DEF a, x
  <2>4. a < n
    <3>1. CASE a >= n
      <4>1. Bundles * (a - n) >= 0
        BY <1>1, <2>2, <3>1
      <4>2. Bundles * (a - n) = Bundles * a - n * Bundles
        BY <1>1, <2>2
      <4> QED BY <1>1, <2>1, <2>2, <4>1, <4>2
    <3> QED BY <1>1, <2>2, <3>1
  <2>5. a \in 0 .. n - 1 /\ f + a \in f .. f + n - 1
    BY <1>1, <2>2, <2>4
  <2>6. s[i] \in Share(j, w)
    BY <2>2, <2>3, <2>5 DEF Share, f, n
  <2> QED BY <2>1, <2>2, <2>5, <2>6 DEF a, x
<1>5. s \in Seq(Share(j, w))
  <2>1. \A i \in 1 .. Len(s) : s[i] \in Share(j, w)
    BY <1>2, <1>4
  <2>2. s = [i \in 1 .. Len(s) |-> s[i]] /\ Len(s) \in Nat
    BY <1>1, <1>2, LenProperties
  <2> QED BY <2>1, <2>2
<1>6. IsInjective(s)
  <2> SUFFICES ASSUME NEW i \in 1 .. n * Bundles, NEW m \in 1 .. n * Bundles, s[i] = s[m]
               PROVE  i = m
    BY <1>3 DEF IsInjective
  <2>1. /\ f + ((i - 1) \div Bundles) = f + ((m - 1) \div Bundles)
        /\ (i - 1) % Bundles = (m - 1) % Bundles
    BY <1>2 DEF Bundle
  <2>2. (i - 1) \div Bundles = (m - 1) \div Bundles
    <3>1. (i - 1) \div Bundles \in Int /\ (m - 1) \div Bundles \in Int
      BY <1>1, <1>4
    <3> QED BY <1>1, <2>1, <3>1
  <2>3. i - 1 = m - 1
    BY <1>4, <2>1, <2>2
  <2> QED BY <1>1, <2>3
<1>7. Range(s) = Share(j, w)
  <2>1. ASSUME NEW k \in f .. f + n - 1, NEW kk \in 0 .. Bundles - 1
        PROVE  \E i \in DOMAIN s : s[i] = Bundle(j, k, w, kk)
    <3> DEFINE a == k - f
               i == a * Bundles + kk + 1
    <3>1. a \in 0 .. n - 1 /\ k = f + a /\ a \in Nat /\ kk \in Nat
      BY <1>1
    <3> HIDE DEF a
    <3>2. i - 1 = a * Bundles + kk /\ a * Bundles \in Nat
      BY <1>1, <3>1
    <3>3. (i - 1) \div Bundles = a /\ (i - 1) % Bundles = kk
      BY <1>1, <3>1, <3>2, Quotient
    <3>4. i \in 1 .. n * Bundles
      <4>1. Bundles * (n - 1 - a) >= 0
        BY <1>1, <3>1
      <4>2. Bundles * (n - 1 - a) = n * Bundles - Bundles - a * Bundles
        BY <1>1, <3>1
      <4> QED BY <1>1, <3>1, <3>2, <4>1, <4>2
    <3> HIDE DEF i
    <3> QED BY <1>2, <1>3, <3>1, <3>3, <3>4
  <2>2. Share(j, w) \subseteq Range(s)
    BY <2>1 DEF Share, Range, f, n
  <2>3. Range(s) \subseteq Share(j, w)
    BY <1>3, <1>4 DEF Range
  <2> QED BY <2>2, <2>3
<1> QED BY <1>5, <1>6, <1>7 DEF Lists, s

\* A column has every bundle of its slice in it exactly once.
LEMMA ColumnLists ==
  ASSUME Shapes, NEW j \in 1 .. Len(work), NEW q \in Col
  PROVE  Lists(Column(cta, work, q, j), WantedOf(j, q))
<1> DEFINE c == cta.cols
           own(w) == Share(j, w)
           f(w) == Full(work, w, j)
           ws == {v \in Warp : ColOf(v) = q}
<1>1. c \in Nat \ {0} /\ cta.rows \in {1, 2, 4} /\ q \in Nat
  BY CtaFacts DEF Col
<1>2. /\ ws \subseteq Warp /\ WantedOf(j, q) = UNION {own(w) : w \in ws}
  BY DEF WantedOf, Share
<1>3. \A w : Lists(f(w), own(w))
  BY FullLists
<1>4. \A v, w : v # w => own(v) \cap own(w) = {}
  BY SharesApart
<1>5. CASE cta.rows = 1
  <2>1. ws = {q}
    BY <1>5, RowCases, ColumnWarps
  <2>2. WantedOf(j, q) = own(q)
    BY <1>2, <2>1
  <2> QED BY <1>3, <1>5, <2>2 DEF Column
<1>6. CASE cta.rows = 2
  <2>1. ws = {q, c + q} /\ q # c + q
    BY <1>1, <1>6, RowCases, ColumnWarps
  <2>2. WantedOf(j, q) = own(q) \cup own(c + q)
    BY <1>2, <2>1
  <2>3. Lists(f(q) \o f(c + q), own(q) \cup own(c + q))
    BY <1>3, <1>4, <2>1, ListsJoin
  <2> QED BY <1>6, <2>2, <2>3 DEF Column, Half
<1>7. CASE cta.rows = 4
  <2>1. /\ ws = {q, c + q, 2 * c + q, 3 * c + q}
        /\ q # c + q /\ q # 2 * c + q /\ q # 3 * c + q /\ c + q # 2 * c + q /\ c + q # 3 * c + q
        /\ 2 * c + q # 3 * c + q
    BY <1>1, <1>7, RowCases, ColumnWarps
  <2> DEFINE a == q
             b == c + q
             d == 2 * c + q
             e == 3 * c + q
  <2> HIDE DEF a, b, d, e, own, f
  <2>2. WantedOf(j, q) = own(a) \cup ((own(b) \cup own(e)) \cup own(d))
    BY <1>2, <2>1 DEF a, b, d, e
  <2>3. /\ own(b) \cap own(e) = {} /\ (own(b) \cup own(e)) \cap own(d) = {}
        /\ own(a) \cap ((own(b) \cup own(e)) \cup own(d)) = {}
    <3>1. /\ own(b) \cap own(e) = {} /\ own(b) \cap own(d) = {} /\ own(e) \cap own(d) = {}
          /\ own(a) \cap own(b) = {} /\ own(a) \cap own(e) = {} /\ own(a) \cap own(d) = {}
      BY <1>4, <2>1 DEF a, b, d, e
    <3> QED BY <3>1
  <2>4. Lists(f(b) \o f(e), own(b) \cup own(e))
    BY <1>3, <2>3, ListsJoin
  <2>5. Lists((f(b) \o f(e)) \o f(d), (own(b) \cup own(e)) \cup own(d))
    BY <1>3, <2>3, <2>4, ListsJoin
  <2>6. Lists(f(a) \o ((f(b) \o f(e)) \o f(d)), own(a) \cup ((own(b) \cup own(e)) \cup own(d)))
    BY <1>3, <2>3, <2>5, ListsJoin
  <2>7. Column(cta, work, q, j) = f(a) \o ((f(b) \o f(e)) \o f(d))
    BY <1>7 DEF Column, Half, f, a, b, d, e
  <2> QED BY <2>2, <2>6, <2>7
<1> QED BY <1>1, <1>5, <1>6, <1>7

-----------------------------------------------------------------------------
(* The theorem.                                                            *)

\* The invariant holds at first,
LEMMA PipelineStarts ==
  ASSUME PipelineInit
  PROVE  PipelineInv
<1>1. cta \in Ctas /\ work \in Works
  BY DEF PipelineInit
<1>2. Shapes
  <2>1. warp = [w \in Warp |-> warp[w]] /\ DOMAIN warp = Warp
    BY DEF PipelineInit
  <2> QED BY <2>1 DEF PipelineInit, Shapes, FunOver
<1>3. /\ cta.blocks \in Nat \ {0} /\ 0 \in Warp /\ Len(work) \in Nat /\ DOMAIN work = 1 .. Len(work)
      /\ Bundles \in Nat /\ Bundles >= 2
  BY <1>2, CtaFacts, WorkFacts, Numbers
<1>4. \A w \in Warp : warp[w] = [at |-> "routes", tile |-> 1, idx |-> 0, kk |-> 0, block |-> 0, syncs |-> 0]
  BY DEF PipelineInit
<1>5. \A w \in Warp : /\ DOMAIN warp[w] = {"at", "tile", "idx", "kk", "block", "syncs"}
                      /\ warp[w].at = "routes" /\ warp[w].tile = 1 /\ warp[w].idx = 0 /\ warp[w].kk = 0
                      /\ warp[w].block = 0 /\ warp[w].syncs = 0
  BY <1>4
<1>6. ControlInv
  <2> SUFFICES ASSUME NEW w \in Warp PROVE Control(cta, work, warp[w])
    BY DEF ControlInv
  <2>1. warp[w].tile \in 1 .. Len(work) + 1 /\ warp[w].kk \in 0 .. Bundles - 1
        /\ warp[w].block \in 0 .. cta.blocks - 1
    BY <1>3, <1>5
  <2> QED BY <1>5, <2>1 DEF Control, Labels, PipeLabels, FoldLabels, EndLabels
<1>7. Lockstep
  <2> SUFFICES ASSUME NEW v \in Warp, NEW w \in Warp PROVE InStep(cta, work, warp[v], warp[w])
    BY DEF Lockstep
  <2>1. warp[v] = warp[w]
    BY <1>4
  <2> QED BY <1>5, <2>1 DEF InStep, Same
<1>8. RoutesInv /\ CountInv
  BY <1>3, <1>5 DEF PipelineInit, RoutesInv, CountInv
<1>9. FlightInv
  <2> SUFFICES ASSUME NEW w \in Warp PROVE Flight(work, warp[w], flight[w])
    BY DEF FlightInv
  <2>1. flight[w] = <<>> /\ flight[w] \in Seq(Groups) /\ Len(flight[w]) = 0
    BY DEF PipelineInit
  <2>2. \A n \in 1 .. Len(flight[w]) : flight[w][n] = NoGroup
    BY <2>1
  <2> QED BY <1>5, <2>1, <2>2 DEF Flight, PipeLabels
<1>10. StagedInv /\ RegistersInv
  BY <1>5 DEF StagedInv, RegistersInv, Accumulated, Fetched, PipeLabels, FoldLabels, EndLabels
<1>11. SlotsInv
  <2> SUFFICES ASSUME NEW q \in Col
               PROVE  /\ ~Gone(warp[2 * cta.cols + q], warp[cta.cols + q], "fold", "foldHalf") \/ cta.rows # 4
                      /\ ~Gone(warp[3 * cta.cols + q], warp[cta.cols + q], "fold", "foldHalf") \/ cta.rows # 4
                      /\ ~Gone(warp[cta.cols + q], warp[q], "foldHalf", "foldIn") \/ cta.rows \notin {2, 4}
    BY DEF SlotsInv
  <2>1. q \in Warp /\ (cta.rows \in {2, 4} => cta.cols + q \in Warp)
        /\ (cta.rows = 4 => 2 * cta.cols + q \in Warp /\ 3 * cta.cols + q \in Warp)
    BY <1>2, ColumnWarps
  <2>2. \A v, w \in Warp : \A before, at : before \in FoldLabels /\ at \in FoldLabels =>
          ~Gone(warp[v], warp[w], before, at)
    BY <1>5 DEF Gone, FoldLabels
  <2>3. "fold" \in FoldLabels /\ "foldHalf" \in FoldLabels /\ "foldIn" \in FoldLabels
    BY DEF FoldLabels
  <2> QED BY <2>1, <2>2, <2>3
<1>12. OutputInv
  BY <1>5 DEF OutputInv, Stored, Part, PipeLabels
<1>13. OutInv
  <2>1. \A j \in DOMAIN work, w \in Warp : out[j][w] = Empty
    BY DEF PipelineInit
  <2>2. \A j \in DOMAIN work, w \in Warp : ~(j < warp[w].tile)
    BY <1>3, <1>5
  <2> QED BY <2>1, <2>2 DEF OutInv
<1> QED BY <1>2, <1>6, <1>7, <1>8, <1>9, <1>10, <1>11, <1>12, <1>13 DEF PipelineInv

\* ... when nothing happens,
LEMMA PipelineStutters ==
  ASSUME PipelineInv, UNCHANGED pipelineVars
  PROVE  PipelineInv'
<1>1. /\ cta' = cta /\ work' = work /\ warp' = warp /\ smem' = smem /\ flight' = flight
      /\ routes' = routes /\ valid' = valid /\ cur' = cur /\ next' = next /\ acc' = acc /\ out' = out
  BY DEF pipelineVars, memory, regs
<1>2. /\ Warp' = Warp /\ Col' = Col /\ Block' = Block
      /\ \A slot, q : SlotCells(slot, q)' = SlotCells(slot, q)
      /\ \A q : OutputCells(q)' = OutputCells(q)
  BY <1>1 DEF Warp, Col, Block, SlotCells, SlotStages, OutputCells, OutputStages, RowOf, ColOf
<1>3. Shapes'
  BY <1>1, <1>2 DEF PipelineInv, Shapes
<1>4. ControlInv' /\ Lockstep' /\ RoutesInv' /\ CountInv' /\ FlightInv'
  BY <1>1, <1>2 DEF PipelineInv, ControlInv, Lockstep, RoutesInv, CountInv, FlightInv
<1>5. StagedInv' /\ RegistersInv' /\ OutInv'
  BY <1>1, <1>2 DEF PipelineInv, StagedInv, RegistersInv, OutInv
<1>6. SlotsInv'
  BY <1>1, <1>2 DEF PipelineInv, SlotsInv, Held
<1>7. OutputInv'
  BY <1>1, <1>2 DEF PipelineInv, OutputInv, Held
<1> QED BY <1>3, <1>4, <1>5, <1>6, <1>7 DEF PipelineInv

\* ... and after every step.
LEMMA PipelineGoesOn ==
  ASSUME PipelineInv, [PipelineNext]_pipelineVars
  PROVE  PipelineInv'
<1>1. CASE UNCHANGED pipelineVars
  BY <1>1, PipelineStutters
<1>2. ASSUME NEW v \in Warp, WarpStep(v)
      PROVE  PipelineInv'
  <2>1. /\ Shapes /\ ControlInv /\ Lockstep /\ RoutesInv /\ CountInv /\ FlightInv /\ StagedInv
        /\ RegistersInv /\ SlotsInv /\ OutputInv /\ OutInv
    BY DEF PipelineInv
  <2>2. Stepped(v)
    BY <1>2, <2>1, Stepping
  <2>3. Shapes' /\ ControlInv' /\ Lockstep' /\ RoutesInv' /\ CountInv'
    BY <1>2, <2>1, <2>2, ShapesStep, ControlStep, LockstepStep, RoutesStep, CountStep
  <2>4. FlightInv' /\ StagedInv' /\ RegistersInv'
    BY <1>2, <2>1, <2>2, FlightStep, StagedStep, RegistersStep
  <2>5. SlotsInv' /\ OutputInv' /\ OutInv'
    BY <1>2, <2>1, <2>2, SlotsStep, OutputStep, OutStep
  <2> QED BY <2>3, <2>4, <2>5 DEF PipelineInv
<1> QED BY <1>1, <1>2 DEF PipelineNext

\* It is stronger than what it is for.
LEMMA PipelineIsSafe ==
  ASSUME PipelineInv
  PROVE  PipelineSafe
<1>1. /\ Shapes /\ ControlInv /\ RoutesInv /\ FlightInv /\ OutInv
  BY DEF PipelineInv
<1>2. /\ cta \in Ctas /\ work \in Works /\ Len(work) \in Nat /\ DOMAIN work = 1 .. Len(work)
      /\ 0 \in Warp /\ Block = 0 .. cta.blocks - 1 /\ Stages \in Nat /\ Stages >= 2
  BY <1>1, WorkFacts, CtaFacts, Numbers DEF Shapes
<1>3. routes \in 0 .. Len(work)
  <2>1. Control(cta, work, warp[0])
    BY <1>1, <1>2 DEF ControlInv
  <2>2. warp[0].tile \in 1 .. Len(work) + 1 /\ (warp[0].at # "routes" => warp[0].tile # Len(work) + 1)
    BY <2>1 DEF Control
  <2> QED BY <1>1, <1>2, <2>2 DEF RoutesInv
<1>4. ASSUME NEW w \in Warp
      PROVE  /\ \A m, n \in Copies(w) : m # n => flight[w][m].stage # flight[w][n].stage
             /\ Copies(w) # {} => warp[w].at \in {"primed", "first", "next", "ahead", "wait", "mma"}
  <2> DEFINE r == warp[w]
             f == flight[w]
  <2>1. Flight(work, r, f) /\ f \in Seq(Groups) /\ Len(f) \in Nat /\ DOMAIN f = 1 .. Len(f)
    BY <1>1, LenProperties DEF FlightInv, Flight
  <2>2. Control(cta, work, r)
    BY <1>1 DEF ControlInv
  <2>3. Copies(w) = {n \in 1 .. Len(f) : f[n] # NoGroup}
    BY <2>1 DEF Copies
  <2> HIDE DEF r, f
  <2>4. Copies(w) # {} => r.at \in PipeLabels \cup {"primed"}
    BY <2>1, <2>3 DEF Flight
  <2>5. \A m, n \in Copies(w) : m < n => f[m].stage # f[n].stage
    <3> SUFFICES ASSUME NEW m \in Copies(w), NEW n \in Copies(w), m < n
                 PROVE  f[m].stage # f[n].stage
      OBVIOUS
    <3>1. /\ m \in 1 .. Len(f) /\ n \in 1 .. Len(f) /\ f[m] # NoGroup /\ f[n] # NoGroup
          /\ r.at \in PipeLabels \cup {"primed"}
      BY <2>3, <2>4
    <3>2. r.tile \in 1 .. Len(work) /\ r.idx \in Nat
      BY <1>2, <2>2, <3>1 DEF Control, PipeLabels
    <3>3. PICK i \in Nat : /\ f[m] = GroupOf(work, r.tile, i) /\ f[n] = GroupOf(work, r.tile, i + (n - m))
                           /\ n - m \in 1 .. Stages - 1
      <4>1. CASE r.at = "primed"
        <5> DEFINE m0 == Len(f) - (Stages - 1)
        <5>1. /\ m0 \in Nat
              /\ \A x \in 1 .. Len(f) : f[x] = IF x <= m0 THEN NoGroup ELSE GroupOf(work, r.tile, x - m0 - 1)
          BY <1>2, <2>1, <4>1 DEF Flight
        <5>2. ~(m <= m0) /\ ~(n <= m0)
          BY <3>1, <5>1
        <5>3. m - m0 - 1 \in Nat /\ n - m0 - 1 = (m - m0 - 1) + (n - m) /\ n - m \in 1 .. Stages - 1
          BY <1>2, <2>1, <3>1, <5>1, <5>2
        <5>4. f[m] = GroupOf(work, r.tile, m - m0 - 1) /\ f[n] = GroupOf(work, r.tile, n - m0 - 1)
          BY <3>1, <5>1, <5>2
        <5> HIDE DEF m0
        <5> QED BY <5>3, <5>4
      <4>2. CASE r.at \in PipeLabels
        <5>1. /\ Len(f) <= Stages - 1
              /\ \A x \in 1 .. Len(f) : f[x] = GroupOf(work, r.tile, Waits(r) + x)
          BY <1>2, <2>1, <4>2 DEF Flight
        <5>2. Waits(r) \in Nat
          BY <3>2 DEF Waits
        <5>3. Waits(r) + m \in Nat /\ Waits(r) + n = (Waits(r) + m) + (n - m) /\ n - m \in 1 .. Stages - 1
          BY <1>2, <2>1, <3>1, <5>1, <5>2
        <5>4. f[m] = GroupOf(work, r.tile, Waits(r) + m) /\ f[n] = GroupOf(work, r.tile, Waits(r) + n)
          BY <3>1, <5>1
        <5> QED BY <5>3, <5>4
      <4> QED BY <3>1, <4>1, <4>2
    <3>4. i + (n - m) \in Nat /\ i % Stages # (i + (n - m)) % Stages
      BY <3>3, StagesApart
    <3>5. work[r.tile].count \in Nat
      BY <1>1, <3>2, TileFacts
    <3>6. f[m].stage = i % Stages /\ f[n].stage = (i + (n - m)) % Stages
      <4>1. ASSUME NEW x \in Nat, GroupOf(work, r.tile, x) # NoGroup
            PROVE  GroupOf(work, r.tile, x).stage = x % Stages
        <5>1. /\ x >= work[r.tile].count => GroupOf(work, r.tile, x) = NoGroup
              /\ x < work[r.tile].count => GroupOf(work, r.tile, x).stage = x % Stages
          BY <1>1, <3>2, GroupTyped
        <5> QED BY <3>5, <4>1, <5>1
      <4> QED BY <3>1, <3>3, <3>4, <4>1
    <3> QED BY <3>4, <3>6
  <2>6. \A m \in Copies(w) : m \in Int
    BY <2>1, <2>3
  <2>7. \A m, n \in Copies(w) : m # n => f[m].stage # f[n].stage
    BY <2>5, <2>6
  <2> QED BY <2>4, <2>7 DEF PipeLabels, r, f
<1>5. CopiesApart
  BY <1>2, <1>3, <1>4 DEF CopiesApart
<1>6. ASSUME NEW j \in DOMAIN work, NEW w \in Warp, out[j][w] # Empty
      PROVE  /\ out[j][w].routes = j /\ out[j][w].valid = CountOf(j)
             /\ \A c \in DOMAIN out[j][w].cols : \A b \in Block :
                  /\ IsInjective(out[j][w].cols[c][b])
                  /\ Range(out[j][w].cols[c][b]) = WantedOf(j, c)
  <2>1. Right(cta, work, j, out[j][w])
    BY <1>1, <1>6 DEF OutInv
  <2>2. ASSUME NEW c \in DOMAIN out[j][w].cols, NEW b \in Block
        PROVE  /\ IsInjective(out[j][w].cols[c][b])
               /\ Range(out[j][w].cols[c][b]) = WantedOf(j, c)
    <3>1. c \in Col /\ out[j][w].cols[c][b] = Column(cta, work, c, j)
      BY <1>2, <2>1 DEF Right, Col
    <3>2. Lists(Column(cta, work, c, j), WantedOf(j, c))
      BY <1>1, <1>2, <3>1, ColumnLists
    <3> QED BY <3>1, <3>2 DEF Lists
  <2> QED BY <2>1, <2>2 DEF Right
<1>7. ASSUME Finished, NEW j \in DOMAIN work, NEW w \in Warp,
             RowOf(w) = 0 \/ work[j].slice = work[j].slices - 1
      PROVE  out[j][w] # Empty
  <2>1. j < warp[w].tile
    <3>1. warp[w].tile \in Nat /\ warp[w].tile > Len(work)
      BY <1>1, <1>2, <1>7 DEF Finished, ControlInv, Control
    <3> QED BY <1>2, <3>1
  <2>2. RowIn(cta, w) = RowOf(w)
    BY DEF RowIn, RowOf
  <2> QED BY <1>1, <1>7, <2>1, <2>2 DEF OutInv
<1>8. OutputsWhole
  BY <1>6, <1>7 DEF OutputsWhole
<1> QED BY <1>5, <1>8 DEF PipelineSafe

\* Whatever the shape of the CTA, the tiles and the number of stages: every
\* copy under way has a stage of its own, and what leaves the CTA has every
\* bundle of its slice in it exactly once, under the routes of its own tile,
\* however the warps run between two sync_threads (PipelineSafe).
THEOREM PipelineHolds == PipelineSpec => []PipelineSafe
<1>1. PipelineInit => PipelineInv
  BY PipelineStarts
<1>2. PipelineInv /\ [PipelineNext]_pipelineVars => PipelineInv'
  BY PipelineGoesOn
<1>3. PipelineInv => PipelineSafe
  BY PipelineIsSafe
<1> QED BY <1>1, <1>2, <1>3, PTL DEF PipelineSpec

=============================================================================

----------------------------- MODULE LaunchGrid ------------------------------
(***************************************************************************)
(* How many CTAs a fused W4A16 MoE launch starts (w4a16/kernel.py).        *)
(* Compiling picks the tiles of the two GEMMs and, from a table of         *)
(* registers and a formula for shared memory, how many CTAs an SM will     *)
(* hold; launching picks a grid within that many per SM.  The CTAs meet at *)
(* grid barriers, so all of them must be resident at once, and a grid that *)
(* was made smaller than it could be is meant to leave no output tile      *)
(* shared between CTAs.  Layouts: packed and trellis_t256.                 *)
(***************************************************************************)
EXTENDS Integers, Sequences, FiniteSetsExt

CONSTANTS
  Devices,      \* SM counts
  Envs,         \* the three environment switches
  Requests,     \* what is compiled: shape, rows, layout, routing, pinned tiles
  MaxShared,    \* shared_memory_per_block_optin
  SmShared,     \* shared memory of an SM, in bytes (hardware)
  CtaReserved,  \* shared memory the driver takes per CTA (hardware)
  SmRegisters,  \* 32-bit registers of an SM (hardware)
  Default       \* no pinned tiles

\* The device the register counts were measured on, _DEFAULT_MAX_SHARED_MEM.
ASSUME HardwareAssumption ==
  /\ MaxShared = 101376 /\ SmShared = 102400 /\ CtaReserved = 1024 /\ SmRegisters = 65536

ASSUME DevicesAssumption == Devices \subseteq Nat \ {0}

\* _w4a16_small_m_blocks_per_sm raises for anything else.
ASSUME EnvsAssumption ==
  \A e \in Envs : e.perSm \in {1, 2} /\ e.splitK \in BOOLEAN /\ e.table \in BOOLEAN

\* What is refused before any tile is looked for: other blocks of rows, bitrates
\* and, for trellis weights, scale formats.
ASSUME RequestsAssumption ==
  \A r \in Requests :
    /\ {r.hidden, r.inter, r.topk, r.rows} \subseteq Nat \ {0}
    /\ r.block \in {8, 16, 32, 48, 64} /\ r.group \in {16, 32}
    /\ r.layout = "trellis_t256" => r.bits \in 2 .. 6 /\ r.group = 32
    /\ r.codebook = "sqg_e4m3" => r.layout = "trellis_t256"
    /\ r.pin = Default \/ r.pin \in [1 .. 4 -> Nat]

VARIABLES sms, env, req, fused, stage, rows, grid

gridVars == <<sms, env, req, fused, stage, rows, grid>>

CeilDiv(a, b) == (a + b - 1) \div b
AtLeast1(n)   == IF n < 1 THEN 1 ELSE n
Smaller(a, b) == IF a < b THEN a ELSE b
Larger(a, b)  == IF a < b THEN b ELSE a

-----------------------------------------------------------------------------
\* The compile request.

BlockRows(r)  == CeilDiv(r.block, 16)       \* cta_m_blocks
SmallM(r)     == r.block = 8                \* uses_m_block_8
Fc1Cols(r)    == 2 * r.inter                \* gated activations
RoutedRows(r) == r.rows * r.topk
Trellis(r)    == r.layout = "trellis_t256"
WeightBits(r) == IF Trellis(r) THEN Larger(4, r.bits) ELSE 4
WholeTiles(r, e) == Trellis(r) /\ ~(e.splitK /\ SmallM(r))

Fc1Problem(r) == [n |-> Fc1Cols(r), k |-> r.hidden, m |-> r.rows, topk |-> r.topk]
Fc2Problem(r) == [n |-> r.hidden, k |-> r.inter, m |-> RoutedRows(r), topk |-> 1]

Tile(k, n, threads) == [k |-> k, n |-> n, threads |-> threads]

SmallBatchTiles == <<Tile(128, 128, 256), Tile(64, 128, 128), Tile(128, 64, 128)>>
LargeBatchTiles == <<Tile(64, 256, 256), Tile(64, 128, 128), Tile(128, 64, 128)>>

\* Registers per thread for threads, cta_m_blocks, n blocks and k blocks, with
\* uses_m_block_8 or without.
RegisterTable(small) ==
  IF small
  THEN {<<256, 1, 8, 8, 118>>, <<256, 1, 16, 4, 118>>, <<256, 1, 16, 8, 118>>,
        <<256, 1, 32, 2, 118>>, <<128, 1, 4, 8, 118>>, <<128, 1, 8, 4, 120>>}
  ELSE {<<256, 1, 8, 8, 158>>, <<128, 1, 4, 8, 154>>, <<128, 1, 8, 4, 143>>,
        <<256, 2, 16, 4, 212>>, <<128, 2, 4, 8, 215>>, <<128, 2, 8, 4, 214>>,
        <<256, 2, 8, 8, 175>>, <<256, 3, 16, 4, 249>>, <<128, 3, 4, 8, 249>>,
        <<128, 3, 8, 4, 250>>, <<256, 4, 16, 4, 255>>, <<256, 4, 8, 8, 255>>,
        <<128, 4, 4, 8, 255>>, <<128, 4, 8, 4, 255>>}

Measured(r, t) ==
  {e \in RegisterTable(SmallM(r)) :
     /\ e[1] = t.threads /\ e[2] = BlockRows(r)
     /\ e[3] = t.n \div 16 /\ e[4] = t.k \div 16}

NumRegs(r, t) == (CHOOSE e \in Measured(r, t) : TRUE)[5]

PipeStages == 3

\* Shared memory as the planner estimates it, in bytes.
Footprint(r, t) ==
  LET m   == BlockRows(r) * 16
      b   == PipeStages * ((t.k * t.n * WeightBits(r)) \div 8)
      red == m * (t.n + 8) * 2
      tmp == Larger(Larger(b, red), Smaller(b, red) + t.n * 2)
  IN  tmp + PipeStages * m * t.k * 2
        + CeilDiv(t.k, r.group) * t.n * 2 * PipeStages + m * 16

RegisterLimit(r, t) ==
  (255 * 1024) \div (AtLeast1(NumRegs(r, t)) * t.threads * 4)

\* A mutant: all of the SM divided by the footprint, nothing left for the driver.
SharedLimit_NoMargin(r, t) == (MaxShared + 1024) \div Footprint(r, t)

SharedLimit(r, t) == MaxShared \div (Footprint(r, t) + 1536)

\* CTAs per SM the schedule asks for, before the work is counted.
ResidencyCap(r, t, e) ==
  LET fit == Smaller(RegisterLimit(r, t), SharedLimit(r, t))
  IN  IF SmallM(r) THEN Smaller(fit, e.perSm)
      ELSE AtLeast1(Smaller(fit, IF BlockRows(r) = 1 THEN 4 ELSE 2))

BlocksPerSm(r, p, t, n, e) ==
  LET cap  == ResidencyCap(r, t, e)
      load == (p.n \div t.n) * p.m * p.topk * 4
  IN  IF ~(SmallM(r) /\ e.perSm > 1) /\ load < n * cap
      THEN AtLeast1(load \div n) ELSE cap

\* _candidate_tile_fits; the 32 x 512 tile is allowed for FC2 only.
Fits(r, p, t, wideFc2) ==
  /\ p.n % t.n = 0 /\ p.k % t.k = 0
  /\ p.k % r.group = 0 /\ t.k % r.group = 0
  /\ t.n >= 64 /\ t.threads >= 128
  /\ t.k >= 64 \/ (wideFc2 /\ t = Tile(32, 512, 256))
  /\ Footprint(r, t) <= MaxShared - 512

\* The tiles a GEMM may use, each with its CTAs per SM; 0 when it does not fit.
Scores(r, p, threads, n, e) ==
  LET tiles == IF BlockRows(r) > 1 THEN LargeBatchTiles ELSE SmallBatchTiles
  IN  [i \in 1 .. Len(tiles) |->
         [tile  |-> tiles[i],
          score |-> IF tiles[i].threads \in threads /\ Fits(r, p, tiles[i], FALSE)
                    THEN BlocksPerSm(r, p, tiles[i], n, e) ELSE 0]]

\* _select_tile_config: the first of the best, or nothing.
SelectTile(r, p, threads, n, e) ==
  LET s == Scores(r, p, threads, n, e)
      best == {i \in DOMAIN s :
                 /\ s[i].score > 0
                 /\ \A j \in DOMAIN s : /\ s[j].score <= s[i].score
                                        /\ j < i => s[j].score < s[i].score}
  IN  {s[i].tile : i \in best}

Pairs(r, threads, n, e) ==
  {<<a, b>> : a \in SelectTile(r, Fc1Problem(r), threads, n, e),
              b \in SelectTile(r, Fc2Problem(r), threads, n, e)}

\* Both GEMMs of a launch have one thread count: the smaller one if each alone
\* would choose another.
CommonTiles(r, n, e) ==
  UNION {IF ts[1].threads = ts[2].threads THEN {ts}
         ELSE {us \in Pairs(r, {Smaller(ts[1].threads, ts[2].threads)}, n, e) :
                 us[1].threads = us[2].threads} :
           ts \in Pairs(r, {128, 256}, n, e)}

MnTiles(p, t) == p.n \div t.n
Fc1Tiles(r, t) == RoutedRows(r) * MnTiles(Fc1Problem(r), t)
Fc2Tiles(r, t) == RoutedRows(r) * MnTiles(Fc2Problem(r), t)

\* Decode: a 256-wide FC1 tile where that makes one wave out of two.
WidenFc1(r, ts, n) ==
  LET before == Fc1Tiles(r, ts[1])
  IN  IF /\ r.tc /\ Fc1Cols(r) % 256 = 0 /\ ts[1] = Tile(128, 128, 256)
         /\ n < before /\ before <= 2 * n /\ before \div 2 <= n
         /\ Fits(r, Fc1Problem(r), Tile(64, 256, 256), FALSE)
      THEN <<Tile(64, 256, 256), ts[2]>> ELSE ts

\* Packed decode: a 256-wide FC2 tile.
WidenFc2(r, ts) ==
  IF /\ r.layout = "packed" /\ SmallM(r) /\ r.rows <= 8
     /\ r.hidden % 256 = 0 /\ ts[2].n = 128 /\ ts[1].threads = 256
     /\ Fits(r, Fc2Problem(r), Tile(64, 256, 256), FALSE)
  THEN <<ts[1], Tile(64, 256, 256)>> ELSE ts

\* Decode: a 512-wide FC2 tile where that gives FC2 as many tiles as FC1.
WidenFc2Again(r, ts, n) ==
  LET fc1 == Fc1Tiles(r, ts[1])
      fc2 == Fc2Tiles(r, ts[2])
  IN  IF /\ r.tc /\ r.hidden % 512 = 0 /\ ts[2].n = 256 /\ ts[1].threads = 256
         /\ fc1 > 0 /\ fc2 > fc1 /\ fc2 \div 2 <= fc1 /\ fc1 <= n
         /\ Fits(r, Fc2Problem(r), Tile(32, 512, 256), TRUE)
      THEN <<ts[1], Tile(32, 512, 256)>> ELSE ts

Pinned(r) ==
  LET tile(k, n) == Tile(k, n, (n * k) \div 64)
      ts == <<tile(r.pin[1], r.pin[2]), tile(r.pin[3], r.pin[4])>>
  IN  {us \in {ts} : /\ us[1].threads = us[2].threads
                     /\ Fits(r, Fc1Problem(r), us[1], FALSE)
                     /\ Fits(r, Fc2Problem(r), us[2], TRUE)}

\* The tiles compile_w4a16_fused_moe ends with; empty where it raises.
Tiles(r, n, e) ==
  LET chosen == {WidenFc2Again(r, WidenFc2(r, WidenFc1(r, ts, n)), n) :
                   ts \in CommonTiles(r, n, e)}
  IN  IF r.pin = Default \/ chosen = {} THEN chosen ELSE Pinned(r)

-----------------------------------------------------------------------------
\* The kernel that is built.

\* Shared memory the kernel lays out, in 16-byte units.
SharedUnits(r, t) ==
  LET nb    == t.n \div 16
      kb    == t.k \div 16
      red   == (2 * nb + 1) * 16 * BlockRows(r)
      bytes == (t.n \div 2) * kb * (IF Trellis(r) THEN 4 * r.bits ELSE 16)
      b     == CeilDiv(PipeStages * bytes, 16)
      scale == (IF r.group = 32 THEN kb \div 2 ELSE kb) * nb
  IN  r.block + Larger(Larger(red, b), Smaller(red, b) + 2 * nb)
        + PipeStages * scale + PipeStages * (2 * kb * 16 * BlockRows(r))

\* The whole kernel's, with the decoder table of an sqg_e4m3 trellis.
SharedBytes(r, e, ts) ==
  16 * Larger(SharedUnits(r, ts[1]), SharedUnits(r, ts[2]))
    + (IF r.codebook = "sqg_e4m3" /\ e.table THEN 4096 ELSE 0)

\* A mutant: the GEMM that could have more CTAs decides.
FusedBlocksPerSm_Larger(r, ts, n, e) ==
  Larger(BlocksPerSm(r, Fc1Problem(r), ts[1], n, e), BlocksPerSm(r, Fc2Problem(r), ts[2], n, e))

FusedBlocksPerSm(r, ts, n, e) ==
  Smaller(BlocksPerSm(r, Fc1Problem(r), ts[1], n, e), BlocksPerSm(r, Fc2Problem(r), ts[2], n, e))

DirectCap(r) == IF r.tc \/ r.map THEN 8 ELSE 6

DirectAllowed(r) == r.direct => r.rows <= DirectCap(r)

Buildable(r, ts) ==
  \A i \in 1 .. 2 : /\ Measured(r, ts[i]) # {}
                    /\ 16 * SharedUnits(r, ts[i]) <= MaxShared

-----------------------------------------------------------------------------
\* The grid of a launch of m rows.

Cap == sms * fused.perSm

SplitTiles(m) ==
  LET tiles == m * req.topk * MnTiles(Fc1Problem(req), fused.tiles[1])
      waves == CeilDiv(tiles, Cap)
  IN  [tiles |-> tiles, waves |-> waves]

\* A mutant: any wave count is taken for a whole cover.
RightSized_Ragged(m) ==
  LET s == SplitTiles(m) IN s.tiles \div s.waves

\* Whole waves of FC1 tiles, or the full grid.
RightSized(m) ==
  LET s == SplitTiles(m)
  IN  IF s.tiles % s.waves # 0 THEN Cap ELSE s.tiles \div s.waves

\* Whole-tile schedules: whichever of two grids has the shorter critical path.
ShortestPath(m) ==
  LET fc1 == m * req.topk * MnTiles(Fc1Problem(req), fused.tiles[1])
      fc2 == m * req.topk * MnTiles(Fc2Problem(req), fused.tiles[2])
      path(g) == CeilDiv(fc1, g) + CeilDiv(fc2, g)
      small == Smaller(fc1, Cap)
  IN  IF path(small) <= path(Cap) THEN small ELSE Cap

PersistentGrid(m) ==
  IF env.splitK \/ ~req.direct THEN Cap
  ELSE IF WholeTiles(req, env) THEN ShortestPath(m) ELSE RightSized(m)

-----------------------------------------------------------------------------
NotCompiled == [tiles |-> <<>>, perSm |-> 0]

GridInit ==
  /\ sms \in Devices /\ env \in Envs /\ req \in Requests
  /\ fused = NotCompiled /\ stage = "new" /\ rows = 0 /\ grid = 0

\* compile_w4a16_fused_moe succeeds.
Compile ==
  /\ stage = "new"
  /\ DirectAllowed(req)
  /\ \E ts \in Tiles(req, sms, env) :
       /\ Buildable(req, ts)
       /\ fused' = [tiles |-> ts, perSm |-> FusedBlocksPerSm(req, ts, sms, env)]
  /\ stage' = "ready"
  /\ UNCHANGED <<sms, env, req, rows, grid>>

\* ... or raises.
Refuse ==
  /\ stage = "new"
  /\ ~DirectAllowed(req) \/ ~\E ts \in Tiles(req, sms, env) : Buildable(req, ts)
  /\ stage' = "refused"
  /\ UNCHANGED <<sms, env, req, fused, rows, grid>>

\* A launch of no more rows than were compiled for.
Launch ==
  /\ stage = "ready"
  /\ \E m \in 1 .. req.rows :
       rows' = m /\ grid' = PersistentGrid(m)
  /\ stage' = "running"
  /\ UNCHANGED <<sms, env, req, fused>>

\* The same kernel is launched again.
Finish ==
  /\ stage = "running" /\ stage' = "ready" /\ rows' = 0 /\ grid' = 0
  /\ UNCHANGED <<sms, env, req, fused>>

GridNext == Compile \/ Refuse \/ Launch \/ Finish

GridSpec == GridInit /\ [][GridNext]_gridVars

-----------------------------------------------------------------------------
\* CTAs one SM can really hold at a time: shared memory as the kernel lays it
\* out plus the driver's part, registers as measured, 1536 threads.
Resident ==
  LET ts      == fused.tiles
      shared  == SmShared \div (SharedBytes(req, env, ts) + CtaReserved)
      perCta  == Larger(NumRegs(req, ts[1]), NumRegs(req, ts[2])) * ts[1].threads
  IN  Min({shared, SmRegisters \div perCta, 1536 \div ts[1].threads})

\* No launch has more CTAs than the device can hold at once: a CTA that has to
\* wait for another to exit would never reach the grid barrier the others wait
\* at.  The planner's estimate and the kernel's layout are two formulas in two
\* places, and the grid comes from the first.
GridResident == stage = "running" => grid >= 1 /\ grid <= sms * Resident

Schedule(g) == INSTANCE GemmSchedule WITH grid_x <- g

Gemm(p, t) ==
  [routeBlocks |-> rows * req.topk, nTiles |-> MnTiles(p, t),
   kTiles |-> p.k \div t.k,
   mode |-> CASE WholeTiles(req, env) -> "whole_tiles"
              [] ~WholeTiles(req, env) /\ SmallM(req) /\ ~env.splitK -> "m_block_8"
              [] OTHER -> "split_k"]

Unsplit(g) ==
  \A w \in 0 .. Schedule(grid)!TailTiles(g) - 1 : Schedule(grid)!SliceCount(g, w) = 1

\* A grid made smaller than it could be leaves no FC1 tile shared by two CTAs:
\* that the waves are whole is decided by the host, where the tail is cut by
\* each CTA, with other arithmetic.
Fc1Unsplit ==
  stage = "running" /\ grid < Cap => Unsplit(Gemm(Fc1Problem(req), fused.tiles[1]))

\* The same of FC2, "whose tile count is an integer multiple".
Fc2Unsplit ==
  stage = "running" /\ grid < Cap => Unsplit(Gemm(Fc2Problem(req), fused.tiles[2]))
=============================================================================

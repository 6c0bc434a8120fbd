----------------------------- MODULE MoeGeometry -----------------------------
(***************************************************************************)
(* The sizing arithmetic of b12x/moe/fused_moe/_impl.py: the decode policy,*)
(* the tile ladder, the task geometry and the byte layout of the scratch   *)
(* of the two A4 implementations, "micro" and "dynamic".                   *)
(*                                                                         *)
(* Shapes are compute capability 12.0, gated silu, deterministic output    *)
(* off, the default work source, and no environment override.  Every       *)
(* tensor aligns at 16 bytes; equal neighbours of the layout are one view. *)
(***************************************************************************)
EXTENDS Integers, Sequences
LOCAL INSTANCE SequencesExt
LOCAL INSTANCE FiniteSetsExt

CONSTANTS Experts, TopK, Hidden, Inter

ASSUME GeometryAssumption ==
    /\ {Experts, TopK, Hidden, Inter} \subseteq Nat \ {0}
    /\ TopK <= Experts

Cutover == 64        \* routed rows below which micro owns the launch
MicroTokens == 8     \* tokens micro keeps in registers
DirectRows == 32     \* routed rows direct routing takes
TileN == 128

Ceil(a, b) == (a + b - 1) \div b
AlignUp(a, b) == b * Ceil(a, b)
Larger(a, b) == IF a >= b THEN a ELSE b
Smaller(a, b) == IF a <= b THEN a ELSE b

Rows(tokens) == tokens * TopK
KernelN(quant) == IF quant = "w4a8_mx" THEN AlignUp(Inter, 128) ELSE Inter

-----------------------------------------------------------------------------
(* The tile ladder.                                                        *)

Nvfp4Tile(rows) ==
    CASE rows < 15 * Experts -> 16
      [] rows >= 15 * Experts /\ rows < 48 * Experts -> 32
      [] rows >= 48 * Experts /\ rows < 96 * Experts ->
            IF Inter % 128 # 0 /\ Inter % 32 = 0 THEN 32 ELSE 64
      [] OTHER -> 128

W4a8Tile(rows) ==
    LET verifyBand == /\ Experts = 256 /\ KernelN("w4a8_mx") = 1024
                      /\ rows \in 384 .. 2304
    IN CASE verifyBand -> 32
         [] ~verifyBand /\ rows >= 36 * Experts -> 64
         [] ~verifyBand /\ rows > 16 * Experts /\ rows < 36 * Experts -> 32
         [] OTHER -> 16

SelectTile(quant, rows) ==
    IF quant = "w4a8_mx" THEN W4a8Tile(Larger(rows, 1)) ELSE Nvfp4Tile(Larger(rows, 1))

SliceGroups(quant) == Larger(1, Ceil(KernelN(quant), TileN))

\* Each active expert past the first adds at most one partial tile.
PhysicalTiles(rows, tile) == Larger(1, Ceil(rows, tile) + Smaller(Experts, rows) - 1)

-----------------------------------------------------------------------------
(* The decode policy and the plan of one launch.                           *)

MicroOwns(quant, micro, tokens) ==
    /\ micro
    /\ tokens <= MicroTokens
    /\ IF quant = "w4a8_mx" THEN Inter % 128 = 0 ELSE Rows(tokens) < Cutover

DirectCandidate(rows, tile) == rows \in 1 .. DirectRows /\ tile = 16

DecodePolicy(quant, micro, tokens) ==
    LET tile == SelectTile(quant, Rows(tokens))
    IN IF MicroOwns(quant, micro, tokens)
       THEN [impl |-> "micro", tile |-> 0, direct |-> FALSE]
       ELSE [impl |-> "dynamic", tile |-> tile, direct |-> DirectCandidate(Rows(tokens), tile)]

WorkspaceLayout(policy, rows) ==
    IF policy.impl = "micro" THEN [stateE |-> Larger(1, rows), maxRows |-> Larger(1, rows)]
    ELSE [stateE |-> Experts, maxRows |-> AlignUp(rows, policy.tile)]

ExecutionPlan(quant, micro, tokens) ==
    LET rows == Rows(tokens)
        policy == DecodePolicy(quant, micro, tokens)
        layout == WorkspaceLayout(policy, rows)
        grouped == PhysicalTiles(rows, policy.tile)
        tiles == CASE policy.impl = "micro" -> 0
                   [] policy.impl # "micro" /\ policy.direct -> Larger(grouped, rows)
                   [] OTHER -> grouped
    IN [impl |-> policy.impl, stateE |-> layout.stateE, rows |-> rows,
        maxRows |-> layout.maxRows, tile |-> policy.tile, tiles |-> tiles,
        tasks |-> tiles * SliceGroups(quant), direct |-> policy.direct]

-----------------------------------------------------------------------------
(* The byte layout.  A view is [name, bytes, init].                        *)

View(name, bytes, init) == [name |-> name, bytes |-> bytes, init |-> init]

ScaleCols == AlignUp(Hidden \div 16, 4)
PlanTokens(plan) == Larger(1, plan.rows \div TopK)
BarrierSlots(plan) ==
    IF plan.impl = "micro" THEN plan.rows + PlanTokens(plan) * 16 ELSE Larger(1, plan.rows)

CommonViews(plan) ==
    <<View("row_counts", 4 * plan.stateE, "zeros"),
      View("barrier_count", 4 * BarrierSlots(plan), "zeros"),
      View("barrier_epoch", 4 * BarrierSlots(plan), "zeros")>>

(* Words of micro_intermediate: the trellis variant keeps its activations  *)
(* first and, behind them, the partial sums and one arrival counter of     *)
(* every base task.                                                        *)
TrellisWords(rows) == rows * (Inter \div 2)
TrellisTail(rows) == rows * (Inter \div 128) * 257
DirectWords(rows) == rows * Hidden + rows * Ceil(Inter \div 2, 128) * 128

MicroWords(quant, plan) ==
    LET direct == PlanTokens(plan) * TopK
        mx == IF quant # "w4a8_mx" THEN {}
              ELSE {plan.maxRows * 2 * Inter, TrellisWords(direct) + TrellisTail(direct)}
    IN Max({plan.stateE * Inter, DirectWords(direct)} \cup mx)

MicroViews(quant, plan) ==
    CommonViews(plan) \o
    <<View("token_map", 4 * plan.stateE * plan.maxRows, "zeros"),
      View("token_weights", 4 * plan.stateE * plan.maxRows, "zeros"),
      View("packed_input", plan.stateE * plan.maxRows * (Hidden \div 2), "empty"),
      View("packed_input_scale",
           plan.stateE * AlignUp(plan.maxRows, 128) * ScaleCols, "empty"),
      View("active_expert_count", 4, "zeros"),
      View("weight_expert_ids", 4 * plan.stateE, "arange"),
      View("global_to_local_expert", 4 * Experts, "empty"),
      View("compact_topk_ids", 4 * plan.rows, "empty"),
      View("micro_intermediate", 4 * MicroWords(quant, plan), "zeros")>>

PaddedRows(plan) == plan.tiles * plan.tile
IntermediateBytes(quant, rows) ==
    IF quant = "w4a8_mx" THEN Larger(16, rows * (KernelN(quant) + KernelN(quant) \div 32))
    ELSE 16
IntermediateStorage(quant, plan) ==
    Larger(1, Ceil(IntermediateBytes(quant, PaddedRows(plan)), 2 * Hidden)) * 2 * Hidden

\* the five queue counters and the six task arrays are one view each
DynamicViews(quant, plan) ==
    LET rows == PaddedRows(plan)
    IN CommonViews(plan) \o
       <<View("token_map", 4 * rows, "zeros"),
         View("token_weights", 4 * rows, "zeros"),
         View("route_output", 2 * Hidden, "empty"),
         View("materialized_intermediate", IntermediateStorage(quant, plan), "empty"),
         View("packed_input", rows * (IF quant = "w4a8_mx" THEN Hidden ELSE Hidden \div 2),
              "empty"),
         View("packed_input_scale", AlignUp(rows, 128) * ScaleCols, "empty"),
         View("expert_write_rows", 4 * plan.stateE, "zeros"),
         View("expert_tile_base", 4 * (plan.stateE + 1), "zeros"),
         View("input_gs", 4 * Experts, "empty"),
         View("down_input_scale", 4 * Experts, "empty"),
         View("queue_counters", 5 * 16, "zeros"),
         View("task_arrays", 6 * AlignUp(4 * plan.tasks, 16), "zeros"),
         View("tile_write_count", 4 * plan.tiles, "zeros")>>

(* The extents the launcher of the dynamic kernel gives its tensors, from  *)
(* the rows, tiles and tasks it is passed.                                 *)
Nvfp4Extents(rows) ==
    [packed_input |-> rows * (Hidden \div 2), packed_input_scale |-> rows * ScaleCols,
     materialized_intermediate |-> 4]

W4a8Extents(rows) ==
    [packed_input |-> rows * Hidden, packed_input_scale |-> rows * (Hidden \div 32),
     materialized_intermediate |->
         rows * (KernelN("w4a8_mx") + KernelN("w4a8_mx") \div 32)]

TaskExtents(rows, tiles, tasks) ==
    [token_map |-> 4 * rows, token_weights |-> 4 * rows, tile_write_count |-> 4 * tiles,
     task_arrays |-> 6 * AlignUp(4 * tasks, 16)]

CoreViews(quant, plan) ==
    IF plan.impl = "micro" THEN MicroViews(quant, plan) ELSE DynamicViews(quant, plan)

(* The views placed one behind the other from offset: name -> [lo, hi).    *)
Map(views, offset) ==
    FoldLeft(LAMBDA acc, v :
                 LET lo == AlignUp(acc.next, 16)
                 IN [next |-> lo + v.bytes,
                     at |-> Append(acc.at, [name |-> v.name, init |-> v.init,
                                            lo |-> lo, hi |-> lo + v.bytes])],
             [next |-> offset, at |-> <<>>], views)

CoreBytes(quant, plan) == Map(CoreViews(quant, plan), 0).next

RouteViews(tokens, logitBytes) ==
    <<View("router_logits", tokens * Experts * logitBytes, "empty"),
      View("topk_logits", 4 * Rows(tokens), "empty"),
      View("topk_ids", 4 * Rows(tokens), "empty"),
      View("topk_weights", 4 * Rows(tokens), "empty")>>

RouteBytes(tokens, logitBytes) == Map(RouteViews(tokens, logitBytes), 0).next

-----------------------------------------------------------------------------
(* The arena of one lane: the routing part first, then the largest core    *)
(* plan of the token counts it is planned for.                             *)

ArenaTokenCounts(maxTokens, listed) ==
    {maxTokens} \cup listed \cup
    (IF Cutover \div TopK >= 1 THEN {Smaller(maxTokens, Cutover \div TopK)} ELSE {})

RoutePart(tokens, logitBytes) == AlignUp(RouteBytes(tokens, logitBytes), 16)

ArenaLayout(quant, micro, maxTokens, listed, logitBytes) ==
    [route |-> RoutePart(maxTokens, logitBytes),
     core |-> Max({CoreBytes(quant, ExecutionPlan(quant, micro, t)) :
                   t \in ArenaTokenCounts(maxTokens, listed)})]

(* One plan per implementation is kept: the one that takes most bytes.     *)
SelectedPlans(quant, micro, counts) ==
    LET plans == {ExecutionPlan(quant, micro, t) : t \in counts}
        most(impl) == CHOOSE p \in {q \in plans : q.impl = impl} :
                        \A q \in {r \in plans : r.impl = impl} :
                            CoreBytes(quant, p) >= CoreBytes(quant, q)
    IN {most(impl) : impl \in {p.impl : p \in plans}}
=============================================================================

------------------------------- MODULE MCGrid --------------------------------
(* The W4A16 kernel around its GEMM schedule, in one run: the barrier of    *)
(* the grid, the size of the grid, the pipeline inside one of its CTAs, and *)
(* the fused launch of a build that zeroes FC2's output in a phase of its   *)
(* own (MCGemm has the other build).  A behaviour picks one of the four,    *)
(* and the variables of the others stay as they are.                        *)
EXTENDS GridBarrier, LaunchGrid, TilePipeline

CONSTANTS
  None,
  launch_x, Fc1, Fc2, NotStored                   \* FusedMoe

VARIABLES
  part,                                           \* which of them is looked at
  lcount, lsense, bpc, lold, lepisode, lflips, noExpert, locks,       \* FusedMoe
  fc1Loop, fc1Pc, fc1Acc, fc1Tmp, fc1Out, fc2Loop, fc2Pc, fc2Acc, fc2Tmp, fc2Out,
  rotated, activated, zeroed

Zeroed == INSTANCE FusedMoe WITH
  FullRotation <- FALSE, Gated <- TRUE, TcZero <- FALSE, ZeroFc2 <- TRUE,
  count <- lcount, sense <- lsense, oldSense <- lold, episode <- lepisode, flips <- lflips

ASSUME Zeroed!LaunchAssumption /\ Zeroed!BuildAssumption

zeroedVars   == <<lcount, lsense, bpc, lold, lepisode, lflips, noExpert, locks,
                  fc1Loop, fc1Pc, fc1Acc, fc1Tmp, fc1Out, fc2Loop, fc2Pc, fc2Acc, fc2Tmp, fc2Out,
                  rotated, activated, zeroed>>
mcvars       == <<part, vars, gridVars, pipelineVars, zeroedVars>>

-----------------------------------------------------------------------------
\* The recipe's expert shard at TP4 and TP2, and shapes only some tiles divide.
Layer(h, i, k) == [hidden |-> h, inter |-> i, topk |-> k]

MCLayers == {Layer(6144, 512, 8), Layer(6144, 1024, 8), Layer(2048, 64, 8),
             Layer(5120, 1536, 6), Layer(4096, 192, 1)}

MCEnvs == [splitK : BOOLEAN, perSm : {1, 2}, table : {TRUE}]

Request(s, m, b, layout, codebook, bits, group, direct, tc, map, pin) ==
  [hidden |-> s.hidden, inter |-> s.inter, topk |-> s.topk, rows |-> m,
   block |-> b, layout |-> layout, codebook |-> codebook, bits |-> bits,
   group |-> group, direct |-> direct, tc |-> tc, map |-> map, pin |-> pin]

\* Packed weights: decode straight from the top-k ids, with or without the sum
\* of the top-k rows in the kernel, and routes packed by expert.
MCPackedWeights ==
  {Request(s, m, 8, "packed", "none", 4, g, TRUE, tc, FALSE, Default) :
     s \in MCLayers, m \in {1, 2, 3, 6, 7, 8}, g \in {16, 32}, tc \in BOOLEAN}
  \cup
  {Request(s, m, b, "packed", "none", 4, 16, FALSE, FALSE, FALSE, Default) :
     s \in MCLayers, m \in {1, 64}, b \in {8, 16, 32, 48, 64}}

\* Trellis weights: the direct path with an expert map, and packed routes with
\* the tiles chosen here or pinned by the weights.
MCTrellisWeights(codebook, rates) ==
  {Request(s, m, 8, "trellis_t256", codebook, k, 32, TRUE, FALSE, TRUE, Default) :
     s \in MCLayers, m \in {1, 4, 8}, k \in rates}
  \cup
  {Request(s, m, b, "trellis_t256", codebook, k, 32, FALSE, FALSE, FALSE, pin) :
     s \in MCLayers, m \in {1, 8}, b \in {8, 16, 32, 48, 64}, k \in rates,
     pin \in {Default, <<128, 128, 128, 128>>, <<64, 128, 64, 256>>}}

MCRequests == MCPackedWeights \cup MCTrellisWeights("mcg", {3, 5})
                \cup MCTrellisWeights("sqg_e4m3", {2, 3, 4, 5, 6})

\* The three row counts that tiles have; slices shorter than, as long as and
\* longer than the ring, alone and as part of a split tile.
Shape(r, cols, blocks, packed) ==
  [rows |-> r, cols |-> cols, blocks |-> blocks, packed |-> packed]

Slice(first, n, slices, slice) ==
  [first |-> first, count |-> n, slices |-> slices, slice |-> slice]

MCCtas == {Shape(1, 2, 1, TRUE), Shape(2, 2, 2, TRUE), Shape(2, 2, 1, FALSE), Shape(4, 1, 2, TRUE)}

MCWorks == {
  <<Slice(0, 4, 1, 0), Slice(0, 1, 1, 0)>>,
  <<Slice(0, 7, 1, 0), Slice(0, 6, 1, 0)>>,
  <<Slice(2, 2, 2, 0), Slice(1, 3, 2, 1)>>,
  <<Slice(3, 1, 3, 1), Slice(3, 1, 3, 2), Slice(1, 5, 3, 0)>> }

MCFc1 == [routeBlocks |-> 2, nTiles |-> 1, kTiles |-> 3, mode |-> "split_k"]
MCFc2 == [routeBlocks |-> 2, nTiles |-> 2, kTiles |-> 2, mode |-> "split_k"]

-----------------------------------------------------------------------------
NoBarrier == sense = 0 /\ Init

NoLauncher ==
  /\ sms = None /\ env = None /\ req = None /\ fused = None
  /\ stage = None /\ rows = None /\ grid = None

NoPipeline ==
  /\ cta = (CHOOSE c \in Ctas : TRUE) /\ work = (CHOOSE ts \in Works : TRUE)
  /\ PipelineInit

NoZeroed == lsense = 0 /\ Zeroed!LaunchInit /\ noExpert = {}

MCInit ==
  \/ part = "barrier"  /\ Init /\ NoLauncher /\ NoPipeline /\ NoZeroed
  \/ part = "launch"   /\ GridInit /\ NoBarrier /\ NoPipeline /\ NoZeroed
  \/ part = "pipeline" /\ PipelineInit /\ NoBarrier /\ NoLauncher /\ NoZeroed
  \/ part = "zeroed"   /\ Zeroed!LaunchInit /\ NoBarrier /\ NoLauncher /\ NoPipeline

BarrierStep(c) ==
  part = "barrier" /\ Step(c) /\ UNCHANGED <<part, gridVars, pipelineVars, zeroedVars>>

BarrierRelaunch ==
  part = "barrier" /\ Relaunch /\ UNCHANGED <<part, gridVars, pipelineVars, zeroedVars>>

LaunchNext == part = "launch" /\ GridNext /\ UNCHANGED <<part, vars, pipelineVars, zeroedVars>>

LaunchRefused == part = "launch" /\ stage = "refused" /\ UNCHANGED mcvars

TilesNext == part = "pipeline" /\ PipelineNext /\ UNCHANGED <<part, vars, gridVars, zeroedVars>>

ZeroedNext == part = "zeroed" /\ Zeroed!LaunchNext /\ UNCHANGED <<part, vars, gridVars, pipelineVars>>

MCNext ==
  \/ \E c \in CTA : BarrierStep(c)
  \/ BarrierRelaunch
  \/ LaunchNext
  \/ LaunchRefused
  \/ TilesNext
  \/ ZeroedNext

MCSpec == MCInit /\ [][MCNext]_mcvars /\ \A c \in CTA : WF_mcvars(BarrierStep(c))

-----------------------------------------------------------------------------
\* No CTA stays in a barrier: EveryCTALeaves, of the behaviours of the barrier.
BarrierLetsGo == part = "barrier" => EveryCTALeaves

\* The build that zeroes FC2's output keeps its phases apart, too, and leaves
\* the result complete (PhasesSafe and LaunchCorrect of FusedMoe).
ZeroedBuildSafe == part = "zeroed" => Zeroed!PhasesSafe /\ Zeroed!LaunchCorrect
=============================================================================

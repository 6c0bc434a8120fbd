# A TLA+ verification project for the GLM-5.3 EXL3 K3 / TP4 / DCP4 / MTP3 recipe

The repository is a container recipe: overlays on two Python packages (`vllm` and `b12x`), a tool
that builds a runtime checkpoint, and a launcher. It has no tests. What makes it hard is that
the same work is done at the same time by thread blocks of a persistent GPU kernel, by the ranks
of a decode-context-parallel (DCP) group, by two streams of one GPU, or by processes that may be
killed. This directory models that coordination, and the bookkeeping of the host that feeds it, in TLA+,
model-checks it with TLC, and proves part of it with TLAPS.

Paths below are relative to `src/`. `O/` is `overlays/vllm/vllm/`, `B/` is `overlays/b12x/b12x/`.

## 1. Inventory

| Component | State it keeps | Operations | Talks to | What is hard |
|---|---|---|---|---|
| **Checkpoint materializer** `tools/materialize_checkpoint.py` | files under final and `.partial` names | copy auxiliary files, rekey shards, stream native shards by range, write configuration, index, receipt | a remote archive; other processes on the same directory; the launcher, through the receipt | kills between any two steps, retries into the same file, re-runs under a live server |
| **Serving launcher** `runtime/serve-…` | none | checks the receipt, execs the server | the materializer's output | trusts the receipt alone |
| **Fused W4A16 MoE kernel** `B/moe/_shared/kernels/w4a16/kernel.py` | barrier count and sense, lock words, `c_tmp`, intermediate buffers, output | grid barrier, persistent split-K GEMM, rotate, activate and zero phases | its own CTAs, the launch before and after it on the same workspace | spin waits, words reused by tile, GEMM and launch, each CTA computing the schedule alone |
| **MoE host dispatch** `B/moe/fused_moe/_impl.py` | pools and arenas of workspaces, a registry of swapped weights, view caches, kernel caches and memos | plan, materialise, bind and launch; convert and swap weights; resolve a kernel | the kernel; the allocator, which reuses addresses | sizes planned by one rule and used by another, caches keyed by address or identity, one scratch for all layers |
| **Device intrinsics** `B/_lib/intrinsics.py` | none | inline PTX | the kernel | memory-order suffixes |
| **DCP collective pool** `O/v1/attention/ops/b12x_dcp.py` | `_POOLS`, `_DISABLED`, `_ACTIVE_CAPTURE`, profile checkpoints | create by vote, capture on a channel, roll a profile back, reduce and gather | the ranks of the group; the graph manager | one rank failing, order of collectives, graphs outliving channels |
| **DCP token index arithmetic** in the next three | none | owner, local index, global index, block and offset, lengths | the slot mapping (external) | several formulas for one fact |
| **Sparse index remap** `O/…/mla/sparse_utils.py` | page table and counts | filter and convert global top-k to local slots | indexer, attention | tiles racing for output columns, persistent buffers |
| **DCP sparse indexer** `O/…/mla/b12x_indexer.py` | top-k buffer, scores | local top-k, pack, gather, merge | all ranks | ties, uninitialized scores, ids as float32 |
| **Sparse MLA attention** `O/…/mla/b12x_mla_sparse.py` | step metadata, prefetch states, rings of gathered caches | metadata build, remap, gather, prefetch, append, attend | indexer, NCCL, side streams | two streams and two communicators, buffers reused by layers, leftovers of a failed step |
| **DeepSeek V3.2 model code** `O/models/deepseek_v32/` | which layers score, shared index buffers | forward | attention, indexer | sharing of top-k between layers and draft steps |
| **MTP speculator** `O/v1/worker/gpu/spec_decode/mtp/speculator.py` | skip-top-k switches | prefill and draft steps | indexer | a draft that dies half way |
| **CUDA graph manager** `O/v1/worker/gpu/cudagraph_utils.py` | captured graphs, candidates, graph pools | capture, profile, dispatch | pool, runner | profiling state leaking into serving |
| **GPU model runner** `O/v1/worker/gpu/model_runner.py` | request slots, block tables, lengths on host and device | add, update, preempt, step, sample, capture | everything above | a step launched before the last one's result is known |
| **EXL3 loader and runtime** `O/…/quantization/exl3.py` | loaded tensors, slabs, pointer tables, planned runtimes | load, shard, pack, plan, run in slices | loader's staging buffer, extension kernels | lent buffers, four layouts, three bitrates, plans made in the profile pass |
| **Speculative config**, **cache format / registration**, **packaging** | configuration | validate | at start only | none that lasts |

What makes each correct, in a line (the properties of section 3 say it exactly):

* materializer: what stands under a final name is whole; the receipt is last; a served directory does not move;
* MoE kernel: no CTA reads what another has not finished; each k-tile is added once, in a fixed order; no wait is for ever; the workspace is fit for the next launch;
* collective pool: all ranks make the same choice for every call, whatever failed where;
* index arithmetic: the formulas are each other's inverses, for all widths;
* selection: the ranks together attend the global top-k, each token once;
* prefetch ring: a layer attends over complete KV of its own layer, and no buffer is overwritten in use;
* index reuse: a row attends by indices scored for its own request, over keys of its own tokens, also after a draft step died;
* graph manager: a batch replays a graph that holds it, captured on the present KV cache; profiling leaves no trace;
* runner: every token is the right one, whatever was preempted, rejected or delivered late;
* MoE host: a launch fits in its scratch, reads its own layer's weights and scales, and runs a kernel compiled for it; its grid is resident;
* EXL3: a rank computes with its own part of every tensor, each row once, or the checkpoint is refused for a reason.

## 2. Modules

| Module | Models | State and actions against the code |
|---|---|---|
| `AbstractBarrier` | what a grid barrier promises | CTAs join, one step releases all |
| `GridBarrier` | `_grid_barrier` | `count` and `sense` are the two lock words; `ReadSense`, `Arrive`, `ResetCount`, `FlipSense`, `SeeFlip` are thread 0's loads and atomics; `Relaunch` is the next kernel on the workspace |
| `GridBarrierProof` | proofs about it | |
| `BarrierVisibility` | the same barrier over PTX's weak stores | `hidden` holds the phases whose stores only their CTA can see; `Drain` is the hardware |
| `GemmSchedule` | the scheduling integers of `_run_persistent_gemm` | pure operators: waves, tail, stripes, slices, slots |
| `TileGemm` | what a GEMM promises | a tile is stored once, with every k-tile counted once |
| `PersistentGemm` | the work loop and `_finish_tile` | `lock`, `ctmp`, `tiles` are the arrays; `PickWave`/`PickTail`/`Finish` are the loop, `TakeTurn`/`Merge`/`Publish` the turn protocol, `Store` the epilogue |
| `PersistentGemmProof` | proofs about it and about `GemmSchedule` | |
| `TilePipeline` | a CTA below the level of `PersistentGemm`: `_run_tile_*`, `_run_mma_pipeline`, `_finish_tile` | actors are the warps, in rows (which split a k-tile) and columns (which split the output), a step is one access to shared memory, `sync_threads` a counter per warp (`syncs`); `flight` holds the `cp.async` groups, `smem` the stages |
| `TilePipelineProof` | proofs about it | |
| `FusedMoe` | `_moe_body`, launch after launch | one `GridBarrier` and two `PersistentGemm`s over one lock array by `INSTANCE`; `Rotate`, `Zero`, `Activate`, `RunFc1`, `RunFc2` are the phases; constants are the compile-time switches |
| `FusedMoeProof` | proofs about it, from those of the barrier and the GEMM, and about `LaunchGrid` | |
| `LaunchGrid` | the host's choice of tiles, footprint and grid (`w4a16/kernel.py`) | compiling picks tiles and CTAs per SM from the source's tables, launching picks the grid; `Resident` is what the hardware will hold |
| `Publication` | what building a checkpoint promises | small files, weights, index, receipt, in order |
| `Materializer` | `materialize_checkpoint.py`, and the launcher's gate | `dest` and `temp` are the directory; one action per system call that matters; `FailRange`, `Kill`, `RunAgain` are the environment |
| `MaterializerProof` | proofs about it | |
| `DcpPool` | `b12x_dcp.py` | one copy of the module's globals per rank; a call is `GetKnown`, or `CreatePool`/`CreateFails` and `Agree` (the all-reduce), then `Issue`; captures are `EnterPlain`, `EnterBound`, `EnterRaises`, `Exit`; profiling ends with `ResetGraphs`, `Rollback` |
| `DcpIndex` | index formulas of three kernels and two host functions | pure operators |
| `DcpProof` | proofs about it and about the pool | |
| `DcpSelection` | a query row through indexer, merge, remap and attention | per-rank buffers, kept from round to round; `causal` is the attention's own copy of its causal lengths, filled by `Build` and refreshed between draft steps by `UpdateDraft`; then `LocalTopk`, `Pack`, `Merge`, `ResetPages`, `Reserve`/`Store` (one program of the remap kernel), `CapAndMask`, `Attend` |
| `CkvPrefetch` | the gathered-KV prefill: pool, registry, prefetch state, both streams | a host per rank enqueues (`Build`, `IssueWrite`, `BindLane`, `IssueAttend`, `Rebind`), the GPU runs (`RunLocal`, `Post`, `Meet`); an event is a count of completed operations |
| `IndexReuse` | which layers score and which reuse (`deepseek_v32/`, the speculator's hooks) | `Target` is a target pass over chunks and drafts to verify, `DraftPrefill` step 0 with `on_prefill_begin`/`_end`, `OnMultiStepDecodeBegin`, `DecodeStep`, `OnMultiStepDecodeEnd` the later draft steps, `DieMidway` one that raises; an index entry remembers for whom it was scored |
| `GraphDispatch` | descriptors, candidates and dispatch (`cudagraph_utils.py`) | pure operators over a configuration |
| `DispatchCases` | one manager, before and after the capture, and the batches it is asked about | chooses a configuration and a batch (of the requests' lengths dispatch sees their number, the shortest, the longest and the sum); `picked` is the answer |
| `GraphProfiling` | the life of graphs on a rank: `profile_cudagraph_memory`, `initialize_kv_cache`, `capture_model` | extends `GraphDispatch`; `execs` are the executables on the device, `held` and `doomed` who keeps them and which are to be destroyed at the next synchronize |
| `ModelRunner` | `model_runner.py` over many steps | `run` is the runners' state, `kv` the cache, `pending`/`results` the steps under way (async scheduling), `sch` the scheduler |
| `MoeGeometry` | the sizing arithmetic of `fused_moe/_impl.py` | pure operators: policy, tile ladder, task geometry, byte layout |
| `MoeWorkspace` | plans, pools and arenas, binding and launching | memory is a set of cells whose contents are known; `mode` is one of the three ways to own the scratch |
| `MoeWeights` | swap registry, view caches, derived copies | layers are loaded at addresses and unloaded, launches find views by address |
| `MoeWeightsProof` | proofs about it and about `RepackRows` | |
| `RepackRows` | conversion of weights and scales to tiles, in place | chunk by chunk; `ran` holds the programs of a launch that have run, in any order |
| `MoeKernels` | memo, kernel caches and cached answers | a launch resolves its kernel by memo, key and object identity (`Resolve`); `Freeze` and `Clear` are the warm-up and the caller |
| `WorkerProof` | proofs about it, `GraphProfiling`, `DispatchCases` and `Exl3Runtime` | |
| `Exl3Load`, `Exl3Linear` | loading of an expert layer and of a linear layer by one rank | tensors arrive in any order, from a buffer that may be overwritten; then they are checked, cut, packed in slabs |
| `Exl3Pack` | what becomes of loaded experts | the route is chosen, tensors are packed or pointers recorded; `owned` is what is still alive; `Contributions` and `ParityContributions` are what the planned and the eager launches read |
| `Exl3Runtime` | planning and running a layer | profile, capture, serve; `runtimes` is the cache, `lastRun` the pieces a batch was run in |

`MC*.tla` give the problems, programs, scripts and inputs of the runs. Where a component has a proof, its run's module extends it
and checks its own definitions (`MCGrid` extends `GridBarrier`, `LaunchGrid` and `TilePipeline`, `MCGemm` `PersistentGemm` and `FusedMoe`, `MCMaterializer` `Materializer`, `MCDcp` `DcpPool` and
`DcpIndex`, `MCWorker` `ModelRunner`, `MoeKernels`, `MoeWeights`, `RepackRows`, `GraphProfiling` and `DispatchCases`, `MCExl3` `Exl3Runtime`, `MCMoeWorkspace` `MoeWorkspace`), so TLC also evaluates the assumptions the
proof makes; the others it instantiates under a name. Definitions whose comment
begins with "A mutant" or "Mutant" are not part of the model: each is a bug put in place of the
definition below it, to show that a property notices it (the list is in `PROJECT.json`).

Composition: `FusedMoe` = `GridBarrier` + 2 x `PersistentGemm` (itself on `GemmSchedule`); `LaunchGrid` uses `GemmSchedule`'s
waves; `DcpSelection` extends `DcpIndex`; `GraphProfiling` and `DispatchCases` extend `GraphDispatch`; `MoeWorkspace` extends
`MoeGeometry`; `Materializer` implements `Publication`, `GridBarrier` implements `AbstractBarrier`, `PersistentGemm` implements
`TileGemm`, each by a refinement mapping.

## 3. What the runs check

A run looks at one part of the system. Where the part has several components that do not share state, its MC module has a
variable `part` (`looked` in `MCWorker`): the initial state picks a component, the variables of the others keep one fixed value. The run is
the union of the components' state spaces, not their product, and a property speaks of the component it names. Properties of the runs are
conjunctions of the named parts given below.

### grid (`MCGrid`: `GridBarrier`, `LaunchGrid`, `TilePipeline`, a build of `FusedMoe` with 2 CTAs)
* Barrier: 4 CTAs, 3 barriers, sense modulo 2. `PhasesSeparate` = `NoOvertaking` (a CTA that is behind another is only still spinning on its
  way out) and `ReleaseStaysVisible` (a released spinner sees a sense other than the one it saved). `ImplementsBarrier`: refinement of
  `AbstractBarrier`. `BarrierLetsGo`: every CTA leaves. The sense is 32 bits wide in the code; modulo 2 is the hardest case, since one more flip
  brings the saved value back. Launches follow one another without bound.
* Grid: five layer shapes, packed and trellis layouts, all block sizes and bitrates, 48 and 188 SMs, at the optin limit of 101376 bytes.
  `GridResident`: a launch has no more CTAs than the device holds at once, with the shared memory the kernel's own layout takes (the
  planner estimates it by another formula). `Fc1Unsplit`: a grid made smaller than it could be leaves no FC1 tile shared.
* Pipeline: four warps as 2 x 2 and 4 x 1, two as 1 x 2; slices of one k-tile up to more than two rounds of the three stages, whole and split
  tiles, packed and direct routes, one and two 16-row blocks. `PipelineSafe` = `OutputsWhole` (what is stored or merged holds every fragment of
  the slice once, decoded as the k-tile it is within the expert, under the routes of its own tile), and copies under way go to different stages.
  The row counts are all there are: the threads are `tile_n * tile_k / 64`, so there are `tile_k / 32` rows and always two bundles. A chunk that a
  copy is under way to reads as `Garbage`.
* Zeroing build: the launch that zeroes FC2's output in a phase of its own, FC2 writing FC1's buffer. `ZeroedBuildSafe` = `PhasesSafe` and `LaunchCorrect`
  (run `gemm`) of that build: FC2 adds to nothing that is still to be zeroed.

### barrier_visibility (expected violation, a finding)
`BarrierPublishes` is the claim of the comment at `kernel.py:6543`: the barrier makes the stores of
the phase before it visible to all. The arrival is `atom.global.add.s32` without `.release`, and no
fence comes before it on a CTA that does not arrive last. In two steps of two CTAs the run gets a
CTA past the barrier while the other one's stores are still its own. This is what the PTX memory
model allows; hardware may be stronger, and a `membar` before the arrival would settle it. All
other models take memory to be sequentially consistent, so their results for the MoE kernel hold
on the condition that the barrier publishes.

### gemm (`MCGemm`: `PersistentGemm` with 4 CTAs, a build of `FusedMoe` with 3)
* GEMM: fewer, as many and more tiles than CTAs, tiles in up to four slices, stripes over two tiles, the merged ragged wave, all three partition
  modes, any set of route blocks skipped. `SlotsSound` = `SlotExclusive` (slots lie within the arrays, one CTA at a time is between taking and
  passing a turn), `ReductionOrderFixed` (a slice finds the sum of exactly the k-tiles above its own), `LeavesNothingBehind` (every wanted tile
  stored, locks zero). `ImplementsTileGemm`: each tile once and whole. `GemmTerminates`: nobody waits for a turn that never comes.
* Launch: the build with the rotation prologue and output zeroing before FC1 (run `grid` has the one with the separate zero phase).
  `PhasesSafe` = `InputsReady` (each phase reads only what is complete) and `OverwriteSafe` (nothing is written over what may still be read, nor
  before the zeros it is added to). `LaunchCorrect`: the result of every launch is complete and the workspace clean. `LaunchEnds`: liveness.

### materializer (`MCMaterializer`, main and 2 workers)
One auxiliary file, one rekeyed shard, two native shards of two ranges, two attempts, one kill, two
failed responses, a server that may start at any time. `FilesSound` (`FinalFilesWhole`, `ReceiptMeansComplete`),
`ServedFilesStay` (an action property), `ImplementsPublication`, `Converges`. One kill is enough: what it
leaves behind (a temporary file, a cut auxiliary file, a prefix of the final files) is any state a later run can
meet, and runs repeat without bound. `Converges` names the exception the code has: auxiliary
files are copied in place, and a kill in that copy leaves a file that every later run rejects.

### dcp (`MCDcp`: `DcpSelection` with 2 ranks at interleave 2, `DcpPool` with 3 ranks and one fault anywhere)
* Selection: the local and the gathered path in either order over the same buffers, every assignment of two scores with ties in a first round,
  sequences shorter and longer than k. `RanksAttendRight` = `RanksAgree`, `SelectTopK` (what is merged is the best k), `AttendOwnWinners` (a rank
  attends nothing but winners it holds, each once), `AttendTopKOnce` (together all of them), `AttendAllGathered`. Block tables are a different
  permutation on each rank. `Exact` (16) stands for 2^24: the deployment's 131072 tokens are exact in float32, as all ids of the run are below `Exact`.
* Pool: three programs, a whole life (dummy run, profiling captures with a nested one, draft captures, discard, production captures, serving), and
  two that use captures in ways that raise; the pool class imports on all ranks or on none. `RanksAligned` = `SameDecision`, `CatalogsAgree`;
  `ChannelsSound` = `GraphsKeepChannels`, `ProfilingLeavesNothing`; `AllFinish`: no rank waits in an all-reduce the others never join.

### sparse (`MCSparse`: `CkvPrefetch`, `IndexReuse`, `DcpSelection` at interleave 1)
* Prefetch, 2 ranks, 3 layers, lookahead 1. Scripts: priming then steady state; a step that raises half way followed by a plain step, by a prefill
  with another metadata builder, or by a resized workspace; a replaced KV cache. `GathersSafe` = `AttendWhole` (a layer attends over its own
  layer's KV from every rank, history and current chunk), `NoRaceOnRing` (no two operations the GPU may run at once conflict on staging or on a
  slot), `CollectivesMatch` (the k-th collectives of two ranks on a communicator are the same one). `GathersDrain`: everything issued completes
  and the pool never runs out. A lookahead of 1 makes the ring as small as it gets (two slots), so a slot is reused at once. The host
  issues the next layer when its main stream has drained (`Ahead`): being further ahead only adds operations behind those that are ready, and
  the races are between operations that are ready. The recipe leaves the gather off by default (`VLLM_B12X_MLA_CKV_GATHER=0`).
* Reuse, 2 requests, 4 layers spaced by every `index_topk_freq` and offset of the run or by an `index_topk_pattern`, drafts of 3 steps that may die, up to 11 tokens.
  `IndicesOwn` = `ReadsOwnIndices` (a row reads an index entry scored for its request and position, in this round) and `KeysOfOwnTokens` (the
  keys it was scored against are those of the tokens the request really has).
* Drafts, 3 ranks, a decode step and the next draft step of its graph, with scores that rank the other way: `DraftsSelectRight` is `RanksAttendRight` for the
  two, whose lengths the ranks refresh in closed form. It says that the ranks select the same tokens, the best, and attend nothing else; that they
  attend all of them it says of the decode step only.

### draft_lengths (expected violation, a finding; `MCSparse`)
`DraftsAttendTopK`: in the draft step, too, the ranks together attend all they selected, as `update_draft_decode_metadata` refreshes the causal lengths
(docstring at `b12x_mla_sparse.py:1349`). The indexer's refresh starts from the length of the whole sequence. The attention's starts from
`metadata.seq_lens`, which `build` (1316) makes the very tensor it writes, holding the rank's share already: each step divides it again. Three ranks, one
token, then two: rank 1 holds token 1, its length stays 0, and nobody attends that token. It makes no difference if a drafter advances that
tensor itself: one more than a share is no length of the sequence. Nor if `dcp_local_seq_lens` is missing: then the copy is of the whole length, right
for no rank at first and divided once more per step.

### worker (`MCWorker`: `ModelRunner`, `DispatchCases`, `GraphProfiling`, `MoeKernels`, `MoeWeights`, `RepackRows`)
* Runner, 2 ranks, 2 requests, 2 slots, 5 blocks of 2 tokens, 1 draft, one step ahead of the results, one preemption, abort or session update. `TokensRight`: every
  known token of a request is the right one at its place. A forward pass that reads any KV but the request's own yields `Bad`, so this is the
  end-to-end property. `InputsRight` = `RanksAgreeOnSlots` and `CpuBoundsSeqLen` (the host's upper bound of a length, which sizes
  the launch, is not below the device's).
* Dispatch: every configuration of up to three capture sizes with every batch of up to 3 requests of up to 4 tokens. `DispatchSound` =
  `PickedCovers` (the graph has room for the batch and was captured for its kind) and `DecodeGetsGraph` (a pure decode batch of one length, or any where
  decode graphs have varying lengths, does get one).
* Profiling: a target with decode and piecewise graphs and a draft with its own; captures may fail. `ProfilingSound` = `ReplaysCaptured` (what is
  replayed was captured on the present KV cache), `ReleasedAfterReset` (pool memory is released only once the executables in it are gone), `GlobalPoolKept`.
* Kernels: calls that differ in one compiled choice each, two object identities, caches cleared at any time. `RunsOwnKernel`: a launch runs a kernel compiled for
  its own arguments and is launched exactly if it fits. `WarmServed`: once warm, a frozen resolution is not refused.
* Weights, five addresses, three loads, one failed swap. `ReadsOwnWeights`: a launch reads its own layer's weights, in the order its kernel expects, through
  whatever registry and cache entries are left. Layers are alike, and so are free addresses that hold the same and that the registry does not name: a load takes the
  least of them (`LeastTaken`), which leaves out only renamings. A layer needs three addresses, so two are never loaded at once: the proof covers that.
* Conversion, tile 4 for 256, three experts in chunks of two. `RepackedRight` = `RowsConverted`, `HalvesPaired`: rows of several shapes end where the kernel reads
  them, whatever order the programs of a launch run in.

### exl3 (`MCExl3`: `Exl3Load`, `Exl3Linear`, `Exl3Pack`, `Exl3Runtime`)
* Expert layer, 2 ranks, 2 experts, four layouts, bitrates 3 and 4, files missing or written in another layout, lent buffers. `LoadedOrRefused` =
  `ServedRight` (each rank has its own part of every tensor, still its own when the staging buffer has been reused) and `FailsForCause`.
* Linear layer, 4 ranks over two key heads, six kinds of layer. `ComputesOwnPart`: columns, heads and rotations of this rank's part.
* Packing, three bitrates for three experts, every route. `PackedOrRefused` = `ExpertsFound`, `RefusedForBitrates`: the launches of the route, and the eager
  ones over pointer tables beside the rank-sliced and fixed routes, find each expert's planes; the bitrate is claimed of the first only (section 5). `Uneven` = {0, 1} bounds the
  experts whose gate and up projections may differ in bitrate: expert 2's are alike.
* Running, four layers, batches up to 7 tokens, every combination of small windows, chunks and capacities. `RowsOnce`: each row in exactly one
  piece, no piece larger than its plan. `ScratchSound` = `NothingPlannedLate` (nothing is planned in a capture) and `ScratchOfOneModel`.

### exl3_pointers (expected violation, a finding; `Exl3Pack`)
`PointersLive`: what the pointer tables of a packed layer address is owned by somebody. `_prepare_r7_uniform_fixed_weights` (`exl3.py:4074`) drops
the loader's slabs with a comment that the prepared experts own them; the rotation slabs the parity path's tables address are owned by nobody.
The recipe's defaults never take that path.

### moe_workspace, moe_growth (`MCMoeWorkspace`: 256 experts, top 8, two layers of one lane)
Token counts in the bands where implementation and tile change, a frozen pool, a growing pool or lent scratch, layers bound and launched in any
order. `LaunchFits`: a launch stays within its views (frozen and lent scratch). `ReadsOwnState`: it reads its own layer's scales and routing and a zeroed
barrier. `moe_growth` (expected violation, a finding): `GrownLaunchFits` says the first of a growing pool too. After 480, 250 and 480 tokens the pool has
380 tiles' worth of 16 rows, and the launch is told 380 tiles of 32 (`_impl.py:7184`). Frozen pools do not grow.

### Type invariants
One per module at most, `TypeOK`, a part of its component's first property. In `CkvPrefetch` it also says that what is pending is the next few
layers, in `DcpSelection` that a count stays within the row.

### Fairness
* `grid`: weak fairness per CTA. The host sizes grids so that all CTAs are resident (`GridResident`), and that is what justifies it.
* `gemm`, `dcp`, `sparse`: only that some CTA, some rank, or some host thread or stream that can take a step does, which is weaker and enough, since
  a spin is a wait and not a step. Where a component is shown in its own module, `Spec` states the fairness per actor.
* `materializer`: weak fairness per running process, and one strong fairness: an operator who starts main again and again while there is no checkpoint.
* Relaunching, killing, failing and calling again are never fair. `worker`, `exl3` and the MoE runs check safety and assume none.

Deadlock is checked in every run: where programs end, fail or are refused, the MC module has an explicit final step (`GemmDone`, `PoolStopped`, `PrefetchDone`,
`Settled`, `LaunchRefused`).

## 4. What is proved

`GridBarrierProof`, for every number of CTAs, every number of barriers per launch and every sense modulus of at least 2
(assumptions `GridAssumption`, `NumBarriersAssumption`, `SenseModAssumption` in `GridBarrier`):
`TypeCorrect`, `BarrierSeparatesPhases` (`NoOvertaking`), `ReleaseSeen` (`ReleaseStaysVisible`), `LaunchSafe` (`PhasesSeparate`, both together),
`LaunchLeavesCountZero`, and `BarrierRefinement` (`Spec => ImplementsBarrier`; `AbstractBarrier`'s specification is a
safety one).
None of these invariants is inductive. `IInv` adds where each CTA is relative to the number of flips, tied to the sense it
saved (`Placed`); that while one CTA is resetting or flipping all others have arrived and spin
(`ReleaseExclusive`); and that the count is the number of CTAs that have arrived (`CountAccurate`). There is one lemma per
action; the arrival and the flip are the hard ones, since they relate a counter to the cardinality of a set.

`MaterializerProof`, for any sets of auxiliary files, shards and workers, any number of ranges, attempts, kills and failed responses:
`PublishedFilesAreWhole` (`FilesSound`), `ServedFilesAreFrozen` (`ServedFilesStay`) and `PublicationRefinement` (`Spec => ImplementsPublication`). It assumes
that a worker has a shard of its own (`WorkersDoNotShare`), that names differ (`NamesDistinct`), that the bounds are numbers
(`Bounds`) and that `None` is no content (`NoneIsNoContent`). The inductive invariant `IInv` says what each process knows at its
label and file: where it is in main's order, so which files are already there (`Placed`, `MainDone`); that at most one process works on a file
(`Alone`); that its temporary file holds exactly the pieces it has counted (`TempRight`), fewer than all (`Short`); what stands
under a final name (`DestRight`); and that once the receipt stands nobody is in the one copy that is made in place (`NobodyCopies`).
One lemma per action preserves it; `FilesKept` and `OneMoves` serve the actions that leave the directory alone.

`DcpProof`, the index formulas, for every rank count, interleave and block size (a multiple of the interleave, assumption `DcpAssumption`):
`LocalOfGlobal` and `GlobalOfLocal` (the remap and the pack kernel invert each other), `ReadWhereWritten` (the remap kernel
reads the block and offset the slot mapping wrote), `LenCountsTokens` (a rank's length counts exactly its tokens), `DraftLenExact`
(the draft updates' closed form is that length at interleave 1, when it is given the length of the whole sequence). The provers have no theory of `\div` and `%` by a variable, so the
proofs go through quotient and remainder as witnesses (`DivMod`, `DivModUnique`) and one lemma for the shape of a token.

`PersistentGemmProof`, for every grid and every set of problems (assumptions `GridAssumption`, `ProblemsAssumption`), in two steps. First the
arithmetic of `GemmSchedule`: each CTA works out alone, with divisions of its own, how many slices a tile has and which is its own. `SliceFacts`: those
numbers agree with the stripes `[Iters * c, Iters * (c + 1))` they stand for, so a tile's slices are non-empty, follow on one another, cover its
k-tiles, and are counted from the last CTA back. `SlotFacts`: tiles in several slices have different slots among the first `grid_x`. Then the loop:
`TypesHold` (`TypeOK`), `SlotsAreSound` (`SlotsSound`: exclusive slots, one order of reduction, nothing left behind) and `GemmRefinement`
(`Spec => ImplementsTileGemm`). `SlotsSound` is not inductive: the invariant ties each CTA's registers to the stripe it has still to do (`Placed`),
each lock word to the number of slices of the tile that have been merged (`InTurn`), each slot to the k-tiles those slices stand for
(`SlotHolds`), and says who is between taking and passing a turn (`HoldsTurn`). That the CTA whose turn it is finds the sum of exactly the k-tiles above
its own follows from `InTurn` with `SliceFacts`.

`FusedMoeProof`, for every grid, every two GEMM shapes over the same route blocks and every build (`LaunchAssumption`, `BuildAssumption`: output is zeroed by
the prologue or by a phase of its own, not by both): `PhasesHold` (`PhasesSafe`) and `LaunchesHold` (`LaunchCorrect`). The launch is put together from proved
parts: `GridBarrierProof` and twice `PersistentGemmProof` are instantiated, so their inductive invariants and their lemmas per action are cited, not
proved again. `FusedInv` is the barrier's invariant; for each GEMM, its whole invariant while some CTA is in its phase, fresh registers before, and afterwards
what it leaves, all wanted tiles whole and every lock zero (`GemmsInv`); and that a CTA that has gone on from a phase has done its share of it (`SharesInv`).
The barrier's `NoOvertaking` gives the rest: CTAs are at most one episode apart, and one that is behind is only still on its way out, so one GEMM at a time
uses the locks and what a phase reads was finished by all. `LeavesNothingBehind` of FC1 is what lets FC2 start on the same lock array, and that of FC2 the next launch.

`FusedMoeProof`, the size of the grid, for every number of SMs, every shape, block size, bitrate and pinned tiles: `GridsFit` (`GridResident`) and
`GridsLeaveFc1Whole` (`Fc1Unsplit`). Assumed: the byte and register counts of the device the source's table was measured on (`HardwareAssumption`), one or
two CTAs per SM in small batches, as the environment is parsed (`EnvsAssumption`), and what the kernel's constructor refuses (`RequestsAssumption`: other blocks of rows,
and trellis weights of other bitrates or without scale groups of 32). A pinned tile whose registers were measured is one of five (`MeasuredKnown`), so
the tiles of a built kernel are known, whichever way they were chosen and widened (`TilesChosen`), while the problems' extents stay arbitrary. For
each such tile and request as many CTAs as the estimate allows fit as the kernel lays them out, the decoder table the estimate omits
and the driver's part included (`RoomOnSm`); the same of registers (`CapHolds`); and the minimum over both GEMMs suits the one kernel they are built into
(`BuiltResident`). A grid below the cap, where tiles are not whole by construction, is a number of whole waves of FC1 tiles (`WaveGrid`), and then the
kernel's own arithmetic comes to no tail or to one tile for each CTA (`WholeWavesTail`, `OneSlice`).

`TilePipelineProof`, the inside of a CTA, for every shape of it, every sequence of tiles and slices, every number of stages and of bundles, both at least 2
(`PipelineAssumption`): `PipelineHolds` (`PipelineSafe`). Warps run freely between two `sync_threads`, so what one of them finds in shared memory depends
on how far the others are. `Lockstep` settles that first: `Spot` is the place where a stretch without a `sync_threads` begins, `Following` the place where the next
one does, and of any two warps either both are in one stretch or one of them is in the stretch that follows (`Moves` reduces the seventeen actions to this). What a warp itself has
then follows from where it is: the groups under way (`FlightInv`: after a wait, those of the next `Stages - 2` k-tiles), the k-tiles whose chunks are in place (`StagedInv`:
the one waited for last and the one before), the registers (`Fetched`) and the accumulators, a strip of bundles, then a column of strips (`Accumulated`). What is
between warps follows from that and `Lockstep`: the count of valid rows until all have read it (`CountInv`), a slot of the fold from the row that hands over to the row
that adds (`SlotsInv`), the output from row 0 to every warp (`OutputInv`). The hard lemmas are about memory that one warp fills and another
reads: a stage is refilled only when no warp can still load from it (`StagedStep`, `LoadSees`), and no other use of the stages reaches a slot or an output that is still
to be read (`SlotsStep`, `OutputStep`). `ColumnLists` turns what was accumulated into every bundle exactly once.
That copies under way have a stage each, and that none is left over for the other uses (`CopiesApart`), follows from `Flight`.

`DcpProof`, the pool, for every group, set of keys and channels, and every well-nested program, whatever pool calls fail and whichever ranks lack
the pool class: `RanksDecideAlike` (`RanksAligned`) and `ProfilingTakesBackItsOwn` (`ChannelsSound`). `ProgramsAssumption` is what the code's shape
gives: a capture is a `with` block, and `profile_cudagraph_memory` discards its channels outside all of them. Ranks run at their own pace, so their
states cannot be compared directly; the invariant says that one history `h` explains all of them (`HInv`): `h[i]` is the state in which every rank comes
to its i-th operation, `h[i + 1]` is what the operation makes of `h[i]` given the verdict of its vote (`Explains`), and a rank inside an operation is at
`h[i]` plus its own part of it (`Follows`). The verdict is settled before any rank passes the operation (`Settled`), which is what the all-reduce is
for. With one rank's import failing alone the ranks still decide alike; they only wait for ever (section 5). `ChannelsSound` is proved rank by
rank: the checkpoint of a pool has the eager channel and no profile channel, a pool without one has no profile channel either, and the
captures a rank is inside are those its program has entered and not left (`ChanInv`).

`WorkerProof`, the EXL3 runtimes, for any layers, environments, batch limits and sizes: `EachRowOnce` (`RowsOnce`) and `ScratchPlannedAndOwned` (`ScratchSound`).
`EnvsAssumption` is `_positive_env_int`: what is read from the environment is positive. The slices of a batch are arithmetic (`SlicesRight`,
`SlicesFit`); that each fits its runtime, and that nothing is planned late, needs that a layer that was profiled has its runtime and that what has a runtime
could be planned (`Planned`); that no scratch is shared needs that all users of a key are of the model the key names (`Owned`).

`WorkerProof`, the kernels, for every set of calls and object identities: `LaunchesOwnKernel` (`RunsOwnKernel`) and `WarmIsServed` (`WarmServed`). What
has to be shown is that a key holds everything a kernel is compiled for (`DynamicKeyHolds`, `KeyHolds`); the invariant then says that whatever is
kept, in the memo or a cache, was compiled for some call with its key, that a remembered answer is right for every kernel that could come to have the
identity it was given for (`AnswerRight`), and that warm keys are cached while kernels are kept.

`WorkerProof`, the graphs, for any configurations of the managers, wrappers and samples, and wherever the profile raises: `ProfilesLeaveNoTrace` (`ProfilingSound`).
Assumed: sizes are numbers and query lengths positive, since `round_up` divides by them (`ConfigAssumption`), and Python's `None` is no wrapper
(`NoValueAssumption`). `ProfilingInv` goes by the place of the start-up. Where nothing is captured, nothing is on the device or held, and every
built wrapper and the platform have the persistent pool (`CleanInv`). From the swap to the clearing, whatever is held can still be reached from a
manager or a wrapper, all of which point to the throwaway pool while captures run (`SamplingInv`): so what is reset is all there is, and what is cleared has
been reset. In production all point to the persistent pool, which holds a graph from its first capture on (`ServingInv`). That a
timing batch of a profile, which captured only a sample, finds its graph needs the arithmetic of `GraphDispatch`: every size is captured for each number of adapters
(`EverySizeForAllLoras`), so the least graph that holds a batch of a captured size is of that size (`ReplaysHold`).

`WorkerProof`, the dispatch, for every configuration of sizes, modes and adapter cases and every batch: `BatchesGetTheirGraph` (`DispatchSound`).
Assumed: sizes, query lengths and request limits are positive, no adapters is one of the captured cases (`ConfigsAssumption`), and `None` is no number (`NoNumber`);
a batch has no more adapters than the largest captured case, as `max_num_active_loras` is one. `PickedCovers` follows from what a
uniform graph is captured with (`UniformRows`: rounding up gives whole rows). `DecodeGetsGraph` needs that a full graph with room
for the tokens of a decode batch has room for its requests too (`FullGraphFits`), so that the graphs `Compatible` lets through are all those that
`_init_candidates` lists for a size, and that among those there is a smallest (`SmallestNumber`, from the well-foundedness of the numbers).

`MoeWeightsProof`, the views, for any layers, addresses and weight plans, any number of loads and any failed swaps: `LaunchesReadOwn` (`ReadsOwnWeights`). The
invariant: a loaded layer's bytes are at its addresses in the order the registry says, unless its swap has failed (`OwnBytes`); loaded layers do not
overlap (`Apart`); and views that point at a loaded layer, in the cache or the memo, were made after its swap, with copies of what is there
(`ViewsRight`). A load keeps this because an address a registered pair or any kept view still holds is never free (`FreeFacts`); a swap that
fails part way, because no views of that layer exist yet.

`MoeWeightsProof`, the conversion, for every shape, even tile, number of experts and chunk (`TileAssumption`, `ChunkAssumption`, `ShapeAssumption`): `RowsEndRight`
(`RepackedRight`). The arithmetic comes first: padded halves fit the tiles (`HalvesFit`), each logical row has one destination, its `Home`, and what is not
a row's home gets zeros (`RowsHaveHomes`); the CPU form agrees (`CpuAgrees`), and an up row and its gate row are whole half tiles apart (`PairsApart`). `RepackInv`
then says which tiles have been written (`Written`), that those hold what belongs there and the others what they held, and that the scratch, or for the weights of a
tail the source, still has every row in its first place: so it does not matter that a launch writes where it was read from, nor in which order its programs run.

Only model-checked:
* every liveness property: fairness and `ENABLED` are out of the prover's reach;
* invariants of models that rest on recursion or on folds over sequences and sets, whose results for all inputs need induction over data:
  `MoeWorkspace` (layout sums), `CkvPrefetch` (flattened queues), `DcpSelection` (sorting by score), `Exl3Pack` and `Exl3Load` (packed slabs), `Exl3Linear`,
  `IndexReuse` and `ModelRunner` (batches laid out row after row).

## 5. Assumptions, bounds and what is left out

Bounds, all named: `MaxKills`, `MaxFaults`, `attempts`, `Ranges` (materializer); `MaxFaults` (pool); `Ahead`, `MaxSteps`, `MaxRings` (prefetch); `MaxLen`, `Steps`
(reuse, runner); `MaxEvents`, `NumBlocks` (runner); `MaxInits`, `Samples` (profiling); `MaxLoads`, `MaxFailures` (weights); `MaxStores` (workspace);
`MaxBudget`, `Uneven` (packing), and the sets in the `.cfg` files. Nothing else is capped.

Kernel
* Memory is sequentially consistent except in `BarrierVisibility`. Sums are multisets of k-tiles; numerics, quantization and timing are not modelled.
* `TilePipeline` lays the memory out as for packed weights; the fold slots of a trellis build cut the stages elsewhere. The turn of a split
  slice comes at any time (`PersistentGemm` shows that it comes).
* `LaunchGrid`: packed and trellis layouts, gated. The modelopt layout, logical tails, mixed-trellis pairs and ungated layers are not modelled. An SM
  has 102400 bytes of shared memory of which a CTA reserves 1024, 65536 registers and 1536 threads; register counts are the source's table.

Checkpoint and DCP
* Native-shard workers have a shard of their own and do not run beside main, as their option is meant. All files are of one archive revision.
* The drafter is outside the repository. It advances the lengths of the whole sequences in place between draft steps, as the docstring at `b12x_indexer.py:124` says;
  the indexer's metadata keeps a view of them, and `DcpSelection` gives it the advanced length.
* `index_topk_pattern`, where there is one, lets the first layer score.
* The top-k width is a power of two from 1 to 2048, as the merge and the remap require.
* In `CkvPrefetch` the layer hands its chunk to the attention before it attends. The method for it, `set_ckv_current_chunk_kv`, is called from
  the layer wrapper outside this repository; without it the append returns silently. A rank has one lane (target or draft) and one main stream.
* `IndexReuse`: one MTP layer. Not modelled: the interval snapshots, recycled indices, query replication, context-parallel prefill, weight loading, death of step 0.

Runner and graphs
* The scheduler, the samplers, `RequestState`, `BlockTables` and the drafter are outside the repository, modelled from how the runner calls them.
  Prefix-cache hits, pipeline parallelism, pooling, multimodal inputs and adapters are not modelled.
* Profiling: not the amounts of memory, nor encoder graphs.

MoE host
* Compute capability 12.0, gated silu, no environment overrides. Not modelled: the micro and dynamic kernels, `host.py`, `_policy.py`, the weight
  planner and `prepare.py` (outside the repository), the limit of tokens per launch, relu2 and deterministic outputs, the split w4a8/NVFP4 phases, micro lookup at capture.
* Weights are immutable while loaded, as the comment at `_impl.py:2029` says. Plans that mix nvfp4 with native w4a16 are not modelled.
* `RepackRows` leaves the permutation of columns and of packed scales out.
* `MoeKernels`: only micro kernels' identities are kept. A transient CUDA error caches "does not fit" for good; such errors are not modelled.

EXL3
* The staging buffer and the reader that lends it are external. The kernels' arithmetic, the prefetch of payload files and the eager-mode check are not modelled. The draft's
  constructor is assumed to stamp its layers where `Exl3Runtime`'s `stamped` says so.

Not modelled at all, with the reason in `PROJECT.json`: device intrinsics (but for the memory orders in `BarrierVisibility`), the speculative
config, cache format and registration, packaging.

### While reading
Observations that are not findings of a run. Those with a definition can be checked by adding it to the run of its module; TLC refutes each.
* `b12x_dcp.py:105`: a rank on which alone the pool class does not import returns before the vote, while the comment at line 134 says every rank
  takes the same branch; the others wait (`AllFinish` of `dcp` with `ImportFailures` of one rank).
* `kernel.py:10558`: the right-sized grid leaves FC2's tiles shared, e.g. for hidden 4096 and intermediate 192, where the docstring at 10512 speaks of
  both tile counts (`Fc2Unsplit`). The split is handled by the turn protocol: it costs time only.
* `kernel.py`: the planner's footprint leaves out the 4 KiB decoder table of `sqg_e4m3`. It fits with scale groups of 32, the only ones a
  trellis may have (`RoomOnSm`), and would not with groups of 16.
* `_impl.py:8665`: of the plans with one pool key the frozen pool keeps the one with most bytes, and for the counts planned one with fewer bytes may
  need more tiles: a pool planned for 2048 and for 1500 tokens refuses 1500, a w4a8 one planned up to 375 refuses 250 (`PlannedCountsServed`). The comment at
  6805 calls the pools capacity-based. 8 tokens of top 8 are 64 rows, which are not below the cutover of 64: the micro band ends one token earlier than its cap.
* `_impl.py:10807`: only the two barrier words are zeroed with a launch. The arrival counters of trellis micro decode, which the comment at 3546 says
  start from zero and are restored by the kernel, lie in an arena whose bytes a dynamic launch overwrites (`ArrivalCountersZero`).
* `_impl.py:5198`: a swap that runs out of memory between chunks is done over from the start on the next launch, so its first chunks are swapped twice (`FlippedOnce`).
* `_impl.py:4805`: `_packed_w4a16_weight_to_w4a8_rp_inplace` has no caller. The CPU path of a tail raises after w1 may be converted. `clear_tp_moe_caches` leaves
  `_TINY_DECODE_KERNEL_CACHE`. The routing handed back to a caller is a view of pooled buffers.
* `exl3.py:5187`, `exl3.py:5230`: the eager launches of `_apply_rank_sliced` are told the bitrates 3, 3, 3, while the layers they serve may have 3 to 6
  (`exl3.py:3340`), so K4 layers are decoded at 3 (`ParityDecodes`, with `exl3_pointers`). A batch below `VLLM_EXL3_TRELLIS_MIN_M` takes them, or a large
  one with `VLLM_EXL3_PREFILL_TRELLIS=0`; with the recipe's defaults none does.
* `b12x_mla_sparse.py:2910`: the path of `forward_mqa` without DCP passes `out=` to a function without that parameter; the recipe never takes it.
* `kernel.py:2706`: the `sync_threads` at the end of a round adds nothing, as the one in the last lookahead comes after the last read of a stage; each of
  the others around staging, fold and output is needed.

## 6. Plan

Done: the kernel from its grid to its pipeline; materializer; pool, index arithmetic, selection, prefetch ring; index reuse over draft
steps; graph dispatch and profiling; model runner; EXL3 loading, packing, running; the host side of the fused MoE. Proofs of the barrier, the work loop, its
schedule, the pipeline of stages, the phases of a launch and its grid; of the materializer, the pool and the index formulas; of start-up, graphs and dispatch; of
EXL3's runtimes; of the MoE host's kernel caches, weight views and conversion.

Left, in order:

1. Proofs: `CollectivesMatch` of the prefetch ring, by a common history as in `DcpProof`.
2. A second lane (draft) in `CkvPrefetch`; `PersistentGemm`'s tile step shown to be implemented by `TilePipeline`.
3. `ModelRunner` with prefix-cache hits; its batches dispatched by `GraphDispatch` in one model.

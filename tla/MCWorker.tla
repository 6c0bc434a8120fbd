------------------------------ MODULE MCWorker -------------------------------
(* The GPU model runner, its CUDA graphs and the MoE kernels it launches,   *)
(* in one run: the steps of the runner, the graph that a batch is given, a  *)
(* worker's start with its profiling captures, the compiled kernel that a   *)
(* launch finds, the expert weights it reads, and their conversion to row   *)
(* panels.  A behaviour picks one of the six, and the variables of the      *)
(* others stay as they are.                                                 *)
(*                                                                          *)
(* Runner: requests over two slots and a few small blocks; one decodes with *)
(* drafts while the other is prefilled in chunks, preempted and resumed.    *)
(* Dispatch: every small configuration of a graph manager and every batch.  *)
(* Profiling: a target with varlen decode graphs and piecewise graphs, and  *)
(* a draft with decode graphs of its own.                                   *)
(* Kernels: calls that differ in one compiled choice each.                  *)
(* Weights: addresses that one layer fills, so that the next must reuse.    *)
(* Conversion: tiles of four rows; halves that fill half tiles and halves   *)
(* that do not.                                                             *)
EXTENDS ModelRunner, MoeKernels, MoeWeights, RepackRows, GraphProfiling, DispatchCases, TLC

CONSTANTS
  None,
  Sizes, MaxReqs, Depths,                   \* DispatchCases: what configurations are made of
  draft                                     \* GraphProfiling: the speculator's manager

VARIABLE looked   \* what is looked at

mcvars == <<looked, vars, dispatchVars, profilingVars, kernelVars, weightsVars, repackVars>>

-----------------------------------------------------------------------------
PromptLengths == [r \in Reqs |-> IF r = 1 THEN 1 ELSE 2]
Limits        == [r \in Reqs |-> IF r = 1 THEN 4 ELSE 3]

\* maxSize is the largest size, as vllm's config makes it.
AllConfigs ==
  {[sizes |-> s, maxSize |-> Max(s), maxReqs |-> m, drafts |-> d, qlen |-> d + 1, mode |-> mode,
    varlen |-> v, only |-> o, loras |-> l, spec |-> sp[1], caps |-> sp[2]] :
      s \in {t \in SUBSET Sizes : Cardinality(t) \in 1 .. 3}, m \in 2 .. MaxReqs, d \in Depths,
      mode \in Modes \ {"NONE"}, v \in BOOLEAN, o \in {NoValue, {1, 2}}, l \in {{0}, {0, 1, 3}},
      sp \in {<<"fixed", {}>>, <<"adaptive", {}>>, <<"adaptive", {0, 1}>>, <<"table", {1, 2}>>}}

Interesting(c) ==
  /\ c.varlen => c.mode = "FULL_AND_PIECEWISE" /\ c.spec = "fixed"
  /\ c.loras # {0} => c.spec = "fixed" /\ c.only = NoValue
  /\ c.only # NoValue => c.spec = "fixed" /\ c.mode = "FULL_DECODE_ONLY"

MCConfigs == {c \in AllConfigs : Interesting(c)}

Config(q, mode, varlen) ==
  [sizes |-> {1, 2, 4, 6}, maxSize |-> 6, maxReqs |-> 4, drafts |-> q - 1, qlen |-> q,
   mode |-> mode, varlen |-> varlen, only |-> NoValue, loras |-> {0}, spec |-> "fixed",
   caps |-> {}]

MCCfg == (Target :> Config(2, "FULL_AND_PIECEWISE", Adaptive))
           @@ (draft :> Config(1, "FULL_DECODE_ONLY", FALSE))

MCBatches ==
  [reqs : 1 .. 4, tokens : 1 .. 7, loras : {0}, uniform : {NoValue, 1, 2}, maxQuery : 1 .. 3]

W4a8 == [impl |-> "dynamic", quant |-> "w4a8_mx", tokens |-> 4, rows |-> 32, n |-> 1024,
         tile |-> 16, direct |-> FALSE, external |-> FALSE, repacked |-> TRUE,
         share |-> TRUE, bits |-> 0, ids |-> 32]
Micro == [W4a8 EXCEPT !.impl = "micro", !.quant = "nvfp4", !.repacked = FALSE]
OneToken(c) == [c EXCEPT !.tokens = 1, !.rows = 8]

MCCalls ==
  {W4a8, OneToken(W4a8), [W4a8 EXCEPT !.direct = TRUE], Micro, OneToken(Micro),
   [W4a8 EXCEPT !.impl = "tiny"]}

MCTooLarge == {OneToken(Micro)}

WP(modes, layout, prepared, tail) ==
  [modes |-> modes, layout |-> layout, prepared |-> prepared, tail |-> tail]

MCPlans ==
  {WP({"nvfp4", "w4a8_nvfp4"}, "w31", FALSE, TRUE), WP({"nvfp4"}, "w13", FALSE, FALSE),
   WP({"w4a8_mx"}, "w31", TRUE, FALSE)}

Gated == [rows : {2 * h : h \in 1 .. 5}, gated : {TRUE}, rotation : 0 .. 5, tailK : BOOLEAN]
Plain == [rows : {3, 4, 8}, gated : {FALSE}, rotation : {0}, tailK : BOOLEAN]

\* w13 sources are not turned, w31 sources by half their rows.
MCShapes == {s \in Gated \cup Plain : s.rotation \in {0, s.rows \div 2}}

-----------------------------------------------------------------------------
NoRunner ==
  /\ run = None /\ kv = None /\ pending = None /\ results = None /\ sch = None /\ budget = None

\* No manager, and no graph for its batch.
NoDispatch ==
  /\ cfg = None /\ captured = FALSE /\ prefill = FALSE /\ loras = 0
  /\ batch = [reqs |-> 1, shortest |-> 1, longest |-> 1, tokens |-> 1]
  /\ picked = Desc("NONE", 1, NoValue, NoValue, NoValue, 0)

NoProfiling ==
  /\ pc = None /\ kvCache = None /\ inits = None /\ mgr = None /\ wrapper = None
  /\ platform = None /\ execs = {} /\ held = {} /\ doomed = None /\ used = {}

\* No kernel has been looked for.
NoKernels ==
  /\ reuse = None /\ memo = None /\ caches = None /\ answers = None /\ frozen = None
  /\ warm = None /\ last = Nothing

\* No layer is loaded, and none is converted.
NoWeights ==
  /\ mem = None /\ packages = None /\ registry = None /\ cache = None /\ lastWeights = None
  /\ loads = None /\ broken = {} /\ lastRead = [call |-> "none"]

NoRepack ==
  /\ shape = None /\ source = None /\ fresh = None /\ part = None /\ first = None
  /\ scratch = None /\ ran = None

NoLaunches == NoKernels /\ NoWeights /\ NoRepack
NoWorker   == NoRunner /\ NoDispatch /\ NoProfiling

MCInit ==
  \/ looked = "runner"    /\ Init /\ NoDispatch /\ NoProfiling /\ NoLaunches
  \/ looked = "dispatch"  /\ DispatchInit /\ NoRunner /\ NoProfiling /\ NoLaunches
  \/ looked = "profiling" /\ ProfilingInit /\ NoRunner /\ NoDispatch /\ NoLaunches
  \/ looked = "kernels"   /\ KernelsInit /\ NoWorker /\ NoWeights /\ NoRepack
  \/ looked = "weights"   /\ WeightsInit /\ NoWorker /\ NoKernels /\ NoRepack
  \/ looked = "repack"    /\ RepackInit /\ NoWorker /\ NoKernels /\ NoWeights

launchVars == <<kernelVars, weightsVars, repackVars>>
workerVars == <<vars, dispatchVars, profilingVars>>

RunnerNext ==
  looked = "runner" /\ Next /\ UNCHANGED <<looked, dispatchVars, profilingVars, launchVars>>

DispatchStep ==
  looked = "dispatch" /\ DispatchNext /\ UNCHANGED <<looked, vars, profilingVars, launchVars>>

ProfilingStep ==
  looked = "profiling" /\ ProfilingNext /\ UNCHANGED <<looked, vars, dispatchVars, launchVars>>

LaunchNext ==
  looked = "kernels" /\ KernelsNext /\ UNCHANGED <<looked, workerVars, weightsVars, repackVars>>

\* Layers are alike, and so are free addresses that hold the same and that the
\* registry does not name: a load takes the least of those that are alike, in
\* place of SYMMETRY, which would hold for this part only.
Alike(a, b) ==
  mem[a] = mem[b] /\ \A key \in registry : {a, b} \cap {key[1], key[2]} = {}

LeastTaken ==
  \A l \in Layers : packages'[l] # packages[l] /\ ~packages'[l].none =>
    LET at == <<packages'[l].w1, packages'[l].s1, packages'[l].w2>> IN
    /\ \A k \in Layers : k < l => ~packages[k].none
    /\ \A i \in DOMAIN at, a \in Free :
         a < at[i] /\ Alike(a, at[i]) => \E j \in 1 .. i - 1 : at[j] = a

WeightsStep ==
  /\ looked = "weights" /\ WeightsNext /\ LeastTaken
  /\ UNCHANGED <<looked, workerVars, kernelVars, repackVars>>

RepackStep ==
  looked = "repack" /\ RepackNext /\ UNCHANGED <<looked, workerVars, kernelVars, weightsVars>>

\* A batch has been given its graph; a worker serves, or did not start; there
\* is no room for a layer; a layer is converted.
Settled ==
  /\ \/ looked = "dispatch" /\ captured
     \/ looked = "profiling" /\ pc \in {"serve", "dead"}
     \/ looked = "weights"
     \/ looked = "repack" /\ part = "done"
  /\ UNCHANGED mcvars

MCNext == RunnerNext \/ DispatchStep \/ ProfilingStep \/ LaunchNext \/ WeightsStep
            \/ RepackStep \/ Settled

MCSpec == MCInit /\ [][MCNext]_mcvars

-----------------------------------------------------------------------------
\* The tokens the scheduler hands out are the request's own, whatever was
\* preempted, rejected or delivered late (OutputsRight of ModelRunner).
TokensRight == looked = "runner" => OutputsRight

\* The ranks put a request in the same slot, and the CPU's lengths bound the
\* true ones (StepInputsRight of ModelRunner).
InputsRight == looked = "runner" => StepInputsRight
=============================================================================

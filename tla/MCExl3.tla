------------------------------- MODULE MCExl3 --------------------------------
(* EXL3 layers, in one run: loading the tensors of an expert layer, loading *)
(* a linear layer, packing the experts for a kernel, and running them.  A   *)
(* behaviour picks one of the four, and the variables of the others stay as *)
(* they are.                                                                *)
(*                                                                          *)
(* Expert layer: two ranks, two experts, trellis tiles of two channels and  *)
(* rotation blocks of four.                                                 *)
(* Linear layer: four ranks, two key heads (so that two ranks share one),   *)
(* rotation blocks of two channels.                                         *)
(* Packing: three bitrates for the three projections of three experts, the  *)
(* gate and up projections of one of them alike.                            *)
(* Running: a target with layers on each route and a draft of the target's  *)
(* geometry, batches of up to seven tokens, and every combination of small  *)
(* windows, chunks and capacities.                                          *)
EXTENDS Exl3Runtime

CONSTANTS
  None,
  LoadRanks, LoadExperts, PartSizes, Tile, LoadBlock, Bits,       \* Exl3Load
  LinearRanks, Widths, Inputs, LinearBlock, KvHeads, QueryHeads,  \* Exl3Linear
  NumExperts, Ks, Uneven, MaxBudget                               \* Exl3Pack

VARIABLES
  part,                                                           \* what is looked at
  layout, content, rank, partSize, bits, lent, todo, file,        \* Exl3Load
  staging, tensors, backing, filePhase,
  lkind, lrank, sizes, llent, lstaging, legacy, extra,            \* Exl3Linear
  ltensors, ids, lphase,
  pkind, pbits, hasKernel, budget, used, route, owned, stacks, pack, pc   \* Exl3Pack

loadVars    == <<layout, content, rank, partSize, bits, lent, todo, file,
                 staging, tensors, backing, filePhase>>
linearVars  == <<lkind, lrank, sizes, llent, lstaging, legacy, extra, ltensors, ids, lphase>>
packVars    == <<pkind, pbits, hasKernel, budget, used, route, owned, stacks, pack, pc>>

Load == INSTANCE Exl3Load WITH
  Tp <- LoadRanks, NumExperts <- LoadExperts, Hadamard <- LoadBlock, phase <- filePhase

Linear == INSTANCE Exl3Linear WITH
  Tp <- LinearRanks, Hadamard <- LinearBlock, kind <- lkind, rank <- lrank, lent <- llent,
  staging <- lstaging, tensors <- ltensors, phase <- lphase

Pack == INSTANCE Exl3Pack WITH kind <- pkind, bits <- pbits

-----------------------------------------------------------------------------
Layer(model, kernel, geometry) == [model |-> model, route |-> kernel, geometry |-> geometry]

MCLayers ==
  {Layer("target", "uniform", 3), Layer("target", "mixed", 34), Layer("target", "r7", 45),
   Layer("draft", "uniform", 3)}

MCEnvs ==
  [minM : {1, 3, 5}, maxM : {2, 4}, chunk : {1, 2, 8}, cap : {0, 3, 8},
   prefill : BOOLEAN, fusedExt : BOOLEAN]

-----------------------------------------------------------------------------
NoLoad ==
  /\ layout = None /\ content = None /\ rank = None /\ partSize = None /\ bits = None
  /\ lent = None /\ todo = None /\ file = None /\ staging = None /\ tensors = None
  /\ backing = None /\ filePhase = None

NoLinear ==
  /\ lkind = None /\ lrank = None /\ sizes = None /\ llent = None /\ lstaging = None
  /\ legacy = None /\ extra = None /\ ltensors = None /\ ids = None /\ lphase = None

NoPack ==
  /\ pkind = None /\ pbits = None /\ hasKernel = None /\ budget = None /\ used = None
  /\ route = None /\ owned = None /\ stacks = None /\ pack = None /\ pc = None

\* No layer has run.
NoRuntime ==
  /\ env = None /\ maxBatched = None /\ sharedConfig = None /\ stamped = None
  /\ phase = None /\ profiled = {} /\ runtimes = <<>> /\ users = <<>>
  /\ policy = <<>> /\ bound = <<>>
  /\ lastRun = [at |-> "profile", layer |-> "none", m |-> 0, pieces |-> <<>>, outcome |-> "none"]

MCInit ==
  \/ part = "load"    /\ Load!Init /\ NoLinear /\ NoPack /\ NoRuntime
  \/ part = "linear"  /\ Linear!Init /\ NoLoad /\ NoPack /\ NoRuntime
  \/ part = "pack"    /\ Pack!Init /\ NoLoad /\ NoLinear /\ NoRuntime
  \/ part = "runtime" /\ Init /\ NoLoad /\ NoLinear /\ NoPack

LoadNext ==
  part = "load" /\ Load!Next /\ UNCHANGED <<part, linearVars, packVars, vars>>

LinearNext ==
  part = "linear" /\ Linear!Next /\ UNCHANGED <<part, loadVars, packVars, vars>>

PackNext ==
  part = "pack" /\ Pack!Next /\ UNCHANGED <<part, loadVars, linearVars, vars>>

RuntimeNext ==
  part = "runtime" /\ Next /\ UNCHANGED <<part, loadVars, linearVars, packVars>>

MCNext == LoadNext \/ LinearNext \/ PackNext \/ RuntimeNext

MCSpec == MCInit /\ [][MCNext]_<<part, loadVars, linearVars, packVars, vars>>

-----------------------------------------------------------------------------
\* An expert layer is served its own tensors or refused for a reason (Exl3Load).
LoadedOrRefused == part = "load" => Load!LoadedOrRefused

\* A linear layer multiplies by this rank's part of the matrix (Exl3Linear).
ComputesOwnPart == part = "linear" => Linear!ComputesOwnPart

\* Experts are found where the kernel looks, or their bitrates are refused
\* (Exl3Pack).
PackedOrRefused == part = "pack" => Pack!PackedOrRefused
=============================================================================

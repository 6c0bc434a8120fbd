----------------------------- MODULE MoeWeights -----------------------------
(***************************************************************************)
(* Who reads which bytes of the FP4 expert weights of the fused MoE        *)
(* (b12x/moe/fused_moe/_impl.py).  The gated kernels want FC1 as [up; gate]*)
(* and a "w31" source is [gate; up]: its storage is swapped in place at the*)
(* first launch, and a registry keyed by addresses remembers that it was.  *)
(* Views of the storage, and copies derived from it, are cached by address *)
(* too.  Layers are loaded and unloaded, so addresses are reused.          *)
(*                                                                         *)
(* Storage w1 and s1 are FC1's weights and block scales; w2 stands for     *)
(* FC2's two and for the alphas, which are never swapped.  Weights are not *)
(* rewritten while a layer is loaded, as _tensor_version assumes.          *)
(***************************************************************************)
EXTENDS Integers, FiniteSets

CONSTANTS
    Layers,
    Addresses,
    WeightPlans,  \* [modes, layout, prepared, tail]
    MaxLoads,     \* bound: layers loaded
    MaxFailures   \* bound: swaps that run out of memory

ASSUME WeightsAssumption ==
    /\ {MaxLoads, MaxFailures} \subseteq Nat
    /\ \A p \in WeightPlans : p.layout = "w31" => p.modes # {"w6a8_mx"}

VARIABLES
    mem,        \* address -> [load, form]: whose bytes they are, and their order
    packages,   \* layer -> B12XFP4ExpertWeights
    registry,   \* _W13_NORMALIZED_STORAGES: <<w1, s1>>
    cache,      \* _WEIGHT_CACHE: key -> views
    lastWeights, \* _LAST_WEIGHTS
    loads,
    broken,     \* loads whose swap has failed part way
    lastRead    \* what the last launch read

weightsVars == <<mem, packages, registry, cache, lastWeights, loads, broken, lastRead>>

Absent == [none |-> TRUE]
Loaded(l) == ~packages[l].none

Held(views) == {views.w1, views.s1, views.w2}
HeldBy(pkg) == IF pkg.none THEN {} ELSE Held(pkg)
HeldByMemo == IF lastWeights.none THEN {} ELSE Held(lastWeights.views)
HeldByCaches == (UNION {Held(cache[k]) : k \in DOMAIN cache}) \cup HeldByMemo

\* mutation: the registry keeps the addresses and lets the tensors go
HeldByNothing(registered) == {}

(* The registry's values hold the tensors, so the allocator cannot give a  *)
(* registered address to another layer.                                    *)
HeldByRegistry(registered) == UNION {{key[1], key[2]} : key \in registered}

Free ==
    Addresses \ ((UNION {HeldBy(packages[l]) : l \in Layers})
                   \cup HeldByCaches \cup HeldByRegistry(registry))

SourceForm(plan) == IF plan.layout = "w31" THEN "gateUp" ELSE "upGate"

WeightsInit ==
    /\ mem = [a \in Addresses |-> [load |-> 0, form |-> "none"]]
    /\ packages = [l \in Layers |-> Absent]
    /\ registry = {}
    /\ cache = <<>>
    /\ lastWeights = Absent
    /\ loads = 0
    /\ broken = {}
    /\ lastRead = [call |-> "none"]

-----------------------------------------------------------------------------
(* Loading: the source is allocated and prepared.  A QMMA preparation      *)
(* turns all of it into tiles (RepackRows), a w31 source's halves with it; *)
(* the others keep the source's bytes.                                     *)
PreparedForm(plan) == IF plan.prepared THEN "tiles" ELSE SourceForm(plan)

LoadAt(l, plan, w1, s1, w2) ==
    /\ loads < MaxLoads
    /\ packages[l] = Absent
    /\ Cardinality({w1, s1, w2}) = 3
    /\ {w1, s1, w2} \subseteq Free
    /\ loads' = loads + 1
    /\ packages' = [packages EXCEPT ![l] =
           [none |-> FALSE, load |-> loads', plan |-> plan, w1 |-> w1, s1 |-> s1, w2 |-> w2]]
    /\ mem' = [mem EXCEPT ![w1] = [load |-> loads', form |-> PreparedForm(plan)],
                          ![s1] = [load |-> loads', form |-> PreparedForm(plan)],
                          ![w2] = [load |-> loads', form |-> "plain"]]
    /\ lastRead' = [call |-> "load"]
    /\ UNCHANGED <<registry, cache, lastWeights, broken>>

Unload(l) ==
    /\ Loaded(l)
    /\ packages' = [packages EXCEPT ![l] = Absent]
    /\ lastRead' = [call |-> "unload"]
    /\ UNCHANGED <<mem, registry, cache, lastWeights, loads, broken>>

(* clear_tp_moe_caches: the registry stays, for the storage stays swapped. *)
ClearCaches ==
    /\ cache' = <<>>
    /\ lastWeights' = Absent
    /\ lastRead' = [call |-> "clear"]
    /\ UNCHANGED <<mem, packages, registry, loads, broken>>

-----------------------------------------------------------------------------
(* The one-time swap.                                                      *)

NeedsSwap(pkg) == pkg.plan.layout = "w31" /\ ~pkg.plan.prepared
Registered(pkg) == <<pkg.w1, pkg.s1>> \in registry

Swapped(cell) ==
    [cell EXCEPT !.form = CASE @ = "gateUp" -> "upGate" [] @ = "upGate" -> "gateUp" [] OTHER -> @]

Ordered(pkg) ==
    IF NeedsSwap(pkg) /\ ~Registered(pkg)
    THEN [mem |-> [mem EXCEPT ![pkg.w1] = Swapped(@), ![pkg.s1] = Swapped(@)],
          registry |-> registry \cup {<<pkg.w1, pkg.s1>>}]
    ELSE [mem |-> mem, registry |-> registry]

(* A temporary of the swap cannot be allocated: some experts' weights, or  *)
(* all of them and no scales, have changed places.                         *)
SwapFails(l) ==
    LET pkg == packages[l]
    IN /\ Loaded(l)
       /\ NeedsSwap(pkg) /\ ~Registered(pkg)
       /\ Cardinality(broken) < MaxFailures
       /\ \E cell \in {Swapped(mem[pkg.w1]), [mem[pkg.w1] EXCEPT !.form = "mixed"]} :
             mem' = [mem EXCEPT ![pkg.w1] = cell]
       /\ broken' = broken \cup {pkg.load}
       /\ lastRead' = [call |-> "failed"]
       /\ UNCHANGED <<packages, registry, cache, lastWeights, loads>>

-----------------------------------------------------------------------------
(* _get_weight_views.                                                      *)

ViewsKey(pkg, quant) ==
    <<pkg.w1, pkg.s1, pkg.w2, quant>>

(* The w4a8_nvfp4 views own grids derived from the scales and a padded     *)
(* copy of the weights; the others read the source.                        *)
Copies(cells, pkg) == [w1 |-> cells[pkg.w1], s1 |-> cells[pkg.s1], w2 |-> cells[pkg.w2]]

Build(cells, pkg, quant) ==
    [w1 |-> pkg.w1, s1 |-> pkg.s1, w2 |-> pkg.w2, quant |-> quant,
     copies |-> IF quant = "w4a8_nvfp4" THEN Copies(cells, pkg) ELSE Absent]

Views(cells, pkg, quant) ==
    LET key == ViewsKey(pkg, quant)
    IN CASE ~lastWeights.none /\ lastWeights.key = key -> lastWeights.views
         [] (lastWeights.none \/ lastWeights.key # key) /\ key \in DOMAIN cache -> cache[key]
         [] OTHER -> Build(cells, pkg, quant)

(* A 16-mod-32 shard gets copies of its scales' halves and of FC2, made    *)
(* once and kept on the cached views.                                      *)
WithTail(views, cells, pkg, quant, dynamic) ==
    IF quant = "nvfp4" /\ dynamic /\ pkg.plan.tail /\ views.copies = Absent
    THEN [views EXCEPT !.copies = Copies(cells, pkg)] ELSE views

\* a prepared W4A8 package is launched dynamically on its own tensors
OwnViews(pkg, quant) == Build(mem, pkg, quant)

(* What the kernel reads: FC1 from the copy where it has one.              *)
Reads(cells, views, pkg, dynamic) ==
    LET copied == views.copies # Absent /\ (views.quant = "w4a8_nvfp4" \/ dynamic)
    IN [w1 |-> IF copied /\ views.quant = "w4a8_nvfp4" THEN views.copies.w1 ELSE cells[views.w1],
        s1 |-> IF copied THEN views.copies.s1 ELSE cells[views.s1],
        w2 |-> IF copied THEN views.copies.w2 ELSE cells[views.w2]]

Report(pkg, quant, views, reads) ==
    LET form == IF pkg.plan.prepared THEN "tiles" ELSE "upGate"
    IN [call |-> "launched", load |-> pkg.load,
        right |-> /\ views.quant = quant
                  /\ {reads.w1.form, reads.s1.form} = {form}
                  /\ {reads.w1.load, reads.s1.load, reads.w2.load} = {pkg.load}]

\* a launch on views that are looked up, built and cached
LaunchCached(l, quant, dynamic) ==
    LET pkg == packages[l]
        ordered == Ordered(pkg)
        key == ViewsKey(pkg, quant)
        views == WithTail(Views(ordered.mem, pkg, quant), ordered.mem, pkg, quant, dynamic)
    IN /\ Loaded(l) /\ quant \in pkg.plan.modes
       /\ ~(pkg.plan.prepared /\ dynamic)
       /\ mem' = ordered.mem
       /\ registry' = ordered.registry
       /\ cache' = [k \in DOMAIN cache \cup {key} |-> IF k = key THEN views ELSE cache[k]]
       /\ lastWeights' = [none |-> FALSE, key |-> key, views |-> views]
       /\ lastRead' = Report(pkg, quant, views, Reads(ordered.mem, views, pkg, dynamic))
       /\ UNCHANGED <<packages, loads, broken>>

LaunchPrepared(l, quant) ==
    LET pkg == packages[l]
    IN /\ Loaded(l) /\ quant \in pkg.plan.modes
       /\ pkg.plan.prepared
       /\ lastRead' = Report(pkg, quant, OwnViews(pkg, quant),
                         Reads(mem, OwnViews(pkg, quant), pkg, TRUE))
       /\ UNCHANGED <<mem, packages, registry, cache, lastWeights, loads, broken>>

Quants == {"nvfp4", "w4a8_nvfp4", "w4a8_mx", "w6a8_mx"}

WeightsNext ==
    \/ \E l \in Layers, plan \in WeightPlans, w1, s1, w2 \in Addresses :
          LoadAt(l, plan, w1, s1, w2)
    \/ \E l \in Layers : Unload(l) \/ SwapFails(l)
    \/ \E l \in Layers, quant \in Quants :
          LaunchPrepared(l, quant) \/ \E dynamic \in BOOLEAN : LaunchCached(l, quant, dynamic)
    \/ ClearCaches

WeightsSpec == WeightsInit /\ [][WeightsNext]_weightsVars

-----------------------------------------------------------------------------
(* Every launch of a layer whose swap has not failed reads the bytes of    *)
(* that layer, up half first in weights and scales alike, through views    *)
(* made for its recipe -- although addresses, the registry and the caches  *)
(* outlive layers.                                                         *)
ReadsOwnWeights ==
    lastRead.call = "launched" /\ lastRead.load \notin broken => lastRead.right

(* _impl.py: the storage is flipped "once at first use".                   *)
FlippedOnce == lastRead.call = "launched" => lastRead.right
=============================================================================

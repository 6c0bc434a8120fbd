------------------------------ MODULE Exl3Pack ------------------------------
(* What becomes of one routed-expert layer's loaded EXL3 tensors (exl3.py:   *)
(* Exl3MoEMethod.process_weights_after_loading and the _prepare_* methods):  *)
(* the execution route is chosen from the checkpoint's bitrates, the         *)
(* installed kernels and the environment, and the route packs the tensors    *)
(* into the form its kernel addresses, or leaves them and records pointers.  *)
(*                                                                           *)
(* The payload of expert e's projection p is <<e, p>>; a rotation row is the *)
(* expert it belongs to.  Only what tells two routes' addressing apart is    *)
(* kept: no tile layouts and no tile configurations.                         *)
EXTENDS Integers, Sequences, FiniteSets, TLC, SequencesExt

CONSTANTS
  NumExperts,
  Ks,         \* declared bitrates
  Uneven,     \* bound: experts whose gate and up projection may differ in it
  MaxBudget   \* bound on VLLM_EXL3_R7_FUSED_LAYERS

VARIABLES
  kind,       \* "r7" or "sliced": the layer's storage
  bits,       \* <<expert, projection>> to its bitrate
  hasKernel,  \* does the extension export exl3_moe_r7_fused?
  budget,     \* layers that may be fused, -1 for all
  used,       \* layers fused so far, kept on the shared config
  route,      \* the selected route
  owned,      \* trellis and rotation tensors the layer still owns
  stacks,     \* tier stacks built so far
  pack,       \* the prepared form
  pc          \* "loaded", "stack", "done" or "failed"

vars == <<kind, bits, hasKernel, budget, used, route, owned, stacks, pack, pc>>

Experts     == 0 .. NumExperts - 1
Projections == {"w1", "w3", "w2"}
Payloads    == Experts \X Projections
\* Rotations of the intermediate side exist per expert and projection.
Rotations   == {<<x[1], x[2], "rotation">> : x \in Payloads}
Zero        == <<NumExperts, "zero">>     \* a zero-filled plane
Ballast     == <<NumExperts, "ballast">>  \* the shared placeholder of preparation

\* Experts satisfying P, in increasing order.
Ordered(P(_)) == SelectSeq([i \in 1 .. NumExperts |-> i - 1], P)
Position(s, x) == CHOOSE i \in 1 .. Len(s) : s[i] = x
AtLeastOne(n) == IF n = 0 THEN 1 ELSE n
OfAll(f(_)) == [i \in 1 .. NumExperts |-> f(i - 1)]

Present   == {bits[x] : x \in Payloads}
TierBits  == SetToSortSeq(Present, LAMBDA a, b : a < b)
PerExpert == \A e \in Experts, p \in Projections : bits[<<e, p>>] = bits[<<e, "w1">>]

Init ==
  /\ kind \in {"r7", "sliced"}
  /\ bits \in [Payloads -> Ks]
  /\ \A e \in Experts \ Uneven : bits[<<e, "w1">>] = bits[<<e, "w3">>]
  \* A rank-sliced checkpoint declares one bitrate per expert.
  /\ kind = "sliced" => PerExpert
  /\ hasKernel \in BOOLEAN
  /\ budget \in -1 .. MaxBudget
  /\ used \in 0 .. IF budget = -1 THEN 0 ELSE budget
  /\ route = "none"
  /\ owned = Payloads \cup Rotations
  /\ stacks = <<>>
  /\ pack = "none"
  /\ pc = "loaded"

-----------------------------------------------------------------------------
(* Route selection.  "exact" and "perExpert" leave the tensors for the eager *)
(* per-expert path.                                                          *)
ForceB12x  == ~hasKernel
\* _r7_projection_tiers returns a split for two or three bitrates only.
Split      == Len(TierBits) \in {2, 3}
ThreeTiers == Split /\ Len(TierBits) = 3
InBudget   == ForceB12x \/ budget = -1 \/ used < budget

\* Environment: fixed, exact, reference, grouped, mixed3, fused.
Env == [fixed : BOOLEAN, exact : BOOLEAN, reference : BOOLEAN,
        grouped : BOOLEAN, mixed3 : BOOLEAN, fused : BOOLEAN]

R7Route(env) ==
  CASE env.fixed -> "fixed"
    [] ~env.fixed /\ ForceB12x /\ env.exact -> "exact"
    [] ~env.fixed /\ ForceB12x /\ ~env.exact /\ env.reference /\ ThreeTiers -> "exact"
    [] OTHER ->
         IF ForceB12x /\ ThreeTiers /\ env.grouped THEN "grouped"
         ELSE IF ForceB12x /\ ThreeTiers /\ ~env.mixed3 THEN "perExpert"
         ELSE IF (ForceB12x \/ env.fused) /\ Split /\ InBudget THEN "tiers"
         ELSE IF ForceB12x THEN "unsupported"
         ELSE "graph"

SlicedRoute == IF Len(TierBits) = 1 THEN "slabs" ELSE "mixed"

SelectRoute ==
  /\ pc = "loaded"
  /\ route' \in IF kind = "r7" THEN {R7Route(env) : env \in Env} ELSE {SlicedRoute}
  /\ pc' = IF route' = "unsupported" THEN "failed" ELSE "stack"
  /\ UNCHANGED <<kind, bits, hasKernel, budget, used, owned, stacks, pack>>

-----------------------------------------------------------------------------
(* _prepare_r7_b12x_weights: tiers by bitrate, one per step.  A tier's w13   *)
(* holds its gate planes and then its up planes, with no padding between.    *)
Ids(k, p)  == Ordered(LAMBDA e : bits[<<e, p>>] = k)
Planes(k, p) == [i \in 1 .. Len(Ids(k, p)) |-> <<Ids(k, p)[i], p>>]
PlaneSet(k)  == {x \in Payloads : bits[x] = k}
OrZero(s)    == IF s = <<>> THEN <<Zero>> ELSE s

TemplateOfExpert0(k) == <<0, "w1">>
\* The first tensor of the tier gives the slabs their type: gate, else up, else
\* down.
TemplateOf(k) ==
  LET some == SelectSeq(<<"w1", "w3", "w2">>, LAMBDA p : Ids(k, p) # <<>>)
  IN <<Ids(k, some[1])[1], some[1]>>

\* Gate planes start at zero; where do the up planes start?
PaddedBase(k) == AtLeastOne(IF Len(Ids(k, "w1")) > Len(Ids(k, "w3"))
                            THEN Len(Ids(k, "w1")) ELSE Len(Ids(k, "w3")))
UpBase(k) == Len(Ids(k, "w1"))

Tier(k) ==
  LET gates == Planes(k, "w1")
      ups   == Planes(k, "w3")
      downs == Planes(k, "w2")
  IN [bits  |-> k,
      gates |-> Len(gates), ups |-> Len(ups),
      slots |-> AtLeastOne(IF Len(gates) > Len(ups) THEN Len(gates) ELSE Len(ups)),
      w13   |-> OrZero([i \in 1 .. UpBase(k) + Len(ups) |->
                          IF i <= Len(gates) THEN gates[i]
                          ELSE IF i > UpBase(k) THEN ups[i - UpBase(k)] ELSE Zero]),
      w2    |-> OrZero(downs)]

StackTier ==
  /\ pc = "stack" /\ route = "tiers" /\ Len(stacks) < Len(TierBits)
  /\ LET k == TierBits[Len(stacks) + 1] IN
       \* A source is taken out of the layer as it is copied; one that is gone
       \* already stops the load.
       IF {TemplateOf(k)} \cup PlaneSet(k) \subseteq owned
       THEN /\ stacks' = Append(stacks, Tier(k))
            /\ owned' = owned \ PlaneSet(k)
            /\ UNCHANGED pc
       ELSE pc' = "failed" /\ UNCHANGED <<stacks, owned>>
  /\ UNCHANGED <<kind, bits, hasKernel, budget, used, route, pack>>

\* prepare_tier: preparation checks w13 and w2 against one expert count, so a
\* placeholder stands in for w13, and for w2 when the counts differ; the served
\* planes replace both.
PrepareTier(t) ==
  LET prepared == [t EXCEPT !.w13 = <<Ballast>>,
                            !.w2  = IF Len(@) = t.slots THEN @ ELSE <<Ballast>>]
  IN IF Len(t.w2) = t.slots
     THEN [prepared EXCEPT !.w13 = t.w13]
     ELSE [prepared EXCEPT !.w13 = t.w13, !.w2 = t.w2]

\* The tables over combined experts have as many rows as the tiers have slots
\* together, at least one per expert.
Stride(ts) == FoldSeq(LAMBDA t, n : n + t.slots, 0, ts)
TablePad(n) == IF n > NumExperts THEN n - NumExperts ELSE 0

\* build_projection_tiered_maps and the kernel's descriptors.
TierOf(ts, k)  == CHOOSE i \in 1 .. Len(ts) : ts[i].bits = k
Descriptor(ts) == [x \in Payloads |->
                     <<TierOf(ts, bits[x]), Position(Ids(bits[x], x[2]), x[1])>>]

PrepareTiers ==
  /\ pc = "stack" /\ route = "tiers" /\ Len(stacks) = Len(TierBits)
  /\ pack' = [tiers      |-> [i \in 1 .. Len(stacks) |-> PrepareTier(stacks[i])],
              combined   |-> [e \in Experts |-> e],
              descriptor |-> Descriptor(stacks),
              total      |-> Stride(stacks),
              rotations  |-> OfAll(LAMBDA e : e)
                             \o [i \in 1 .. TablePad(Stride(stacks)) |-> NumExperts]]
  /\ owned' = {}
  /\ used' = IF budget # -1 /\ ~ForceB12x THEN used + 1 ELSE used
  /\ pc' = "done"
  /\ UNCHANGED <<kind, bits, hasKernel, budget, route, stacks>>

-----------------------------------------------------------------------------
(* The routes that pack in one step.                                         *)

Packed(p, keep) ==
  /\ pc = "stack"
  /\ pack' = p /\ owned' = keep /\ pc' = "done"
  /\ UNCHANGED <<kind, bits, hasKernel, budget, used, route, stacks>>

Refused(r) ==
  /\ pc = "stack" /\ route = r /\ pc' = "failed"
  /\ UNCHANGED <<kind, bits, hasKernel, budget, used, route, owned, stacks, pack>>

\* _prepare_mixed_rank_sliced_weights: two tiers of experts, every table in
\* tier order.
GlobalOrder == OfAll(LAMBDA e : e)
TierOrder   == FlattenSeq([i \in 1 .. Len(TierBits) |-> Ids(TierBits[i], "w1")])
MixedTier(k) ==
  [bits |-> k, gates |-> Len(Ids(k, "w1")), ups |-> Len(Ids(k, "w3")),
   slots |-> Len(Ids(k, "w1")),
   w13 |-> Planes(k, "w1") \o Planes(k, "w3"), w2 |-> Planes(k, "w2")]
PackMixed ==
  LET ts == [i \in 1 .. Len(TierBits) |-> MixedTier(TierBits[i])] IN
  /\ route = "mixed" /\ Len(TierBits) = 2
  /\ Packed([tiers      |-> ts,
             combined   |-> [e \in Experts |->
                               Position(Ids(TierBits[1], "w1") \o Ids(TierBits[2], "w1"), e) - 1],
             descriptor |-> Descriptor(ts),
             total      |-> Stride(ts),
             rotations  |-> TierOrder], {})

\* _prepare_rank_sliced_weights: one uniform tier over the slabs, and tables of
\* pointers into them for the parity path.
SlabPack ==
  LET k == TierBits[1] IN
  [tiers |-> <<[MixedTier(k) EXCEPT !.slots = NumExperts]>>,
   combined |-> [e \in Experts |-> e], descriptor |-> Descriptor(<<MixedTier(k)>>),
   total |-> NumExperts, rotations |-> GlobalOrder,
   tables |-> [p \in Projections |-> OfAll(LAMBDA e : <<e, p>>)]]
PackSlabs == route = "slabs" /\ Packed(SlabPack, owned)

\* _prepare_r7_uniform_fixed_weights: a single bitrate is stacked into slabs and
\* packed the same way; the loader's slabs are dropped then, and the prepared
\* experts keep the trellis slabs and their own rotation table.
PackFixed ==
  /\ route = "fixed" /\ Len(TierBits) = 1
  /\ Packed(SlabPack, Payloads)

\* _prepare_r7_grouped_weights: one launch per combination of bitrates; experts
\* of other groups map to the group's sentinel, one past its last expert.
Triple(e) == <<bits[<<e, "w1">>], bits[<<e, "w3">>], bits[<<e, "w2">>]>>
ProjectionIndex(p) == CASE p = "w1" -> 1 [] p = "w3" -> 2 [] p = "w2" -> 3
GroupOf(b) ==
  LET members == Ordered(LAMBDA e : Triple(e) = b)
  IN [bits |-> b,
      size |-> Len(members),
      map  |-> [e \in Experts |-> IF Triple(e) = b THEN Position(members, e) - 1
                                  ELSE Len(members)],
      tables |-> [p \in Projections |-> [i \in 1 .. Len(members) |-> <<members[i], p>>]]]
PackGrouped ==
  /\ route = "grouped"
  /\ Packed({GroupOf(b) : b \in {Triple(e) : e \in Experts}}, owned)

\* _prepare_r7_graph_weights: a pointer and a bitrate per expert and projection.
PackGraph ==
  /\ route = "graph"
  /\ Packed([tables |-> [p \in Projections |-> OfAll(LAMBDA e : <<e, p>>)],
             bits   |-> [p \in Projections |-> OfAll(LAMBDA e : bits[<<e, p>>])]], owned)

KeepPerExpert == route \in {"exact", "perExpert"} /\ Packed("per expert", owned)

Stopped == pc \in {"done", "failed"} /\ UNCHANGED vars

Next ==
  \/ SelectRoute \/ StackTier \/ PrepareTiers
  \/ PackMixed \/ PackSlabs \/ PackFixed \/ PackGrouped \/ PackGraph \/ KeepPerExpert
  \/ Len(TierBits) # 2 /\ Refused("mixed")
  \/ Len(TierBits) # 1 /\ Refused("fixed")
  \/ Stopped

Spec == Init /\ [][Next]_vars

-----------------------------------------------------------------------------
\* The contributions the route's launches make for one payload of an expert:
\* the launch, the plane it reads and the bitrate it decodes it with.  Batches
\* outside the planned windows (Exl3Runtime) run by other launches: see
\* ParityContributions.
Contributions(x) ==
  CASE route \in {"tiers", "mixed", "slabs", "fixed"} ->
         LET t == pack.tiers[pack.descriptor[x][1]]
             i == pack.descriptor[x][2]
         IN {<<1, CASE x[2] = "w1" -> t.w13[i]
                    [] x[2] = "w3" -> t.w13[t.gates + i]
                    [] x[2] = "w2" -> t.w2[i], t.bits>>}
    [] route = "grouped" ->
         {<<g.bits, g.tables[x[2]][g.map[x[1]] + 1], g.bits[ProjectionIndex(x[2])]>> :
            g \in {h \in pack : h.map[x[1]] < h.size}}
    [] route = "graph" ->
         {<<1, pack.tables[x[2]][x[1] + 1], pack.bits[x[2]][x[1] + 1]>>}
    [] OTHER -> {<<1, x, bits[x]>>}

\* The eager launches of _apply_rank_sliced read the pointer tables and are told
\* the bitrates 3, 3, 3, whatever the layer's.
Parity == route \in {"slabs", "fixed"}
ParityBits == 3
ParityContributions(x) == {<<1, pack.tables[x[2]][x[1] + 1], ParityBits>>}

\* Whatever the mix of bitrates and the route, a token routed to an expert is
\* multiplied once by each of that expert's own matrices, rotated by the
\* expert's row and, but for the parity launches (ParityDecodes), decoded at the
\* matrix's bitrate (exl3.py: _prepare_r7_b12x_weights,
\* _prepare_r7_grouped_weights, _prepare_mixed_rank_sliced_weights,
\* _prepare_r7_graph_weights, _prepare_rank_sliced_weights).
ExpertsFound ==
  pc = "done" =>
    /\ \A x \in Payloads :
         /\ Cardinality(Contributions(x)) = 1
         /\ \A c \in Contributions(x) : c[2] = x /\ c[3] = bits[x]
         /\ Parity => \A c \in ParityContributions(x) : c[2] = x
    /\ route \in {"tiers", "mixed", "slabs", "fixed"} =>
         \A e \in Experts :
           /\ pack.combined[e] < pack.total
           /\ pack.combined[e] < Len(pack.rotations)
           /\ pack.rotations[pack.combined[e] + 1] = e

\* Packing refuses a layer only for bitrates its route does not take: no tier
\* ever looks for a tensor another tier has taken, and planes no tier holds are
\* never read.
RefusedForBitrates ==
  pc = "failed" =>
    \/ route = "unsupported" /\ ForceB12x /\ Len(TierBits) \notin {2, 3}
    \/ route = "mixed" /\ Len(TierBits) > 2
    \/ route = "fixed" /\ Len(TierBits) > 1

\* Experts are found where the kernel looks, or their bitrates are refused.
PackedOrRefused == ExpertsFound /\ RefusedForBitrates

\* The parity launches decode every matrix at its bitrate, as the layers they
\* serve may have any of them ("rank-sliced EXL3 requires an integral 3/4/5/6
\* bitrate", exl3.py:3340).
ParityDecodes ==
  pc = "done" /\ Parity => \A x \in Payloads : \A c \in ParityContributions(x) : c[3] = bits[x]

\* The pointers a route's kernels are given address tensors somebody still
\* holds ("PreparedExperts owns the compact slabs and rotation tables now. Drop
\* the loader-side aliases so each layer has exactly one payload owner",
\* exl3.py:4075).  The rank-sliced parity path reads all its tables.
Addressed ==
  CASE route \in {"slabs", "fixed"} -> Payloads \cup Rotations
    [] route \in {"grouped", "graph"} -> Payloads \cup Rotations
    [] OTHER -> {}
PointersLive == pc = "done" => Addressed \subseteq owned
=============================================================================

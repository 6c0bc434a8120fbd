----------------------------- MODULE Exl3Runtime -----------------------------
(* Running routed-expert layers after loading (exl3.py: Exl3MoEMethod.apply, *)
(* _rank_sliced_runtime, _mixed_rank_sliced_runtime, _r7_graph_runtime and   *)
(* the _apply_* methods).  A runtime (plans, staging, sort buffers) is       *)
(* planned at a layer's first batch, in the profile pass, and cached under a *)
(* key of what it depends on; CUDA graphs are captured later and may not     *)
(* plan.  A batch runs in one piece or in slices of the capacity planned.    *)
EXTENDS Integers, Sequences, FiniteSets

CONSTANTS
  Layers,       \* model, route and geometry of each layer
  Envs,         \* environments: minM, maxM, chunk, cap, prefill, fusedExt
  BatchLimits,  \* max_num_batched_tokens
  CaptureSizes  \* token counts captured as graphs

ASSUME LayersAssumption ==
  \A l \in Layers : l.model \in {"target", "draft"} /\ l.route \in {"uniform", "mixed", "r7"}

\* _positive_env_int; cap is 0 where it is unset
ASSUME EnvsAssumption ==
  \A e \in Envs :
    /\ e.minM \in Nat \ {0} /\ e.maxM \in Nat \ {0} /\ e.chunk \in Nat \ {0}
    /\ e.cap \in Nat /\ e.prefill \in BOOLEAN /\ e.fusedExt \in BOOLEAN

ASSUME SizesAssumption == BatchLimits \subseteq Nat \ {0} /\ CaptureSizes \subseteq Nat \ {0}

VARIABLES
  env, maxBatched,
  sharedConfig, \* is the draft built with the target's quantization config?
  stamped,      \* does the draft's construction stamp its layers?
  phase,        \* "profile", "capture", "serve" or "failed"
  profiled,     \* layers the profile pass has run
  runtimes,     \* the caches: key to what the runtime was planned with
  users,        \* key to the models whose layers used it
  policy,       \* mixed layers: the policy frozen at the first batch
  bound,        \* mixed layers: the runtime their weights are bound to
  lastRun       \* the last batch: its phase, layer, rows, pieces and outcome

vars == <<env, maxBatched, sharedConfig, stamped, phase, profiled, runtimes,
          users, policy, bound, lastRun>>

Min2(a, b) == IF a < b THEN a ELSE b
\* f[key] = value, for a key that may be new
Assign(f, key, value) ==
  [k \in DOMAIN f \cup {key} |-> IF k = key THEN value ELSE f[k]]

Init ==
  /\ env \in Envs /\ maxBatched \in BatchLimits
  \* load_eagle_model stamps the layers of a draft; a draft built without it has
  \* a config of its own.
  /\ sharedConfig \in BOOLEAN /\ stamped \in BOOLEAN
  /\ sharedConfig => stamped
  /\ phase = "profile"
  /\ profiled = {}
  /\ runtimes = <<>> /\ users = <<>>
  /\ policy = <<>> /\ bound = <<>>
  /\ lastRun = [at |-> "profile", layer |-> "none", m |-> 0, pieces |-> <<>>, outcome |-> "none"]

-----------------------------------------------------------------------------
(* Owners and keys.                                                          *)
Scope(l)   == IF l.model = "draft" /\ ~sharedConfig THEN "draft config" ELSE "config"
\* _is_draft_layer: a head named like a target layer is known by its stamp only.
IsDraft(l) == l.model = "draft" /\ stamped
ScopeOnly(l) == <<Scope(l)>>
OwnerToken(l) == <<Scope(l), IsDraft(l)>>

Capacity == IF env.cap = 0 THEN maxBatched ELSE env.cap   \* 0: unset

\* _resolve_prefill_capacity and the windows the runtimes refuse.
PrefillPlanned == env.prefill /\ maxBatched > env.maxM
ParityRows == IF PrefillPlanned THEN Min2(env.chunk, maxBatched) ELSE maxBatched
UniformPlannable ==
  /\ env.minM <= env.maxM
  /\ Capacity <= maxBatched
  /\ Min2(maxBatched, env.minM - 1) <= ParityRows
MixedDecode(e) == Min2(e.maxM, maxBatched)
MixedPlannable ==
  Capacity <= maxBatched /\ (maxBatched > MixedDecode(env) => env.prefill)
Plannable(l) ==
  CASE l.route = "uniform" -> UniformPlannable
    [] l.route = "mixed"   -> MixedPlannable
    [] l.route = "r7"      -> Capacity <= maxBatched

\* The key of a layer's runtime.
BatchKey(l, m) == <<l.route, OwnerToken(l), l.geometry, m>>
RuntimeKey(l, m) ==
  CASE l.route = "uniform" ->
         <<l.route, OwnerToken(l), l.geometry, maxBatched, env.minM, env.maxM, env.chunk,
           env.prefill, Capacity>>
    [] l.route = "mixed" ->
         <<l.route, OwnerToken(l), l.geometry, MixedDecode(env), maxBatched, Capacity>>
    [] l.route = "r7" -> <<l.route, OwnerToken(l), l.geometry, Capacity>>

-----------------------------------------------------------------------------
(* A batch of m rows: the pieces it runs in, each <<plan, start, stop>>.     *)
LastSliceFull(plan, m, size) ==
  [i \in 1 .. (m + size - 1) \div size |-> <<plan, (i - 1) * size, i * size>>]
Slices(plan, m, size) ==
  [i \in 1 .. (m + size - 1) \div size |->
     <<plan, (i - 1) * size, Min2(i * size, m)>>]
Whole(plan, m) == << <<plan, 0, m>> >>

InWindow(m) == env.minM <= m /\ m <= env.maxM
Parity(m) == ~InWindow(m) /\ ~(PrefillPlanned /\ m > env.maxM)

UniformPieces(m) ==
  CASE InWindow(m) -> Whole("trellis", m)
    [] PrefillPlanned /\ m > env.maxM -> Slices("prefill", m, Capacity)
    [] Parity(m) -> IF m > env.chunk /\ env.fusedExt THEN Whole("parity", m)
                    ELSE Slices("chunk", m, env.chunk)
MixedPieces(m) ==
  IF m <= MixedDecode(env) THEN Whole("decode", m) ELSE Slices("prefill", m, Capacity)
Pieces(l, m) ==
  CASE l.route = "uniform" -> UniformPieces(m)
    [] l.route = "mixed"   -> MixedPieces(m)
    [] l.route = "r7"      -> Slices("graph", m, Capacity)

Rows(plan) ==
  CASE plan = "trellis" -> env.maxM
    [] plan = "decode"  -> MixedDecode(env)
    [] plan = "prefill" -> Capacity
    [] plan = "parity"  -> ParityRows
    [] plan = "chunk"   -> Min2(env.chunk, ParityRows)
    [] plan = "graph"   -> Capacity

\* What stops a batch.
Stop(l, m, capturing) ==
  LET planned == RuntimeKey(l, m) \in DOMAIN runtimes
      parity  == l.route = "uniform" /\ Parity(m)
  IN IF ~planned /\ capturing THEN "unplanned"
     ELSE IF ~planned /\ ~Plannable(l) THEN "refused"
     ELSE IF m > maxBatched THEN "too large"
     ELSE IF parity /\ capturing THEN "eager"
     ELSE IF parity /\ m > ParityRows THEN "parity rows"
     ELSE "ok"

\* One layer's batch: look the runtime up or plan it, bind the layer, run.
Forward(l, m, capturing) ==
  LET key  == RuntimeKey(l, m)
      stop == Stop(l, m, capturing)
  IN /\ lastRun' = [at |-> phase, layer |-> l, m |-> m, outcome |-> stop,
                 pieces |-> IF stop = "ok" THEN Pieces(l, m) ELSE <<>>]
     /\ IF stop \in {"unplanned", "refused"}
        THEN UNCHANGED <<runtimes, users, policy, bound>>
        ELSE /\ runtimes' = IF key \in DOMAIN runtimes THEN runtimes
                            ELSE Assign(runtimes, key, l.geometry)
             /\ users' = Assign(users, key, {l.model} \cup IF key \in DOMAIN users
                                                          THEN users[key] ELSE {})
             /\ policy' = IF l.route # "mixed" \/ l \in DOMAIN policy THEN policy
                          ELSE Assign(policy, l, MixedDecode(env))
             /\ bound' = IF l.route # "mixed" THEN bound ELSE Assign(bound, l, key)

Profile(l) ==
  /\ phase = "profile" /\ l \notin profiled
  /\ Forward(l, maxBatched, FALSE)
  /\ profiled' = profiled \cup {l}
  /\ phase' = IF lastRun'.outcome = "ok" THEN phase ELSE "failed"
  /\ UNCHANGED <<env, maxBatched, sharedConfig, stamped>>

\* warmup_exl3_mixed_trellis_route_pack after the profile pass: every mixed
\* layer must have its runtime.
WarmRoutePack ==
  /\ phase = "profile" /\ profiled = Layers
  /\ phase' = IF \A l \in Layers : l.route = "mixed" => l \in DOMAIN bound
              THEN "capture" ELSE "failed"
  /\ UNCHANGED <<env, maxBatched, sharedConfig, stamped, profiled, runtimes, users,
                 policy, bound, lastRun>>

\* A graph is captured for a size the scheduler can batch; a raise ends startup.
Capture(l, m) ==
  /\ phase = "capture" /\ m <= maxBatched
  /\ Forward(l, m, TRUE)
  /\ phase' = IF lastRun'.outcome = "ok" THEN phase ELSE "failed"
  /\ UNCHANGED <<env, maxBatched, sharedConfig, stamped, profiled>>

StartServing ==
  /\ phase = "capture" /\ phase' = "serve"
  /\ UNCHANGED <<env, maxBatched, sharedConfig, stamped, profiled, runtimes, users,
                 policy, bound, lastRun>>

Serve(l, m) ==
  /\ phase = "serve"
  /\ Forward(l, m, FALSE)
  /\ UNCHANGED <<env, maxBatched, sharedConfig, stamped, phase, profiled>>

Stopped == phase = "failed" /\ UNCHANGED vars

Next ==
  \/ \E l \in Layers : Profile(l) \/ (\E m \in CaptureSizes : Capture(l, m))
                       \/ (\E m \in 1 .. maxBatched : Serve(l, m))
  \/ WarmRoutePack \/ StartServing \/ Stopped

Spec == Init /\ [][Next]_vars

-----------------------------------------------------------------------------
\* A batch that runs computes each of its rows in exactly one piece, and no
\* piece has more rows than its plan's buffers, for every window, chunk and
\* capacity the environment may set (exl3.py: _apply_rank_sliced,
\* _apply_mixed_rank_sliced, _apply_r7_graph).
RowsOnce ==
  lastRun.outcome = "ok" =>
    /\ \A r \in 0 .. lastRun.m - 1 :
         Cardinality({i \in DOMAIN lastRun.pieces :
                        lastRun.pieces[i][2] <= r /\ r < lastRun.pieces[i][3]}) = 1
    /\ \A i \in DOMAIN lastRun.pieces :
         /\ lastRun.pieces[i][3] <= lastRun.m
         /\ lastRun.pieces[i][3] - lastRun.pieces[i][2] \in 1 .. Rows(lastRun.pieces[i][1])

\* Once the profile pass has run every layer, nothing plans any more: a capture
\* stops only where it would take the eager parity path, and no batch the
\* scheduler may send is refused (exl3.py: the planning guards under capture).
NothingPlannedLate ==
  /\ lastRun.at = "capture" => lastRun.outcome \in {"ok", "eager"}
  /\ lastRun.at = "serve" => lastRun.outcome = "ok"

\* A cached runtime's mutable scratch serves the layers of one model: the graphs
\* of target and draft never write the same buffers, whether the draft has a
\* quantization config of its own or not (exl3.py: _runtime_owner_token).
ScratchOfOneModel == \A key \in DOMAIN users : Cardinality(users[key]) = 1

\* Scratch is planned before anything is captured and never shared by models.
ScratchSound == NothingPlannedLate /\ ScratchOfOneModel
=============================================================================

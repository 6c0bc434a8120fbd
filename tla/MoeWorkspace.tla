---------------------------- MODULE MoeWorkspace ----------------------------
(***************************************************************************)
(* The scratch of the fused MoE between its plans and its launches         *)
(* (b12x/moe/fused_moe/_impl.py).  Layers share one lane.  A behaviour is  *)
(* one way of owning the scratch:                                          *)
(*   "frozen"   a pool on one arena, materialised for its token counts;    *)
(*   "growing"  a pool without an arena that allocates and grows;          *)
(*   "scratch"  a TPMoEScratchPlan over bytes the caller lends.            *)
(* Binding and launching are two calls, and several layers may be bound    *)
(* before the first is launched.  Memory is a set of cells [lo, hi, tag]:  *)
(* the byte ranges whose contents are known.  What a launch writes is      *)
(* unknown afterwards, but for what its kernel settles.                    *)
(***************************************************************************)
EXTENDS MoeGeometry, FiniteSets
LOCAL INSTANCE SequencesExt

CONSTANTS
    Layers,      \* layers of the lane, strings: a layer tags its own data
    Tokens,      \* token counts of a launch
    Modes,       \* [kind, quant, micro, max, listed]: see Init
    LogitBytes,  \* width of a router logit
    MaxStores    \* bound: storages a growing pool allocates (a call asks for at most 2)

ASSUME WorkspaceAssumption == MaxStores \in Nat /\ LogitBytes \in {2, 4}

VARIABLES
    mode,     \* the element of Modes
    pool,     \* implementation -> workspace: the plan it is sized for, and where
    routes,   \* the pool's route buffers: tokens they hold, and where
    stores,   \* storages allocated; storage 0 is the shared arena
    mem,      \* storage -> cells
    bound,    \* layer -> the binding it holds
    last      \* what the last launch found

vars == <<mode, pool, routes, stores, mem, bound, last>>

Impls == {"micro", "dynamic"}

CountsOf(m) == ArenaTokenCounts(m.max, m.listed)
Largest(counts) == CHOOSE t \in counts : \A u \in counts : t >= u

\* constant tables: what a mode plans, and the arena it plans it in
Plans == [m \in Modes |-> [t \in Tokens \cup CountsOf(m) |-> ExecutionPlan(m.quant, m.micro, t)]]
Layouts == [m \in Modes |-> ArenaLayout(m.quant, m.micro, m.max, m.listed, LogitBytes)]

Plan(t) == Plans[mode][t]
Layout == Layouts[mode]
CapacityPlan == Plan(Largest(CountsOf(mode)))

(* A workspace holds the plan it is sized for and its views: the arena's   *)
(* core part starts behind the routing part.                               *)
Absent == [none |-> TRUE]
Workspace(plan, store) ==
    LET at == Map(CoreViews(mode.quant, plan), IF store = 0 THEN Layout.route ELSE 0)
    IN [none |-> FALSE, plan |-> plan, store |-> store, views |-> at.at,
        extent |-> [lo |-> IF store = 0 THEN Layout.route ELSE 0, hi |-> at.next]]

ViewNamed(ws, name) == ws.views[CHOOSE i \in DOMAIN ws.views : ws.views[i].name = name]

-----------------------------------------------------------------------------
(* Memory.                                                                 *)

Overlaps(c, v) == c.lo < v.hi /\ v.lo < c.hi
Outside(cells, v) == {c \in cells : ~Overlaps(c, v)}
Put(cells, v, tag) == Outside(cells, v) \cup {[lo |-> v.lo, hi |-> v.hi, tag |-> tag]}
Holds(cells, v, tag) == \E c \in cells : c.lo <= v.lo /\ v.hi <= c.hi /\ c.tag = tag

(* Mapping the views with init writes the zeroed ones.                     *)
ZeroInit(cells, ws) ==
    FoldLeft(LAMBDA acc, v : CASE v.init = "zeros" -> Put(acc, v, "zero")
                               [] v.init = "arange" -> Outside(acc, v)
                               [] OTHER -> acc,
             cells, ws.views)

CopyScales(cells, ws, layer) ==
    Put(Put(cells, ViewNamed(ws, "input_gs"), layer),
        ViewNamed(ws, "down_input_scale"), layer)

-----------------------------------------------------------------------------
(* Ownership.                                                              *)

(* One workspace per implementation: its state_E and max_rows are left out *)
(* of the pool's key.                                                      *)
MaterializedPool ==
    LET plans == SelectedPlans(mode.quant, mode.micro, CountsOf(mode))
    IN [impl \in Impls |->
           IF \E p \in plans : p.impl = impl
           THEN Workspace(CHOOSE p \in plans : p.impl = impl, 0) ELSE Absent]

MaterializedArena(workspaces) ==
    LET map(cells, impl) == IF workspaces[impl].none THEN cells
                            ELSE ZeroInit(cells, workspaces[impl])
    IN map(map({}, "micro"), "dynamic")

Init ==
    /\ mode \in Modes
    /\ pool = IF mode.kind = "frozen" THEN MaterializedPool
              ELSE [impl \in Impls |-> Absent]
    /\ routes = [tokens |-> 0, store |-> 0]
    /\ stores = 0
    /\ mem = [s \in 0 .. MaxStores + 2 |->
                 IF s = 0 /\ mode.kind = "frozen" THEN MaterializedArena(pool) ELSE {}]
    /\ bound = [l \in Layers |-> Absent]
    /\ last = [call |-> "none"]

-----------------------------------------------------------------------------
(* Each step of a call maps the lane's state to its next state.            *)

Lane == [pool |-> pool, routes |-> routes, stores |-> stores, mem |-> mem]

Becomes(lane) ==
    /\ pool' = lane.pool
    /\ routes' = lane.routes
    /\ stores' = lane.stores
    /\ mem' = lane.mem

\* mutation: the tiles and tasks of a plan go unchecked
CoversRows(have, plan) ==
    have.stateE >= plan.stateE /\ have.maxRows >= plan.maxRows /\ have.rows >= plan.rows

Covers(have, plan) ==
    /\ have.stateE >= plan.stateE
    /\ have.maxRows >= plan.maxRows
    /\ have.rows >= plan.rows
    /\ have.tiles >= plan.tiles
    /\ have.tasks >= plan.tasks

(* Growing keeps the larger of each capacity, and the new plan's tile.     *)
Grown(have, plan) ==
    [plan EXCEPT !.stateE = Larger(@, have.stateE), !.rows = Larger(@, have.rows),
                 !.maxRows = Larger(@, have.maxRows), !.tiles = Larger(@, have.tiles),
                 !.tasks = Larger(@, have.tasks)]

Ready(lane, plan) == ~lane.pool[plan.impl].none /\ Covers(lane.pool[plan.impl].plan, plan)
Refused(plan) == mode.kind = "frozen" /\ ~Ready(Lane, plan)

Resolve(lane, plan) ==
    LET have == lane.pool[plan.impl]
        ws == Workspace(IF have.none THEN plan ELSE Grown(have.plan, plan), lane.stores + 1)
    IN IF Ready(lane, plan) THEN lane
       ELSE [lane EXCEPT !.pool[plan.impl] = ws, !.stores = @ + 1,
                         !.mem[ws.store] = ZeroInit({}, ws)]

\* only a dynamic workspace holds scales; micro reads the layer's own
RefreshScales(lane, ws, layer) ==
    IF ws.plan.impl = "micro" THEN lane
    ELSE [lane EXCEPT !.mem[ws.store] = CopyScales(@, ws, layer)]

(* The pool's route buffers: at the start of the arena or allocated, and   *)
(* replaced when a call has more tokens than they hold.                    *)
RouteRange(tokens) == [lo |-> 0, hi |-> RouteBytes(tokens, LogitBytes)]

TakeRoutes(lane, t) ==
    IF t <= lane.routes.tokens THEN lane
    ELSE IF mode.kind = "frozen" THEN [lane EXCEPT !.routes = [tokens |-> t, store |-> 0]]
    ELSE [lane EXCEPT !.routes = [tokens |-> t, store |-> lane.stores + 1], !.stores = @ + 1]

RouteExperts(lane, layer, t) ==
    LET taken == TakeRoutes(lane, t)
    IN [taken EXCEPT !.mem[taken.routes.store] =
            Put(@, RouteRange(taken.routes.tokens), layer)]

-----------------------------------------------------------------------------
(* A launch.                                                               *)

Binding(ws, plan, t) == [none |-> FALSE, ws |-> ws, plan |-> plan, tokens |-> t]

(* Ways the tokens may spread over the experts: [experts, rows of each].   *)
Spread(rows, experts) ==
    LET more == rows % experts
    IN <<[experts |-> more, rows |-> rows \div experts + 1],
         [experts |-> experts - more, rows |-> rows \div experts]>>

Routings(t) ==
    {Spread(Rows(t), Experts), Spread(Rows(t), TopK)} \cup
    (IF Rows(t) < Experts THEN {}
     ELSE {Spread(Rows(t) - (Experts - TopK), TopK)
             \o <<[experts |-> Experts - TopK, rows |-> 1]>>})

(* The plan's choices reach the launch packed into one integer: bit 0 says *)
(* that the barrier is zeroed, bits 2 and 3 give the tile and bit 4 direct *)
(* routing; no route planner or cluster cap is asked for.                  *)
PolicyTiles == <<16, 32, 64, 128>>
EncodePolicy(plan) ==
    1 + 4 * ((CHOOSE i \in 1 .. 4 : PolicyTiles[i] = plan.tile) - 1)
      + 16 * (IF plan.direct THEN 1 ELSE 0)
DecodePolicyWord(word) ==
    [zeroed |-> word % 2 = 1, tile |-> PolicyTiles[((word \div 4) % 4) + 1],
     direct |-> (word \div 16) % 2 = 1]

LaunchPolicy(b) == DecodePolicyWord(EncodePolicy(b.plan))

\* the route plan: every expert's rows start on a tile of their own
UsedTiles(b, routing) ==
    IF LaunchPolicy(b).direct THEN Rows(b.tokens)
    ELSE FoldLeft(LAMBDA n, part : n + part.experts * Ceil(part.rows, LaunchPolicy(b).tile),
                  0, routing)

\* the rows the kernel is told its views hold
LaunchRows(b) == b.ws.plan.tiles * LaunchPolicy(b).tile

Holding(ws, extents) ==
    \A name \in DOMAIN extents :
        extents[name] <= ViewNamed(ws, name).hi - ViewNamed(ws, name).lo

DynamicFits(b, routing) ==
    LET used == UsedTiles(b, routing)
        have == b.ws.plan
    IN /\ used <= have.tiles
       /\ used * SliceGroups(mode.quant) <= have.tasks
       /\ Holding(b.ws, TaskExtents(LaunchRows(b), have.tiles, have.tasks))
       /\ Holding(b.ws, IF mode.quant = "w4a8_mx" THEN W4a8Extents(LaunchRows(b))
                        ELSE Nvfp4Extents(LaunchRows(b)))

MicroFits(b) ==
    LET live == [b.plan EXCEPT !.rows = Rows(b.tokens)]
        words == IF mode.quant = "w4a8_mx" THEN TrellisWords(live.rows) + TrellisTail(live.rows)
                 ELSE DirectWords(live.rows)
    IN /\ BarrierSlots(live) <= BarrierSlots(b.ws.plan)
       /\ words <= MicroWords(mode.quant, b.ws.plan)

(* The materialised W4A8 phases check their intermediate before a launch.  *)
DenseCandidate(b) ==
    Hidden % 256 = 0 /\ Inter % 32 = 0 /\ LaunchPolicy(b).tile \in {32, 64, 128}

Materialized(b) ==
    /\ mode.quant = "w4a8_mx" /\ b.plan.impl = "dynamic"
    /\ \/ DenseCandidate(b)
       \/ b.tokens = 1 /\ Hidden % 256 = 0 /\ DirectCandidate(Rows(1), LaunchPolicy(b).tile)

IntermediateTooSmall(b) ==
    /\ Materialized(b)
    /\ IntermediateStorage(mode.quant, b.ws.plan)
         < IntermediateBytes(mode.quant, LaunchRows(b))

InArena(ws) == ws.store = 0 => ws.extent.hi <= Layout.route + Layout.core

ZeroBarrier(cells, ws) ==
    Put(Put(cells, ViewNamed(ws, "barrier_count"), "zero"),
        ViewNamed(ws, "barrier_epoch"), "zero")

CounterTail(b) ==
    LET words == ViewNamed(b.ws, "micro_intermediate").lo
        rows == Rows(b.tokens)
    IN [lo |-> words + 4 * TrellisWords(rows),
        hi |-> words + 4 * (TrellisWords(rows) + TrellisTail(rows))]

HasCounters(b) == b.plan.impl = "micro" /\ mode.quant = "w4a8_mx"

(* Afterwards the views hold what the kernel left: unknown, but for the    *)
(* scales it only reads and the counters it restores.                      *)
Settle(cells, b, layer) ==
    LET left == Outside(cells, b.ws.extent)
    IN IF b.plan.impl = "dynamic" THEN CopyScales(left, b.ws, layer)
       ELSE IF HasCounters(b) THEN Put(left, CounterTail(b), "zero") ELSE left

(* What the kernel finds; routed is the range its expert ids are read      *)
(* from, or NotPooled when they are the caller's.                          *)
NotPooled == [lo |-> 0, hi |-> 0]

Report(lane, b, layer, routing, routed) ==
    LET cells == lane.mem[b.ws.store]
    IN [call |-> "launched",
        fits |-> /\ InArena(b.ws)
                 /\ IF b.plan.impl = "micro" THEN MicroFits(b) ELSE DynamicFits(b, routing),
        barrier |-> /\ Holds(cells, ViewNamed(b.ws, "barrier_count"), "zero")
                    /\ Holds(cells, ViewNamed(b.ws, "barrier_epoch"), "zero"),
        scales |-> b.plan.impl = "dynamic" =>
                      /\ Holds(cells, ViewNamed(b.ws, "input_gs"), layer)
                      /\ Holds(cells, ViewNamed(b.ws, "down_input_scale"), layer),
        routing |-> routed # NotPooled => Holds(lane.mem[lane.routes.store], routed, layer),
        counters |-> HasCounters(b) => Holds(cells, CounterTail(b), "zero")]

\* mutation: the scales are left as the last binding copied them
PrepareStale(lane, b, layer) ==
    [lane EXCEPT !.mem[b.ws.store] = ZeroBarrier(@, b.ws)]

(* b12x_moe_fp4: the scales are copied again, for another layer may have   *)
(* been bound since; the barrier words are zeroed with the launch.         *)
Prepare(lane, b, layer) ==
    LET refreshed == RefreshScales(lane, b.ws, layer)
    IN IF IntermediateTooSmall(b) THEN refreshed
       ELSE [refreshed EXCEPT !.mem[b.ws.store] = ZeroBarrier(@, b.ws)]

RunMoe(lane, b, layer, routing, routed) ==
    LET ready == Prepare(lane, b, layer)
    IN IF IntermediateTooSmall(b)
       THEN Becomes(ready) /\ last' = [call |-> "refused", tokens |-> b.tokens]
       ELSE /\ Becomes([ready EXCEPT !.mem[b.ws.store] = Settle(@, b, layer)])
            /\ last' = Report(ready, b, layer, routing, routed)

-----------------------------------------------------------------------------
(* Actions.                                                                *)

(* build_tp_moe_fp4_binding on a pool plans the live token count.          *)
BindPool(layer, t) ==
    LET plan == Plan(t)
        lane == Resolve(Lane, plan)
        ws == lane.pool[plan.impl]
    IN /\ mode.kind # "scratch"
       /\ t <= mode.max
       /\ lane.stores <= MaxStores
       /\ IF Refused(plan)
          THEN /\ last' = [call |-> "refused", tokens |-> t]
               /\ UNCHANGED <<pool, routes, stores, mem, bound>>
          ELSE /\ Becomes(RefreshScales(lane, ws, layer))
               /\ bound' = [bound EXCEPT ![layer] = Binding(ws, plan, t)]
               /\ UNCHANGED last
       /\ UNCHANGED mode

(* TPMoEScratchPlan.bind maps the capacity plan over the lent bytes, runs  *)
(* it whatever the live count is, and writes nothing but the scales.       *)
BindScratch(layer, t) ==
    LET ws == Workspace(CapacityPlan, 0)
    IN /\ mode.kind = "scratch"
       /\ IF Rows(t) > CapacityPlan.rows
          THEN /\ last' = [call |-> "refused", tokens |-> t]
               /\ UNCHANGED <<pool, routes, stores, mem, bound>>
          ELSE /\ Becomes(RefreshScales(Lane, ws, layer))
               /\ bound' = [bound EXCEPT ![layer] = Binding(ws, CapacityPlan, t)]
               /\ UNCHANGED last
       /\ UNCHANGED mode

(* b12x_moe_fp4 of a binding; it may be launched again.                    *)
Launch(layer) ==
    /\ ~bound[layer].none
    /\ \E routing \in Routings(bound[layer].tokens) :
          RunMoe(Lane, bound[layer], layer, routing, NotPooled)
    /\ UNCHANGED <<mode, bound>>

(* b12x_sparse_moe_fp4: route into the pool, bind, and launch on what was  *)
(* routed, in one call.                                                    *)
SparseMoe(layer, t) ==
    LET plan == Plan(t)
        routed == RouteExperts(Lane, layer, t)
        lane == Resolve(routed, plan)
        ws == lane.pool[plan.impl]
    IN /\ mode.kind # "scratch"
       /\ t <= mode.max
       /\ ~Refused(plan)
       /\ lane.stores <= MaxStores
       /\ \E routing \in Routings(t) :
             RunMoe(RefreshScales(lane, ws, layer), Binding(ws, plan, t), layer, routing,
                    RouteRange(t))
       /\ UNCHANGED <<mode, bound>>

(* The caller lends the same bytes to its other operators.                 *)
OtherUse ==
    /\ mode.kind = "scratch"
    /\ mem' = [mem EXCEPT ![0] = {}]
    /\ UNCHANGED <<mode, pool, routes, stores, bound, last>>

Next ==
    \/ \E l \in Layers, t \in Tokens : BindPool(l, t) \/ BindScratch(l, t) \/ SparseMoe(l, t)
    \/ \E l \in Layers : Launch(l)
    \/ OtherUse

Spec == Init /\ [][Next]_vars

-----------------------------------------------------------------------------
(* Every launch of a frozen pool or a scratch plan stays inside the tiles, *)
(* rows and tasks its views hold, however its tokens spread over experts.  *)
LaunchFits ==
    last.call = "launched" /\ mode.kind # "growing" => last.fits

(* A launch finds its barrier words zero, its own layer's scales, and the  *)
(* expert ids its own layer routed, although layers and implementations    *)
(* share the bytes and several are bound before one is launched.           *)
ReadsOwnState ==
    last.call = "launched" => last.barrier /\ last.scales /\ last.routing

(* _impl.py's planner comment: the geometry sized at planning matches what *)
(* the kernel indexes -- also after a pool has grown.                      *)
GrownLaunchFits == last.call = "launched" => last.fits

(* A pool materialised for a token count takes a launch of that count.     *)
PlannedCountsServed ==
    last.call = "refused" => last.tokens \notin CountsOf(mode)

(* The arrival counters of trellis micro decode start from zero.           *)
ArrivalCountersZero == last.call = "launched" => last.counters
=============================================================================

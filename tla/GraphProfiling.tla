--------------------------- MODULE GraphProfiling ---------------------------
(***************************************************************************)
(* The life of CUDA graphs on one rank: profile_cudagraph_memory captures a *)
(* sample into a throwaway pool on a minimal KV cache and must leave no     *)
(* trace; initialize_kv_cache and capture_model then build what serves.     *)
(*                                                                         *)
(* A KV cache is the number of the initialize_kv_cache that made it, 0 when *)
(* there is none.  An executable is a captured graph on the device: it      *)
(* reads the KV cache and the pool memory it was captured with.  reset()    *)
(* only asks for its destruction; the device has done it after a            *)
(* synchronize.                                                            *)
(***************************************************************************)
EXTENDS GraphDispatch, Sequences

CONSTANTS Cfg,           \* [manager -> configuration of GraphDispatch]
          Target,        \* the manager of the model runner; the others are the speculator's
          Samples,       \* _FULL_GRAPH_PROFILING_SAMPLES
          Early, Late,   \* piecewise wrappers built with the model, and by the first warmup
          Adaptive,      \* adaptive verification times dummy batches after the capture
          Batches,       \* batches the server, or the timing, may run
          MaxInits       \* bound: KV caches made

Managers == DOMAIN Cfg
Wrappers == Early \union Late
Global == "global"       \* current_platform.get_global_graph_pool()
Throwaway == "throwaway" \* graph_pool_handle() in the profiling

(* round_up divides by every query length a decode graph is captured for.   *)
ASSUME ConfigAssumption ==
    \A m \in Managers : Cfg[m].sizes \subseteq Nat /\ DecodeQueryLens(Cfg[m]) \subseteq Nat \ {0}

\* Python's None is no wrapper.
ASSUME NoValueAssumption ==
    NoValue \notin [pool : {Global, Throwaway},
                   graphs : SUBSET [owner : Wrappers, desc : {NoValue}, pool : {Global, Throwaway}, kv : Nat]]

VARIABLES
    pc,        \* where the start-up of the worker is
    kvCache,   \* the KV cache the runner holds
    inits,     \* KV caches made so far
    mgr,       \* [manager -> its object, or NoValue]
    wrapper,   \* [wrapper -> its object, or NoValue before it is built]
    platform,  \* platform_cls._global_graph_pool
    execs,     \* executables on the device
    held,      \* executables whose outputs and scratch Python still holds
    doomed,    \* executables reset() was called on
    used       \* pools something was ever captured into
profilingVars == <<pc, kvCache, inits, mgr, wrapper, platform, execs, held, doomed, used>>

NewManager == [pool |-> Global, graphs |-> {}, captured |-> FALSE, limit |-> NoValue]
NewWrapper == [pool |-> platform, graphs |-> {}]

ProfilingInit ==
    /\ pc = "extremes" /\ kvCache = 0 /\ inits = 0
    /\ mgr = [m \in Managers |-> NoValue]
    /\ wrapper = [w \in Wrappers |-> IF w \in Early THEN [pool |-> Global, graphs |-> {}] ELSE NoValue]
    /\ platform = Global
    /\ execs = {} /\ held = {} /\ doomed = {} /\ used = {}

Built == {w \in Wrappers : wrapper[w] # NoValue}

----------------------------------------------------------------------------
(***************************************************************************)
(* initialize_kv_cache: a new KV cache, a new manager of the runner, and    *)
(* new ones of the speculator (init_cudagraph_manager).                     *)
(***************************************************************************)
InitKv(next) ==
    /\ inits < MaxInits
    /\ inits' = inits + 1
    /\ kvCache' = inits'
    /\ mgr' = [m \in Managers |-> NewManager]
    /\ pc' = next
    /\ UNCHANGED <<wrapper, platform, execs, held, doomed, used>>

(***************************************************************************)
(* _teardown_profiling_state drops the KV cache and the runner's manager;   *)
(* the speculator keeps its managers until the next init.                   *)
(***************************************************************************)
TornDown(next) ==
    /\ kvCache' = 0
    /\ mgr' = [mgr EXCEPT ![Target] = NoValue]
    /\ pc' = next

\* The profile of the largest prefills needs a KV cache and captures nothing: its dummy runs are eager.
ExtremesInit == pc = "extremes" /\ InitKv("extremesRun")
ExtremesDone ==
    /\ pc = "extremesRun"
    /\ \E next \in {"profile", "dead"} : TornDown(next)
    /\ UNCHANGED <<inits, wrapper, platform, execs, held, doomed, used>>

\* _init_minimal_kv_cache_for_profiling may raise half way; then everything is torn down again.
ProfileInit == pc = "profile" /\ InitKv("swap")
ProfileInitFails ==
    /\ pc = "profile" /\ inits < MaxInits
    /\ inits' = inits + 1
    /\ TornDown("dead")
    /\ UNCHANGED <<wrapper, platform, execs, held, doomed, used>>

\* A mutant of SwapPools: wrappers built during the capture still find the platform's own pool.
SwapKnownPools ==
    /\ pc = "swap"
    /\ IF CaptureDescs(Cfg[Target]) = {}
       THEN UNCHANGED <<mgr, wrapper, platform>> /\ pc' = "reset"
       ELSE /\ mgr' = [m \in Managers |->
                         [mgr[m] EXCEPT !.pool = Throwaway,
                                        !.limit = IF m = Target THEN Samples ELSE @]]
            /\ wrapper' = [w \in Wrappers |->
                             IF w \in Built THEN [wrapper[w] EXCEPT !.pool = Throwaway] ELSE NoValue]
            /\ platform' = platform
            /\ pc' = "capture"
    /\ UNCHANGED <<kvCache, inits, execs, held, doomed, used>>

(***************************************************************************)
(* Every place a capture could take its pool from is pointed to the         *)
(* throwaway pool: the managers, the platform (for wrappers built later)    *)
(* and the wrappers there are.  The runner's manager captures a sample.     *)
(***************************************************************************)
SwapPools ==
    /\ pc = "swap"
    /\ IF CaptureDescs(Cfg[Target]) = {}
       THEN UNCHANGED <<mgr, wrapper, platform>> /\ pc' = "reset"
       ELSE /\ mgr' = [m \in Managers |->
                         [mgr[m] EXCEPT !.pool = Throwaway,
                                        !.limit = IF m = Target THEN Samples ELSE @]]
            /\ wrapper' = [w \in Wrappers |->
                             IF w \in Built THEN [wrapper[w] EXCEPT !.pool = Throwaway] ELSE NoValue]
            /\ platform' = Throwaway
            /\ pc' = "capture"
    /\ UNCHANGED <<kvCache, inits, execs, held, doomed, used>>

----------------------------------------------------------------------------
(***************************************************************************)
(* capture_model: the runner's manager, then the speculator's; in each, the *)
(* piecewise graphs first, then the full ones, the largest first.           *)
(***************************************************************************)
Executable(owner, desc, pool) == [owner |-> owner, desc |-> desc, pool |-> pool, kv |-> kvCache]

FullDescs(m) ==
    LET full == {d \in CaptureDescs(Cfg[m]) : d.mode = "FULL"}
        larger(d) == {e \in full : e.tokens > d.tokens}
    IN  IF mgr[m].limit = NoValue THEN full
        ELSE {d \in full : Cardinality(larger(d)) < mgr[m].limit}

Capturing == pc \in {"capture", "production"}
Turn(m) == /\ Capturing /\ ~mgr[m].captured
           /\ m # Target => mgr[Target].captured

Launched(e) == /\ execs' = execs \union {e} /\ held' = held \union {e} /\ used' = used \union {e.pool}

\* The first warmup builds the wrappers that were not there: they take the platform's pool.
BuildWrapper ==
    /\ Turn(Target)
    /\ \E w \in Wrappers \ Built :
         wrapper' = [wrapper EXCEPT ![w] = NewWrapper]
    /\ UNCHANGED <<pc, kvCache, inits, mgr, platform, execs, held, doomed, used>>

CapturePiecewise ==
    /\ Turn(Target) /\ Wrappers = Built
    /\ \E w \in Wrappers :
         /\ MixedMode(Cfg[Target].mode) = "PIECEWISE" /\ wrapper[w].graphs = {}
         /\ LET e == Executable(w, NoValue, wrapper[w].pool)
            IN  /\ Launched(e)
                /\ wrapper' = [wrapper EXCEPT ![w].graphs = {e}]
    /\ UNCHANGED <<pc, kvCache, inits, mgr, platform, doomed>>

PiecewiseDone(m) ==
    m = Target /\ MixedMode(Cfg[m].mode) = "PIECEWISE" =>
        Wrappers = Built /\ \A w \in Wrappers : wrapper[w].graphs # {}

CaptureFull(m) ==
    /\ Turn(m) /\ PiecewiseDone(m)
    /\ \E d \in FullDescs(m) \ {e.desc : e \in mgr[m].graphs} :
         /\ \A f \in FullDescs(m) : f.tokens > d.tokens => f \in {e.desc : e \in mgr[m].graphs}
         /\ LET e == Executable(m, d, mgr[m].pool)
            IN  /\ Launched(e)
                /\ mgr' = [mgr EXCEPT ![m].graphs = @ \union {e}]
    /\ UNCHANGED <<pc, kvCache, inits, wrapper, platform, doomed>>

CaptureDone(m) ==
    /\ Turn(m) /\ PiecewiseDone(m)
    /\ FullDescs(m) = {e.desc : e \in mgr[m].graphs}
    /\ mgr' = [mgr EXCEPT ![m].captured = TRUE]
    /\ UNCHANGED <<pc, kvCache, inits, wrapper, platform, execs, held, doomed, used>>

AllCaptured == \A m \in Managers : mgr[m].captured

ProfileCaptured ==
    /\ pc = "capture" /\ AllCaptured
    /\ pc' = "reset"
    /\ UNCHANGED <<kvCache, inits, mgr, wrapper, platform, execs, held, doomed, used>>

\* A warmup, a capture or the timing of dummy batches raises: the same cleaning up runs on the way out.
ProfileRaises ==
    /\ pc = "capture"
    /\ pc' = "resetDying"
    /\ UNCHANGED <<kvCache, inits, mgr, wrapper, platform, execs, held, doomed, used>>

----------------------------------------------------------------------------
Dying == pc \in {"resetDying", "clearDying", "teardownDying"}

\* A mutant of ResetGraphs: the piecewise wrappers are not reset before they are cleared.
ResetManagersOnly ==
    /\ pc \in {"reset", "resetDying"}
    /\ doomed' = doomed \union (UNION {mgr[m].graphs : m \in Managers})
    /\ execs' = execs \ doomed'
    /\ pc' = IF Dying THEN "clearDying" ELSE "clear"
    /\ UNCHANGED <<kvCache, inits, mgr, wrapper, platform, held, used>>

\* Every graph that can be reached is reset, and the device synchronized.
ResetGraphs ==
    /\ pc \in {"reset", "resetDying"}
    /\ doomed' = doomed \union (UNION {wrapper[w].graphs : w \in Built}) \union (UNION {mgr[m].graphs : m \in Managers})
    /\ execs' = execs \ doomed'
    /\ pc' = IF Dying THEN "clearDying" ELSE "clear"
    /\ UNCHANGED <<kvCache, inits, mgr, wrapper, platform, held, used>>

\* Only then are the graphs and what their captures allocated let go, and the pools put back.
ClearGraphs ==
    /\ pc \in {"clear", "clearDying"}
    /\ held' = held \ ((UNION {wrapper[w].graphs : w \in Built}) \union (UNION {mgr[m].graphs : m \in Managers}))
    /\ wrapper' = [w \in Wrappers |-> IF w \in Built THEN [pool |-> Global, graphs |-> {}] ELSE NoValue]
    /\ mgr' = [m \in Managers |-> [mgr[m] EXCEPT !.graphs = {}, !.captured = FALSE, !.pool = Global]]
    /\ platform' = Global
    /\ pc' = IF Dying THEN "teardownDying" ELSE "teardown"
    /\ UNCHANGED <<kvCache, inits, execs, doomed, used>>

\* A mutant of TeardownProfile: the profiling KV cache and the sampling manager live on.
KeepRunner ==
    /\ pc \in {"teardown", "teardownDying"}
    /\ pc' = IF Dying THEN "dead" ELSE "production"
    /\ mgr' = mgr /\ kvCache' = kvCache
    /\ UNCHANGED <<inits, wrapper, platform, execs, held, doomed, used>>

TeardownProfile ==
    /\ pc \in {"teardown", "teardownDying"}
    /\ TornDown(IF Dying THEN "dead" ELSE "load")
    /\ UNCHANGED <<inits, wrapper, platform, execs, held, doomed, used>>

ProductionInit == pc = "load" /\ InitKv("production")
ProductionCaptured ==
    /\ pc = "production" /\ AllCaptured
    /\ pc' = "serve"
    /\ UNCHANGED <<kvCache, inits, mgr, wrapper, platform, execs, held, doomed, used>>

ProfilingNext ==
    \/ ExtremesInit \/ ExtremesDone \/ ProfileInit \/ ProfileInitFails \/ SwapPools
    \/ BuildWrapper \/ CapturePiecewise
    \/ \E m \in Managers : CaptureFull(m) \/ CaptureDone(m)
    \/ ProfileCaptured \/ ProfileRaises \/ ResetGraphs \/ ClearGraphs \/ TeardownProfile
    \/ ProductionInit \/ ProductionCaptured

ProfilingSpec == ProfilingInit /\ [][ProfilingNext]_profilingVars

----------------------------------------------------------------------------
\* A mutant of CapturedTokenCounts: every size that would be captured.
PlannedTokenCounts(m) == {d.tokens : d \in CaptureDescs(Cfg[m])}

\* captured_token_counts(): what adaptive verification makes its dummy batches from.
CapturedTokenCounts(m) == {e.desc.tokens : e \in mgr[m].graphs}

\* The batches a manager may be asked about now.
Asked(m) ==
    CASE pc = "serve" -> Batches
      [] Capturing /\ Adaptive /\ m = Target /\ AllCaptured ->
             {b \in Batches : b.tokens \in CapturedTokenCounts(m)}
      [] OTHER -> {}

(* A full graph that dispatch picks was captured (run_fullgraph asserts it), *)
(* against the KV cache the runner holds, and is still on the device: also   *)
(* for the timing batches of a profile that captured only a sample.          *)
ReplaysCaptured ==
    \A m \in Managers : \A b \in Asked(m) :
        LET d == Dispatch(Cfg[m], mgr[m].captured, b)
        IN  d.mode = "FULL" => \E e \in mgr[m].graphs : e.desc = d /\ e.kv = kvCache /\ e \in execs

(* The memory of a capture is not released while the device may still run    *)
(* it: what is let go has been reset and synchronized.                       *)
ReleasedAfterReset == execs \subseteq held

(* The persistent pool never loses its last graph: the allocator could not   *)
(* use it again.  Only the profiling discards graphs, so none of them is in  *)
(* it, and what serves is in no other.                                       *)
GlobalPoolKept ==
    /\ Global \in used => \E e \in held : e.pool = Global
    /\ pc = "serve" => \A e \in execs : e.pool = Global

\* Only captured graphs are replayed, and profiling gives back what it took and
\* no more.
ProfilingSound == ReplaysCaptured /\ ReleasedAfterReset /\ GlobalPoolKept
=============================================================================

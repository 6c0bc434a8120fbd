----------------------------- MODULE CkvPrefetch -----------------------------
(***************************************************************************)
(* The gathered-KV prefill path of b12x_mla_sparse.py.  Before a layer     *)
(* attends, the KV cache of every rank is gathered into one buffer of a    *)
(* ring; while that layer computes, the next layers are gathered ahead on  *)
(* a side stream.                                                          *)
(*                                                                         *)
(* A rank is a host, which decides and enqueues, and a GPU, whose streams  *)
(* run their operations in order and wait for one another only where an    *)
(* operation says so.  An event is a mark: stream s has completed n        *)
(* operations.  The k-th collective a rank starts on a communicator meets  *)
(* the k-th of every other rank, whatever it is.                           *)
(*                                                                         *)
(* A cache is abstracted to the set of steps whose chunk of KV it holds,   *)
(* a registered cache tensor to the binding (epoch) it belongs to.         *)
(***************************************************************************)
EXTENDS Naturals, Sequences, FiniteSets, SequencesExt

CONSTANTS
  GroupRanks,
  LastLayer,
  MergeLayers,  \* layers whose indexer merges its top-k over the DCP group
  Depth,        \* _ckv_prefetch_depth
  MaxRings,     \* max_slots of the workspace pool
  Builders,     \* metadata builders, each with a registry of its own
  Scripts,      \* the sequences of steps to consider
  MaxSteps,     \* the length of the longest
  Ahead,        \* a host issues while its main stream has fewer operations queued
  None

(***************************************************************************)
(* A step of a script is one of                                            *)
(*   [kind |-> "gather", builder, fresh, layers]  an eligible prefill that *)
(*      executes the first layers layers (fewer than all: it raised), with *)
(*      a new view of the workspace when fresh                             *)
(*   [kind |-> "plain", builder]  a step that does not gather              *)
(*   [kind |-> "rebind"]          the KV cache is replaced                 *)
(***************************************************************************)
Layers == 0 .. LastLayer

ASSUME PrefetchAssumption ==
  /\ LastLayer \in Nat /\ Depth \in Nat
  /\ MaxRings \in Nat \ {0} /\ Ahead \in Nat \ {0}
  /\ MergeLayers \subseteq Layers
  /\ \A s \in Scripts : Len(s) <= MaxSteps

VARIABLES
  script,
  host,       \* per rank: the step, what comes next in it, and the layer
  lane,       \* per rank: the _CKVPrefetchState of the lane, or None
  bound,      \* per rank: builders whose registry adopted the pool's states
  leased,     \* per rank: rings of the pool in use
  view,       \* per rank: how often the workspace view changed
  epoch,      \* per rank: which KV cache is bound
  written,    \* per rank and layer: steps whose chunk the host has issued
  queue,      \* per rank and stream: operations issued and not completed
  done,       \* per rank and stream: how many are completed
  posted,     \* per rank and communicator: collectives started
  cache,      \* per rank and layer: steps whose chunk is in the cache
  staging,    \* per rank and ring: the local buffer
  slots       \* per rank, ring and slot: the gathered piece of every rank

hostVars == <<script, host, lane, bound, leased, view, epoch, written>>
dataVars == <<cache, staging, slots>>
vars     == <<hostVars, queue, done, posted, dataVars>>

Main    == 0
Streams == Main .. MaxSteps     \* every state makes a side stream of its own
Rings   == 1 .. MaxRings
Comms   == {"dcp", "prefetch"}

\* _ckv_prefetch_ring_slots, and the slot of a layer
RingSlots      == Depth + 1
SlotOf(layer)  == layer % RingSlots

Piece(layer, steps) == [layer |-> layer, steps |-> steps]

NoPending == [l \in Layers |-> None]

Init ==
  /\ script \in Scripts
  /\ host = [r \in GroupRanks |-> [step |-> 1, at |-> "build", layer |-> 0]]
  /\ lane = [r \in GroupRanks |-> None]
  /\ bound = [r \in GroupRanks |-> {}]
  /\ leased = [r \in GroupRanks |-> {}]
  /\ view = [r \in GroupRanks |-> 0]
  /\ epoch = [r \in GroupRanks |-> 0]
  /\ written = [r \in GroupRanks |-> [l \in Layers |-> {}]]
  /\ queue = [r \in GroupRanks |-> [s \in Streams |-> <<>>]]
  /\ done = [r \in GroupRanks |-> [s \in Streams |-> 0]]
  /\ posted = [r \in GroupRanks |-> [c \in Comms |-> <<>>]]
  /\ cache = [r \in GroupRanks |-> [l \in Layers |-> {}]]
  /\ staging = [r \in GroupRanks |-> [g \in Rings |-> Piece(0, {})]]
  /\ slots = [r \in GroupRanks |-> [g \in Rings |->
                [i \in 0 .. Depth |-> [q \in GroupRanks |-> Piece(0, {})]]]]

-----------------------------------------------------------------------------
\* Operations.  "after" holds the marks an operation waits for, "turn" is the
\* place of a started collective among those of its rank and communicator.

Op(name, layer) ==
  [op |-> name, layer |-> layer, after |-> {}, ring |-> 1, slot |-> SlotOf(layer),
   comm |-> None, turn |-> 0, step |-> 0, steps |-> {}, epoch |-> 0]

WriteChunk(layer, step) == [Op("write", layer) EXCEPT !.step = step]
MergeTopk(layer, step)  == [Op("merge", layer) EXCEPT !.comm = "dcp", !.step = step]
Wait(marks)             == [Op("wait", 0) EXCEPT !.after = marks]

\* _dcp_gather_ckv: cp_gather_cache into the local buffer, then all_gather.
Gather(layer, step, ring, ep, comm, marks) ==
  << [Op("stage", layer) EXCEPT !.ring = ring, !.epoch = ep, !.after = marks],
     [Op("gather", layer) EXCEPT !.ring = ring, !.comm = comm, !.step = step] >>

\* _append_current_chunk_to_gathered
AppendChunk(layer, step, ring, marks) ==
  [Op("append", layer) EXCEPT !.ring = ring, !.step = step, !.after = marks]

\* Attention over the gathered buffer; steps is what it must find there.
Attend(layer, steps, ring) == [Op("attend", layer) EXCEPT !.ring = ring, !.steps = steps]

Issued(r, s)     == done[r][s] + Len(queue[r][s])
Reached(r, mark) == done[r][mark.stream] >= mark.count
Marks(pending)   == {pending[l] : l \in {k \in Layers : pending[k] # None}}

\* Mutant: the side stream does not wait for the main stream.
MainSoFar_None(r, more) == {}

\* stream.wait_stream(current_stream()): everything on main, with more ops
\* about to be issued before it.
MainSoFar(r, more) == {[stream |-> Main, count |-> Issued(r, Main) + more]}

Enqueue(r, s, ops) == [queue EXCEPT ![r][s] = @ \o ops]

-----------------------------------------------------------------------------
\* The prefetch state of a lane.

\* _CKVPrefetchState.begin_step: what main waits for, and what is left.
PendingWaits(st) == IF Marks(st.pending) = {} THEN <<>> ELSE <<Wait(Marks(st.pending))>>
Begun(st)        == [st EXCEPT !.pending = NoPending, !.last = None]

\* Mutant: only the metadata builder begins a step.
StartsOver_Never(st, layer) == FALSE

\* enter_layer begins a step by itself when the layers start over.
StartsOver(st, layer) == st.last # None /\ layer <= st.last

\* A new state: no caches known, a ring of the pool, a side stream of its own.
NewLane(r, ring) ==
  [view |-> view[r], ring |-> ring, stream |-> host[r].step,
   caches |-> [l \in Layers |-> None], pending |-> NoPending, last |-> None]

\* for_workspace keeps the state of an unchanged view and retires the other.
Stale(r) == lane[r] # None /\ lane[r].view # view[r]

\* Mutant: close only clears what is pending.
Closable_Always(r) == TRUE

\* close: the host blocks until the gathers still pending are complete ...
Closable(r) == lane[r] # None => \A m \in Marks(lane[r].pending) : Reached(r, m)

\* Mutant: a retired state keeps its ring.
Released_Kept(r) == leased[r]

\* ... and the ring goes back to the pool.
Released(r) == IF lane[r] = None THEN leased[r] ELSE leased[r] \ {lane[r].ring}

\* _ckv_prefetch_target_indices: up to the first layer whose cache is not
\* known, without those already under way.
Targets(st, layer) ==
  {t \in Layers : /\ t - layer \in 1 .. Depth
                  /\ st.pending[t] = None
                  /\ \A k \in layer + 1 .. t : st.pending[k] # None \/ st.caches[k] # None}

-----------------------------------------------------------------------------
\* The host

Step(r)       == script[host[r].step]
Active(r, at) == /\ host[r].step <= Len(script) /\ host[r].at = at
                 /\ Len(queue[r][Main]) < Ahead

Goto(r, at, layer) == host' = [host EXCEPT ![r].at = at, ![r].layer = layer]
NextStep(r) ==
  host' = [host EXCEPT ![r] = [step |-> @.step + 1, at |-> "build", layer |-> 0]]

\* The metadata builder begins the step on every state its registry knows.
Build(r) ==
  LET known == Step(r).builder \in bound[r] /\ lane[r] # None IN
  /\ Active(r, "build") /\ Step(r).kind # "rebind"
  /\ queue' = IF known THEN Enqueue(r, Main, PendingWaits(lane[r])) ELSE queue
  /\ lane'  = IF known THEN [lane EXCEPT ![r] = Begun(@)] ELSE lane
  /\ view'  = IF Step(r).kind = "gather" /\ Step(r).fresh
                THEN [view EXCEPT ![r] = @ + 1] ELSE view
  /\ Goto(r, "write", 0)
  /\ UNCHANGED <<script, bound, leased, epoch, written, done, posted, dataVars>>

\* A layer stores this step's chunk in its cache and merges its top-k.
IssueWrite(r) ==
  LET l == host[r].layer
      merge == IF l \in MergeLayers THEN <<MergeTopk(l, host[r].step)>> ELSE <<>> IN
  /\ Active(r, "write")
  /\ queue' = Enqueue(r, Main, <<WriteChunk(l, host[r].step)>> \o merge)
  /\ written' = [written EXCEPT ![r][l] = @ \union {host[r].step}]
  /\ IF Step(r).kind = "gather" THEN Goto(r, "bind", l)
     ELSE IF l + 1 \in Layers THEN Goto(r, "write", l + 1)
     ELSE NextStep(r)
  /\ UNCHANGED <<script, lane, bound, leased, view, epoch, done, posted, dataVars>>

\* for_workspace and get_ckv_workspace.  An exhausted pool raises: the host
\* stops here.
BindLane(r) ==
  /\ Active(r, "bind")
  /\ bound' = [bound EXCEPT ![r] = @ \union {Step(r).builder}]
  /\ IF lane[r] # None /\ ~Stale(r) THEN UNCHANGED <<lane, leased>>
     ELSE /\ Closable(r)
          /\ \E ring \in Rings \ Released(r) :
               /\ lane' = [lane EXCEPT ![r] = NewLane(r, ring)]
               /\ leased' = [leased EXCEPT ![r] = Released(r) \union {ring}]
  /\ Goto(r, "attend", host[r].layer)
  /\ UNCHANGED <<script, view, epoch, written, queue, done, posted, dataVars>>

\* Mutant: the side stream shares the DCP communicator.
SideComm_Shared == "dcp"

\* The communicator of a gather on the main stream and on a side stream.
MainComm == "dcp"
SideComm == "prefetch"

\* forward_mqa: use the buffer gathered ahead and append the current chunk, or
\* gather now; then gather ahead on the side stream; then attend.
IssueAttend(r) ==
  LET l     == host[r].layer
      over  == StartsOver(lane[r], l)
      st    == [(IF over THEN Begun(lane[r]) ELSE lane[r]) EXCEPT
                  !.last = l, !.caches[l] = epoch[r]]
      ready == st.pending[l]
      now   == (IF over THEN PendingWaits(lane[r]) ELSE <<>>) \o
               (IF ready # None
                  THEN <<AppendChunk(l, host[r].step, st.ring, {ready})>>
                  ELSE Gather(l, host[r].step, st.ring, epoch[r], MainComm,
                              Marks(st.pending)))
      st1   == [st EXCEPT !.pending[l] = None]
      goals == SetToSortSeq(Targets(st1, l), LAMBDA a, b : a < b)
      ahead == [n \in DOMAIN goals |->
                  Gather(goals[n], host[r].step, st.ring, st.caches[goals[n]], SideComm,
                         MainSoFar(r, Len(now)))]
      mark(n) == [stream |-> st.stream, count |-> Issued(r, st.stream) + 2 * n]
  IN
  /\ Active(r, "attend")
  /\ queue' = [queue EXCEPT
       ![r][Main] = @ \o now \o <<Attend(l, written[r][l], st.ring)>>,
       ![r][st.stream] = @ \o FlattenSeq(ahead)]
  /\ lane' = [lane EXCEPT ![r] = [st1 EXCEPT
       !.pending = [t \in Layers |->
         IF \E n \in DOMAIN goals : goals[n] = t
           THEN mark(CHOOSE n \in DOMAIN goals : goals[n] = t) ELSE @[t]]]]
  /\ IF l + 1 < Step(r).layers THEN Goto(r, "write", l + 1) ELSE NextStep(r)
  /\ UNCHANGED <<script, bound, leased, view, epoch, written, done, posted, dataVars>>

\* reset_kv_cache_binding_state while the runner replaces the KV cache: the
\* registries are cleared, and the new cache is empty.  The device is idle.
Rebind(r) ==
  /\ Active(r, "build") /\ Step(r).kind = "rebind"
  /\ \A s \in Streams : queue[r][s] = <<>>
  /\ lane' = [lane EXCEPT ![r] = None]
  /\ leased' = [leased EXCEPT ![r] = Released(r)]
  /\ epoch' = [epoch EXCEPT ![r] = @ + 1]
  /\ written' = [written EXCEPT ![r] = [l \in Layers |-> {}]]
  /\ cache' = [cache EXCEPT ![r] = [l \in Layers |-> {}]]
  /\ NextStep(r)
  /\ UNCHANGED <<script, bound, view, queue, done, posted, staging, slots>>

-----------------------------------------------------------------------------
\* The GPU

Ready(r, s) ==
  queue[r][s] # <<>> /\ \A m \in Head(queue[r][s]).after : Reached(r, m)

Complete(r, s) ==
  /\ queue' = [queue EXCEPT ![r][s] = Tail(@)]
  /\ done' = [done EXCEPT ![r][s] = @ + 1]
  /\ UNCHANGED <<hostVars, posted>>

Collective(o) == o.comm # None

RunLocal(r, s) ==
  /\ Ready(r, s) /\ ~Collective(Head(queue[r][s]))
  /\ LET o == Head(queue[r][s]) IN
     CASE o.op = "write" ->
            /\ cache' = [cache EXCEPT ![r][o.layer] = @ \union {o.step}]
            /\ UNCHANGED <<staging, slots>>
       [] o.op = "stage" ->   \* a cache that was replaced holds nothing of use
            /\ staging' = [staging EXCEPT ![r][o.ring] =
                 Piece(o.layer, IF o.epoch = epoch[r] THEN cache[r][o.layer] ELSE {})]
            /\ UNCHANGED <<cache, slots>>
       [] o.op = "append" ->  \* into the piece of every rank
            /\ slots' = [slots EXCEPT ![r][o.ring][o.slot] =
                 [q \in GroupRanks |-> [@[q] EXCEPT !.steps = @ \union {o.step}]]]
            /\ UNCHANGED <<cache, staging>>
       [] OTHER -> UNCHANGED dataVars
  /\ Complete(r, s)

Tag(o) == [op |-> o.op, layer |-> o.layer, step |-> o.step]

\* A collective starts: this rank's part is what its local buffer holds.
Post(r, s) ==
  LET o == Head(queue[r][s]) IN
  /\ Ready(r, s) /\ Collective(o) /\ o.turn = 0
  /\ posted' = [posted EXCEPT ![r][o.comm] =
       Append(@, [tag |-> Tag(o), part |-> staging[r][o.ring]])]
  /\ queue' = [queue EXCEPT ![r][s][1].turn = Len(posted[r][o.comm]) + 1]
  /\ UNCHANGED <<hostVars, done, dataVars>>

\* ... and completes once the collective of that turn started everywhere.
Meet(r, s) ==
  LET o == Head(queue[r][s]) IN
  /\ Ready(r, s) /\ Collective(o) /\ o.turn > 0
  /\ \A q \in GroupRanks : Len(posted[q][o.comm]) >= o.turn
  /\ slots' = IF o.op = "gather"
       THEN [slots EXCEPT ![r][o.ring][o.slot] =
               [q \in GroupRanks |-> posted[q][o.comm][o.turn].part]]
       ELSE slots
  /\ UNCHANGED <<cache, staging>>
  /\ Complete(r, s)

-----------------------------------------------------------------------------
Finished ==
  /\ \A r \in GroupRanks : host[r].step > Len(script)
  /\ \A r \in GroupRanks, s \in Streams : queue[r][s] = <<>>

HostNext(r) ==
  Build(r) \/ IssueWrite(r) \/ BindLane(r) \/ IssueAttend(r) \/ Rebind(r)

GpuNext(r, s) == RunLocal(r, s) \/ Post(r, s) \/ Meet(r, s)

Next == \E r \in GroupRanks : HostNext(r) \/ \E s \in Streams : GpuNext(r, s)

\* A host that can go on does, and so does every stream of a GPU.
Spec ==
  /\ Init /\ [][Next]_vars
  /\ \A r \in GroupRanks : WF_vars(HostNext(r))
  /\ \A r \in GroupRanks, s \in Streams : WF_vars(GpuNext(r, s))

-----------------------------------------------------------------------------
\* Shapes, and what is pending is the next few layers after the current one.
TypeOK ==
  /\ script \in Scripts
  /\ \A r \in GroupRanks :
       /\ host[r].at \in {"build", "write", "bind", "attend"} /\ host[r].layer \in Layers
       /\ bound[r] \subseteq Builders /\ leased[r] \subseteq Rings
       /\ \A l \in Layers : cache[r][l] \subseteq written[r][l]
       /\ lane[r] # None =>
            /\ lane[r].ring \in leased[r]
            /\ \A l \in Layers : lane[r].pending[l] # None =>
                 lane[r].last # None /\ l - lane[r].last \in 1 .. Depth

\* Attention over a gathered buffer finds there the KV of its own layer, from
\* every rank, with the chunk of every step so far: neither the history nor
\* the chunk of this step is missing, although the gather was started before
\* this layer wrote its chunk (_dcp_gather_ckv, _append_current_chunk_to_gathered).
AttendWhole ==
  \A r \in GroupRanks :
    Ready(r, Main) /\ Head(queue[r][Main]).op = "attend" =>
      LET o == Head(queue[r][Main]) IN
      \A q \in GroupRanks : /\ slots[r][o.ring][o.slot][q].layer = o.layer
                       /\ o.steps \subseteq slots[r][o.ring][o.slot][q].steps

\* What an operation reads and writes of a ring: its staging, or a slot.
\* A stage also reads the cache, where a write of the current chunk may be
\* under way: those records are appended anew after the gather.
Reads(o)  == CASE o.op = "gather" -> {<<"local", o.ring>>}
               [] o.op = "attend" -> {<<"slot", o.ring, o.slot>>}
               [] OTHER -> {}
Writes(o) == CASE o.op = "stage" -> {<<"local", o.ring>>}
               [] o.op \in {"gather", "append"} -> {<<"slot", o.ring, o.slot>>}
               [] OTHER -> {}

\* No two operations that a GPU may run at the same time touch the same part
\* of a ring unless both read it: the staging region shared by all slots, the
\* slot a layer still attends over, a ring that changed hands.
NoRaceOnRing ==
  \A r \in GroupRanks : \A s, z \in Streams :
    s < z /\ Ready(r, s) /\ Ready(r, z) =>
      LET a == Head(queue[r][s])
          b == Head(queue[r][z]) IN
      /\ Writes(a) \intersect (Reads(b) \union Writes(b)) = {}
      /\ Writes(b) \intersect Reads(a) = {}

\* Collectives that meet are the same collective: on neither communicator can
\* the timing of a rank's two streams decide the order in which it starts
\* them (the comment on the dedicated communicator in _dcp_gather_ckv).
CollectivesMatch ==
  \A q, r \in GroupRanks, c \in Comms :
    \A k \in DOMAIN posted[q][c] \intersect DOMAIN posted[r][c] :
      posted[q][c][k].tag = posted[r][c][k].tag

\* Attention reads whole gathers that nobody is writing, and the ranks gather
\* the same things in the same order.
PrefetchSafe == TypeOK /\ AttendWhole /\ NoRaceOnRing /\ CollectivesMatch

\* Everything a host issues completes, no host waits for ever for gathers it
\* retires, and the pool never runs out of rings for one lane.
Drained == <>Finished

=============================================================================

----------------------------- MODULE ModelRunner -----------------------------
(***************************************************************************)
(* GPUModelRunner (v1/worker/gpu/model_runner.py) over many steps: request  *)
(* slots, block tables, chunked prefill, drafts and their verification,     *)
(* preemption and resumption, under a scheduler that runs ahead of the      *)
(* results (async scheduling).                                              *)
(*                                                                         *)
(* What the model should say at position p of request r is the token        *)
(* <<r, p>>: the prompt and then its greedy continuation.  A forward pass   *)
(* yields <<r, p + 1>> from <<r, p>> only if the KV it reads is that of     *)
(* <<r, 0>> .. <<r, p - 1>>; from anything else it yields Bad.              *)
(*                                                                         *)
(* The scheduler, the kernels that fill buffers, the samplers and the       *)
(* drafter are outside the repository; they are modelled from how this file *)
(* calls them.                                                              *)
(***************************************************************************)
EXTENDS Integers, Sequences, SequencesExt, FiniteSets, FiniteSetsExt

CONSTANTS
    Ranks,      \* ranks that keep their own request slots
    Reqs,       \* request ids: numbers, in the order of their names
    Prompt,     \* [Reqs -> prompt length]
    MaxLen,     \* [Reqs -> tokens at which a request stops]
    NumSlots,   \* max_num_reqs
    NumSpec,    \* num_speculative_steps
    BlockSize, NumBlocks,
    Ahead,      \* results the scheduler may not have seen yet
    MaxEvents,  \* bound: preemptions, aborts and session updates together
    Bad         \* any token or KV that is not the right one

Slots == 0..NumSlots - 1
Blocks == 1..NumBlocks
QueryLen == NumSpec + 1  \* decode_query_len
NoSlot == -1

VARIABLES
    run,      \* this worker: slots and buffers
    kv,       \* the KV cache: [block -> [offset -> token it is of]]
    pending,  \* execute_model_state, <<>> if there is none
    results,  \* results on their way to the scheduler
    sch,      \* the scheduler's view: [request -> record]
    budget    \* such events left
vars == <<run, kv, pending, results, sch, budget>>

Right(r, n) == [i \in 1..n |-> <<r, i - 1>>]  \* the first n tokens of r
MinOf(a, b) == IF a < b THEN a ELSE b
BlocksFor(n) == (n + BlockSize - 1) \div BlockSize

EmptySlot ==
    [computed |-> 0, cpuComputed |-> 0, prefill |-> 0, cpuPrefill |-> 0, all |-> <<>>,
     last |-> Bad, drafts |-> [i \in 1..NumSpec |-> Bad], blocks |-> <<>>]

Init ==
    /\ run = [index |-> [k \in Ranks |-> [r \in Reqs |-> NoSlot]],
              free |-> [k \in Ranks |-> [i \in 1..NumSlots |-> i - 1]],
              slot |-> [s \in Slots |-> EmptySlot]]
    /\ kv = [b \in Blocks \union {0} |-> [o \in 0..BlockSize - 1 |-> Bad]]
    /\ pending = <<>>
    /\ results = <<>>
    /\ sch = [r \in Reqs |-> [status |-> "waiting", known |-> Right(r, Prompt[r]), computed |-> 0,
                              owed |-> 0, offered |-> 0, blocks |-> <<>>, limit |-> MaxLen[r]]]
    /\ budget = MaxEvents

Slot(st, r) == st.index[Min(Ranks)][r]

----------------------------------------------------------------------------
(***************************************************************************)
(* finish_requests, add_requests and update_requests.                       *)
(***************************************************************************)
\* _remove_request on one rank: the slot is freed; what it holds stays.
RemoveRequest(st, k, r) ==
    IF st.index[k][r] = NoSlot THEN st
    ELSE [st EXCEPT !.index[k][r] = NoSlot, !.free[k] = Append(@, st.index[k][r])]

RemoveOnAll(st, r) == FoldLeft(LAMBDA s, k : RemoveRequest(s, k, r), st, SetToSeq(Ranks))

\* A mutant of FreeOrder: the order a set of strings has in this process.
HashOrder(k, S) == IF k = Min(Ranks) THEN SetToSortSeq(S, <) ELSE SetToSortSeq(S, >)

\* Requests finish in the order of their names, so that all ranks free slots alike.
FreeOrder(k, S) == SetToSortSeq(S, <)

FinishRequests(st, so) ==
    LET gone == so.finished \union so.preempted
        Free(s, k) == FoldLeft(LAMBDA t, r : RemoveRequest(t, k, r), s, FreeOrder(k, gone))
    IN  FoldLeft(Free, st, SetToSeq(Ranks))

\* The new block ids of a request are appended to its row, or replace it.
AppendBlocks(old, ids, overwrite) == IF overwrite THEN ids ELSE old \o ids

AddRequest(st, r, so) ==
    LET cleared == RemoveOnAll(st, r)
        taken == [cleared EXCEPT
                    !.index = [k \in Ranks |-> [@[k] EXCEPT ![r] = Last(cleared.free[k])]],
                    !.free = [k \in Ranks |-> Front(@[k])]]
        s == Slot(taken, r)
    IN  [taken EXCEPT !.slot[s] =
           [@ EXCEPT !.computed = so.computed[r], !.cpuComputed = so.computed[r],
                     !.prefill = Len(so.tokens[r]), !.all = so.tokens[r],
                     !.blocks = AppendBlocks(@, so.blocks[r], TRUE)]]

AddRequests(st, so) == FoldLeft(LAMBDA s, r : AddRequest(s, r, so), st, SetToSortSeq(so.new, <))

\* A mutant of UpdateRequest: the CPU's count of computed tokens is not taken from the scheduler.
UpdateBlocksOnly(st, r, so) ==
    [st EXCEPT !.slot[Slot(st, r)].blocks = AppendBlocks(@, so.blocks[r], FALSE)]

UpdateRequest(st, r, so) ==
    LET s == Slot(st, r)
    IN  [st EXCEPT !.slot[s].cpuComputed = so.computed[r],
                   !.slot[s].blocks = AppendBlocks(@, so.blocks[r], FALSE)]

UpdateRequests(st, so) ==
    LET updated == FoldLeft(LAMBDA s, r : UpdateRequest(s, r, so), st,
                            SetToSortSeq(DOMAIN so.tokensOf \ so.new, <))
        Clamp(x) == [x EXCEPT !.cpuPrefill = MinOf(x.cpuComputed, x.prefill)]
    IN  [updated EXCEPT !.slot = [s \in Slots |-> Clamp(@[s])]]

----------------------------------------------------------------------------
(***************************************************************************)
(* gather_batch_req_state: verification, then short, then long queries.     *)
(***************************************************************************)
BatchOrder(so) ==
    LET Key(r) == <<IF so.drafts[r] > 0 THEN 0 ELSE 1,
                    IF so.tokensOf[r] = QueryLen THEN 0 ELSE 1, so.tokensOf[r], r>>
        Less(a, b) == \E i \in 1..4 : Key(a)[i] < Key(b)[i] /\ \A j \in 1..i - 1 : Key(a)[j] = Key(b)[j]
    IN  SetToSortSeq(DOMAIN so.tokensOf, Less)

(***************************************************************************)
(* prepare_inputs, for one row: positions start at the GPU's count of       *)
(* computed tokens; prefill tokens come from the request, and the last      *)
(* tokens of a row that goes beyond its prefill are the token sampled last  *)
(* and the drafts.                                                          *)
(***************************************************************************)
Row(st, r, so, hasPrefill) ==
    LET s == Slot(st, r)
        x == st.slot[s]
        n == so.tokensOf[r]
        k == so.drafts[r]
        beyond == x.computed + n > x.prefill
        Input(i) == \* i-th token of the query, from 1
            IF beyond /\ i = n - k THEN x.last
            ELSE IF beyond /\ i > n - k THEN x.drafts[i - (n - k)]
            ELSE IF hasPrefill /\ x.computed + i <= Len(x.all) THEN x.all[x.computed + i]
            ELSE Bad
    IN  [req |-> r, slot |-> s, start |-> x.computed, n |-> n, k |-> k,
         input |-> [i \in 1..n |-> Input(i)],
         bound |-> x.cpuComputed + n,                  \* seq_lens_cpu_upper_bound
         samples |-> x.computed + n >= x.prefill]

\* compute_slot_mappings: the block with the KV of a position of a row; beyond the
\* request's blocks, the null block, which keeps nothing.
NullBlock == 0
BlockOf(st, row, p) ==
    LET ids == st.slot[row.slot].blocks
    IN  IF p \div BlockSize < Len(ids) THEN ids[p \div BlockSize + 1] ELSE NullBlock

(***************************************************************************)
(* The forward pass of a row, token by token: each attends to the KV of the *)
(* positions before it, wherever the block table says it is.                *)
(***************************************************************************)
Says(cache, st, row, i) ==
    LET p == row.start + i - 1
        t == row.input[i]
        Read(q) == cache[BlockOf(st, row, q)][q % BlockSize]
    IN  IF t # Bad /\ t[2] = p /\ \A q \in 0..p - 1 : Read(q) = <<t[1], q>> THEN t ELSE Bad

ForwardToken(cache, st, row, i) ==
    LET p == row.start + i - 1
        b == BlockOf(st, row, p)
    IN  IF b = NullBlock THEN cache ELSE [cache EXCEPT ![b][p % BlockSize] = Says(cache, st, row, i)]

ForwardRow(cache, st, row) ==
    FoldLeft(LAMBDA c, i : ForwardToken(c, st, row, i), cache, [i \in 1..row.n |-> i])

NextToken(t) == IF t = Bad THEN Bad ELSE <<t[1], t[2] + 1>>

\* What the target says after each token of a row: the KV written for the token tells.
Targets(cache, st, row) ==
    [i \in 1..row.n |-> NextToken(cache[BlockOf(st, row, row.start + i - 1)][(row.start + i - 1) % BlockSize])]

----------------------------------------------------------------------------
(***************************************************************************)
(* execute_model for a scheduler output `so`.                               *)
(***************************************************************************)
Prefilling(st, r) == LET x == st.slot[Slot(st, r)] IN x.cpuPrefill < x.prefill

\* What the step needs many times is bound, not defined, so that TLC works it out once.
ExecuteModel(so) ==
    \E st \in {UpdateRequests(AddRequests(FinishRequests(run, so), so), so)} :
      LET batch == BatchOrder(so)
          hasPrefill == \E r \in DOMAIN so.tokensOf : Prefilling(st, r)
      IN \E rows \in {[i \in DOMAIN batch |-> Row(st, batch[i], so, hasPrefill)]} :
         \E cache \in {FoldLeft(LAMBDA c, row : ForwardRow(c, st, row), kv, rows)} :
           /\ run' = st
           /\ IF batch = <<>> THEN UNCHANGED <<kv, pending>>
              ELSE /\ kv' = cache
                   /\ pending' = [rows |-> rows, spec |-> so.spec,
                                  targets |-> [i \in DOMAIN rows |-> Targets(cache, st, rows[i])]]

(***************************************************************************)
(* sample: a row that has not reached the end of its prefill samples        *)
(* nothing; the others accept drafts as long as the target agrees, and one  *)
(* token more.                                                              *)
(***************************************************************************)
Accepted(row, target) ==
    LET Agrees(j) == row.input[row.n - row.k + j] = target[row.n - row.k + j - 1]
    IN  Max({a \in 0..row.k : \A j \in 1..a : Agrees(j)})

Sampled(row, target) ==
    IF ~row.samples THEN <<>>
    ELSE SubSeq(target, row.n - row.k, row.n - row.k + Accepted(row, target))

Rejected(row, target) == IF row.samples THEN row.k - Accepted(row, target) ELSE 0

\* A mutant of PostUpdate: rejected drafts are counted as computed.
CountRejected(x, row, target) ==
    LET new == Sampled(row, target)
    IN  [x EXCEPT !.computed = @ + row.n, !.last = IF new = <<>> THEN @ ELSE Last(new), !.all = @ \o new]

\* postprocess_sampled: post_update on the slot of the row.
PostUpdate(x, row, target) ==
    LET new == Sampled(row, target)
    IN  [x EXCEPT !.computed = @ + row.n - Rejected(row, target),
                  !.last = IF new = <<>> THEN @ ELSE Last(new),
                  !.all = @ \o new]

\* propose: some drafts are what the target will say, the ones after them are not.
Draft(x, good, i) == IF i <= good /\ x.last # Bad THEN <<x.last[1], x.last[2] + i>> ELSE Bad

\* The first `spec` drafts of the request's row are overwritten, by request slot.
StoreDrafts(x, good, spec) == [x EXCEPT !.drafts = [i \in 1..NumSpec |-> IF i <= spec THEN Draft(x, good, i) ELSE @[i]]]

(***************************************************************************)
(* sample_tokens: sample, post-update, propose and store drafts; the result *)
(* goes to the scheduler.  good[i] drafts of row i will be right.           *)
(***************************************************************************)
SampleTokens ==
    /\ pending # <<>>
    /\ \E good \in [DOMAIN pending.rows -> 0..pending.spec] :
         LET rows == pending.rows
             At(s) == {i \in DOMAIN rows : rows[i].slot = s}
             Slotted(s) == LET i == CHOOSE i \in At(s) : TRUE
                           IN  StoreDrafts(PostUpdate(run.slot[s], rows[i], pending.targets[i]),
                                           good[i], pending.spec)
         IN  /\ \A i \in DOMAIN rows : ~rows[i].samples => good[i] = 0
             /\ run' = [run EXCEPT !.slot = [s \in Slots |-> IF At(s) = {} THEN @[s] ELSE Slotted(s)]]
    /\ results' = Append(results, [i \in DOMAIN pending.rows |->
           [req |-> pending.rows[i].req,
            tokens |-> Sampled(pending.rows[i], pending.targets[i]),
            rejected |-> Rejected(pending.rows[i], pending.targets[i])]])
    /\ pending' = <<>>
    /\ UNCHANGED <<kv, sch, budget>>

----------------------------------------------------------------------------
(***************************************************************************)
(* The scheduler (external).  It counts the tokens it schedules as computed *)
(* at once and owes a request the tokens whose sampling it has scheduled    *)
(* and not yet seen; a result pays, and takes the rejected drafts back.     *)
(***************************************************************************)
Of(status) == {r \in Reqs : sch[r].status = status}

\* Results in flight for requests that stopped or were preempted are discarded.
Discard(rs, S) == [i \in DOMAIN rs |-> SelectSeq(rs[i], LAMBDA e : e.req \notin S)]

\* What may be scheduled of a request, as <<tokens, drafts among them>>: a chunk of
\* what is left to compute, or the next token and drafts it was offered.
Remaining(x) == Len(x.known) + x.owed - x.computed
Grants(x) ==
    IF x.owed > 0 /\ Len(x.known) + 1 >= x.limit THEN {}
    ELSE IF Remaining(x) = 1 THEN {<<1 + k, k>> : k \in 0..x.offered}
    ELSE {<<n, 0>> : n \in 1..Remaining(x)}

\* Blocks for the scheduled requests, in the order of their names; <<>> if there are not enough.
Allocate(S, grant, kept) ==
    LET need(r) == Max({0, BlocksFor(sch[r].computed + grant[r][1]) - Len(sch[r].blocks)})
        before(r) == MapThenSumSet(need, {q \in S : q < r})
        used == UNION {ToSet(sch[r].blocks) : r \in kept}
        pool == SelectSeq([b \in Blocks |-> b], LAMBDA b : b \notin used)
    IN  IF MapThenSumSet(need, S) > Len(pool) THEN <<>>
        ELSE [r \in S |-> SubSeq(pool, before(r) + 1, before(r) + need(r))]

Scheduled(x, g, ids, spec) ==
    LET samples == g[1] = Remaining(x) + g[2]
    IN  [x EXCEPT !.status = "running", !.computed = @ + g[1], !.blocks = @ \o ids,
                  !.owed = IF samples THEN @ + 1 + g[2] ELSE @,
                  !.offered = IF samples THEN spec ELSE 0]

Schedule ==
    /\ pending = <<>> /\ Len(results) <= Ahead
    /\ \E preempted \in SUBSET Of("running"),
          S \in SUBSET (Of("running") \union Of("waiting") \union Of("renewed")), spec \in {0, NumSpec} :
         /\ preempted \intersect S = {}
         /\ Cardinality(preempted) <= budget
         /\ S \union preempted \union Of("done") # {}
         /\ Cardinality((Of("running") \ preempted) \union Of("renewed") \union S) <= NumSlots
         /\ \E grant \in [S -> UNION {Grants(sch[r]) : r \in S}] :
              LET kept == (Of("running") \ preempted) \union Of("renewed")
                  ids == Allocate(S, grant, kept)
                  new == S \ Of("running")
                  so == [finished |-> Of("done"), preempted |-> preempted, new |-> new,
                         tokens |-> [r \in new |-> sch[r].known],
                         tokensOf |-> [r \in S |-> grant[r][1]], drafts |-> [r \in S |-> grant[r][2]],
                         computed |-> [r \in S |-> sch[r].computed],
                         blocks |-> [r \in S |-> IF r \in new THEN sch[r].blocks \o ids[r] ELSE ids[r]],
                         spec |-> spec]
              IN  /\ \A r \in S : grant[r] \in Grants(sch[r])
                  /\ S # {} => ids # <<>>
                  /\ ExecuteModel(so)
                  /\ sch' = [r \in Reqs |->
                       IF r \in S THEN Scheduled(sch[r], grant[r], ids[r], spec)
                       ELSE IF r \in Of("done") THEN [sch[r] EXCEPT !.status = "finished"]
                       ELSE IF r \in preempted
                            THEN [sch[r] EXCEPT !.status = "waiting", !.computed = 0, !.owed = 0,
                                                !.offered = 0, !.blocks = <<>>]
                       ELSE sch[r]]
         /\ results' = Discard(results, preempted)
         /\ budget' = budget - Cardinality(preempted)

Stopped(x) == [x EXCEPT !.status = "done", !.blocks = <<>>]

\* A session that stopped goes on with new input in place of its last token: the worker still has it.
Renewed(r, x) == [x EXCEPT !.status = "renewed", !.offered = 0, !.limit = @ + 2,
                              !.known = Right(r, Len(x.known) + 1)]

\* The oldest result reaches the scheduler.
Deliver ==
    /\ results # <<>>
    /\ LET Entry(r) == SelectSeq(Head(results), LAMBDA e : e.req = r)
           Paid(r) == LET e == Entry(r)[1]
                          x == sch[r]
                          tokens == SubSeq(e.tokens, 1, MinOf(Len(e.tokens), x.limit - Len(x.known)))
                      IN  IF e.tokens = <<>> THEN x
                          ELSE [x EXCEPT !.known = @ \o tokens, !.computed = @ - e.rejected,
                                         !.owed = @ - Len(e.tokens) - e.rejected]
           seen == {r \in Reqs : Entry(r) # <<>>}
           full == {r \in seen : Len(Paid(r).known) >= sch[r].limit}
       IN  \E renewed \in SUBSET {r \in full : Paid(r).owed = 0 /\ Paid(r).computed = Len(Paid(r).known) - 1} :
             /\ Cardinality(renewed) <= budget
             /\ sch' = [r \in Reqs |-> IF r \notin seen THEN sch[r]
                                       ELSE IF r \in renewed THEN Renewed(r, Paid(r))
                                       ELSE IF r \in full THEN Stopped(Paid(r))
                                       ELSE Paid(r)]
             /\ results' = Discard(Tail(results), full)
             /\ budget' = budget - Cardinality(renewed)
    /\ UNCHANGED <<run, kv, pending>>

Abort(r) ==
    /\ sch[r].status = "running" /\ budget > 0 /\ pending = <<>>
    /\ sch' = [sch EXCEPT ![r] = Stopped(@)]
    /\ results' = Discard(results, {r})
    /\ budget' = budget - 1
    /\ UNCHANGED <<run, kv, pending>>

Finished == \A r \in Reqs : sch[r].status = "finished"
Terminated == Finished /\ UNCHANGED vars

Next == Schedule \/ SampleTokens \/ Deliver \/ (\E r \in Reqs : Abort(r)) \/ Terminated
Spec == Init /\ [][Next]_vars

----------------------------------------------------------------------------
\* Every token a request has, prompt or output, is the right one at its place: whatever was
\* chunked, preempted, resumed, aborted beside it, rejected, and whichever slot and blocks it used
\* (execute_model and sample_tokens, end to end).
OutputsRight == \A r \in Reqs : sch[r].known = Right(r, Len(sch[r].known))

\* All ranks put a request into the same slot: batch-sharded sampling derives a request's
\* owner from the slot (finish_requests).
RanksAgreeOnSlots == \A k \in Ranks : run.index[k] = run.index[Min(Ranks)]

\* The CPU's bound on a row's sequence length, from counts that run ahead of rejections,
\* is never below the length the GPU computes (prepare_inputs, seq_lens_cpu_upper_bound).
CpuBoundsSeqLen ==
    pending # <<>> => \A i \in DOMAIN pending.rows :
                         LET row == pending.rows[i] IN row.start + row.n <= row.bound

\* What a step is launched with: the same slots on every rank, and a length on
\* the host that the device cannot exceed.
StepInputsRight == RanksAgreeOnSlots /\ CpuBoundsSeqLen
=============================================================================

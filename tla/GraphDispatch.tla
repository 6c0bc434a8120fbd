--------------------------- MODULE GraphDispatch ---------------------------
(***************************************************************************)
(* What CudaGraphManager (v1/worker/gpu/cudagraph_utils.py) decides without *)
(* a GPU: which batch shapes get a graph, and which graph a batch replays.  *)
(* Pure operators over a configuration `c`:                                 *)
(*   sizes    cudagraph_capture_sizes        maxSize  max_cudagraph_capture_size *)
(*   maxReqs  max_num_seqs                   qlen     decode_query_len      *)
(*   mode     the resolved CUDAGraphMode     varlen   varlen_decode         *)
(*   only     full_capture_request_sizes, or NoValue                        *)
(*   loras    lora_capture_cases                                            *)
(*   spec     how many drafts a step may have: "fixed", "adaptive", "table" *)
(*   caps     the third column of num_speculative_tokens_per_batch_size     *)
(*   drafts   num_speculative_tokens                                        *)
(***************************************************************************)
EXTENDS Integers, FiniteSets, FiniteSetsExt

CONSTANT NoValue  \* Python's None

Modes == {"NONE", "PIECEWISE", "FULL", "FULL_DECODE_ONLY", "FULL_AND_PIECEWISE"}

\* CUDAGraphMode.decode_mode, mixed_mode and separate_routine.
DecodeMode(m) == IF m \in {"NONE", "PIECEWISE"} THEN m ELSE "FULL"
MixedMode(m) ==
    CASE m = "FULL_DECODE_ONLY" -> "NONE"
      [] m = "FULL_AND_PIECEWISE" -> "PIECEWISE"
      [] OTHER -> m
SeparateRoutine(m) == m \in {"FULL_DECODE_ONLY", "FULL_AND_PIECEWISE"}

RoundUp(n, k) == ((n + k - 1) \div k) * k

Desc(mode, tokens, reqs, uniform, maxQuery, loras) ==
    [mode |-> mode, tokens |-> tokens, reqs |-> reqs, uniform |-> uniform,
     maxQuery |-> maxQuery, loras |-> loras]

----------------------------------------------------------------------------
(***************************************************************************)
(* Active adapters are rounded up to a captured number of them, and clamped *)
(* to the largest.                                                          *)
(***************************************************************************)
EffectiveLoras(c, n) ==
    LET captured == {l \in c.loras : l > 0}
        covering == {l \in captured : l >= n}
    IN  IF n <= 0 \/ captured = {} THEN n
        ELSE IF covering # {} THEN Min(covering) ELSE Max(captured)

\* The query lengths a decode step can have: with a dynamic number of drafts, one for each number.
DecodeQueryLens(c) ==
    LET bonus == c.qlen - c.drafts
        cap == Min({Max(c.caps), c.drafts})
    IN  CASE c.spec = "adaptive" /\ c.qlen >= c.drafts ->
                 IF c.caps = {} THEN {d + bonus : d \in 1..c.drafts}
                 ELSE {d + bonus : d \in (IF 0 \in c.caps THEN 0 ELSE 1)..cap}
          [] c.spec = "table" /\ c.qlen >= c.drafts ->
                 {Min({d, c.drafts}) + bonus : d \in c.caps}
          [] OTHER -> {c.qlen}

MaxDecodeTokens(c) == c.maxReqs * c.qlen

\* Graphs for decode batches in which every request has the same query length.
UniformDescs(c) ==
    LET Rounded(n, q) == RoundUp(n, q)
        Admitted(n, q) ==
            /\ Rounded(n, q) <= MaxDecodeTokens(c)
            /\ Rounded(n, q) <= c.maxSize
            /\ Rounded(n, q) \div q <= c.maxReqs
            /\ c.only # NoValue => Rounded(n, q) \div q \in c.only
    IN  IF ~(SeparateRoutine(c.mode) /\ ~c.varlen) THEN {}
        ELSE {Desc("FULL", Rounded(nql[1], nql[2]), Rounded(nql[1], nql[2]) \div nql[2],
                   nql[2], NoValue, nql[3]) :
                nql \in {x \in c.sizes \X DecodeQueryLens(c) \X c.loras : Admitted(x[1], x[2])}}

\* Graphs for decode batches that mix query lengths up to decode_query_len.
VarlenDescs(c) ==
    IF ~(SeparateRoutine(c.mode) /\ c.varlen) THEN {}
    ELSE {Desc("FULL", nl[1], Min({nl[1], c.maxReqs}), NoValue, c.qlen, nl[2]) :
            nl \in {n \in c.sizes : n <= MaxDecodeTokens(c)} \X c.loras}

\* Graphs for batches with prefills; a piecewise graph does not depend on the number of requests.
MixedDescs(c) ==
    LET mode == MixedMode(c.mode)
    IN  IF mode = "NONE" THEN {}
        ELSE {Desc(mode, nl[1], IF mode = "FULL" THEN Min({nl[1], c.maxReqs}) ELSE NoValue,
                   NoValue, NoValue, nl[2]) : nl \in c.sizes \X c.loras}

CaptureDescs(c) == UniformDescs(c) \union VarlenDescs(c) \union MixedDescs(c)

\* A mutant of Candidates: the range of a size ends before the size itself.
ExclusiveRange(c, mode, n, loras) ==
    LET holding == {d \in CaptureDescs(c) : d.mode = mode /\ d.loras = loras /\ d.tokens > n}
    IN  {d \in holding : \A e \in holding : d.tokens <= e.tokens}

(***************************************************************************)
(* A batch of n tokens looks at the graphs of a mode with the fewest tokens *)
(* that hold n: the ranges built by _init_candidates.                       *)
(***************************************************************************)
Candidates(c, mode, n, loras) ==
    LET holding == {d \in CaptureDescs(c) : d.mode = mode /\ d.loras = loras /\ d.tokens >= n}
    IN  {d \in holding : \A e \in holding : d.tokens <= e.tokens}

----------------------------------------------------------------------------
\* A mutant of Compatible: a uniform graph is offered to batches of any query length.
AnyQueryLength(d, b, loras) ==
    /\ d.maxQuery # NoValue => b.maxQuery # NoValue /\ d.maxQuery >= b.maxQuery
    /\ d.reqs # NoValue => d.reqs >= b.reqs
    /\ d.tokens >= b.tokens
    /\ d.loras = loras

(***************************************************************************)
(* A batch: reqs, tokens, uniform (every request's length, or NoValue),     *)
(* maxQuery and the number of active adapters.                              *)
(***************************************************************************)
Compatible(d, b, loras) ==
    /\ d.uniform \in {NoValue, b.uniform}
    /\ d.maxQuery # NoValue => b.maxQuery # NoValue /\ d.maxQuery >= b.maxQuery
    /\ d.reqs # NoValue => d.reqs >= b.reqs
    /\ d.tokens >= b.tokens
    /\ d.loras = loras

\* No graph: the batch runs eagerly, as it is.
Eager(b, loras) == Desc("NONE", b.tokens, b.reqs, NoValue, NoValue, loras)

\* dispatch(): full graphs come first. `captured` is _graphs_captured.
Dispatch(c, captured, b) ==
    LET loras == EffectiveLoras(c, b.loras)
        Fitting(mode) == {d \in Candidates(c, mode, b.tokens, loras) : Compatible(d, b, loras)}
    IN  IF ~captured \/ b.tokens = 0 THEN Eager(b, loras)
        ELSE IF Fitting("FULL") # {} THEN CHOOSE d \in Fitting("FULL") : TRUE
        ELSE IF Fitting("PIECEWISE") # {} THEN CHOOSE d \in Fitting("PIECEWISE") : TRUE
        ELSE Eager(b, loras)
=============================================================================

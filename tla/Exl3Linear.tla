----------------------------- MODULE Exl3Linear -----------------------------
(* A dense EXL3 layer on one tensor parallel rank (exl3.py:                  *)
(* Exl3LinearMethod): its checkpoint tensors are loaded whole, in any order, *)
(* keyed by shard id, and cut to the rank's part once all are there.  A      *)
(* shard id is the sequence of output components the checkpoint stores as    *)
(* one matrix: <<0>> for a component of its own, <<0, 1, 2>> for a fused one *)
(* that must be taken apart.                                                 *)
(*                                                                           *)
(* A matrix is [in, out]: the input channels and the output columns          *)
(* <<component, column>> it covers; "suh" has the inputs only, "svh" the     *)
(* columns only, "trellis" both.                                             *)
EXTENDS Integers, Sequences, FiniteSets, TLC, SequencesExt

CONSTANTS
  Tp,          \* process-wide tensor parallel size
  Widths,      \* output columns a rank may have of one component
  Inputs,      \* input channels of a whole layer
  Hadamard,    \* channels in one rotation block (128)
  KvHeads,     \* total key/value heads of a qkv layer
  QueryHeads   \* total query heads

VARIABLES
  kind,     \* "row", "replicated", "column", "merged", "qkv" or "qkvz"
  rank, sizes,
  lent, staging,
  legacy,   \* are the rotations stored as packed signs?
  extra,    \* does lm_head allocate rows beyond the checkpoint's?
  tensors,  \* <<field, shard id>> to what is kept of it
  ids,      \* exl3_shard_ids
  phase     \* "loading", "ready" or "failed"

vars == <<kind, rank, sizes, lent, staging, legacy, extra, tensors, ids, phase>>

Components(k) == IF k = "qkvz" THEN 0 .. 3 ELSE IF k = "qkv" THEN 0 .. 2
                 ELSE IF k = "merged" THEN 0 .. 1 ELSE {0}

\* create_weights: the layer's own topology, which a replicated layer leaves.
TpSize == IF kind = "replicated" THEN 1 ELSE Tp
TpRank == IF kind = "replicated" THEN 0 ELSE rank
InputPart == IF kind = "row" THEN Inputs \div TpSize ELSE Inputs
RowParallel == InputPart # Inputs

\* _shard_ids_for_layer
ShardIds(k) ==
  CASE k = "qkvz"   -> << <<0, 1, 2>>, <<3>> >>
    [] k = "qkv"    -> << <<0>>, <<1>>, <<2>> >>
    [] k = "merged" -> << <<0>>, <<1>> >>
    [] OTHER        -> << <<0>> >>

\* QKVParallelLinear: heads per rank, and ranks that hold the same key head.
Replicas   == IF Tp > KvHeads THEN Tp \div KvHeads ELSE 1
QueryPart  == QueryHeads \div Tp
KvPart     == IF Tp > KvHeads THEN 1 ELSE KvHeads \div Tp

FullWidth(c) ==
  CASE RowParallel -> sizes[c]
    [] kind = "qkv" /\ c > 0 -> (Tp \div Replicas) * sizes[c]
    [] OTHER -> sizes[c] * TpSize

Columns(c, from, n) == [i \in 1 .. n |-> <<c, from + i - 1>>]
Channels(from, n)   == [i \in 1 .. n |-> from + i - 1]

\* The checkpoint's matrix of a shard: whole inputs, whole components side by
\* side.
Stored(f, id) ==
  [in  |-> IF f = "svh" THEN <<>> ELSE Channels(0, Inputs),
   out |-> IF f = "suh" THEN <<>>
           ELSE FlattenSeq([i \in 1 .. Len(id) |-> Columns(id[i], 0, FullWidth(id[i]))])]

Files == IF legacy THEN {"su", "sv", "trellis"} ELSE {"suh", "svh", "trellis"}
Unpacked(f) == IF f = "su" THEN "suh" ELSE IF f = "sv" THEN "svh" ELSE f

Init ==
  /\ kind \in {"row", "replicated", "column", "merged", "qkv", "qkvz"}
  /\ rank \in 0 .. Tp - 1
  \* A qkv layer's components are whole heads.
  /\ \E w \in Widths, v \in Widths :
       sizes = [c \in Components(kind) |->
                  IF kind # "qkv" THEN (IF c = 0 THEN w ELSE v)
                  ELSE w * (IF c = 0 THEN QueryPart ELSE KvPart)]
  /\ lent \in BOOLEAN /\ legacy \in BOOLEAN
  /\ extra \in IF kind = "column" THEN BOOLEAN ELSE {FALSE}
  /\ staging = "empty"
  /\ tensors = <<>>
  /\ ids = ShardIds(kind)
  /\ phase = IF extra THEN "failed" ELSE "loading"

Own(v) == [at |-> "own", val |-> v]
Read(t, k) == IF t[k].at = "own" THEN t[k].val ELSE staging

\* Exl3Parameter.load_exl3_weight
NeverClones == FALSE
Clones == lent
Load(f, i) ==
  /\ phase = "loading"
  /\ <<f, ids[i]>> \notin DOMAIN tensors
  /\ LET v == Stored(Unpacked(f), ids[i])
     IN /\ staging' = v
        /\ tensors' = (<<f, ids[i]>> :> IF lent /\ ~Clones
                                        THEN [at |-> "staging", val |-> v]
                                        ELSE Own(v)) @@ tensors
  /\ UNCHANGED <<kind, rank, sizes, lent, legacy, extra, ids, phase>>

-----------------------------------------------------------------------------
\* _materialize_legacy_hadamard
WithHalves(t) ==
  LET packed == {k \in DOMAIN t : k[1] \in {"su", "sv"}}
      halves == {<<Unpacked(k[1]), k[2]>> : k \in packed} \ DOMAIN t
  IN t @@ [k \in halves |->
             Own(Read(t, <<IF k[1] = "suh" THEN "su" ELSE "sv", k[2]>>))]

Complete(t) == \A f \in {"suh", "svh", "trellis"}, i \in DOMAIN ids : <<f, ids[i]>> \in DOMAIN t

\* _validate_loaded_tensors
Valid(t, js) ==
  \A i \in DOMAIN js :
    LET m == Read(t, <<"trellis", js[i]>>)
    IN /\ Len(Read(t, <<"suh", js[i]>>).in) = Len(m.in)
       /\ Len(Read(t, <<"svh", js[i]>>).out) = Len(m.out)
       /\ Len(m.in) % Hadamard = 0 /\ Len(m.out) % Hadamard = 0

\* narrow on one axis; _slice_exl3_tensor wants whole rotation blocks.
Cut(v, axis, from, n) ==
  [v EXCEPT ![axis] = IF v[axis] = <<>> THEN <<>> ELSE SubSeq(v[axis], from + 1, from + n)]
WholeBlocks(from, n) == from % Hadamard = 0 /\ n % Hadamard = 0

\* A mutant: replicated key and value heads are cut like the query's.
RankStart(c) == TpRank * sizes[c]

\* _qkv_output_start
OutputStart(c) ==
  (IF kind = "qkv" /\ c > 0 THEN TpRank \div Replicas ELSE TpRank) * sizes[c]

\* _expand_tuple_output_shards: where a component starts in its fused matrix.
FusedOffset(id, i) == FoldSeq(LAMBDA c, n : n + sizes[c] * TpSize, 0, SubSeq(id, 1, i - 1))
FusedStart(id, i)  == FusedOffset(id, i) + TpRank * sizes[id[i]]
PartitionOffset(id, i) == FoldSeq(LAMBDA c, n : n + sizes[c], 0, SubSeq(id, 1, i - 1))

Parts ==
  IF RowParallel THEN {}
  ELSE {<<id, i>> \in {<<ids[j], i>> : j \in DOMAIN ids, i \in 1 .. 3} : i <= Len(id)}
Start(id, i) == IF Len(id) > 1 THEN FusedStart(id, i) ELSE OutputStart(id[i])

\* _shard_tensors_for_tensor_parallel
CanShard ==
  TpSize > 1 =>
    /\ RowParallel => WholeBlocks(TpRank * InputPart, InputPart)
    /\ \A p \in Parts : WholeBlocks(Start(p[1], p[2]), sizes[p[1][p[2]]])
ExpandedIds ==
  IF TpSize = 1 \/ RowParallel THEN ids
  ELSE FlattenSeq([j \in DOMAIN ids |-> [i \in DOMAIN ids[j] |-> <<ids[j][i]>>]])
Sharded(t) ==
  IF TpSize = 1 THEN t
  ELSE IF RowParallel
  THEN [k \in DOMAIN t |-> Own(Cut(Read(t, k), "in", TpRank * InputPart, InputPart))]
  ELSE [k \in {<<f, <<p[1][p[2]]>> >> : f \in {"suh", "svh", "trellis"}, p \in Parts} |->
          LET p == CHOOSE q \in Parts : <<q[1][q[2]]>> = k[2]
          IN Own(Cut(Read(t, <<k[1], p[1]>>), "out", Start(p[1], p[2]), sizes[p[1][p[2]]]))]

ProcessWeights ==
  /\ phase = "loading"
  /\ LET t == WithHalves(tensors) IN
       IF Complete(t) /\ Valid(t, ids) /\ CanShard /\ Valid(Sharded(t), ExpandedIds)
       THEN /\ tensors' = Sharded(t)
            /\ ids' = ExpandedIds
            /\ phase' = "ready"
       ELSE phase' = "failed" /\ UNCHANGED <<tensors, ids>>
  /\ UNCHANGED <<kind, rank, sizes, lent, staging, legacy, extra>>

Stopped == phase # "loading" /\ UNCHANGED vars

Next == \/ \E f \in Files, i \in DOMAIN ids : Load(f, i)
        \/ ProcessWeights
        \/ Stopped

Spec == Init /\ [][Next]_vars

-----------------------------------------------------------------------------
\* apply: the outputs of the shards, one after the other, with as many columns
\* of each as the layer expects (_apply_one cuts off padding).
OutputSize(id) == FoldSeq(LAMBDA c, n : n + sizes[c], 0, id)
Output ==
  FlattenSeq([j \in DOMAIN ids |->
                SubSeq(Read(tensors, <<"trellis", ids[j]>>).out, 1, OutputSize(ids[j]))])

\* The columns a component's consumer takes for this rank: its share in order,
\* or, of a key or value component, the heads its query heads attend with.
HeadsPerKv == QueryHeads \div KvHeads
Owned(c) ==
  IF kind = "qkv" /\ c > 0
  THEN LET head == (TpRank * QueryPart) \div HeadsPerKv
           width == sizes[c] \div KvPart
       IN Columns(c, head * width, sizes[c])
  ELSE Columns(c, IF RowParallel THEN 0 ELSE TpRank * sizes[c], sizes[c])

\* A layer that loads multiplies by this rank's part of the matrix: the columns
\* of every component in the order the model splits them, with the key and value
\* heads its own query heads use, and rotations of the same channels (exl3.py:
\* _shard_tensors_for_tensor_parallel, _expand_tuple_output_shards, apply).
ComputesOwnPart ==
  phase = "ready" =>
    /\ Output = FlattenSeq([c \in 1 .. Cardinality(Components(kind)) |-> Owned(c - 1)])
    /\ \A j \in DOMAIN ids :
         LET m == Read(tensors, <<"trellis", ids[j]>>)
         IN /\ m.in = Channels(IF RowParallel THEN TpRank * InputPart ELSE 0, InputPart)
            /\ Read(tensors, <<"suh", ids[j]>>).in = m.in
            /\ Read(tensors, <<"svh", ids[j]>>).out = m.out
=============================================================================

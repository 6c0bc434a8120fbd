------------------------------ MODULE Exl3Load ------------------------------
(* How one tensor parallel rank loads the EXL3 tensors of one routed-expert  *)
(* layer (exl3.py: Exl3MoEMethod.create_weights, Exl3MoEParameter, the name  *)
(* normalization and process_weights_after_loading).  The checkpoint's files *)
(* arrive in any order and their tensors may be lent from a staging buffer   *)
(* that the next tensor overwrites.  Four layouts exist: "plain" (whole      *)
(* tensors, sliced after loading), "r7" (whole tensors, sliced while they    *)
(* stream; one hidden-side rotation per layer), "sliced" (one tensor per     *)
(* rank, kept in slabs) and "shared_h" (sliced, with one hidden-side         *)
(* rotation per layer).                                                      *)
(*                                                                           *)
(* A tensor is [e, p, f, part, bits]: the expert and projection it belongs   *)
(* to, its field, and the units (channels, or trellis tiles of Tile          *)
(* channels) it holds of the intermediate dimension.                         *)
EXTENDS Integers, Sequences, FiniteSets, TLC

CONSTANTS
  Tp,          \* tensor parallel size
  NumExperts,
  PartSizes,   \* intermediate channels per rank
  Tile,        \* channels in one trellis tile (16)
  Hadamard,    \* channels in one rotation block (128)
  Bits         \* trellis bitrates

VARIABLES
  layout,   \* what the quantization config declares for this layer
  content,  \* the layout the checkpoint's files were written in
  rank, partSize, bits,
  lent,     \* do the loaded tensors live in the staging buffer?
  todo,     \* the files not opened yet
  file,     \* the names left in the open file
  staging,  \* the tensor in the staging buffer
  tensors,  \* exl3_tensors of every parameter: <<field, expert, projection>>
  backing,  \* exl3_backing: <<group, field>> to the rows of a slab
  phase     \* "loading", "ready", "rejected" (a tensor) or "failed"

vars == <<layout, content, rank, partSize, bits, lent, todo, file, staging,
          tensors, backing, phase>>

NoRank   == -1            \* a name without a rank segment
Layer    == NumExperts    \* the owner of what the layout keeps once per layer

Experts     == 0 .. NumExperts - 1
Projections == {"w1", "w3", "w2"}
Fields      == {"suh", "svh", "trellis"}
Layouts     == {"plain", "r7", "sliced", "shared_h"}

Group(p) == IF p = "w2" THEN "w2" ELSE "w13"
HiddenSide(p, f) == <<Group(p), f>> \in {<<"w13", "suh">>, <<"w2", "svh">>}
Sliceable(p, f)  == f \in Fields /\ ~HiddenSide(p, f)
Quantum(f) == IF f = "trellis" THEN Tile ELSE 1
Aligned(n, q) == n % q = 0

\* Decisions create_weights records on the layer.
RankSliced == layout \in {"sliced", "shared_h"}
SharedH    == layout \in {"r7", "shared_h"}
StreamTp   == layout = "r7" /\ Tp > 1
Mixed      == Cardinality({bits[e] : e \in Experts}) > 1
UniformSlabs(f) == RankSliced /\ f \in Fields
Preallocated(f) ==
  RankSliced /\ f \in (IF Mixed THEN {"suh", "svh"} ELSE Fields)
Rows(p, f) == IF SharedH /\ HiddenSide(p, f) THEN 1 ELSE NumExperts

-----------------------------------------------------------------------------
(* The checkpoint.                                                           *)

Units(r, n, f) == [i \in 1 .. n \div Quantum(f) |->
                     (r * partSize) \div Quantum(f) + i - 1]
Whole(f)    == Units(0, Tp * partSize, f)
Local(r, f) == Units(r, partSize, f)

Name(kind, e, p, f, r) == [kind |-> kind, e |-> e, p |-> p, f |-> f, r |-> r]

\* The tensor stored under a name: its owner is the layer where the layout
\* keeps one rotation for all experts.
Payload(n) ==
  [e |-> IF n.kind = "expert" THEN n.e ELSE Layer,
   p |-> IF n.kind = "r7_shared" THEN Group(n.p) ELSE n.p,
   f |-> n.f,
   part |-> IF ~Sliceable(n.p, n.f) THEN <<>>
            ELSE IF n.r = NoRank THEN Whole(n.f) ELSE Local(n.r, n.f),
   bits |-> IF n.f = "trellis" THEN bits[n.e] ELSE 0]

RankSegments == IF content \in {"sliced", "shared_h"} THEN 0 .. Tp - 1 ELSE {NoRank}

Names(x) ==
  IF x = Layer
  THEN CASE content = "r7" -> {Name("r7_shared", 0, "w1", "suh", NoRank),
                               Name("r7_shared", 0, "w2", "svh", NoRank)}
         [] content = "shared_h" ->
              {Name("shared_h", 0, pf[1], pf[2], r) :
                 pf \in {<<"w1", "suh">>, <<"w3", "suh">>, <<"w2", "svh">>},
                 r \in RankSegments}
         [] OTHER -> {}
  ELSE {n \in {Name("expert", x, p, f, r) : p \in Projections,
                   f \in Fields \cup {"mcg"}, r \in RankSegments} :
          content \in {"r7", "shared_h"} => ~HiddenSide(n.p, n.f)}

Files == Experts \cup {Layer}  \* one per expert, one for the layer

Init ==
  /\ layout \in Layouts
  \* A repacker may forget to declare the shared rotations, or declare them
  \* and not write them; no other two layouts can be taken for one another.
  /\ content \in IF layout \in {"sliced", "shared_h"} THEN {"sliced", "shared_h"}
                                                      ELSE {layout}
  /\ rank \in 0 .. Tp - 1
  /\ partSize \in PartSizes
  /\ bits \in [Experts -> Bits]
  /\ lent \in BOOLEAN
  /\ todo \in {Files} \cup {Files \ {x} : x \in Files}  \* one file may be missing
  /\ file = {}
  /\ staging = "empty"
  /\ tensors = <<>>
  /\ backing = <<>>
  /\ phase = "loading"

-----------------------------------------------------------------------------
(* normalize_rank_sliced_weight_name: the key a checkpoint name is loaded    *)
(* under, unless the declared layout does not allow the name or the payload  *)
(* is another rank's.                                                        *)
Key(n) == <<n.f, n.e, n.p>>
Misplaced(n) ==
  RankSliced /\ (n.kind = "shared_h") # (layout = "shared_h" /\ HiddenSide(n.p, n.f))
Foreign(n)  == RankSliced /\ n.r # rank

\* What an entry of exl3_tensors holds when it is read.
Read(t, b, s, key) ==
  CASE t[key].at = "own"     -> t[key].val
    [] t[key].at = "slab"    -> b[<<Group(key[3]), key[1]>>][<<key[3], key[2]>>]
    [] t[key].at = "staging" -> s

Own(v) == [at |-> "own", val |-> v]

\* The run of units [start, start + size) of a tensor, a whole number of quanta.
CanNarrow(v, start, size, quantum) ==
  /\ Aligned(start, quantum) /\ Aligned(size, quantum)
  /\ (start + size) \div quantum <= Len(v.part)
Narrow(v, start, size, quantum) ==
  [v EXCEPT !.part = SubSeq(v.part, start \div quantum + 1, (start + size) \div quantum)]

\* _slice_loaded_weight: the local part of a whole tensor, in storage of its own.
Streamed(key) == StreamTp /\ Sliceable(key[3], key[1])
CanSlice(v, key) ==
  Streamed(key) => CanNarrow(v, rank * partSize, partSize, Quantum(key[1]))
SliceLoaded(v, key) ==
  IF Streamed(key) THEN Narrow(v, rank * partSize, partSize, Quantum(key[1])) ELSE v

\* load_exl3_weight outside a slab: a lent tensor is cloned before it is kept,
\* unless slicing it has made a copy already.
NeverCloned(key) == FALSE
Cloned(key)   == lent /\ ~Streamed(key)
Kept(v, key)  == IF lent /\ ~Streamed(key) /\ ~Cloned(key)
                 THEN [at |-> "staging", val |-> "staging"]
                 ELSE Own(v)

Shape(v) == <<Len(v.part), v.bits>>
\* load_exl3_weight into a slab: the first tensor fixes the shape of the slab.
FitsSlab(v, key) ==
  LET g == <<Group(key[3]), key[1]>> IN
  /\ key[2] < Rows(key[3], key[1])
  /\ g \in DOMAIN backing => \A r \in DOMAIN backing[g] : Shape(backing[g][r]) = Shape(v)

Fail(how) == phase' = how /\ UNCHANGED <<tensors, backing>>

LoadWeight(v, key) ==
  LET s == SliceLoaded(v, key)
      g == <<Group(key[3]), key[1]>>
  IN IF ~CanSlice(v, key) THEN Fail("rejected")
     ELSE IF ~Preallocated(key[1])
     THEN /\ tensors' = (key :> Kept(s, key)) @@ tensors
          /\ UNCHANGED <<backing, phase>>
     ELSE IF ~FitsSlab(s, key) THEN Fail("rejected")
     ELSE /\ backing' = (g :> ((<<key[3], key[2]>> :> s)
                               @@ IF g \in DOMAIN backing THEN backing[g] ELSE <<>>))
                        @@ backing
          /\ tensors' = (key :> [at |-> "slab", val |-> "slab"]) @@ tensors
          /\ UNCHANGED phase

OpenFile(x) ==
  /\ phase = "loading" /\ file = {} /\ x \in todo
  /\ todo' = todo \ {x}
  /\ file' = Names(x)
  /\ UNCHANGED <<layout, content, rank, partSize, bits, lent, staging, tensors,
                 backing, phase>>

\* One tensor of the open file, in the file's own order.
NextTensor ==
  /\ phase = "loading" /\ file # {}
  /\ LET n == CHOOSE m \in file : TRUE
     IN /\ file' = file \ {n}
        /\ staging' = Payload(n)
        /\ IF Misplaced(n) THEN Fail("rejected")
           ELSE IF Foreign(n) THEN UNCHANGED <<tensors, backing, phase>>
           ELSE LoadWeight(Payload(n), Key(n))
  /\ UNCHANGED <<layout, content, rank, partSize, bits, lent, todo>>

-----------------------------------------------------------------------------
(* process_weights_after_loading, in the code's order.                       *)

\* "gate_up_suh" is stored once; the up projection reads the same tensor.
WithUpSuh(t) ==
  IF SharedH /\ <<"suh", 0, "w1">> \in DOMAIN t /\ <<"suh", 0, "w3">> \notin DOMAIN t
  THEN (<<"suh", 0, "w3">> :> t[<<"suh", 0, "w1">>]) @@ t
  ELSE t

Required == {k \in Fields \X Experts \X Projections : k[2] < Rows(k[3], k[1])}
HasMarkers(t) == \A e \in Experts, p \in Projections : <<"mcg", e, p>> \in DOMAIN t

\* _shard_tensors_for_tensor_parallel: only tensors that are still whole.
LoadedWhole == ~RankSliced /\ ~StreamTp /\ Tp > 1
Sharded(t, b) ==
  IF ~LoadedWhole THEN t
  ELSE [k \in DOMAIN t |->
          IF ~Sliceable(k[3], k[1]) THEN t[k]
          ELSE Own(Narrow(Read(t, b, staging, k), rank * partSize, partSize,
                          Quantum(k[1])))]
\* _slice_exl3_tensor slices a trellis at whole rotation blocks only.
CanShard == LoadedWhole => Aligned(rank * partSize, Hadamard) /\ Aligned(partSize, Hadamard)

\* _validate_moe_shapes: rotations and trellis agree on the intermediate
\* channels, which are whole rotation blocks.
RotationKey(e, p, f) == <<f, IF SharedH /\ HiddenSide(p, f) THEN 0 ELSE e, p>>
ShapesValid(t, b) ==
  \A e \in Experts, p \in Projections :
    LET inter == Len(Read(t, b, staging, <<"trellis", e, p>>).part) * Tile
        rot   == RotationKey(e, p, IF p = "w2" THEN "suh" ELSE "svh")
    IN /\ Len(Read(t, b, staging, rot).part) = inter
       /\ Aligned(inter, Hadamard)

\* Without slabs every expert gets its layer's rotation under its own key; a
\* tensor of its own wins.
WithSharedRotations(t) ==
  IF ~SharedH \/ RankSliced THEN t
  ELSE LET missing == {k \in Fields \X Experts \X Projections :
                         /\ HiddenSide(k[3], k[1])
                         /\ k \notin DOMAIN t /\ <<k[1], 0, k[3]>> \in DOMAIN t}
       IN t @@ [k \in missing |-> t[<<k[1], 0, k[3]>>]]

ProcessWeights ==
  /\ phase = "loading" /\ todo = {} /\ file = {}
  /\ LET t == WithUpSuh(tensors) IN
       IF /\ Required \subseteq DOMAIN t
          /\ HasMarkers(t)
          /\ CanShard
          /\ ShapesValid(Sharded(t, backing), backing)
       THEN /\ tensors' = WithSharedRotations(Sharded(t, backing))
            /\ phase' = "ready"
            /\ UNCHANGED backing
       ELSE Fail("failed")
  /\ UNCHANGED <<layout, content, rank, partSize, bits, lent, todo, file, staging>>

Stopped == phase # "loading" /\ UNCHANGED vars

Next == (\E x \in Files : OpenFile(x)) \/ NextTensor \/ ProcessWeights \/ Stopped

Spec == Init /\ [][Next]_vars

-----------------------------------------------------------------------------
(* What the layer's kernels read after loading: the rank-sliced paths go     *)
(* through the slabs (_rank_sliced_backing, _pointer_table: a slab of one    *)
(* row serves every expert), the others through exl3_tensors.                *)
Served(e, p, f) ==
  IF Preallocated(f)
  THEN backing[<<Group(p), f>>][<<p, IF Rows(p, f) = 1 THEN 0 ELSE e>>]
  ELSE Read(tensors, backing, staging, <<f, e, p>>)

Owners(e, p, f) ==
  IF ~(SharedH /\ HiddenSide(p, f)) THEN {<<e, p>>}
  ELSE {<<Layer, IF layout = "r7" THEN Group(p) ELSE p>>}

\* A layer that loads serves, for every expert, projection and field, that
\* tensor's own values for this rank's intermediate channels and no others,
\* whatever the order of the files and wherever their tensors were lent from
\* (exl3.py: load_exl3_weight, process_weights_after_loading).
ServedRight ==
  phase = "ready" =>
    \A e \in Experts, p \in Projections, f \in Fields :
      LET v == Served(e, p, f)
      IN /\ <<v.e, v.p>> \in Owners(e, p, f) /\ v.f = f
         /\ v.part = IF Sliceable(p, f) THEN Local(rank, f) ELSE <<>>
         /\ f = "trellis" => v.bits = bits[e]

\* Loading fails only for a checkpoint that lacks a file, was written in
\* another layout than the one declared, or cuts a rotation block: the order of
\* the files never makes it fail (the first tensor of a slab fixes its shape).
FailsForCause ==
  phase \in {"rejected", "failed"} =>
    \/ layout # content
    \/ ~Aligned(partSize, Hadamard)
    \/ phase = "failed" /\ \E k \in Required \cup ({"mcg"} \X Experts \X Projections) :
         k \notin DOMAIN WithUpSuh(tensors)

\* A checkpoint is served right or refused, and refused for a reason.
LoadedOrRefused == ServedRight /\ FailsForCause
=============================================================================

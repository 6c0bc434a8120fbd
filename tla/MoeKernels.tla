----------------------------- MODULE MoeKernels -----------------------------
(***************************************************************************)
(* The compiled kernels of the fused MoE and the caches they are found in  *)
(* (b12x/moe/fused_moe/_impl.py): one memo of the last kernel, shared by   *)
(* micro and dynamic; a cache for each of micro, dynamic and tiny decode;  *)
(* and the cached answers to "can this kernel be launched with so many     *)
(* threads", which name a kernel by its object identity.  A key leaves out *)
(* what the kernel takes at run time and must hold all it was compiled     *)
(* for.  After warm-up kernel resolution is frozen: nothing may compile.   *)
(***************************************************************************)
EXTENDS Integers, FiniteSets

CONSTANTS
    Calls,     \* [impl, quant, tokens, rows, n, tile, direct, external, repacked,
               \*  share, bits, ids]: the arguments a launch resolves its kernel with
    Ids,       \* object identities
    NoId,      \* of a kernel whose identity is kept nowhere
    TooLarge   \* calls whose kernel takes fewer threads than the launch has

ASSUME CallsAssumption ==
    /\ TooLarge \subseteq Calls
    /\ \A c \in Calls :
          /\ c.impl \in {"micro", "dynamic", "tiny"} /\ c.quant # "tiny_decode"
          /\ c.bits \in Nat /\ c.repacked \in BOOLEAN

VARIABLES
    reuse,     \* B12X_MICRO_REUSE_COMPILED and B12X_DYNAMIC_REUSE_COMPILED
    memo,      \* _LAST_KERNEL: [key, kernel]
    caches,    \* implementation -> set of [key, kernel]
    answers,   \* _MICRO_DIRECT_LAUNCH_CAP_CACHE: set of [key, accepted]
    frozen,    \* kernel resolution is frozen
    warm,      \* keys found or compiled since the caches were cleared
    last

kernelVars == <<reuse, memo, caches, answers, frozen, warm, last>>

Nothing == [none |-> TRUE]

-----------------------------------------------------------------------------
(* What a kernel is compiled for.                                          *)

ShareInput(c) ==
    c.share /\ (c.quant = "nvfp4" \/ (c.quant = "w4a8_mx" /\ c.repacked))

Materialize(c) ==
    /\ c.quant = "w4a8_mx" /\ c.repacked /\ ShareInput(c)
    /\ c.tile \in {32, 64, 128} \/ (c.tokens = 1 /\ c.tile = 16 /\ c.rows \in 1 .. 32)

SeparateHalves(c) == c.quant = "nvfp4" /\ c.n % 32 = 16
SwapAb(c) == c.quant = "nvfp4" /\ c.n % 128 # 0 /\ c.n % 32 = 0
DownStride32(c) == c.quant = "nvfp4" /\ c.n % 32 = 16

(* The constructor's arguments and the operands of the launcher: a trellis *)
(* payload makes a recipe of its own.                                      *)
DynamicKernel(c) ==
    [impl |-> "dynamic",
     recipe |-> IF c.quant = "w4a8_mx" /\ c.bits > 0 THEN "w4a8_trellis" ELSE c.quant,
     repacked |-> c.repacked \/ c.bits > 0, n |-> c.n, tile |-> c.tile, share |-> ShareInput(c),
     swap |-> SwapAb(c), halves |-> SeparateHalves(c), stride |-> DownStride32(c),
     direct |-> c.direct, external |-> c.external, materialize |-> Materialize(c),
     bits |-> c.bits, ids |-> c.ids]

\* mutation: two of the choices made from the live count are left out
DynamicKeyShort(c) ==
    <<c.quant, "dynamic", c.n, c.tile, c.ids, ShareInput(c), SwapAb(c), SeparateHalves(c),
      DownStride32(c), c.repacked, c.external, c.bits>>

DynamicKey(c) ==
    <<c.quant, "dynamic", c.n, c.tile, c.ids, ShareInput(c), SwapAb(c), SeparateHalves(c),
      DownStride32(c), c.repacked, c.direct, c.external, Materialize(c), c.bits>>

(* Micro: the configured kernel has a key of its own; one token is a       *)
(* specialisation, other counts are an argument of the launch.             *)
MicroKernel(c) ==
    [impl |-> "micro", recipe |-> c.quant, n |-> c.n, single |-> c.tokens = 1,
     share |-> c.share /\ c.quant # "w4a8_mx", bits |-> c.bits, ids |-> c.ids]

MicroKey(c) == <<c.quant, "micro_direct", MicroKernel(c), c.ids>>

TinyKernel(c, phase) == [impl |-> "tiny", n |-> c.n, tokens |-> c.tokens, phase |-> phase]
TinyKey(c, phase) == <<"tiny_decode", TinyKernel(c, phase)>>

\* a launch resolves one kernel, or the two phases of tiny decode in turn
Wanted(c) ==
    CASE c.impl = "dynamic" -> <<[key |-> DynamicKey(c), spec |-> DynamicKernel(c)]>>
      [] c.impl = "micro" -> <<[key |-> MicroKey(c), spec |-> MicroKernel(c)]>>
      [] c.impl = "tiny" -> <<[key |-> TinyKey(c, 1), spec |-> TinyKernel(c, 1)],
                              [key |-> TinyKey(c, 2), spec |-> TinyKernel(c, 2)]>>

-----------------------------------------------------------------------------
(* Finding one.                                                            *)

Lookup(c, key) == {e \in caches[c.impl] : e.key = key}
MemoHas(c, key) == c.impl # "tiny" /\ ~memo.none /\ memo.key = key
Reuses(c) == c.impl = "tiny" \/ reuse

Kept(c, key) == MemoHas(c, key) \/ (Reuses(c) /\ Lookup(c, key) # {})
KernelKept(c, key) ==
    IF MemoHas(c, key) THEN memo.kernel ELSE (CHOOSE e \in Lookup(c, key) : TRUE).kernel

LiveIds ==
    {e.kernel.id : e \in caches["micro"]} \cup (IF memo.none THEN {} ELSE {memo.kernel.id})

\* only a micro kernel's identity is remembered, past its life
IdsFor(c) == IF c.impl = "micro" THEN Ids \ LiveIds ELSE {NoId}

Remember(c, key, kernel) ==
    IF c.impl = "tiny" THEN UNCHANGED memo
    ELSE memo' = [none |-> FALSE, key |-> key, kernel |-> kernel]

\* mutation: a kernel reached through the memo is taken for cached
StoreNew(c, key, kernel) ==
    IF Reuses(c) /\ (c.impl = "tiny" \/ memo.none)
    THEN caches' = [caches EXCEPT ![c.impl] = @ \cup {[key |-> key, kernel |-> kernel]}]
    ELSE UNCHANGED caches

Store(c, key, kernel) ==
    IF Reuses(c)
    THEN caches' = [caches EXCEPT ![c.impl] = @ \cup {[key |-> key, kernel |-> kernel]}]
    ELSE UNCHANGED caches

(* _compiled_direct_micro_accepts_block_dim: the key holds the identity of *)
(* the compiled object and the cache key it was tagged with.               *)
AnswerKey(kernel, key) == <<kernel.id, key>>
Fits(kernel) == \A c \in TooLarge : c.impl = "micro" => MicroKernel(c) # kernel.spec

Answered(k) == {a \in answers : a.key = k}
Accepts(kernel, key) ==
    IF Answered(AnswerKey(kernel, key)) # {}
    THEN (CHOOSE a \in Answered(AnswerKey(kernel, key)) : TRUE).accepted
    ELSE Fits(kernel)

Answer(c, kernel, key) ==
    IF c.impl # "micro" THEN UNCHANGED answers
    ELSE answers' = answers \cup
             {[key |-> AnswerKey(kernel, key), accepted |-> Accepts(kernel, key)]}

KernelsInit ==
    /\ reuse \in BOOLEAN
    /\ memo = Nothing
    /\ caches = [i \in {"micro", "dynamic", "tiny"} |-> {}]
    /\ answers = {}
    /\ frozen = FALSE
    /\ warm = {}
    /\ last = Nothing

Outcome(c, want, kernel) ==
    [none |-> FALSE, call |-> IF c.impl = "micro" /\ ~Accepts(kernel, want.key)
                              THEN "cannot launch" ELSE "launched",
     key |-> want.key, wanted |-> want.spec, kernel |-> kernel,
     fits |-> c.impl # "micro" \/ Fits(kernel)]

Uses(c, want, kernel) ==
    /\ Remember(c, want.key, kernel)
    /\ Answer(c, kernel, want.key)
    /\ warm' = warm \cup {want.key}
    /\ last' = Outcome(c, want, kernel)

Find(c, want) ==
    /\ Kept(c, want.key)
    /\ Uses(c, want, KernelKept(c, want.key))
    /\ UNCHANGED <<reuse, caches, frozen>>

Compile(c, want) ==
    /\ ~Kept(c, want.key) /\ ~frozen
    /\ \E id \in IdsFor(c) :
          LET kernel == [id |-> id, spec |-> want.spec]
          IN Uses(c, want, kernel) /\ Store(c, want.key, kernel)
    /\ UNCHANGED <<reuse, frozen>>

Refuse(c, want) ==
    /\ ~Kept(c, want.key) /\ frozen
    /\ last' = [none |-> FALSE, call |-> "frozen", key |-> want.key]
    /\ UNCHANGED <<reuse, memo, caches, answers, frozen, warm>>

(* The second phase of tiny decode is resolved only after the first.       *)
Resolve(c, phase) ==
    LET want == Wanted(c)[phase]
    IN /\ phase = 2 => Kept(c, Wanted(c)[1].key)
       /\ Find(c, want) \/ Compile(c, want) \/ Refuse(c, want)

(* clear_tp_moe_caches: everything but the tiny decode kernels.            *)
Clear ==
    /\ memo' = Nothing
    /\ caches' = [caches EXCEPT !["micro"] = {}, !["dynamic"] = {}]
    /\ answers' = {}
    /\ warm' = {}
    /\ last' = Nothing
    /\ UNCHANGED <<reuse, frozen>>

Freeze == frozen' = ~frozen /\ last' = Nothing /\ UNCHANGED <<reuse, memo, caches, answers, warm>>

KernelsNext ==
    \/ \E c \in Calls : \E phase \in DOMAIN Wanted(c) : Resolve(c, phase)
    \/ Clear
    \/ Freeze

KernelsSpec == KernelsInit /\ [][KernelsNext]_kernelVars

-----------------------------------------------------------------------------
(* A launch runs a kernel compiled for its own arguments, and a micro      *)
(* launch goes ahead exactly when that kernel takes its threads, although  *)
(* kernels are found by key, by the last call's, or by an identity that    *)
(* another kernel may have had before.                                     *)
RunsOwnKernel ==
    ~last.none /\ last.call # "frozen" =>
        /\ last.kernel.spec = last.wanted
        /\ (last.call = "launched") = last.fits

(* Once warm, never refused: with compiled kernels kept, a frozen launch   *)
(* of arguments resolved before does not need to compile.                  *)
WarmServed == ~last.none /\ last.call = "frozen" /\ reuse => last.key \notin warm
=============================================================================

---------------------------- MODULE DispatchCases ----------------------------
(* A graph manager, before and after its capture, and every batch it may be *)
(* asked about.  Of the lengths of a batch's requests dispatch sees the     *)
(* number, the shortest, the longest and the sum; a combination of these    *)
(* with Mixable is that of some lengths, and no other is.                   *)
EXTENDS GraphDispatch

CONSTANTS Configs,   \* configurations of a manager, as in GraphDispatch
          MaxQuery   \* bound: the longest query

\* round_up divides by every query length a decode graph is captured for.
ASSUME ConfigsAssumption ==
    /\ MaxQuery \in Nat \ {0}
    /\ \A c \in Configs :
           /\ c.sizes \subseteq Nat \ {0} /\ c.loras \subseteq Nat /\ 0 \in c.loras
           /\ c.maxReqs \in Nat \ {0} /\ c.qlen \in Nat \ {0}
           /\ DecodeQueryLens(c) \subseteq Nat \ {0}

\* Python's None is no number.
ASSUME NoNumber == NoValue \notin Int

VARIABLES cfg, captured, batch, prefill, loras, picked
dispatchVars == <<cfg, captured, batch, prefill, loras, picked>>

Mixable(b) ==
    b.tokens \in b.longest + (b.reqs - 1) * b.shortest .. b.shortest + (b.reqs - 1) * b.longest

Lengths(c) ==
    {b \in [reqs : 1..c.maxReqs, shortest : 1..MaxQuery, longest : 1..MaxQuery,
            tokens : 1..c.maxReqs * MaxQuery] :
        b.shortest <= b.longest /\ Mixable(b)}

Batch ==
    [reqs |-> batch.reqs, tokens |-> batch.tokens, loras |-> loras, maxQuery |-> batch.longest,
     uniform |-> IF ~prefill /\ batch.shortest = batch.longest THEN batch.shortest ELSE NoValue]

DispatchInit ==
    /\ cfg \in Configs
    /\ captured = FALSE
    /\ batch = [reqs |-> 1, shortest |-> 1, longest |-> 1, tokens |-> 1]
    /\ prefill = FALSE /\ loras = 0
    /\ picked = Dispatch(cfg, captured, Batch)

CaptureGraphs ==
    /\ ~captured
    /\ captured' = TRUE
    /\ UNCHANGED <<cfg, batch, prefill, loras>>
    /\ picked' = Dispatch(cfg, captured', Batch')

\* The largest number of adapters there may be is a captured case.
GiveBatch ==
    /\ captured /\ batch.tokens = 1 /\ ~prefill /\ loras = 0
    /\ batch' \in Lengths(cfg)
    /\ prefill' \in BOOLEAN
    /\ loras' \in UNION {0..l : l \in cfg.loras}
    /\ UNCHANGED <<cfg, captured>>
    /\ picked' = Dispatch(cfg, captured, Batch')

DispatchNext == CaptureGraphs \/ GiveBatch
DispatchSpec == DispatchInit /\ [][DispatchNext]_dispatchVars

----------------------------------------------------------------------------
(* A graph that is replayed was captured, holds every request and token of  *)
(* the batch, and gives each request of a uniform graph exactly its row; a  *)
(* batch with adapters never replays a graph captured for fewer, and a      *)
(* batch with a prefill never replays a graph of uniform decodes.           *)
PickedCovers ==
    /\ picked.tokens >= batch.tokens
    /\ picked.mode # "NONE" => captured /\ picked \in CaptureDescs(cfg)
    /\ picked.reqs # NoValue => picked.reqs >= batch.reqs
    /\ picked.uniform # NoValue =>
           /\ ~prefill /\ {batch.shortest, batch.longest} = {picked.uniform}
           /\ picked.tokens = picked.reqs * picked.uniform
    /\ picked.maxQuery # NoValue => batch.longest <= picked.maxQuery
    /\ picked.mode # "NONE" => picked.loras >= loras

(* With one query length (or with varlen graphs), a decode batch no larger  *)
(* than the largest full decode graph replays the smallest full graph with  *)
(* room for it: the ranges of _init_candidates leave no gap between sizes.  *)
DecodeGetsGraph ==
    LET full == UniformDescs(cfg) \union VarlenDescs(cfg)
        room == {d \in full : d.tokens >= batch.tokens /\ d.reqs >= batch.reqs
                              /\ d.loras = EffectiveLoras(cfg, loras)}
        served == /\ cfg.spec = "fixed" /\ SeparateRoutine(cfg.mode)
                  /\ ~prefill
                  /\ IF cfg.varlen THEN batch.longest <= cfg.qlen
                     ELSE {batch.shortest, batch.longest} = {cfg.qlen}
    IN  captured /\ served /\ room # {} =>
            picked \in room /\ \A d \in room : picked.tokens <= d.tokens

\* A batch gets a graph that can hold it, and a decode batch does get one.
DispatchSound == PickedCovers /\ DecodeGetsGraph
=============================================================================

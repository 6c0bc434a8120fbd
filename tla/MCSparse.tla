------------------------------ MODULE MCSparse -------------------------------
(* Sparse MLA attention on a worker, in one run: the prefetch of a layer's  *)
(* cache from the other ranks, the reuse of the top-k indices, and the      *)
(* selection of the tokens to attend by three ranks that hold one token in  *)
(* turn, where drafts are possible.  A behaviour picks one of the three,    *)
(* and the variables of the others stay as they are.                        *)
(*                                                                          *)
(* Prefetch: two ranks, three layers.  The scripts cover priming and steady *)
(* state, a step that raised followed by each way to go on, and a replaced  *)
(* cache.                                                                   *)
(* Reuse: two requests, four target layers, drafts of three steps.          *)
(* Selection: a decode step and a draft step of one graph, over the same    *)
(* buffers: any scores for a short sequence, then scores that rank the      *)
(* other way.                                                               *)
EXTENDS CkvPrefetch

CONSTANTS
  NumReqs, NumLayers, Steps, PromptLen, MaxLen, Freqs, Offsets,     \* IndexReuse
  Patterns,
  BlockSize, Exact, Garbage, MaxScore                               \* DcpSelection

VARIABLES
  part,                                                             \* what is looked at
  skips, share, skipTopk, phase, pass, step, tok, cached, query,    \* IndexReuse
  last, keys, buffer, attended,
  input, round, at, causal, row, scores, candidates, pages, count,  \* DcpSelection
  tiles, base, read

reuseVars  == <<skips, share, skipTopk, phase, pass, step, tok, cached, query,
                last, keys, buffer, attended>>
selectVars == <<input, round, at, causal, row, scores, candidates, pages, count, tiles,
                base, read>>
mcvars     == <<part, vars, reuseVars, selectVars>>

-----------------------------------------------------------------------------
Prefill(b, n) == [kind |-> "gather", builder |-> b, fresh |-> FALSE, layers |-> n]
Resized(b, n) == [Prefill(b, n) EXCEPT !.fresh = TRUE]
Plain(b)      == [kind |-> "plain", builder |-> b]
Replace       == [kind |-> "rebind"]

MCScripts == {
  <<Prefill("a", 3), Prefill("a", 3)>>,
  <<Prefill("a", 2), Prefill("a", 1), Plain("a"), Prefill("a", 2)>>,
  <<Prefill("a", 3), Prefill("a", 2), Prefill("b", 3)>>,
  <<Prefill("a", 2), Prefill("a", 1), Resized("b", 2)>>,
  <<Prefill("a", 2), Replace, Prefill("a", 3)>> }

\* A pattern for some of the layers and one for all, beside those that
\* frequency and offset give.
MCPatterns == {<<"F", "S">>, <<"F", "S", "S", "S">>}

Reuse == INSTANCE IndexReuse WITH round <- pass, done <- cached

\* Physical blocks in no order, another on each rank.
MCTable == [r \in 0 .. 2 |-> <<(2 + r) % 3, r % 3, (1 + r) % 3>>]

OneToken(p, n, f) ==
  [path |-> p, len |-> n, bound |-> n, full |-> n, before |-> 1, score |-> f]

MCInputs ==
  UNION {{<<OneToken("decode", n, f),
            OneToken("draft", n + 1, [t \in 0 .. n |-> (5 - t) \div 2])>> :
            f \in [0 .. n - 1 -> 0 .. MaxScore]} : n \in {1, 2, 4}}

Drafts == INSTANCE DcpSelection WITH
  W <- 3, I <- 1, K <- 2, BlockN <- 2, Table <- MCTable, Inputs <- MCInputs,
  posted <- candidates

-----------------------------------------------------------------------------
\* A run without ranks to go on: the parts that are not looked at.
NoPrefetch ==
  /\ script = None /\ host = None /\ lane = None /\ bound = None /\ leased = None
  /\ view = None /\ epoch = None /\ written = None /\ queue = None /\ done = None
  /\ posted = None /\ cache = None /\ staging = None /\ slots = None

NoReuse ==
  /\ skips = None /\ share = None /\ skipTopk = None /\ phase = None /\ pass = None
  /\ step = None /\ tok = None /\ cached = None /\ query = None /\ last = None
  /\ keys = None /\ buffer = None /\ attended = None

NoSelection ==
  /\ input = None /\ round = None /\ at = None /\ causal = None /\ row = None
  /\ scores = None /\ candidates = None /\ pages = None /\ count = None /\ tiles = None /\ base = None
  /\ read = None

MCInit ==
  \/ part = "prefetch" /\ Init /\ NoReuse /\ NoSelection
  \/ part = "reuse"    /\ Reuse!Init /\ NoPrefetch /\ NoSelection
  \/ part = "drafts"   /\ Drafts!Init /\ NoPrefetch /\ NoReuse

PrefetchNext == part = "prefetch" /\ Next /\ UNCHANGED <<part, reuseVars, selectVars>>
PrefetchDone == part = "prefetch" /\ Finished /\ UNCHANGED mcvars
ReuseNext    == part = "reuse" /\ Reuse!Next /\ UNCHANGED <<part, vars, selectVars>>
DraftsNext   == part = "drafts" /\ Drafts!Next /\ UNCHANGED <<part, vars, reuseVars>>

MCNext == PrefetchNext \/ PrefetchDone \/ ReuseNext \/ DraftsNext

\* Scripts end, so it is enough that some host or stream that can go on does.
MCSpec == MCInit /\ [][MCNext]_mcvars /\ WF_mcvars(PrefetchNext)

-----------------------------------------------------------------------------
\* Attention reads whole gathers that nobody is writing, and the ranks gather
\* the same things in the same order (PrefetchSafe of CkvPrefetch).
GathersSafe == part = "prefetch" => PrefetchSafe

\* A row attends by indices computed for it, over keys of its own tokens
\* (IndexReuse).
IndicesOwn == part = "reuse" => Reuse!IndicesOwn

\* In a decode step and the draft step after it the ranks select the same
\* tokens, the right ones, although each works out its lengths for itself, and
\* attend nothing else; in the decode step they attend all of them
\* (AttendsRight of DcpSelection).
DraftsSelectRight == part = "drafts" => Drafts!AttendsRight

\* In the draft step, too, the ranks together attend all that was selected, as
\* the causal lengths are refreshed between the steps (DraftsAttendTopK of
\* DcpSelection, from the docstring of update_draft_decode_metadata).
DraftsAttendTopK == part = "drafts" => Drafts!DraftsAttendTopK

Through == IF part = "prefetch" THEN Finished ELSE TRUE

\* Everything a host issues completes, no host waits for ever for gathers it
\* retires, and the pool never runs out of rings for one lane (Drained of
\* CkvPrefetch).
GathersDrain == <>Through
=============================================================================

----------------------------- MODULE IndexReuse -----------------------------
(* Which layers score the key/value cache and which reuse the indices another *)
(* one wrote (deepseek_v32/attention.py, deepseek_v32/nvidia/mtp.py and the   *)
(* MTP speculator's hooks).  The target's layers share one index buffer and   *)
(* only some have an indexer; the draft layer has its own indexer and buffer, *)
(* and may score in its first step only, its later steps reading the rows of  *)
(* each request's last token.  A layer that does not score writes no index    *)
(* key either, so the next round must write the keys it left out.             *)
(*                                                                            *)
(* A token is a tag: the round that chose it, and whether as a draft.         *)
EXTENDS Integers, Sequences, FiniteSets, SequencesExt

CONSTANTS
  NumReqs,
  NumLayers,     \* target layers
  Steps,         \* num_speculative_steps
  PromptLen,
  MaxLen,        \* bound on a request's tokens
  Freqs,         \* index_topk_freq
  Offsets,       \* index_skip_topk_offset
  Patterns       \* index_topk_pattern, which goes before both; layer 0 scores

VARIABLES
  skips,     \* target layers built without an indexer
  share,     \* share_mtp_topk_indices
  skipTopk,  \* the draft layer's skip_topk
  phase,     \* "load", "target", "prefill", "begin", "decode", "end" or "failed"
  round, step,
  tok,       \* request to its tokens, drafts to verify at the end
  done,      \* request to the positions its cache holds
  query,     \* request to the rows of this round
  last,      \* request to its row of the last accepted token
  keys,      \* layer and request to the token whose index key a position holds
  buffer,    \* "target" or "draft" to its rows: what they were scored for
  attended   \* the rows attended in the last step, and the indices they read

vars == <<skips, share, skipTopk, phase, round, step, tok, done, query, last,
          keys, buffer, attended>>

Reqs   == 1 .. NumReqs
Layers == 0 .. NumLayers - 1
Draft  == NumLayers          \* the MTP layer's number

Blank == [r |-> 0, p |-> -1, round |-> -1, sound |-> FALSE]

\* DeepseekV32Attention.__init__: does a target layer go without an indexer?
\* A layer past the end of the pattern has one.
SkipByPattern(l, pattern) == l < Len(pattern) /\ pattern[l + 1] = "S"
SkipTopk(l, freq, offset) ==
  (IF l - offset + 1 > 0 THEN l - offset + 1 ELSE 0) % freq # 0

Init ==
  /\ \/ \E freq \in Freqs, offset \in Offsets :
          skips = {l \in Layers : SkipTopk(l, freq, offset)}
     \/ \E pattern \in Patterns :
          skips = {l \in Layers : SkipByPattern(l, pattern)}
  /\ share = FALSE
  /\ skipTopk \in BOOLEAN             \* whatever the module was left in
  /\ phase = "load" /\ round = 0 /\ step = 0
  /\ tok = [r \in Reqs |-> [i \in 1 .. PromptLen |-> <<0, "prompt">>]]
  /\ done = [r \in Reqs |-> 0]
  /\ query = [r \in Reqs |-> 0]
  /\ last = [r \in Reqs |-> 0]
  /\ keys = [l \in Layers \cup {Draft} |-> [r \in Reqs |->
                                        [i \in 1 .. MaxLen |-> <<>>]]]
  /\ buffer = [b \in {"target", "draft"} |-> <<>>]
  /\ attended = {}

\* load_draft_model: reuse is asked for by the checkpoint or the command line,
\* and refused where the draft model lacks the hooks.
LoadDraftModel(requested, supported) ==
  /\ phase = "load"
  /\ phase' = IF requested /\ ~supported THEN "failed" ELSE "target"
  /\ skipTopk' = IF supported THEN FALSE ELSE skipTopk
  /\ share' = (requested /\ supported)
  \* A draft model without the hooks has no skip_topk to be left on.
  /\ supported \/ ~skipTopk
  /\ UNCHANGED <<skips, round, step, tok, done, query, last, keys, buffer, attended>>

-----------------------------------------------------------------------------
(* One attention layer over a batch: rows of request, position and token.    *)

\* The next n rows of each request, whose tokens are t.
Batch(n, t) ==
  FlattenSeq([r \in Reqs |-> [i \in 1 .. n[r] |->
    [r |-> r, p |-> done[r] + i - 1, t |-> t[r][done[r] + i]]]])

RowStart(r) == FoldFunctionOnSet(+, 0, query, 1 .. r - 1)

\* fused_norm_rope inserts the index key of every row of a layer that scores;
\* the rows of a request are consecutive positions.
WithKeys(ks, rows) ==
  [r \in Reqs |->
     LET mine == SelectSeq(rows, LAMBDA x : x.r = r)
         from == mine[1].p
     IN IF mine = <<>> THEN ks[r]
        ELSE SubSeq(ks[r], 1, from) \o [i \in 1 .. Len(mine) |-> mine[i].t]
             \o SubSeq(ks[r], from + Len(mine) + 1, MaxLen)]

\* The indexer scores a row against the keys of its request up to its position;
\* the indices are sound if those are the keys of the request's own tokens.
Sound(ks, x, own) == SubSeq(ks[x.r], 1, x.p + 1) = SubSeq(own[x.r], 1, x.p + 1)
Score(ks, rows, old, own) ==
  [i \in 1 .. Len(rows) |->
     [r |-> rows[i].r, p |-> rows[i].p, round |-> round, sound |-> Sound(ks, rows[i], own)]]
  \o SubSeq(old, Len(rows) + 1, Len(old))

Entry(b, i) == IF i <= Len(b) THEN b[i] ELSE Blank
Attend(l, rows, b) ==
  {[layer |-> l, r |-> rows[i].r, p |-> rows[i].p, read |-> Entry(b, i)] :
     i \in 1 .. Len(rows)}

-----------------------------------------------------------------------------
Fits(r) == Len(tok[r]) + Steps + 1 <= MaxLen

\* The target's forward pass over chunks of prompts and drafts to verify.
TargetLayer(l, rows, s) ==
  LET scores == l \notin skips
      ks == IF scores THEN WithKeys(s.keys[l], rows) ELSE s.keys[l]
      b  == IF scores THEN Score(ks, rows, s.buffer, tok) ELSE s.buffer
  IN [keys |-> [s.keys EXCEPT ![l] = ks], buffer |-> b,
      attended |-> s.attended \cup Attend(l, rows, b)]

Target ==
  /\ phase = "target"
  /\ \A r \in Reqs : Fits(r)
  /\ \E q \in [Reqs -> 1 .. PromptLen + Steps] :
       \* The drafts of a request are verified together.
       /\ \A r \in Reqs : IF done[r] < PromptLen THEN done[r] + q[r] <= PromptLen
                          ELSE done[r] + q[r] = Len(tok[r])
       /\ query' = q
  \* rows is bound, not defined, so that TLC works it out once.
  /\ \E rows \in {Batch(query', tok)} :
     LET end == FoldLeft(LAMBDA s, l : TargetLayer(l, rows, s),
                         [keys |-> keys, buffer |-> buffer["target"], attended |-> {}],
                         [l \in 1 .. NumLayers |-> l - 1])
     IN /\ keys' = end.keys
        /\ buffer' = [buffer EXCEPT !["target"] = end.buffer]
        /\ attended' = end.attended
  /\ phase' = "prefill"
  /\ UNCHANGED <<skips, share, skipTopk, round, step, tok, done, last>>

\* The draft feeds at a position the token that follows it.
Following ==
  [r \in Reqs |-> [i \in 1 .. MaxLen |->
     IF i < Len(tok'[r]) THEN tok'[r][i + 1] ELSE <<round, "rejected">>]]

\* AutoRegressiveSpeculator: sampling has fixed the round's tokens; step 0 runs
\* over the target's rows, and each request goes on from its last accepted one.
Accept(a) ==
  /\ last' = [r \in Reqs |-> RowStart(r) + a[r] + 1]
  /\ tok' = [r \in Reqs |->
               IF done[r] + query[r] < PromptLen THEN tok[r]
               ELSE Append(SubSeq(tok[r], 1, done[r] + a[r] + 1), <<round + 1, "sampled">>)]

NoReset == skipTopk
OnPrefillBegin == IF share THEN FALSE ELSE skipTopk
NoCompaction(b, n) == b
CompactTopkIndices(b, n) == [i \in 1 .. Len(b) |-> IF i <= NumReqs THEN Entry(b, last'[i]) ELSE b[i]]
OnPrefillEnd(b) ==
  IF share /\ Steps > 1 THEN CompactTopkIndices(b, NumReqs) ELSE b

\* A row past the last accepted token holds a rejected draft's leavings.
DraftPrefill ==
  /\ phase = "prefill"
  /\ \E a \in [Reqs -> 0 .. PromptLen + Steps] :
       /\ \A r \in Reqs : /\ a[r] < query[r]
                          /\ done[r] + query[r] <= PromptLen => a[r] = query[r] - 1
       /\ Accept(a)
  /\ skipTopk' = OnPrefillBegin
  /\ \E rows \in {Batch(query, Following)} :
     LET kept == [r \in Reqs |-> last'[r] - RowStart(r)]
         ks == IF skipTopk' THEN keys[Draft] ELSE WithKeys(keys[Draft], rows)
         b  == IF skipTopk' THEN buffer["draft"]
               ELSE Score(ks, rows, buffer["draft"], Following)
     IN /\ keys' = [keys EXCEPT ![Draft] = ks]
        /\ buffer' = [buffer EXCEPT !["draft"] = OnPrefillEnd(b)]
        /\ attended' = {x \in Attend(Draft, rows, b) : x.p < done[x.r] + kept[x.r]}
        /\ done' = [r \in Reqs |-> done[r] + kept[r]]
  /\ step' = 1
  /\ phase' = IF Steps > 1 THEN "begin" ELSE "end"
  /\ UNCHANGED <<skips, share, round, query>>

OnMultiStepDecodeBegin ==
  /\ phase = "begin"
  /\ skipTopk' = IF share THEN TRUE ELSE skipTopk
  /\ phase' = "decode"
  /\ attended' = {}
  /\ UNCHANGED <<skips, share, round, step, tok, done, query, last, keys, buffer>>

\* Step s feeds draft s at the s-th position past the last accepted one; what
\* a request still in its prompt drafts is thrown away.
DraftTokens ==
  [r \in Reqs |-> [i \in 1 .. MaxLen |->
     IF i < Len(tok[r]) THEN tok[r][i + 1] ELSE <<round, "draft">>]]
DecodeStep ==
  /\ phase = "decode" /\ step < Steps
  /\ LET rows == [r \in Reqs |-> [r |-> r, p |-> done[r] + step - 1, t |-> <<round, "draft">>]]
         ks == IF skipTopk THEN keys[Draft] ELSE WithKeys(keys[Draft], rows)
         b  == IF skipTopk THEN buffer["draft"]
               ELSE Score(ks, rows, buffer["draft"], DraftTokens)
     IN /\ keys' = [keys EXCEPT ![Draft] = ks]
        /\ buffer' = [buffer EXCEPT !["draft"] = b]
        /\ attended' = {x \in Attend(Draft, rows, b) : done[x.r] >= PromptLen}
  /\ step' = step + 1
  /\ UNCHANGED <<skips, share, skipTopk, phase, round, tok, done, query, last>>

\* The proposer returns its drafts to the scheduler; a prompt takes none.
WithDrafts(n) ==
  [r \in Reqs |-> IF done[r] < PromptLen THEN tok[r]
                  ELSE tok[r] \o [i \in 1 .. n |-> <<round, "draft">>]]
EndRound(n) ==
  /\ tok' = WithDrafts(n)
  /\ round' = round + 1 /\ phase' = "target" /\ step' = 0 /\ attended' = {}
  /\ UNCHANGED <<skips, share, done, query, last, keys, buffer>>

OnMultiStepDecodeEnd ==
  /\ \/ phase = "decode" /\ step = Steps /\ skipTopk' = IF share THEN FALSE ELSE skipTopk
     \/ phase = "end" /\ UNCHANGED skipTopk
  /\ EndRound(Steps)

\* A draft step dies: the round ends without drafts and without its end hook.
DieMidway ==
  /\ phase = "decode" /\ step < Steps
  /\ EndRound(0)
  /\ UNCHANGED skipTopk

Stopped ==
  /\ \/ phase = "failed"
     \/ phase = "target" /\ \E r \in Reqs : ~Fits(r)
  /\ UNCHANGED vars

Next == \/ \E q, s \in BOOLEAN : LoadDraftModel(q, s)
        \/ Target \/ DraftPrefill \/ OnMultiStepDecodeBegin \/ DecodeStep
        \/ OnMultiStepDecodeEnd \/ DieMidway \/ Stopped

Spec == Init /\ [][Next]_vars

-----------------------------------------------------------------------------
\* Every attention reads indices scored in this very round for its own request:
\* at its own position, or, where a draft step reuses them, at the request's
\* last accepted token (mtp.py: compact_topk_indices; speculator.py: "a step
\* that died midway cannot leave reuse mode on").
ReadsOwnIndices ==
  \A x \in attended :
    /\ x.read.r = x.r /\ x.read.round = round
    /\ IF x.layer = Draft /\ phase = "decode" /\ share
       THEN x.read.p = done[x.r] - 1
       ELSE x.read.p = x.p

\* Indices are scored against the keys of the request's own tokens at every
\* position: the keys a reusing draft step leaves out are written by the next
\* round before anything scores them (attention.py: has_indexer).
KeysOfOwnTokens == \A x \in attended : x.read.sound

\* A row attends by indices computed for it, over keys of its own tokens.
IndicesOwn == ReadsOwnIndices /\ KeysOfOwnTokens
=============================================================================

---------------------------- MODULE DcpSelection -----------------------------
(***************************************************************************)
(* Sparse attention for one query row under decode-context parallelism.    *)
(* In every round each rank finds the best tokens among those it holds,    *)
(* all ranks exchange their candidates and each picks the global winners;  *)
(* then, by the path the batch takes, a rank                               *)
(*   "local"   attends the winners it holds (the outputs are combined), or *)
(*   "gather"  attends all of them in a gathered copy of every rank's      *)
(*             cache (prefill with CKV gather).                            *)
(* Before, the attention's metadata is given its causal lengths: by build, *)
(* or, within one graph of draft steps, by update_draft_decode_metadata.   *)
(* The buffers of a rank are reused from round to round.  The gathered     *)
(* path maps a row in tiles, concurrent programs that reserve output with  *)
(* an atomic add; the local one has one program for the row, as the width  *)
(* is a power of two.                                                      *)
(*                                                                         *)
(* External, modelled by what it promises: the local top-k kernel, the     *)
(* stable top-k over gathered candidates, the slot mapping that placed the *)
(* tokens, get_dcp_local_seq_lens, and the lengths of the whole sequence,  *)
(* which the drafter advances in place: the indexer's metadata keeps a     *)
(* view of them, the attention's a copy of the rank's share.               *)
(***************************************************************************)
EXTENDS DcpIndex, Sequences, FiniteSets

CONSTANTS
  K,          \* topk_tokens
  BlockN,     \* columns of a tile on the gathered path
  Table,      \* the row's block table on each rank
  Inputs,     \* what the rounds may be given: see Round
  Exact,      \* integers a float32 represents exactly (2^24)
  Garbage     \* a score no token has: what torch.empty may hold

(* A round: [path   |-> "local" (several tokens of a request), "decode"    *)
(*                      (one), "draft" (one more draft in the same graph), *)
(*                      or "gather",                                       *)
(*           len    |-> causal length of the row,                          *)
(*           bound  |-> the scheduler's upper bound of it (CPU side),      *)
(*           full   |-> the request's length with the whole chunk,         *)
(*           before |-> length of the request before it in the batch,      *)
(*           score  |-> index score of each token below len]               *)

\* _merge_dcp_topk takes 512, 1024 and 2048 only, so _remap_tiling gives the
\* local path a single tile; the gathered path wants whole tiles.
WidthAssumption ==
  /\ K \in {2 ^ n : n \in 0 .. 11} /\ BlockN \in 1 .. K /\ K % BlockN = 0

VARIABLES
  input,      \* the rounds to go through
  round, at,  \* each rank: its round and the next step of it
  causal,     \* cache_seq_lens_per_token; with one token per request also
              \* metadata.seq_lens, which is cache_seq_lens_per_req
  row,        \* topk_indices_buffer: K token ids, -1 for none
  scores,     \* the scores beside them
  posted,     \* the packed candidates each rank has put up, per round
  pages,      \* page_table_1: the slots to attend
  count,      \* nsa_cache_seqlens: how many
  tiles,      \* programs of the remap kernel: waiting, reserved, stored
  base,       \* the output column each program has reserved
  read        \* history: the tokens each rank attended, per round

vars == <<input, round, at, causal, row, scores, posted, pages, count, tiles, base, read>>

Columns == 1 .. K
Tiles   == 1 .. K \div BlockN
Round(r) == input[round[r]]

TileWidth(r) == IF Round(r).path = "gather" THEN BlockN ELSE K
TilesOf(r)   == 1 .. K \div TileWidth(r)

Init ==
  /\ input \in Inputs
  /\ round = [r \in Ranks |-> 1]
  /\ at = [r \in Ranks |-> "build"]
  /\ causal = [r \in Ranks |-> 0]
  /\ row = [r \in Ranks |-> [i \in Columns |-> -1]]
  /\ scores = [r \in Ranks |-> [i \in Columns |-> Garbage]]
  /\ posted = [r \in Ranks |-> [n \in DOMAIN input |-> <<>>]]
  /\ pages = [r \in Ranks |-> [i \in Columns |-> -1]]
  /\ count = [r \in Ranks |-> 0]
  /\ tiles = [r \in Ranks |-> [t \in Tiles |-> "waiting"]]
  /\ base = [r \in Ranks |-> [t \in Tiles |-> 0]]
  /\ read = [r \in Ranks |-> [n \in DOMAIN input |-> <<>>]]

Goto(r, l) == at' = [at EXCEPT ![r] = l]

-----------------------------------------------------------------------------
\* build: lengths of one-token rows are the rank's share of the real length,
\* those of other rows come from the CPU bound.
BuiltLen(r) ==
  IF Round(r).path = "decode" THEN LocalLen(r, Round(r).len) ELSE LocalLen(r, Round(r).bound)

Build(r) ==
  /\ at[r] = "build" /\ Round(r).path # "draft"
  /\ causal' = [causal EXCEPT ![r] = BuiltLen(r)]
  /\ Goto(r, "topk")
  /\ UNCHANGED <<input, round, row, scores, posted, pages, count, tiles, base, read>>

\* update_draft_decode_metadata reads metadata.seq_lens and writes
\* cache_seq_lens_per_req: under DCP one tensor, the share build left there.
UpdateDraft(r) ==
  /\ at[r] = "build" /\ Round(r).path = "draft"
  /\ causal' = [causal EXCEPT ![r] = DraftLocalLen(r, @)]
  /\ Goto(r, "topk")
  /\ UNCHANGED <<input, round, row, scores, posted, pages, count, tiles, base, read>>

-----------------------------------------------------------------------------
\* The best K of a set of candidates with fields score and place, best first.
Better(c, d) == c.score > d.score \/ (c.score = d.score /\ c.place < d.place)

Ranked(C) ==
  [i \in 1 .. Cardinality(C) |->
     CHOOSE c \in C : Cardinality({d \in C : Better(d, c)}) = i - 1]

\* The rank's tokens below the row's causal length.  The indexer's own draft
\* update starts from the length of the whole sequence.
IndexerLen(r) ==
  IF Round(r).path = "draft" THEN DraftLocalLen(r, Round(r).len)
  ELSE LocalLen(r, Round(r).len)

\* The row is filled with -1, then the kernel writes what it found.  Scores
\* beside unwritten columns stay what the memory held.
LocalTopk(r) ==
  LET found == Ranked({[score |-> Round(r).score[GlobalIdx(r, l)], place |-> l] :
                         l \in 0 .. IndexerLen(r) - 1})
  IN  /\ at[r] = "topk"
      /\ row' = [row EXCEPT ![r] =
           [i \in Columns |-> IF i <= Len(found) THEN found[i].place ELSE -1]]
      /\ scores' = [scores EXCEPT ![r] =
           [i \in Columns |-> IF i <= Len(found) THEN found[i].score ELSE Garbage]]
      /\ Goto(r, "pack")
      /\ UNCHANGED <<input, round, causal, posted, pages, count, tiles, base, read>>

\* The token id travels as a float32.
Float32(n) == IF n <= Exact THEN n ELSE n - (n % 2)

\* A mutant: the interleaving is left out.
Packed_RoundRobin(r, i) ==
  IF row[r][i] >= 0 THEN [score |-> scores[r][i], token |-> Float32(row[r][i] * W + r)]
  ELSE [score |-> -1, token |-> -1]

\* _pack_dcp_candidates_kernel; -1 is below every score (-inf).
Packed(r, i) ==
  IF row[r][i] >= 0
  THEN [score |-> scores[r][i], token |-> Float32(GlobalIdx(r, row[r][i]))]
  ELSE [score |-> -1, token |-> -1]

Pack(r) ==
  /\ at[r] = "pack"
  /\ posted' = [posted EXCEPT ![r][round[r]] = [i \in Columns |-> Packed(r, i)]]
  /\ Goto(r, "merge")
  /\ UNCHANGED <<input, round, causal, row, scores, pages, count, tiles, base, read>>

\* A mutant: a rank's own candidates come first.
GatherOrder_OwnFirst(r, q) == (q + W - r) % W

\* Candidates come in the order of their ranks, on every rank.
GatherOrder(r, q) == q

\* all_gather, then the stable top-k in place of the row.
Gathered(r, n) ==
  {[score |-> posted[q][n][i].score, place |-> GatherOrder(r, q) * K + i,
    token |-> posted[q][n][i].token] : q \in Ranks, i \in Columns}

Merge(r) ==
  /\ at[r] = "merge"
  /\ \A q \in Ranks : posted[q][round[r]] # <<>>
  /\ row' = [row EXCEPT ![r] =
       [i \in Columns |-> Ranked(Gathered(r, round[r]))[i].token]]
  /\ Goto(r, "reset")
  /\ UNCHANGED <<input, round, causal, scores, posted, pages, count, tiles, base, read>>

-----------------------------------------------------------------------------
\* A counter that tiles add to is zeroed; a single tile overwrites it.
CountReset(r) == IF Round(r).path = "gather" THEN 0 ELSE count[r]

\* out.fill_(-1), valid_counts.zero_().
ResetPages(r) ==
  /\ at[r] = "reset"
  /\ pages' = [pages EXCEPT ![r] = [i \in Columns |-> -1]]
  /\ count' = [count EXCEPT ![r] = CountReset(r)]
  /\ tiles' = [tiles EXCEPT ![r] = [t \in Tiles |-> "waiting"]]
  /\ Goto(r, "remap")
  /\ UNCHANGED <<input, round, causal, row, scores, posted, base, read>>

\* The slot a winner is read from on the local path.
LocalSlot(r, tok) ==
  LET b == ReadBlock(LocalIdx(tok))
  IN  IF tok >= 0 /\ Owner(tok) = r /\ b + 1 \in DOMAIN Table[r]
      THEN Table[r][b + 1] * BlockSize + ReadOffset(LocalIdx(tok)) ELSE -1

\* The gathered copy holds each rank's share one after the other, padded to
\* blocks of the largest; a share holds the requests one after the other.
Share(q, n)   == LocalLen(q, input[n].before) + LocalLen(q, input[n].full)
PaddedLen(n)  ==
  CHOOSE p \in 0 .. BlockSize * (1 + Share(0, n)) :
    /\ p % BlockSize = 0 /\ \A q \in Ranks : Share(q, n) <= p
    /\ \E q \in Ranks : p - BlockSize < Share(q, n)

GatheredSlot(r, tok) ==
  LET q == Owner(tok)
  IN  IF tok >= 0 /\ LocalIdx(tok) < LocalLen(q, Round(r).full)
      THEN q * PaddedLen(round[r]) + LocalLen(q, Round(r).before) + LocalIdx(tok) ELSE -1

Slot(r, i) ==
  IF Round(r).path = "gather" THEN GatheredSlot(r, row[r][i]) ELSE LocalSlot(r, row[r][i])

\* The columns of a tile that have a slot, in order.
ValidIn(r, t) == {i \in Columns : (i - 1) \div TileWidth(r) = t - 1 /\ Slot(r, i) # -1}

\* A mutant: the single tile, too, goes on from what the counter holds.
FirstFree_Always(r) == count[r]

FirstFree(r) == IF Round(r).path = "gather" THEN count[r] ELSE 0

\* A program reserves as many columns as it has slots ...
Reserve(r, t) ==
  /\ at[r] = "remap" /\ tiles[r][t] = "waiting"
  /\ base' = [base EXCEPT ![r][t] = FirstFree(r)]
  /\ count' = [count EXCEPT ![r] = FirstFree(r) + Cardinality(ValidIn(r, t))]
  /\ tiles' = [tiles EXCEPT ![r][t] = "reserved"]
  /\ UNCHANGED <<input, round, at, causal, row, scores, posted, pages, read>>

\* ... and stores them there.
Store(r, t) ==
  LET column(i) == base[r][t] + Cardinality({j \in ValidIn(r, t) : j < i}) + 1
      source(c) == {i \in ValidIn(r, t) : column(i) = c}
  IN  /\ at[r] = "remap" /\ tiles[r][t] = "reserved"
      /\ pages' = [pages EXCEPT ![r] = [c \in Columns |->
           IF source(c) = {} THEN @[c] ELSE Slot(r, CHOOSE i \in source(c) : TRUE)]]
      /\ tiles' = [tiles EXCEPT ![r][t] = "stored"]
      /\ UNCHANGED <<input, round, at, causal, row, scores, posted, count, base, read>>

\* A mutant: the gathered path is capped like the local one.
Cap_Local(r) == LocalLen(r, Round(r).bound)

\* The causal length that caps the count: on the local path what the metadata
\* holds for the rank; in the gathered copy the global one.
Cap(r) == IF Round(r).path = "gather" THEN Round(r).len ELSE causal[r]

\* torch.minimum, then _mask_page_table_after_nsa_len.
CapAndMask(r) ==
  LET n == IF count[r] < Cap(r) THEN count[r] ELSE Cap(r)
  IN  /\ at[r] = "remap" /\ \A t \in TilesOf(r) : tiles[r][t] = "stored"
      /\ count' = [count EXCEPT ![r] = n]
      /\ pages' = [pages EXCEPT ![r] = [i \in Columns |-> IF i > n THEN -1 ELSE @[i]]]
      /\ Goto(r, "attend")
      /\ UNCHANGED <<input, round, causal, row, scores, posted, tiles, base, read>>

-----------------------------------------------------------------------------
\* What a slot holds: the token the slot mapping wrote there, or a place of
\* the gathered copy; -1 when it is no token of the row's request.
TokenAt(r, slot) ==
  LET known == 0 .. Round(r).full - 1
      held  == IF Round(r).path = "gather"
               THEN {tok \in known :
                       LET q == (tok \div I) % W
                       IN  \E l \in 0 .. LocalLen(q, Round(r).full) - 1 :
                             /\ GlobalIdx(q, l) = tok
                             /\ slot = q * PaddedLen(round[r])
                                       + LocalLen(q, Round(r).before) + l}
               ELSE {tok \in known :
                       /\ (tok \div I) % W = r
                       /\ slot = Table[r][WriteBlock(tok) + 1] * BlockSize + WriteOffset(tok)}
  IN  IF held = {} THEN -1 ELSE CHOOSE tok \in held : TRUE

\* The kernel attends the first count entries; the row of the next round.
Attend(r) ==
  /\ at[r] = "attend"
  /\ read' = [read EXCEPT ![r][round[r]] =
       <<[i \in 1 .. count[r] |-> IF pages[r][i] < 0 THEN -1 ELSE TokenAt(r, pages[r][i])]>>]
  /\ IF round[r] = Len(input) THEN Goto(r, "done") /\ UNCHANGED round
     ELSE Goto(r, "build") /\ round' = [round EXCEPT ![r] = @ + 1]
  /\ UNCHANGED <<input, causal, row, scores, posted, pages, count, tiles, base>>

Step(r) ==
  \/ Build(r)
  \/ UpdateDraft(r)
  \/ LocalTopk(r)
  \/ Pack(r)
  \/ Merge(r)
  \/ ResetPages(r)
  \/ \E t \in TilesOf(r) : Reserve(r, t) \/ Store(r, t)
  \/ CapAndMask(r)
  \/ Attend(r)

AllDone == (\A r \in Ranks : at[r] = "done") /\ UNCHANGED vars

Next == (\E r \in Ranks : Step(r)) \/ AllDone

Spec == Init /\ [][Next]_vars

-----------------------------------------------------------------------------
TypeOK ==
  /\ input \in Inputs
  /\ \A r \in Ranks :
       /\ round[r] \in DOMAIN input
       /\ at[r] \in {"build", "topk", "pack", "merge", "reset", "remap", "attend", "done"}
       /\ \A i \in Columns : row[r][i] >= -1 /\ pages[r][i] >= -1
       /\ causal[r] \in Nat
       /\ count[r] \in 0 .. K
       /\ \A t \in Tiles : tiles[r][t] \in {"waiting", "reserved", "stored"}

\* Once the ranks have merged a round they hold the same row, in the same
\* order, although each ranked the candidates for itself.
Merged(r) == at[r] \notin {"build", "topk", "pack", "merge"}

RanksAgree ==
  \A r, q \in Ranks : round[r] = round[q] /\ Merged(r) /\ Merged(q) => row[r] = row[q]

Tokens(n) == 0 .. input[n].len - 1

\* A set of winners: as many as there can be, and nothing better outside.
IsTopK(S, n) ==
  /\ S \subseteq Tokens(n)
  /\ Cardinality(S) = IF input[n].len < K THEN input[n].len ELSE K
  /\ \A s \in S, o \in Tokens(n) \ S : input[n].score[s] >= input[n].score[o]

Finished(r, n) == read[r][n] # <<>>
Reads(r, n)    == read[r][n][1]
Set(s)         == {s[i] : i \in DOMAIN s}

Winners(r) == Set(row[r]) \ {-1}

\* What the ranks merged is the best K of the whole sequence: the lengths each
\* works out for itself, in a draft step too, leave no token to nobody.
SelectTopK == \A r \in Ranks : Merged(r) => IsTopK(Winners(r), round[r])

\* A rank about to attend its own cache finds there winners it holds, each
\* once: no slot of an earlier round, of another token or another request.
AttendOwnWinners ==
  \A r \in Ranks :
    at[r] = "attend" /\ Round(r).path # "gather" =>
      \A i \in 1 .. count[r] :
        /\ pages[r][i] >= 0
        /\ TokenAt(r, pages[r][i]) \in Winners(r)
        /\ \A j \in 1 .. i - 1 : pages[r][i] # pages[r][j]

TopKOnce(n) ==
  (\A r \in Ranks : Finished(r, n)) =>
    /\ IsTopK(UNION {Set(Reads(r, n)) : r \in Ranks}, n)
    /\ \A r, q \in Ranks : \A i \in DOMAIN Reads(r, n), j \in DOMAIN Reads(q, n) :
         Reads(r, n)[i] = Reads(q, n)[j] => r = q /\ i = j

\* The tokens all ranks together attend in a round are the best K of the
\* whole sequence, and each is attended by one rank, once: what the ranks
\* pass on by local index, float, slot and count survives the trip.  Of the
\* draft steps in a graph the first is such a round, built as a decode step.
AttendTopKOnce == \A n \in DOMAIN input : input[n].path \in {"local", "decode"} => TopKOnce(n)

\* The draft steps after it do, too, by update_draft_decode_metadata's
\* docstring ("Refresh the DCP-local causal lengths inside a fused MTP
\* graph").  Not part of AttendsRight: the code violates it.
DraftsAttendTopK == \A n \in DOMAIN input : input[n].path = "draft" => TopKOnce(n)

\* With the gathered copy every rank attends all of the best K, each once,
\* and every rank the same ones.
AttendAllGathered ==
  \A n \in DOMAIN input : \A r \in Ranks :
    input[n].path = "gather" /\ Finished(r, n) =>
      /\ IsTopK(Set(Reads(r, n)), n)
      /\ Cardinality(Set(Reads(r, n))) = Len(Reads(r, n))
      /\ \A q \in Ranks : Finished(q, n) => Set(Reads(q, n)) = Set(Reads(r, n))

\* Every rank selects the same tokens, the right ones, and attends nothing
\* else; except in the later draft steps, it attends all of its part of them.
AttendsRight ==
  /\ TypeOK /\ RanksAgree
  /\ SelectTopK /\ AttendOwnWinners
  /\ AttendTopKOnce /\ AttendAllGathered

=============================================================================

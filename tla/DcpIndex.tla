------------------------------ MODULE DcpIndex -------------------------------
(***************************************************************************)
(* Where the tokens of a sequence live under decode-context parallelism:   *)
(* groups of I consecutive tokens go round the W ranks, and each rank      *)
(* packs its own into KV blocks of BlockSize.  The formulas are those of   *)
(* three kernels and two host functions, which use each other's results.   *)
(***************************************************************************)
EXTENDS Integers

CONSTANTS
  W,          \* dcp_world_size
  I,          \* cp_kv_cache_interleave_size
  BlockSize   \* tokens in a KV block

ASSUME DcpAssumption ==
  /\ W \in Nat \ {0} /\ I \in Nat \ {0} /\ BlockSize \in Nat \ {0}
  /\ BlockSize % I = 0

Ranks == 0 .. W - 1

\* The remap kernel: from a global token to its owner's local index.
Owner(tok)    == (tok \div I) % W
LocalIdx(tok) == (tok \div (W * I)) * I + (tok % I)

\* The pack kernel: from a rank's local index to the global token.
GlobalIdx(rank, l) == (l \div I) * (W * I) + rank * I + (l % I)

\* get_dcp_local_seq_lens: how many of the first n tokens a rank holds.
Clip(x, lo, hi) == IF x < lo THEN lo ELSE IF x > hi THEN hi ELSE x

LocalLen(rank, n) ==
  LET base == ((n \div I) \div W) * I
  IN  base + Clip(n - base * W - rank * I, 0, I)

\* A mutant: the remainder is rounded down on every rank.
DraftLocalLen_Floor(rank, n) == n \div W

\* update_draft_decode_metadata, where only I = 1 is supported.
DraftLocalLen(rank, n) == (n + (W - 1 - rank)) \div W

\* The rank whose cache the slot mapping writes a token to, the block of that
\* rank's table and the offset in it: a table entry covers BlockSize * W
\* consecutive tokens.
WriteBlock(tok)  == tok \div (BlockSize * W)
WriteOffset(tok) ==
  LET v == tok % (BlockSize * W)
  IN  (v \div (W * I)) * I + (v % I)

\* The block and offset from which the remap kernel reads a local index.
ReadBlock(l)  == l \div BlockSize
ReadOffset(l) == l % BlockSize

=============================================================================

--------------------------- MODULE PersistentGemm ----------------------------
(***************************************************************************)
(* The persistent split-K GEMM of the W4A16 MoE kernels (w4a16/kernel.py): *)
(* the work loop of _run_persistent_gemm, and for a tile that several CTAs *)
(* share, the turn-taking of _finish_tile.  A slice waits until the lock   *)
(* word of its slot holds its turn, adds its partial sums to the slot's    *)
(* c_tmp area and passes the turn on; the last slice keeps the total,      *)
(* clears the lock and stores the tile.                                    *)
(*                                                                         *)
(* A CTA is one process: its threads are joined by CTA-wide syncs around   *)
(* every step below.  Values are abstracted to how often each k-tile was   *)
(* accumulated.                                                            *)
(***************************************************************************)
EXTENDS GemmSchedule, FiniteSets

CONSTANTS Problems,     \* the GEMMs a run explores
          Unwritten     \* an output tile before its store

ASSUME ProblemsAssumption ==
  /\ Problems \subseteq [routeBlocks : Nat, nTiles : Nat \ {0}, kTiles : Nat \ {0}, mode : Mode]
  /\ \A g \in Problems : Unwritten # [k \in 0 .. g.kTiles - 1 |-> 1]

VARIABLES
  gemm,       \* the problem, fixed for the launch
  skipped,    \* route blocks whose expert is not on this rank (expert_idx < 0)
  loop,       \* each CTA's loop registers
  pc,         \* where each CTA stands
  acc,        \* each CTA's accumulator fragment
  lock,       \* locks_i32: whose turn it is, per slot
  ctmp,       \* c_tmp_f32: partial sums, per slot
  tiles       \* the output

vars == <<gemm, skipped, loop, pc, acc, lock, ctmp, tiles>>

KTiles == 0 .. gemm.kTiles - 1
Tiles  == 0 .. MnTiles(gemm) - 1

\* One slot per CTA is all the schedule ever uses; the domain is wider so
\* that a slot outside that range is a state and not an error.
Slots == -1 .. 2 * grid_x

RangeCounts(first, n) ==
  [k \in KTiles |-> IF first <= k /\ k < first + n THEN 1 ELSE 0]

PlusCounts(f, h) == [k \in KTiles |-> f[k] + h[k]]

\* c_tmp is torch.empty: before its first store a slot holds anything.
Garbage == [k \in KTiles |-> 2]

StartLoop(g, c) ==
  [waves |-> FullWaves(g), inTail |-> FALSE, work |-> c, k0 |-> 0,
   block |-> 0, column |-> 0, count |-> 0, slices |-> 1, idx |-> 0,
   slot |-> FirstLockSlot(g, c)]

HasAnyWork(g) == Iters(g) # 0 \/ FullWaves(g) # 0

StartLabel(g) == IF HasAnyWork(g) THEN "pick" ELSE "done"

Init ==
  /\ gemm \in Problems
  /\ skipped \in SUBSET (0 .. gemm.routeBlocks - 1)
  /\ loop = [c \in CTAs |-> StartLoop(gemm, c)]
  /\ pc = [c \in CTAs |-> StartLabel(gemm)]
  /\ acc = [c \in CTAs |-> RangeCounts(0, 0)]
  /\ lock = [s \in Slots |-> 0]
  /\ ctmp = [s \in Slots |-> Garbage]
  /\ tiles = [t \in Tiles |-> Unwritten]

-----------------------------------------------------------------------------
\* The loop registers after this iteration has chosen its tile.

\* A whole-tile wave.
WaveIteration(l) ==
  [l EXCEPT !.waves = @ - 1,
            !.block = l.work \div gemm.nTiles,
            !.column = l.work % gemm.nTiles,
            !.k0 = 0, !.count = gemm.kTiles, !.slices = 1, !.idx = 0]

\* The first iteration in the tail jumps to the start of the CTA's stripe.
EnterTail(c, l) ==
  LET w == (Iters(gemm) * c) \div gemm.kTiles
      t == w + MnTiles(gemm) - TailTiles(gemm)
  IN  [l EXCEPT !.inTail = TRUE, !.work = w,
                !.k0 = Iters(gemm) * c - w * gemm.kTiles,
                !.block = t \div gemm.nTiles, !.column = t % gemm.nTiles]

AtTail(c, l) == IF l.inTail THEN l ELSE EnterTail(c, l)

TailCount(c, l) ==
  IF l.work < TailTiles(gemm) /\ Iters(gemm) > 0
  THEN TailShare(gemm, c, l.work, l.k0) ELSE 0

\* With at least one tail tile per CTA the slot moves only when the CTA
\* finishes a shared tile and leaves it; otherwise at every piece.
SlotStep(n, i) ==
  IF TailTiles(gemm) >= grid_x
  THEN IF n > 1 /\ i = n - 1 THEN 1 ELSE 0
  ELSE 1

\* A piece of the CTA's stripe.
TailIteration(c, l) ==
  LET n == SliceCount(gemm, l.work)
      i == SliceIdx(gemm, c, l.work)
  IN  [l EXCEPT !.count = TailCount(c, l), !.slices = n, !.idx = i,
                !.slot = @ + SlotStep(n, i)]

\* The registers after an iteration, whether or not it emitted a tile.
Advance(l) ==
  IF ~l.inTail THEN [l EXCEPT !.work = @ + grid_x]
  ELSE LET wrap == l.column + 1 = gemm.nTiles
       IN  [l EXCEPT !.k0 = 0, !.work = @ + 1,
                     !.column = IF wrap THEN 0 ELSE @ + 1,
                     !.block = IF wrap THEN @ + 1 ELSE @]

TileOf(l) == l.block * gemm.nTiles + l.column

Emits(l) == l.block < gemm.routeBlocks /\ l.block \notin skipped

\* Choose the iteration's tile and run its k-tiles through the pipeline
\* (_run_tile), or skip it.
Emit(c, l) ==
  /\ UNCHANGED <<gemm, skipped, lock, ctmp, tiles>>
  /\ \/ /\ Emits(l)
        /\ loop' = [loop EXCEPT ![c] = l]
        /\ acc' = [acc EXCEPT ![c] = RangeCounts(l.k0, l.count)]
        /\ pc' = [pc EXCEPT ![c] = IF l.slices > 1 THEN "wait" ELSE "store"]
     \/ /\ ~Emits(l)
        /\ loop' = [loop EXCEPT ![c] = Advance(l)]
        /\ UNCHANGED <<acc, pc>>

PickWave(c) ==
  /\ pc[c] = "pick"
  /\ ~loop[c].inTail /\ loop[c].waves > 0
  /\ \E l \in {WaveIteration(loop[c])} : Emit(c, l)

PickTail(c) ==
  /\ pc[c] = "pick"
  /\ loop[c].inTail \/ loop[c].waves = 0
  /\ \E l \in {AtTail(c, loop[c])} :
       /\ TailCount(c, l) > 0
       /\ \E piece \in {TailIteration(c, l)} : Emit(c, piece)

\* The stripe is used up (has_work = 0).
Finish(c) ==
  /\ pc[c] = "pick"
  /\ loop[c].inTail \/ loop[c].waves = 0
  /\ TailCount(c, AtTail(c, loop[c])) = 0
  /\ pc' = [pc EXCEPT ![c] = "done"]
  /\ UNCHANGED <<gemm, skipped, loop, acc, lock, ctmp, tiles>>

\* A mutant: a slice does not wait for the slices before it.
MyTurn_Early(l) == lock[l.slot] <= l.idx

MyTurn(l) == lock[l.slot] = l.idx

\* _wait_for_reduction_turn: thread 0 spins on an acquire load.
TakeTurn(c) ==
  /\ pc[c] = "wait"
  /\ MyTurn(loop[c])
  /\ pc' = [pc EXCEPT ![c] = "merge"]
  /\ UNCHANGED <<gemm, skipped, loop, acc, lock, ctmp, tiles>>

IsLastSlice(l) == l.idx = l.slices - 1

\* A mutant: the second slice, too, takes the slot to be empty.
Merged_Late(l, own) == IF l.idx <= 1 THEN own ELSE PlusCounts(own, ctmp[l.slot])

Merged(l, own) == IF l.idx = 0 THEN own ELSE PlusCounts(own, ctmp[l.slot])

\* _merge_splitk_vec4: every slice but the first adds what the slot holds,
\* every slice but the last writes the sum back.
Merge(c) ==
  LET l   == loop[c]
      sum == Merged(l, acc[c])
  IN  /\ pc[c] = "merge"
      /\ acc' = [acc EXCEPT ![c] = sum]
      /\ ctmp' = [ctmp EXCEPT ![l.slot] = IF IsLastSlice(l) THEN @ ELSE sum]
      /\ pc' = [pc EXCEPT ![c] = "publish"]
      /\ UNCHANGED <<gemm, skipped, loop, lock, tiles>>

\* Mutants: the last slice leaves its turn in the lock; the turn is lost.
NextTurn_NeverCleared(l) == lock[l.slot] + 1
NextTurn_Lost(l) == IF IsLastSlice(l) THEN 0 ELSE lock[l.slot]

NextTurn(l) == IF IsLastSlice(l) THEN 0 ELSE lock[l.slot] + 1

\* _publish_reduction_turn, then on to the store or the next iteration.
Publish(c) ==
  LET l    == loop[c]
      last == IsLastSlice(l)
  IN  /\ pc[c] = "publish"
      /\ lock' = [lock EXCEPT ![l.slot] = NextTurn(l)]
      /\ pc' = [pc EXCEPT ![c] = IF last THEN "store" ELSE "pick"]
      /\ loop' = [loop EXCEPT ![c] = IF last THEN l ELSE Advance(l)]
      /\ UNCHANGED <<gemm, skipped, acc, ctmp, tiles>>

\* _store_tile_*: the slice that holds the total writes the output tile.
Store(c) ==
  /\ pc[c] = "store"
  /\ tiles' = [tiles EXCEPT ![TileOf(loop[c])] = acc[c]]
  /\ loop' = [loop EXCEPT ![c] = Advance(loop[c])]
  /\ pc' = [pc EXCEPT ![c] = "pick"]
  /\ UNCHANGED <<gemm, skipped, acc, lock, ctmp>>

Step(c) ==
  \/ PickWave(c)
  \/ PickTail(c)
  \/ Finish(c)
  \/ TakeTurn(c)
  \/ Merge(c)
  \/ Publish(c)
  \/ Store(c)

Next == \E c \in CTAs : Step(c)

\* The whole grid is resident (the host never launches more CTAs than fit),
\* so every CTA runs on until its loop ends.
Fairness == \A c \in CTAs : WF_vars(Step(c))

Spec == Init /\ [][Next]_vars /\ Fairness

-----------------------------------------------------------------------------
Count == [KTiles -> Nat]

TypeOK ==
  /\ gemm \in Problems
  /\ skipped \subseteq 0 .. gemm.routeBlocks - 1
  /\ pc \in [CTAs -> {"pick", "wait", "merge", "publish", "store", "done"}]
  /\ acc \in [CTAs -> Count]
  /\ lock \in [Slots -> Nat]
  /\ ctmp \in [Slots -> Count]
  /\ tiles \in [Tiles -> Count \cup {Unwritten}]
  /\ \A c \in CTAs : loop[c].slot \in Slots

Sharing(c) == pc[c] \in {"wait", "merge", "publish"}

\* The slots are safe to use: each is one of the first grid_x, by which locks
\* and c_tmp are sized, and at most one CTA is between taking its turn at a
\* slot and passing it on.  c_tmp has no other protection, and each CTA
\* computes its slots alone.
SlotExclusive ==
  /\ \A c \in CTAs : Sharing(c) => loop[c].slot \in CTAs
  /\ \A c, d \in CTAs :
       /\ c # d
       /\ {pc[c], pc[d]} \subseteq {"merge", "publish"}
       => loop[c].slot # loop[d].slot

\* Split-K is deterministic: when a slice gets its turn, the slot holds the
\* sum of exactly the k-tiles above its own range.  The order of the
\* floating-point additions never depends on which CTA ran first.
ReductionOrderFixed ==
  \A c \in CTAs :
    pc[c] = "merge" /\ loop[c].idx > 0 =>
      LET top == loop[c].k0 + loop[c].count
      IN  ctmp[loop[c].slot] = RangeCounts(top, gemm.kTiles - top)

\* When every CTA has left the loop each tile with an expert is stored and
\* every lock is back at zero: FC2 reuses the words FC1 left.
LeavesNothingBehind ==
  (\A c \in CTAs : pc[c] = "done") =>
    /\ \A t \in Tiles : t \div gemm.nTiles \notin skipped => tiles[t] # Unwritten
    /\ \A s \in Slots : lock[s] = 0

\* The reduction area is shared soundly: no two CTAs in one slot, one order of
\* summation per tile, and clean for the next launch.
SlotsSound == TypeOK /\ SlotExclusive /\ ReductionOrderFixed /\ LeavesNothingBehind

Abstract == INSTANCE TileGemm

\* Every tile is stored once, with every k-tile accumulated exactly once.
ImplementsTileGemm == Abstract!Spec

\* No CTA waits for a turn that never comes.
Terminates == <>(\A c \in CTAs : pc[c] = "done")

=============================================================================

-------------------------- MODULE BarrierVisibility --------------------------
(***************************************************************************)
(* GridBarrier over memory as PTX defines it.  A CTA's stores of a phase   *)
(* (the output-zeroing prologue, FC1's tiles, the activations) are weak:   *)
(* they reach the rest of the grid when the hardware drains them or when   *)
(* the CTA executes a GPU-scope fence.  The two CTA-wide syncs only order  *)
(* the CTA's own threads.                                                  *)
(*                                                                         *)
(* atomic_add_global_i32, the arrival, is "atom.global.add.s32": with no   *)
(* .release qualifier it is relaxed and publishes nothing.  Only the last  *)
(* arriver fences (membar.gl, then the fence of red_add_global_release).   *)
(***************************************************************************)
EXTENDS GridBarrier

VARIABLE hidden   \* per CTA, the phases whose stores only it can see

memVars == <<vars, hidden>>

MemInit == Init /\ hidden = [c \in CTA |-> {}]

\* The work before a barrier ends with its stores issued, not performed; the
\* sense load that follows is an acquire and publishes nothing.
StoreAndReadSense(c) ==
  /\ ReadSense(c)
  /\ hidden' = [hidden EXCEPT ![c] = @ \cup {episode[c]}]

RelaxedArrive(c) == Arrive(c) /\ UNCHANGED hidden

PlainReset(c) == ResetCount(c) /\ UNCHANGED hidden

\* membar.gl and fence.acq_rel.gpu: everything this CTA stored is performed.
FenceAndFlip(c) ==
  /\ FlipSense(c)
  /\ hidden' = [hidden EXCEPT ![c] = {}]

AcquireFlip(c) == SeeFlip(c) /\ UNCHANGED hidden

\* The hardware performs one phase's stores at a time of its choosing.
Drain(c, phase) ==
  /\ phase \in hidden[c]
  /\ hidden' = [hidden EXCEPT ![c] = @ \ {phase}]
  /\ UNCHANGED vars

\* The end of a kernel performs all its stores.
RetireAndRelaunch == Relaunch /\ hidden' = [c \in CTA |-> {}]

MemNext ==
  \/ RetireAndRelaunch
  \/ \E c \in CTA :
       \/ StoreAndReadSense(c)
       \/ RelaxedArrive(c)
       \/ PlainReset(c)
       \/ FenceAndFlip(c)
       \/ AcquireFlip(c)
       \/ \E phase \in hidden[c] : Drain(c, phase)

MemSpec == MemInit /\ [][MemNext]_memVars

\* The comment on the fused kernel's prologue: the barrier "makes all zero
\* stores globally visible before the first FC2 atomic".  A CTA that is past
\* a barrier sees what every other CTA stored in the phases before it.
BarrierPublishes ==
  \A c, d \in CTA :
    c # d => \A phase \in hidden[d] : phase >= episode[c]

=============================================================================

----------------------------- MODULE GridBarrier -----------------------------
(***************************************************************************)
(* The sense-reversing barrier of the fused W4A16 MoE kernel               *)
(* (W4A16FusedMoeKernel._grid_barrier in w4a16/kernel.py).  Two words of   *)
(* the workspace are shared by every CTA: an arrival count and a sense     *)
(* that only ever grows.  Neither is cleared between launches, so the      *)
(* barrier must leave the count at zero by itself and must work from any   *)
(* sense a previous launch left behind.                                    *)
(*                                                                         *)
(* Only thread 0 of a CTA touches the two words, between two CTA-wide      *)
(* syncs, so one CTA is one process here.  Each memory operation of the    *)
(* protocol is a step of its own.  Memory is sequentially consistent in    *)
(* this module; BarrierVisibility drops that assumption.                   *)
(***************************************************************************)
EXTENDS Integers, FiniteSets

CONSTANTS NumCTAs,      \* grid_x, which the kernel passes to every barrier
          NumBarriers,  \* _grid_barrier calls on the kernel's phase sequence
          SenseMod      \* 2^32 in the code: the sense is an i32 that wraps

ASSUME GridAssumption == NumCTAs \in Nat \ {0}
ASSUME NumBarriersAssumption == NumBarriers \in Nat \ {0}
ASSUME SenseModAssumption == SenseMod \in Nat /\ SenseMod >= 2

\* The CTAs of the launch.
CTA == 0 .. NumCTAs - 1

VARIABLES
  count,      \* locks[barrier_count_off]
  sense,      \* locks[barrier_sense_off]
  pc,         \* where thread 0 of each CTA stands
  oldSense,   \* the CTA's local copy of the sense, read before arriving
  episode,    \* barriers this CTA has passed in the current launch
  flips       \* history: times the sense moved in the current launch

vars == <<count, sense, pc, oldSense, episode, flips>>

Sense == 0 .. SenseMod - 1

Label == {"work", "arrive", "reset", "flip", "spin", "exit"}

TypeOK ==
  /\ count \in 0 .. NumCTAs
  /\ sense \in Sense
  /\ pc \in [CTA -> Label]
  /\ oldSense \in [CTA -> Sense]
  /\ episode \in [CTA -> 0 .. NumBarriers]
  /\ flips \in 0 .. NumBarriers

\* The workspace is zeroed when it is allocated, but a launch may find any
\* sense in it: every earlier launch advanced it.
Init ==
  /\ count = 0
  /\ sense \in Sense
  /\ pc = [c \in CTA |-> "work"]
  /\ oldSense \in [CTA -> {sense}]
  /\ episode = [c \in CTA |-> 0]
  /\ flips = 0

-----------------------------------------------------------------------------
\* A mutant for the checks: the sense is saved once per launch only.
ReadSense_Once(c) ==
  /\ pc[c] = "work"
  /\ oldSense' = [oldSense EXCEPT ![c] = IF episode[c] = 0 THEN sense ELSE @]
  /\ pc' = [pc EXCEPT ![c] = "arrive"]
  /\ UNCHANGED <<count, sense, episode, flips>>

\* Thread 0 leaves the CTA-wide sync and loads the sense.
ReadSense(c) ==
  /\ pc[c] = "work"
  /\ oldSense' = [oldSense EXCEPT ![c] = sense]
  /\ pc' = [pc EXCEPT ![c] = "arrive"]
  /\ UNCHANGED <<count, sense, episode, flips>>

\* A mutant: the last but one arriver believes it is the last.
IsLast_OffByOne(found) == found = NumCTAs - 2

\* The atomic add returns the count it found: grid_x - 1 means "I am last".
IsLast(found) == found = NumCTAs - 1

Arrive(c) ==
  /\ pc[c] = "arrive"
  /\ count' = count + 1
  /\ pc' = [pc EXCEPT ![c] = IF IsLast(count) THEN "reset" ELSE "spin"]
  /\ UNCHANGED <<sense, oldSense, episode, flips>>

\* A mutant: the count is left for the next launch to clear.
ResetCount_Forgotten(c) ==
  /\ pc[c] = "reset"
  /\ pc' = [pc EXCEPT ![c] = "flip"]
  /\ UNCHANGED <<count, sense, oldSense, episode, flips>>

\* The last arriver clears the count before anybody is let go.
ResetCount(c) ==
  /\ pc[c] = "reset"
  /\ count' = 0
  /\ pc' = [pc EXCEPT ![c] = "flip"]
  /\ UNCHANGED <<sense, oldSense, episode, flips>>

\* The CTA goes on to its next phase, or ends after its last barrier.
Leave(c) ==
  /\ episode' = [episode EXCEPT ![c] = @ + 1]
  /\ pc' = [pc EXCEPT ![c] = IF episode[c] + 1 = NumBarriers THEN "exit" ELSE "work"]

\* The last arriver moves the sense (i32 add, wraps) and is itself released.
FlipSense(c) ==
  /\ pc[c] = "flip"
  /\ sense' = (sense + 1) % SenseMod
  /\ flips' = flips + 1
  /\ Leave(c)
  /\ UNCHANGED <<count, oldSense>>

\* A spinning CTA loads a sense that differs from the one it arrived under.
SeeFlip(c) ==
  /\ pc[c] = "spin"
  /\ sense # oldSense[c]
  /\ Leave(c)
  /\ UNCHANGED <<count, sense, oldSense, flips>>

\* The next launch on the same workspace starts after this one has retired
\* (stream order); count and sense are whatever this launch left.
Relaunch ==
  /\ \A c \in CTA : pc[c] = "exit"
  /\ pc' = [c \in CTA |-> "work"]
  /\ episode' = [c \in CTA |-> 0]
  /\ flips' = 0
  /\ UNCHANGED <<count, sense, oldSense>>

Step(c) ==
  \/ ReadSense(c)
  \/ Arrive(c)
  \/ ResetCount(c)
  \/ FlipSense(c)
  \/ SeeFlip(c)

Next == Relaunch \/ \E c \in CTA : Step(c)

SafeSpec == Init /\ [][Next]_vars

\* The grid is sized to be co-resident, so every CTA keeps executing; the
\* host may or may not launch the kernel again.
Spec == SafeSpec /\ \A c \in CTA : WF_vars(Step(c))

-----------------------------------------------------------------------------
Arrived == {c \in CTA : episode[c] = flips /\ pc[c] \in {"reset", "flip", "spin"}}

\* No CTA starts the phase after a barrier while another one has not arrived
\* at that barrier: a CTA that is behind is only still spinning on its way
\* out.  This is what orders FC1's stores before the activation reads them
\* and the activation's before FC2.
NoOvertaking ==
  \A c, d \in CTA :
    episode[d] < episode[c] => pc[d] = "spin" /\ episode[c] = episode[d] + 1

\* A spinning CTA that has been released always sees a sense different from
\* the one it saved, however many times the sense has wrapped: nobody can
\* flip it again before that CTA has left.
ReleaseStaysVisible ==
  \A c \in CTA : pc[c] = "spin" => (episode[c] < flips <=> sense # oldSense[c])

\* What a phase relies on: no CTA is a barrier ahead of another, and one that
\* was released stays released however late it looks.
PhasesSeparate == TypeOK /\ NoOvertaking /\ ReleaseStaysVisible

\* When a launch has retired the count is back at zero, so the next launch,
\* which clears nothing, starts a correct barrier.
CountReusable == (\A c \in CTA : pc[c] = "exit") => count = 0

\* The arrival count always equals the CTAs at the barrier, or is zero while
\* the last arriver is between clearing it and moving the sense.
CountAccurate ==
  count = IF \E c \in CTA : pc[c] = "flip" THEN 0 ELSE Cardinality(Arrived)

\* The barrier is an abstract one whose single release step is FlipSense.
Abstract == INSTANCE AbstractBarrier WITH joined <- Arrived, released <- flips

ImplementsBarrier == Abstract!Spec

\* Every CTA that starts a launch comes out of all its barriers: no CTA is
\* left spinning on a sense that has moved on without it.
EveryCTALeaves == \A c \in CTA : (pc[c] = "work") ~> (pc[c] = "exit")

=============================================================================

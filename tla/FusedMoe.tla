------------------------------ MODULE FusedMoe -------------------------------
(***************************************************************************)
(* One launch after another of the fused W4A16 MoE kernel (_moe_body in    *)
(* w4a16/kernel.py): the phases of a layer in one persistent grid,         *)
(* separated by grid barriers and sharing scratch.                         *)
(*                                                                         *)
(*   [rotate |] [zero output] FC1 | [activate |] [zero FC2 output |] FC2   *)
(*                                                                         *)
(* where a bar is a grid barrier.  FC1 and FC2 are PersistentGemms over    *)
(* the same lock words; each has registers and a c_tmp of its own.  Unless *)
(* the build sums routes in FC2, FC2 writes into the buffer that FC1 wrote *)
(* and the activation reads (both are prefixes of intermediate_cache13).   *)
(***************************************************************************)
EXTENDS Naturals, Sequences

CONSTANTS
  launch_x,         \* CTAs of the launch (grid_x)
  Fc1, Fc2,         \* the two GEMMs: routeBlocks, nTiles, kTiles, mode
  FullRotation,     \* the build rotates the input first
  Gated,            \* the activation is a phase of its own
  TcZero,           \* the kernel zeroes the per-token output before FC1
  ZeroFc2,          \* the kernel zeroes FC2's output before FC2
  SenseMod,         \* as in GridBarrier
  NotStored         \* an output tile not stored in this launch

VARIABLES
  count, sense, bpc, oldSense, episode, flips,    \* the grid barrier
  noExpert,         \* route blocks whose expert is not on this rank
  locks,            \* the one array of lock words
  fc1Loop, fc1Pc, fc1Acc, fc1Tmp, fc1Out,         \* FC1: registers, scratch, output
  fc2Loop, fc2Pc, fc2Acc, fc2Tmp, fc2Out,         \* FC2: the same
  rotated, activated, zeroed    \* CTAs that have written their share of these

barrierVars == <<count, sense, bpc, oldSense, episode, flips>>
fc1Vars     == <<fc1Loop, fc1Pc, fc1Acc, fc1Tmp, fc1Out>>
fc2Vars     == <<fc2Loop, fc2Pc, fc2Acc, fc2Tmp, fc2Out>>
shareVars   == <<rotated, activated, zeroed>>
launchVars  == <<barrierVars, noExpert, locks, fc1Vars, fc2Vars, shareVars>>

LaunchCTAs == 0 .. launch_x - 1

FC1 == INSTANCE PersistentGemm WITH
  grid_x <- launch_x, Problems <- {Fc1}, Unwritten <- NotStored, gemm <- Fc1,
  skipped <- noExpert, lock <- locks,
  loop <- fc1Loop, pc <- fc1Pc, acc <- fc1Acc, ctmp <- fc1Tmp, tiles <- fc1Out

FC2 == INSTANCE PersistentGemm WITH
  grid_x <- launch_x, Problems <- {Fc2}, Unwritten <- NotStored, gemm <- Fc2,
  skipped <- noExpert, lock <- locks,
  loop <- fc2Loop, pc <- fc2Pc, acc <- fc2Acc, ctmp <- fc2Tmp, tiles <- fc2Out

\* Both GEMMs are over the same route blocks; the output is zeroed once.
ASSUME LaunchAssumption ==
  /\ launch_x \in Nat \ {0}
  /\ SenseMod \in Nat /\ SenseMod >= 2
  /\ {Fc1, Fc2} \subseteq [routeBlocks : Nat, nTiles : Nat \ {0}, kTiles : Nat \ {0}, mode : FC1!Mode]
  /\ \A g \in {Fc1, Fc2} : NotStored # [k \in 0 .. g.kTiles - 1 |-> 1]
  /\ Fc1.routeBlocks = Fc2.routeBlocks

ASSUME BuildAssumption ==
  /\ FullRotation \in BOOLEAN /\ Gated \in BOOLEAN
  /\ TcZero \in BOOLEAN /\ ZeroFc2 \in BOOLEAN
  /\ ~(TcZero /\ ZeroFc2)

Optional(cond, phase) == IF cond THEN <<phase>> ELSE <<>>

Phases ==
  Optional(FullRotation, "rotate") \o <<"fc1">> \o Optional(Gated, "activate")
    \o Optional(ZeroFc2, "zero") \o <<"fc2">>

Barrier == INSTANCE GridBarrier WITH
  NumCTAs <- launch_x, NumBarriers <- Len(Phases) - 1, pc <- bpc

Phase(c) == Phases[episode[c] + 1]

-----------------------------------------------------------------------------
\* What a launch starts from: each GEMM's registers depend on the CTA index
\* alone, and the buffers hold nothing of this launch.
Fresh(loop1, pc1, acc1, loop2, pc2, acc2) ==
  /\ loop1 = [c \in LaunchCTAs |-> FC1!StartLoop(Fc1, c)]
  /\ loop2 = [c \in LaunchCTAs |-> FC2!StartLoop(Fc2, c)]
  /\ pc1 = [c \in LaunchCTAs |-> FC1!StartLabel(Fc1)]
  /\ pc2 = [c \in LaunchCTAs |-> FC2!StartLabel(Fc2)]
  /\ acc1 = [c \in LaunchCTAs |-> FC1!RangeCounts(0, 0)]
  /\ acc2 = [c \in LaunchCTAs |-> FC2!RangeCounts(0, 0)]

Unfilled(tmp1, out1, tmp2, out2) ==
  /\ tmp1 = [s \in FC1!Slots |-> FC1!Garbage] /\ out1 = [t \in FC1!Tiles |-> NotStored]
  /\ tmp2 = [s \in FC2!Slots |-> FC2!Garbage] /\ out2 = [t \in FC2!Tiles |-> NotStored]

LaunchInit ==
  /\ Barrier!Init
  /\ noExpert \in SUBSET (0 .. Fc1.routeBlocks - 1)
  /\ Fresh(fc1Loop, fc1Pc, fc1Acc, fc2Loop, fc2Pc, fc2Acc)
  /\ Unfilled(fc1Tmp, fc1Out, fc2Tmp, fc2Out)
  /\ rotated = {} /\ activated = {} /\ zeroed = {}
  /\ locks = [s \in FC1!Slots |-> 0]

\* The CTA's grid-strided share of a phase without tiles.
Rotate(c) ==
  /\ Phase(c) = "rotate" /\ bpc[c] = "work" /\ c \notin rotated
  /\ rotated' = rotated \cup {c}
  /\ UNCHANGED <<barrierVars, noExpert, locks, fc1Vars, fc2Vars, activated, zeroed>>

Activate(c) ==
  /\ Phase(c) = "activate" /\ bpc[c] = "work" /\ c \notin activated
  /\ activated' = activated \cup {c}
  /\ UNCHANGED <<barrierVars, noExpert, locks, fc1Vars, fc2Vars, rotated, zeroed>>

ZeroHere(c) ==
  \/ Phase(c) = "zero"
  \/ Phase(c) = "fc1" /\ TcZero

Zero(c) ==
  /\ ZeroHere(c) /\ bpc[c] = "work" /\ c \notin zeroed
  /\ zeroed' = zeroed \cup {c}
  /\ UNCHANGED <<barrierVars, noExpert, locks, fc1Vars, fc2Vars, rotated, activated>>

RunFc1(c) ==
  /\ Phase(c) = "fc1" /\ bpc[c] = "work"
  /\ TcZero => c \in zeroed
  /\ FC1!Step(c)
  /\ UNCHANGED <<barrierVars, fc2Vars, shareVars>>

\* FC2 has no barrier after it: it runs when the CTA has left the last one.
RunFc2(c) ==
  /\ Phase(c) = "fc2"
  /\ FC2!Step(c)
  /\ UNCHANGED <<barrierVars, fc1Vars, shareVars>>

\* A mutant: the barrier is entered while the phase's work may be under way.
PhaseDone_Early(c) == TRUE

PhaseDone(c) ==
  /\ Phase(c) = "rotate"   => c \in rotated
  /\ Phase(c) = "fc1"      => fc1Pc[c] = "done"
  /\ Phase(c) = "activate" => c \in activated
  /\ ZeroHere(c)           => c \in zeroed

ReachBarrier(c) ==
  /\ PhaseDone(c)
  /\ Barrier!ReadSense(c)
  /\ UNCHANGED <<noExpert, locks, fc1Vars, fc2Vars, shareVars>>

InBarrier(c) ==
  /\ Barrier!Arrive(c) \/ Barrier!ResetCount(c) \/ Barrier!FlipSense(c) \/ Barrier!SeeFlip(c)
  /\ UNCHANGED <<noExpert, locks, fc1Vars, fc2Vars, shareVars>>

Retired(c) == bpc[c] = "exit" /\ fc2Pc[c] = "done"

\* The next layer's launch, in stream order, on the same workspace: locks
\* and barrier words are not cleared, the buffers hold nothing of its own.
NextLaunch ==
  /\ \A c \in LaunchCTAs : Retired(c)
  /\ Barrier!Relaunch
  /\ noExpert' \in SUBSET (0 .. Fc1.routeBlocks - 1)
  /\ Fresh(fc1Loop', fc1Pc', fc1Acc', fc2Loop', fc2Pc', fc2Acc')
  /\ Unfilled(fc1Tmp', fc1Out', fc2Tmp', fc2Out')
  /\ rotated' = {} /\ activated' = {} /\ zeroed' = {}
  /\ UNCHANGED locks

LaunchStep(c) ==
  \/ Rotate(c)
  \/ Activate(c)
  \/ Zero(c)
  \/ RunFc1(c)
  \/ RunFc2(c)
  \/ ReachBarrier(c)
  \/ InBarrier(c)

LaunchNext == NextLaunch \/ \E c \in LaunchCTAs : LaunchStep(c)

\* The grid is co-resident: every CTA runs on until the kernel ends.
LaunchSpec ==
  LaunchInit /\ [][LaunchNext]_launchVars /\ \A c \in LaunchCTAs : WF_launchVars(LaunchStep(c))

-----------------------------------------------------------------------------
Wanted(gemm, t) == t \div gemm.nTiles \notin noExpert

Fc1Complete ==
  \A t \in FC1!Tiles : Wanted(Fc1, t) => fc1Out[t] = [k \in FC1!KTiles |-> 1]

\* A CTA works on a tile or on its share only when everything it reads has
\* been written in this launch, by whichever CTA it was due from: the
\* rotated input before FC1, FC1's tiles before the activation, the
\* activation before FC2.
InputsReady ==
  \A c \in LaunchCTAs :
    /\ Phase(c) = "fc1" /\ FullRotation => rotated = LaunchCTAs
    /\ Phase(c) = "activate" => Fc1Complete
    /\ Phase(c) = "fc2" =>
         /\ Fc1Complete
         /\ Gated => activated = LaunchCTAs

\* No tile of FC2 is written (in the build where FC2's output is FC1's
\* buffer, no zero either) while some CTA may still read what lies there,
\* nor before the zeros it is added to.
OverwriteSafe ==
  /\ (\E t \in FC2!Tiles : fc2Out[t] # NotStored) =>
       /\ TcZero \/ ZeroFc2 => zeroed = LaunchCTAs
       /\ Gated => activated = LaunchCTAs
  /\ ZeroFc2 /\ Gated /\ zeroed # {} => activated = LaunchCTAs

\* The barriers are where they have to be: nothing is read before it is whole
\* and nothing overwritten before it was read.
PhasesSafe == InputsReady /\ OverwriteSafe

\* Every launch leaves the layer's result complete, each k-tile accumulated
\* once, and the shared words ready for the next launch.
LaunchCorrect ==
  (\A c \in LaunchCTAs : Retired(c)) =>
    /\ \A t \in FC2!Tiles :
         fc2Out[t] = IF Wanted(Fc2, t) THEN [k \in FC2!KTiles |-> 1] ELSE NotStored
    /\ \A s \in FC1!Slots : locks[s] = 0
    /\ count = 0

\* Every launch ends: no CTA spins on a lock or a barrier for ever.
EveryLaunchEnds == \A c \in LaunchCTAs : ~Retired(c) ~> Retired(c)

=============================================================================

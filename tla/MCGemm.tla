------------------------------- MODULE MCGemm --------------------------------
(* The persistent GEMM by itself, and two of them in a fused launch, in one *)
(* run: a behaviour picks one of the two, and the variables of the other    *)
(* stay as they are.                                                        *)
(*                                                                          *)
(* The GEMM, with four CTAs: fewer tiles than CTAs (one tile in up to four  *)
(* slices, stripes that straddle two tiles), as many, and more (5 tiles:    *)
(* the ragged last wave is merged with the wave before it; 6 tiles: a whole *)
(* wave, then a striped tail).                                              *)
(*                                                                          *)
(* The launch, with three: FC1 and FC2 of different shapes, both with a     *)
(* tile that CTAs share, so that FC2 meets the locks FC1 used; built with   *)
(* the input rotation and the sum of the routes in FC2 (MCGrid has the      *)
(* build that zeroes FC2's output in a phase of its own).                   *)
EXTENDS PersistentGemm, FusedMoe

VARIABLE part                                     \* which of them is looked at

mcvars == <<part, vars, launchVars>>

MCProblems ==
  [routeBlocks : 1 .. 3, nTiles : {1}, kTiles : 2 .. 4, mode : {"split_k"}]
    \cup [routeBlocks : {1}, nTiles : {5, 6}, kTiles : 2 .. 3, mode : {"split_k"}]
    \cup [routeBlocks : {2}, nTiles : 2 .. 3, kTiles : {3},
     mode : {"split_k", "whole_tiles", "m_block_8"}]

MCFc1 == [routeBlocks |-> 2, nTiles |-> 1, kTiles |-> 3, mode |-> "split_k"]
MCFc2 == [routeBlocks |-> 2, nTiles |-> 2, kTiles |-> 2, mode |-> "split_k"]

-----------------------------------------------------------------------------
NoGemm == gemm = (CHOOSE g \in Problems : TRUE) /\ skipped = {} /\ Init

NoLaunch == sense = 0 /\ LaunchInit /\ noExpert = {}

MCInit ==
  \/ part = "gemm"   /\ Init /\ NoLaunch
  \/ part = "launch" /\ LaunchInit /\ NoGemm

GemmStep(c) == part = "gemm" /\ Step(c) /\ UNCHANGED <<part, launchVars>>

GemmDone == part = "gemm" /\ (\A c \in CTAs : pc[c] = "done") /\ UNCHANGED mcvars

FusedStep(c) == part = "launch" /\ LaunchStep(c) /\ UNCHANGED <<part, vars>>

FusedAgain == part = "launch" /\ NextLaunch /\ UNCHANGED <<part, vars>>

MCNext ==
  \/ \E c \in CTAs : GemmStep(c)
  \/ GemmDone
  \/ \E c \in LaunchCTAs : FusedStep(c)
  \/ FusedAgain

\* That every CTA keeps running is more than is needed, and costs TLC more:
\* some CTA that can go on does.
MCFairness == WF_mcvars((\E c \in CTAs : GemmStep(c)) \/ \E c \in LaunchCTAs : FusedStep(c))

MCSpec == MCInit /\ [][MCNext]_mcvars /\ MCFairness

-----------------------------------------------------------------------------
\* No CTA of the GEMM waits for a turn that never comes: Terminates, of the
\* behaviours of the GEMM alone.
GemmTerminates == part = "gemm" => Terminates

Returned(c) == IF part = "gemm" THEN TRUE ELSE Retired(c)

\* Every fused launch ends: no CTA spins on a lock or a barrier for ever.
LaunchEnds == \A c \in LaunchCTAs : ~Returned(c) ~> Returned(c)
=============================================================================

---------------------------- MODULE FusedMoeProof ----------------------------
(***************************************************************************)
(* Proofs about FusedMoe, for every grid, every pair of GEMM shapes over   *)
(* the same route blocks and every build.                                  *)
(*                                                                         *)
(* The launch is made of three components whose inductive invariants are   *)
(* already proved: the grid barrier and the two GEMMs.  A GEMM's invariant *)
(* holds while the grid is in its phase; what it leaves, the output and a  *)
(* clear array of locks, is what stands between the two.                   *)
(*                                                                         *)
(* The second half is about LaunchGrid, the size of that grid, for every   *)
(* device, request and setting.                                            *)
(***************************************************************************)
EXTENDS FusedMoe, LaunchGrid, SequenceTheorems, TLAPS

NumBars == Len(Phases) - 1

\* The barriers before FC1.
Fc1At == IF FullRotation THEN 1 ELSE 0

Zeros == [s \in FC1!Slots |-> 0]

B == INSTANCE GridBarrierProof WITH
  NumCTAs <- launch_x, NumBarriers <- Len(Phases) - 1, pc <- bpc

G1 == INSTANCE PersistentGemmProof WITH
  grid_x <- launch_x, Problems <- {Fc1}, Unwritten <- NotStored, gemm <- Fc1,
  skipped <- noExpert, lock <- locks,
  loop <- fc1Loop, pc <- fc1Pc, acc <- fc1Acc, ctmp <- fc1Tmp, tiles <- fc1Out

G2 == INSTANCE PersistentGemmProof WITH
  grid_x <- launch_x, Problems <- {Fc2}, Unwritten <- NotStored, gemm <- Fc2,
  skipped <- noExpert, lock <- locks,
  loop <- fc2Loop, pc <- fc2Pc, acc <- fc2Acc, ctmp <- fc2Tmp, tiles <- fc2Out

-----------------------------------------------------------------------------
(* The phases of a build.                                                  *)

Kinds == {"rotate", "fc1", "activate", "zero", "fc2"}

One(cond) == IF cond THEN 1 ELSE 0

LEMMA OptionalIs ==
  ASSUME NEW x \in Kinds, NEW cond \in BOOLEAN
  PROVE  /\ Optional(cond, x) \in Seq(Kinds)
         /\ Len(Optional(cond, x)) = One(cond)
         /\ cond => Optional(cond, x)[1] = x
<1>1. <<x>> \in Seq(Kinds) /\ Len(<<x>>) = 1 /\ <<x>>[1] = x
  OBVIOUS
<1>2. << >> \in Seq(Kinds)
  OBVIOUS
<1>3. Len(<< >>) = 0
  OBVIOUS
<1>4. CASE cond
  BY <1>1, <1>4, Zenon DEF Optional, One
<1>5. CASE ~cond
  <2>1. Optional(cond, x) = << >> /\ One(cond) = 0
    BY <1>5 DEF Optional, One
  <2> QED BY <1>2, <1>3, <1>5, <2>1, Zenon
<1> QED BY <1>4, <1>5

LEMMA OneMore ==
  ASSUME NEW s \in Seq(Kinds), NEW x \in Kinds, NEW cond \in BOOLEAN
  PROVE  /\ s \o Optional(cond, x) \in Seq(Kinds)
         /\ Len(s \o Optional(cond, x)) = Len(s) + One(cond)
         /\ \A i \in 1 .. Len(s) : (s \o Optional(cond, x))[i] = s[i]
         /\ cond => (s \o Optional(cond, x))[Len(s) + 1] = x
<1> DEFINE o == Optional(cond, x)
<1>1. o \in Seq(Kinds) /\ Len(o) = One(cond) /\ (cond => o[1] = x)
  BY OptionalIs
<1> HIDE DEF o
<1>2. /\ s \o o \in Seq(Kinds)
      /\ Len(s \o o) = Len(s) + Len(o)
      /\ \A i \in 1 .. Len(s) + Len(o) :
           (s \o o)[i] = IF i <= Len(s) THEN s[i] ELSE o[i - Len(s)]
  BY <1>1, ConcatProperties
<1>3. Len(s) \in Nat
  OBVIOUS
<1>4. cond => (s \o o)[Len(s) + 1] = o[1]
  BY <1>1, <1>2, <1>3 DEF One
<1>5. \A i \in 1 .. Len(s) : (s \o o)[i] = s[i]
  BY <1>1, <1>2, <1>3 DEF One
<1> QED BY <1>1, <1>2, <1>4, <1>5 DEF o

LEMMA PhasesAre ==
  /\ Len(Phases) \in Nat
  /\ NumBars \in Nat \ {0}
  /\ NumBars = Fc1At + 1 + One(Gated) + One(ZeroFc2)
  /\ Fc1At \in {0, 1}
  /\ \A e \in 0 .. NumBars :
       /\ Phases[e + 1] = "rotate" <=> FullRotation /\ e = 0
       /\ Phases[e + 1] = "fc1" <=> e = Fc1At
       /\ Phases[e + 1] = "activate" <=> Gated /\ e = Fc1At + 1
       /\ Phases[e + 1] = "zero" <=> ZeroFc2 /\ e = NumBars - 1
       /\ Phases[e + 1] = "fc2" <=> e = NumBars
<1> DEFINE s1 == Optional(FullRotation, "rotate")
           s2 == s1 \o <<"fc1">>
           s3 == s2 \o Optional(Gated, "activate")
           s4 == s3 \o Optional(ZeroFc2, "zero")
<1>0. Phases = s4 \o <<"fc2">> /\ Fc1At = One(FullRotation) /\ NumBars = Len(Phases) - 1
  BY DEF Phases, Fc1At, One, NumBars
<1>1. s1 \in Seq(Kinds) /\ Len(s1) = One(FullRotation) /\ (FullRotation => s1[1] = "rotate")
  <2>1. FullRotation \in BOOLEAN /\ "rotate" \in Kinds
    BY BuildAssumption DEF BuildAssumption, Kinds
  <2> QED BY <2>1, OptionalIs, Zenon
<1> HIDE DEF s1
<1>o. \A x : <<x>> = Optional(TRUE, x)
  BY DEF Optional
<1>2. /\ s2 \in Seq(Kinds) /\ Len(s2) = Len(s1) + 1
      /\ \A i \in 1 .. Len(s1) : s2[i] = s1[i]
      /\ s2[Len(s1) + 1] = "fc1"
  <2>1. s2 = s1 \o Optional(TRUE, "fc1") /\ "fc1" \in Kinds /\ TRUE \in BOOLEAN
    BY <1>o DEF Kinds
  <2> HIDE DEF s2
  <2>2. s2 \in Seq(Kinds) /\ Len(s2) = Len(s1) + One(TRUE)
    BY <1>1, <2>1, OneMore, Zenon
  <2>3. \A i \in 1 .. Len(s1) : s2[i] = s1[i]
    BY <1>1, <2>1, OneMore, Zenon
  <2>4. s2[Len(s1) + 1] = "fc1"
    BY <1>1, <2>1, OneMore, Zenon
  <2> QED BY <2>2, <2>3, <2>4 DEF One
<1> HIDE DEF s2
<1>3. /\ s3 \in Seq(Kinds) /\ Len(s3) = Len(s2) + One(Gated)
      /\ \A i \in 1 .. Len(s2) : s3[i] = s2[i]
      /\ Gated => s3[Len(s2) + 1] = "activate"
  <2>1. Gated \in BOOLEAN /\ "activate" \in Kinds
    BY BuildAssumption DEF BuildAssumption, Kinds
  <2> QED BY <1>2, <2>1, OneMore, Zenon
<1> HIDE DEF s3
<1>4. /\ s4 \in Seq(Kinds) /\ Len(s4) = Len(s3) + One(ZeroFc2)
      /\ \A i \in 1 .. Len(s3) : s4[i] = s3[i]
      /\ ZeroFc2 => s4[Len(s3) + 1] = "zero"
  <2>1. ZeroFc2 \in BOOLEAN /\ "zero" \in Kinds
    BY BuildAssumption DEF BuildAssumption, Kinds
  <2> QED BY <1>3, <2>1, OneMore, Zenon
<1> HIDE DEF s4
<1>5. /\ Phases \in Seq(Kinds) /\ Len(Phases) = Len(s4) + 1
      /\ \A i \in 1 .. Len(s4) : Phases[i] = s4[i]
      /\ Phases[Len(s4) + 1] = "fc2"
  <2>1. Phases = s4 \o Optional(TRUE, "fc2") /\ "fc2" \in Kinds /\ TRUE \in BOOLEAN
    BY <1>0, <1>o DEF Kinds
  <2>2. Phases \in Seq(Kinds) /\ Len(Phases) = Len(s4) + One(TRUE)
    BY <1>4, <2>1, OneMore, Zenon
  <2>3. \A i \in 1 .. Len(s4) : Phases[i] = s4[i]
    BY <1>4, <2>1, OneMore, Zenon
  <2>4. Phases[Len(s4) + 1] = "fc2"
    BY <1>4, <2>1, OneMore, Zenon
  <2> QED BY <2>2, <2>3, <2>4 DEF One
<1>6. /\ NumBars = One(FullRotation) + 1 + One(Gated) + One(ZeroFc2)
      /\ Len(Phases) \in Nat /\ NumBars \in Nat \ {0} /\ Fc1At \in {0, 1}
  <2>1. \A cond \in BOOLEAN : One(cond) \in {0, 1}
    BY DEF One
  <2>2. {One(FullRotation), One(Gated), One(ZeroFc2)} \subseteq {0, 1}
    BY <2>1, BuildAssumption DEF BuildAssumption
  <2> HIDE DEF s1, s2, s3, s4
  <2>3. Len(Phases) = One(FullRotation) + 1 + One(Gated) + One(ZeroFc2) + 1
    BY <1>1, <1>2, <1>3, <1>4, <1>5, <2>2
  <2> QED BY <1>0, <2>2, <2>3
<1>7. /\ FullRotation => Phases[1] = "rotate"
      /\ Phases[Fc1At + 1] = "fc1"
      /\ Gated => Phases[Fc1At + 2] = "activate"
      /\ ZeroFc2 => Phases[NumBars] = "zero"
      /\ Phases[NumBars + 1] = "fc2"
  <2> HIDE DEF s1, s2, s3, s4
  <2>1. \A cond \in BOOLEAN : One(cond) \in {0, 1} /\ (cond => One(cond) = 1)
    BY DEF One
  <2>2. /\ {One(FullRotation), One(Gated), One(ZeroFc2)} \subseteq {0, 1}
        /\ FullRotation => One(FullRotation) = 1
        /\ Gated => One(Gated) = 1
        /\ ZeroFc2 => One(ZeroFc2) = 1
    BY <2>1, BuildAssumption DEF BuildAssumption
  <2>3. /\ Len(s1) = Fc1At /\ Len(s2) = Fc1At + 1 /\ Len(s3) = Fc1At + 1 + One(Gated)
        /\ Len(s4) = NumBars /\ Fc1At \in {0, 1} /\ NumBars = Fc1At + 1 + One(Gated) + One(ZeroFc2)
    BY <1>0, <1>1, <1>2, <1>3, <1>4, <1>6, <2>2
  <2>4. FullRotation => Phases[1] = "rotate"
    BY <1>1, <1>2, <1>3, <1>4, <1>5, <2>2, <2>3
  <2>5. Phases[Fc1At + 1] = "fc1"
    <3>1. Fc1At + 1 \in 1 .. Len(s2) /\ Fc1At + 1 \in 1 .. Len(s3) /\ Fc1At + 1 \in 1 .. Len(s4)
      BY <2>2, <2>3
    <3> QED BY <1>2, <1>3, <1>4, <1>5, <2>3, <3>1
  <2>6. Gated => Phases[Fc1At + 2] = "activate"
    <3>1. Gated => One(Gated) = 1 /\ One(ZeroFc2) \in {0, 1}
      BY <2>2
    <3>2. Gated => Fc1At + 2 = Len(s2) + 1 /\ Fc1At + 2 \in 1 .. Len(s3) /\ Fc1At + 2 \in 1 .. Len(s4)
      <4>1. ASSUME NEW g, NEW z \in {0, 1}, NEW f \in {0, 1}, g = 1
            PROVE  f + 2 = (f + 1) + 1 /\ f + 2 \in 1 .. f + 1 + g /\ f + 2 \in 1 .. f + 1 + g + z
        BY <4>1
      <4> QED BY <3>1, <2>3, <4>1, Zenon
    <3> QED BY <1>3, <1>4, <1>5, <3>2
  <2>7. ZeroFc2 => Phases[NumBars] = "zero"
    <3>1. ZeroFc2 => One(ZeroFc2) = 1 /\ One(Gated) \in {0, 1}
      BY <2>2
    <3>2. ZeroFc2 => NumBars = Len(s3) + 1 /\ NumBars \in 1 .. Len(s4)
      <4>1. ASSUME ZeroFc2 PROVE NumBars = (Fc1At + 1 + One(Gated)) + 1 /\ NumBars \in 1 .. NumBars
        <5>1. One(ZeroFc2) = 1 /\ One(Gated) \in {0, 1} /\ Fc1At \in {0, 1}
          BY <4>1, <3>1, <2>3, Zenon
        <5>2. PICK g \in {0, 1} : g = One(Gated)
          BY <5>1, Zenon
        <5>3. NumBars = (Fc1At + 1 + g) + 1
          <6>1. NumBars = Fc1At + 1 + g + 1
            BY <2>3, <5>1, <5>2, Zenon
          <6> QED BY <6>1
        <5>4. NumBars \in 1 .. NumBars
          BY <5>1, <5>3
        <5> QED BY <5>2, <5>3, <5>4, Zenon
      <4> QED BY <2>3, <4>1, Zenon
    <3> QED BY <1>4, <1>5, <3>2
  <2> QED BY <2>3, <2>4, <2>5, <2>6, <2>7, <1>5
<1>8. \A e \in 0 .. NumBars :
        \/ FullRotation /\ e = 0
        \/ e = Fc1At
        \/ Gated /\ e = Fc1At + 1
        \/ ZeroFc2 /\ e = NumBars - 1
        \/ e = NumBars
  BY <1>0, <1>6 DEF One
<1>9. /\ ~(FullRotation /\ Fc1At = 0)
      /\ Gated /\ ZeroFc2 => Fc1At + 1 # NumBars - 1
      /\ ZeroFc2 => Fc1At # NumBars - 1
      /\ Gated => Fc1At + 1 # NumBars
      /\ Fc1At # NumBars
  BY <1>0, <1>6 DEF One
<1> QED BY <1>0, <1>6, <1>7, <1>8, <1>9 DEF One

-----------------------------------------------------------------------------
(* The assumptions under which the components were proved.                 *)

LEMMA BarrierAssumed ==
  B!GridAssumption /\ B!NumBarriersAssumption /\ B!SenseModAssumption
BY LaunchAssumption, PhasesAre DEF LaunchAssumption, NumBars,
   B!GridAssumption, B!NumBarriersAssumption, B!SenseModAssumption

LEMMA GemmsAssumed ==
  /\ G1!GridAssumption /\ G1!ProblemsAssumption
  /\ G2!GridAssumption /\ G2!ProblemsAssumption
BY LaunchAssumption DEF LaunchAssumption, FC1!Mode, G1!Mode, G2!Mode,
   G1!GridAssumption, G1!ProblemsAssumption, G2!GridAssumption, G2!ProblemsAssumption

-----------------------------------------------------------------------------
(* The inductive invariant.                                                *)

\* CTA c is done with phase e: it is at the barrier after it, or past it.
Beyond(c, e) ==
  \/ episode[c] > e
  \/ episode[c] = e /\ bpc[c] \in {"arrive", "reset", "flip", "spin"}

\* A CTA does its part of a phase before it goes to the barrier after it.
SharesDone(c) ==
  /\ FullRotation /\ Beyond(c, 0) => c \in rotated
  /\ Beyond(c, Fc1At) => fc1Pc[c] = "done" /\ (TcZero => c \in zeroed)
  /\ Gated /\ Beyond(c, Fc1At + 1) => c \in activated
  /\ ZeroFc2 /\ Beyond(c, NumBars - 1) => c \in zeroed

\* What FC1 leaves, and how FC2 is found.
Fc1Stored ==
  \A t \in FC1!Tiles :
    fc1Out[t] = IF Wanted(Fc1, t) THEN [k \in FC1!KTiles |-> 1] ELSE NotStored

Fc2Fresh ==
  /\ fc2Loop = [c \in LaunchCTAs |-> FC2!StartLoop(Fc2, c)]
  /\ fc2Pc = [c \in LaunchCTAs |-> FC2!StartLabel(Fc2)]
  /\ fc2Acc = [c \in LaunchCTAs |-> FC2!RangeCounts(0, 0)]
  /\ fc2Tmp = [s \in FC2!Slots |-> FC2!Garbage]
  /\ fc2Out = [t \in FC2!Tiles |-> NotStored]

\* The two GEMMs, by the number of barriers the grid has passed.
GemmsInv ==
  /\ flips <= Fc1At => G1!IInv
  /\ flips > Fc1At => Fc1Stored
  /\ flips > Fc1At /\ flips < NumBars => locks = Zeros
  /\ flips < NumBars => Fc2Fresh
  /\ flips = NumBars => G2!IInv

SharesInv ==
  /\ {rotated, activated, zeroed} \subseteq SUBSET LaunchCTAs
  /\ \A c \in LaunchCTAs : SharesDone(c)
  /\ ZeroFc2 => \A c \in zeroed : episode[c] >= NumBars - 1

FusedInv == noExpert \subseteq 0 .. Fc1.routeBlocks - 1 /\ B!IInv /\ GemmsInv /\ SharesInv

-----------------------------------------------------------------------------
(* The GEMMs in a launch.                                                  *)

LEMMA Fc1StepIs ==
  ASSUME NEW c, FC1!Step(c)
  PROVE  G1!Step(c)
BY DEF FC1!Step, G1!Step, FC1!PickWave, G1!PickWave, FC1!PickTail, G1!PickTail,
   FC1!Finish, G1!Finish, FC1!TakeTurn, G1!TakeTurn, FC1!Merge, G1!Merge,
   FC1!Publish, G1!Publish, FC1!Store, G1!Store, FC1!Emit, G1!Emit,
   FC1!WaveIteration, G1!WaveIteration, FC1!AtTail, G1!AtTail,
   FC1!EnterTail, G1!EnterTail, FC1!TailCount, G1!TailCount,
   FC1!TailIteration, G1!TailIteration, FC1!SlotStep, G1!SlotStep,
   FC1!Advance, G1!Advance, FC1!TileOf, G1!TileOf, FC1!Emits, G1!Emits,
   FC1!MyTurn, G1!MyTurn, FC1!IsLastSlice, G1!IsLastSlice, FC1!Merged, G1!Merged,
   FC1!PlusCounts, G1!PlusCounts, FC1!RangeCounts, G1!RangeCounts,
   FC1!KTiles, G1!KTiles, FC1!NextTurn, G1!NextTurn, FC1!MnTiles, G1!MnTiles,
   FC1!TailTiles, G1!TailTiles, FC1!Iters, G1!Iters, FC1!CeilDiv, G1!CeilDiv,
   FC1!TailShare, G1!TailShare, FC1!SliceCount, G1!SliceCount,
   FC1!SliceIdx, G1!SliceIdx, FC1!BoundaryInside, G1!BoundaryInside,
   FC1!BoundaryOffset, G1!BoundaryOffset, FC1!FirstBoundary, G1!FirstBoundary,
   FC1!ForceOneTilePerCta, G1!ForceOneTilePerCta

LEMMA Fc2StepIs ==
  ASSUME NEW c, FC2!Step(c)
  PROVE  G2!Step(c)
BY DEF FC2!Step, G2!Step, FC2!PickWave, G2!PickWave, FC2!PickTail, G2!PickTail,
   FC2!Finish, G2!Finish, FC2!TakeTurn, G2!TakeTurn, FC2!Merge, G2!Merge,
   FC2!Publish, G2!Publish, FC2!Store, G2!Store, FC2!Emit, G2!Emit,
   FC2!WaveIteration, G2!WaveIteration, FC2!AtTail, G2!AtTail,
   FC2!EnterTail, G2!EnterTail, FC2!TailCount, G2!TailCount,
   FC2!TailIteration, G2!TailIteration, FC2!SlotStep, G2!SlotStep,
   FC2!Advance, G2!Advance, FC2!TileOf, G2!TileOf, FC2!Emits, G2!Emits,
   FC2!MyTurn, G2!MyTurn, FC2!IsLastSlice, G2!IsLastSlice, FC2!Merged, G2!Merged,
   FC2!PlusCounts, G2!PlusCounts, FC2!RangeCounts, G2!RangeCounts,
   FC2!KTiles, G2!KTiles, FC2!NextTurn, G2!NextTurn, FC2!MnTiles, G2!MnTiles,
   FC2!TailTiles, G2!TailTiles, FC2!Iters, G2!Iters, FC2!CeilDiv, G2!CeilDiv,
   FC2!TailShare, G2!TailShare, FC2!SliceCount, G2!SliceCount,
   FC2!SliceIdx, G2!SliceIdx, FC2!BoundaryInside, G2!BoundaryInside,
   FC2!BoundaryOffset, G2!BoundaryOffset, FC2!FirstBoundary, G2!FirstBoundary,
   FC2!ForceOneTilePerCta, G2!ForceOneTilePerCta

LEMMA Fc1Keeps ==
  ASSUME G1!IInv, UNCHANGED <<noExpert, locks, fc1Vars>> \/ \E c \in LaunchCTAs : FC1!Step(c)
  PROVE  G1!IInv'
<1>1. CASE UNCHANGED <<noExpert, locks, fc1Vars>>
  <2>1. UNCHANGED G1!vars
    BY <1>1 DEF G1!vars, fc1Vars
  <2> QED BY <2>1, G1!StepInv, GemmsAssumed
<1>2. CASE \E c \in LaunchCTAs : FC1!Step(c)
  <2>1. G1!Next
    BY <1>2, Fc1StepIs DEF G1!Next, G1!CTAs, LaunchCTAs
  <2> QED BY <2>1, G1!StepInv, GemmsAssumed
<1> QED BY <1>1, <1>2

LEMMA Fc2Keeps ==
  ASSUME G2!IInv, UNCHANGED <<noExpert, locks, fc2Vars>> \/ \E c \in LaunchCTAs : FC2!Step(c)
  PROVE  G2!IInv'
<1>1. CASE UNCHANGED <<noExpert, locks, fc2Vars>>
  <2>1. UNCHANGED G2!vars
    BY <1>1 DEF G2!vars, fc2Vars
  <2> QED BY <2>1, G2!StepInv, GemmsAssumed
<1>2. CASE \E c \in LaunchCTAs : FC2!Step(c)
  <2>1. G2!Next
    BY <1>2, Fc2StepIs DEF G2!Next, G2!CTAs, LaunchCTAs
  <2> QED BY <2>1, G2!StepInv, GemmsAssumed
<1> QED BY <1>1, <1>2

\* A GEMM that every CTA has left has stored its output and cleared the locks.
LEMMA Fc1Leaves ==
  ASSUME G1!IInv, \A c \in LaunchCTAs : fc1Pc[c] = "done"
  PROVE  Fc1Stored /\ locks = Zeros
<1>1. \A c \in G1!CTAs : fc1Pc[c] = "done"
  BY DEF G1!CTAs, LaunchCTAs
<1>2. \A t \in G1!Tiles :
        fc1Out[t] = IF t \div Fc1.nTiles \notin noExpert THEN [k \in G1!KTiles |-> 1] ELSE NotStored
  BY <1>1, G1!OutputWhenDone, GemmsAssumed
<1>3. G1!LeavesNothingBehind /\ G1!TypeOK
  BY G1!NothingLeftFromInv, G1!TypesCorrect, GemmsAssumed
<1>4. locks \in [FC1!Slots -> Nat] /\ \A s \in FC1!Slots : locks[s] = 0
  BY <1>1, <1>3 DEF G1!LeavesNothingBehind, G1!TypeOK, G1!Slots, FC1!Slots
<1>5. locks = Zeros
  BY <1>4 DEF Zeros
<1>6. G1!Tiles = FC1!Tiles /\ G1!KTiles = FC1!KTiles
  BY DEF G1!Tiles, FC1!Tiles, G1!KTiles, FC1!KTiles, G1!MnTiles, FC1!MnTiles
<1> QED BY <1>2, <1>5, <1>6 DEF Fc1Stored, Wanted

LEMMA Fc2Leaves ==
  ASSUME G2!IInv, \A c \in LaunchCTAs : fc2Pc[c] = "done"
  PROVE  /\ \A t \in FC2!Tiles :
              fc2Out[t] = IF Wanted(Fc2, t) THEN [k \in FC2!KTiles |-> 1] ELSE NotStored
         /\ locks = Zeros
<1>1. \A c \in G2!CTAs : fc2Pc[c] = "done"
  BY DEF G2!CTAs, LaunchCTAs
<1>2. \A t \in G2!Tiles :
        fc2Out[t] = IF t \div Fc2.nTiles \notin noExpert THEN [k \in G2!KTiles |-> 1] ELSE NotStored
  BY <1>1, G2!OutputWhenDone, GemmsAssumed
<1>3. G2!LeavesNothingBehind /\ G2!TypeOK
  BY G2!NothingLeftFromInv, G2!TypesCorrect, GemmsAssumed
<1>4. locks \in [FC1!Slots -> Nat] /\ \A s \in FC1!Slots : locks[s] = 0
  BY <1>1, <1>3 DEF G2!LeavesNothingBehind, G2!TypeOK, G2!Slots, FC1!Slots
<1>5. locks = Zeros
  BY <1>4 DEF Zeros
<1>6. G2!Tiles = FC2!Tiles /\ G2!KTiles = FC2!KTiles
  BY DEF G2!Tiles, FC2!Tiles, G2!KTiles, FC2!KTiles, G2!MnTiles, FC2!MnTiles
<1> QED BY <1>2, <1>5, <1>6 DEF Wanted

\* A GEMM starts from its first state.
Fc1First ==
  /\ noExpert \subseteq 0 .. Fc1.routeBlocks - 1 /\ locks = Zeros
  /\ fc1Loop = [c \in LaunchCTAs |-> FC1!StartLoop(Fc1, c)]
  /\ fc1Pc = [c \in LaunchCTAs |-> FC1!StartLabel(Fc1)]
  /\ fc1Acc = [c \in LaunchCTAs |-> FC1!RangeCounts(0, 0)]
  /\ fc1Tmp = [s \in FC1!Slots |-> FC1!Garbage]
  /\ fc1Out = [t \in FC1!Tiles |-> NotStored]

LEMMA Fc1Starts == Fc1First => G1!IInv
<1> SUFFICES ASSUME Fc1First PROVE G1!IInv
  OBVIOUS
<1>1. G1!Slots = FC1!Slots /\ G1!Tiles = FC1!Tiles /\ G1!CTAs = LaunchCTAs
  BY DEF G1!Slots, FC1!Slots, G1!Tiles, FC1!Tiles, G1!MnTiles, FC1!MnTiles, G1!CTAs, LaunchCTAs
<1>2. G1!Garbage = FC1!Garbage /\ G1!RangeCounts(0, 0) = FC1!RangeCounts(0, 0)
  BY DEF G1!Garbage, FC1!Garbage, G1!RangeCounts, FC1!RangeCounts, G1!KTiles, FC1!KTiles
<1>3. /\ G1!StartLabel(Fc1) = FC1!StartLabel(Fc1)
      /\ \A c : G1!StartLoop(Fc1, c) = FC1!StartLoop(Fc1, c)
  BY DEF G1!StartLabel, FC1!StartLabel, G1!StartLoop, FC1!StartLoop,
     G1!HasAnyWork, FC1!HasAnyWork, G1!Iters, FC1!Iters, G1!FullWaves, FC1!FullWaves,
     G1!FirstLockSlot, FC1!FirstLockSlot, G1!MnTiles, FC1!MnTiles,
     G1!TailTiles, FC1!TailTiles, G1!CeilDiv, FC1!CeilDiv,
     G1!ForceOneTilePerCta, FC1!ForceOneTilePerCta,
     G1!FirstBoundary, FC1!FirstBoundary, G1!BoundaryInside, FC1!BoundaryInside,
     G1!BoundaryOffset, FC1!BoundaryOffset
<1>4. G1!Init
  BY <1>1, <1>2, <1>3 DEF G1!Init, Zeros, Fc1First
<1> QED BY <1>4, G1!InitInv, GemmsAssumed

LEMMA Fc2Starts ==
  ASSUME noExpert \subseteq 0 .. Fc1.routeBlocks - 1, locks = Zeros, Fc2Fresh
  PROVE  G2!IInv
<1>1. G2!Slots = FC1!Slots /\ G2!Slots = FC2!Slots /\ G2!Tiles = FC2!Tiles /\ G2!CTAs = LaunchCTAs
  BY DEF G2!Slots, FC1!Slots, FC2!Slots, G2!Tiles, FC2!Tiles, G2!MnTiles, FC2!MnTiles,
     G2!CTAs, LaunchCTAs
<1>2. G2!Garbage = FC2!Garbage /\ G2!RangeCounts(0, 0) = FC2!RangeCounts(0, 0)
  BY DEF G2!Garbage, FC2!Garbage, G2!RangeCounts, FC2!RangeCounts, G2!KTiles, FC2!KTiles
<1>3. /\ G2!StartLabel(Fc2) = FC2!StartLabel(Fc2)
      /\ \A c : G2!StartLoop(Fc2, c) = FC2!StartLoop(Fc2, c)
  BY DEF G2!StartLabel, FC2!StartLabel, G2!StartLoop, FC2!StartLoop,
     G2!HasAnyWork, FC2!HasAnyWork, G2!Iters, FC2!Iters, G2!FullWaves, FC2!FullWaves,
     G2!FirstLockSlot, FC2!FirstLockSlot, G2!MnTiles, FC2!MnTiles,
     G2!TailTiles, FC2!TailTiles, G2!CeilDiv, FC2!CeilDiv,
     G2!ForceOneTilePerCta, FC2!ForceOneTilePerCta,
     G2!FirstBoundary, FC2!FirstBoundary, G2!BoundaryInside, FC2!BoundaryInside,
     G2!BoundaryOffset, FC2!BoundaryOffset
<1>4. noExpert \subseteq 0 .. Fc2.routeBlocks - 1
  BY LaunchAssumption DEF LaunchAssumption
<1>5. G2!Init
  BY <1>1, <1>2, <1>3, <1>4 DEF G2!Init, Zeros, Fc2Fresh
<1> QED BY <1>5, G2!InitInv, GemmsAssumed

-----------------------------------------------------------------------------
(* Where the CTAs stand.                                                   *)

LEMMA Standing ==
  ASSUME FusedInv
  PROVE  /\ flips \in 0 .. NumBars
         /\ \A c \in LaunchCTAs :
              /\ episode[c] \in 0 .. NumBars /\ bpc[c] \in B!Label
              /\ bpc[c] = "work" => episode[c] = flips
              /\ bpc[c] = "exit" <=> episode[c] = NumBars
              /\ episode[c] = flips \/ (episode[c] + 1 = flips /\ bpc[c] = "spin")
<1>1. NumBars \in Nat \ {0} /\ NumBars = Len(Phases) - 1
  BY PhasesAre DEF NumBars
<1>2. /\ flips \in 0 .. NumBars
      /\ bpc \in [LaunchCTAs -> B!Label]
      /\ episode \in [LaunchCTAs -> 0 .. NumBars]
      /\ \A c \in LaunchCTAs : B!Placed(c)
  BY <1>1 DEF FusedInv, B!IInv, B!TypeOK, B!CTA, LaunchCTAs
<1> SUFFICES ASSUME NEW c \in LaunchCTAs
             PROVE  /\ bpc[c] = "work" => episode[c] = flips
                    /\ bpc[c] = "exit" <=> episode[c] = NumBars
                    /\ episode[c] = flips \/ (episode[c] + 1 = flips /\ bpc[c] = "spin")
  BY <1>2
<1>3. /\ bpc[c] \in {"work", "arrive", "reset", "flip", "spin", "exit"}
      /\ episode[c] \in 0 .. NumBars
  BY <1>2 DEF B!Label
<1>4. /\ episode[c] = flips \/ (episode[c] + 1 = flips /\ bpc[c] = "spin")
      /\ bpc[c] \in {"work", "arrive", "reset", "flip", "spin"} => episode[c] < NumBars
      /\ bpc[c] = "exit" => episode[c] = NumBars
  BY <1>1, <1>2, Zenon DEF B!Placed, B!Level
<1>5. bpc[c] = "work" => episode[c] = flips
  BY <1>4
<1>6. episode[c] = NumBars => bpc[c] = "exit"
  <2>1. episode[c] = NumBars => ~ episode[c] < NumBars
    BY <1>1
  <2> QED BY <1>3, <1>4, <2>1, Zenon
<1> QED BY <1>4, <1>5, <1>6

LEMMA PhaseIs ==
  ASSUME FusedInv, NEW c \in LaunchCTAs
  PROVE  /\ Phase(c) = "rotate" <=> FullRotation /\ episode[c] = 0
         /\ Phase(c) = "fc1" <=> episode[c] = Fc1At
         /\ Phase(c) = "activate" <=> Gated /\ episode[c] = Fc1At + 1
         /\ Phase(c) = "zero" <=> ZeroFc2 /\ episode[c] = NumBars - 1
         /\ Phase(c) = "fc2" <=> episode[c] = NumBars
BY Standing, PhasesAre DEF Phase

\* Once the grid has passed a barrier every CTA is beyond the phase before it.
LEMMA AllBeyond ==
  ASSUME FusedInv, NEW c \in LaunchCTAs, NEW e \in Nat, e < flips
  PROVE  Beyond(c, e)
BY Standing DEF Beyond

LEMMA BarrierKeeps ==
  ASSUME FusedInv,
         \/ UNCHANGED barrierVars
         \/ \E c \in LaunchCTAs :
              \/ Barrier!ReadSense(c) \/ Barrier!Arrive(c) \/ Barrier!ResetCount(c)
              \/ Barrier!FlipSense(c) \/ Barrier!SeeFlip(c)
         \/ Barrier!Relaunch
  PROVE  B!IInv'
<1>1. B!IInv
  BY DEF FusedInv
<1>2. B!Next \/ UNCHANGED B!vars
  <2>1. CASE UNCHANGED barrierVars
    BY <2>1 DEF barrierVars, B!vars
  <2>2. ASSUME NEW c \in LaunchCTAs,
               \/ Barrier!ReadSense(c) \/ Barrier!Arrive(c) \/ Barrier!ResetCount(c)
               \/ Barrier!FlipSense(c) \/ Barrier!SeeFlip(c)
        PROVE  B!Next
    <3>1. B!Step(c)
      BY <2>2 DEF B!Step, Barrier!ReadSense, B!ReadSense, Barrier!Arrive, B!Arrive,
         Barrier!ResetCount, B!ResetCount, Barrier!FlipSense, B!FlipSense,
         Barrier!SeeFlip, B!SeeFlip, Barrier!Leave, B!Leave, Barrier!IsLast, B!IsLast
    <3> QED BY <3>1 DEF B!Next, B!CTA, LaunchCTAs
  <2>3. CASE Barrier!Relaunch
    BY <2>3 DEF B!Next, Barrier!Relaunch, B!Relaunch, Barrier!CTA, B!CTA
  <2> QED BY <2>1, <2>2, <2>3
<1> QED BY <1>1, <1>2, B!NextInv, BarrierAssumed

LEMMA GemmsStand ==
  ASSUME FusedInv, UNCHANGED <<flips, noExpert, locks, fc1Vars, fc2Vars>>
  PROVE  GemmsInv'
<1>1. flips <= Fc1At => G1!IInv'
  BY Fc1Keeps DEF FusedInv, GemmsInv
<1>2. flips = NumBars => G2!IInv'
  BY Fc2Keeps DEF FusedInv, GemmsInv
<1>3. Zeros' = Zeros /\ Fc1At' = Fc1At /\ NumBars' = NumBars
  BY DEF Zeros, Fc1At, NumBars, Phases, FC1!Slots
<1>4. (Fc1Stored' <=> Fc1Stored) /\ (Fc2Fresh' <=> Fc2Fresh)
  BY DEF Fc1Stored, Fc2Fresh, Wanted, fc1Vars, fc2Vars, FC1!Tiles, FC1!KTiles
<1> QED BY <1>1, <1>2, <1>3, <1>4 DEF FusedInv, GemmsInv

\* Nobody gets beyond a phase in this step, and no share is undone.
LEMMA SharesGrow ==
  ASSUME FusedInv,
         \A c \in LaunchCTAs : episode'[c] >= episode[c] /\ episode'[c] \in Nat,
         \A c \in LaunchCTAs : \A e \in 0 .. NumBars : Beyond(c, e)' => Beyond(c, e),
         \A c \in LaunchCTAs : Beyond(c, Fc1At) => fc1Pc'[c] = fc1Pc[c],
         rotated \subseteq rotated', activated \subseteq activated', zeroed \subseteq zeroed',
         {rotated', activated', zeroed'} \subseteq SUBSET LaunchCTAs,
         ZeroFc2 => \A c \in zeroed' \ zeroed : episode[c] >= NumBars - 1
  PROVE  SharesInv'
<1>1. /\ NumBars \in Nat \ {0} /\ Fc1At \in 0 .. NumBars /\ 0 \in 0 .. NumBars
      /\ NumBars - 1 \in 0 .. NumBars
      /\ Gated => Fc1At + 1 \in 0 .. NumBars
  BY PhasesAre, BuildAssumption DEF BuildAssumption, One
<1>2. SharesInv /\ Fc1At' = Fc1At /\ NumBars' = NumBars
  BY DEF FusedInv, Fc1At, NumBars, Phases
<1>3. ASSUME NEW c \in LaunchCTAs PROVE SharesDone(c)'
  <2>1. SharesDone(c)
    BY <1>2 DEF SharesInv
  <2>2. \A e \in 0 .. NumBars : Beyond(c, e)' => Beyond(c, e)
    OBVIOUS
  <2>3. FullRotation /\ Beyond(c, 0)' => c \in rotated'
    BY <1>1, <2>1, <2>2 DEF SharesDone
  <2>4. Beyond(c, Fc1At)' => fc1Pc'[c] = "done" /\ (TcZero => c \in zeroed')
    BY <1>1, <2>1, <2>2 DEF SharesDone
  <2>5. Gated /\ Beyond(c, Fc1At + 1)' => c \in activated'
    BY <1>1, <2>1, <2>2 DEF SharesDone
  <2>6. ZeroFc2 /\ Beyond(c, NumBars - 1)' => c \in zeroed'
    BY <1>1, <2>1, <2>2 DEF SharesDone
  <2> QED BY <1>2, <2>3, <2>4, <2>5, <2>6 DEF SharesDone
<1>4. ZeroFc2 => \A c \in zeroed' : episode'[c] >= NumBars' - 1
  <2> SUFFICES ASSUME ZeroFc2, NEW c \in zeroed' PROVE episode'[c] >= NumBars - 1
    BY <1>2
  <2>1. c \in LaunchCTAs /\ episode[c] >= NumBars - 1
    BY <1>2 DEF SharesInv
  <2>2. episode[c] \in 0 .. NumBars
    BY <2>1, Standing
  <2> QED BY <1>1, <2>1, <2>2
<1>5. LaunchCTAs' = LaunchCTAs
  BY DEF LaunchCTAs
<1> QED BY <1>2, <1>3, <1>4, <1>5 DEF SharesInv

-----------------------------------------------------------------------------
(* Every step keeps the invariant.                                         *)

LEMMA ShareKeeps ==
  ASSUME FusedInv, NEW c \in LaunchCTAs, Rotate(c) \/ Activate(c) \/ Zero(c)
  PROVE  FusedInv'
<1>1. /\ UNCHANGED <<barrierVars, noExpert, locks, fc1Vars, fc2Vars>>
      /\ rotated \subseteq rotated' /\ activated \subseteq activated' /\ zeroed \subseteq zeroed'
      /\ rotated' \subseteq rotated \cup {c} /\ activated' \subseteq activated \cup {c}
      /\ zeroed' \subseteq zeroed \cup {c}
  BY DEF Rotate, Activate, Zero
<1>2. B!IInv' /\ GemmsInv'
  BY <1>1, BarrierKeeps, GemmsStand DEF barrierVars
<1>3. {rotated', activated', zeroed'} \subseteq SUBSET LaunchCTAs
  BY <1>1 DEF FusedInv, SharesInv
<1>4. ZeroFc2 => \A d \in zeroed' \ zeroed : episode[d] >= NumBars - 1
  <2> SUFFICES ASSUME ZeroFc2, NEW d \in zeroed' \ zeroed PROVE episode[d] >= NumBars - 1
    OBVIOUS
  <2>1. d = c /\ Zero(c)
    BY <1>1 DEF Rotate, Activate
  <2>2. ZeroFc2 /\ Phase(c) = "zero"
    BY <2>1, BuildAssumption DEF Zero, ZeroHere, BuildAssumption
  <2>3. episode[d] = NumBars - 1
    BY <2>1, <2>2, PhaseIs
  <2>4. NumBars \in Nat
    BY PhasesAre
  <2> QED BY <2>3, <2>4
<1>5. /\ \A d \in LaunchCTAs : episode'[d] >= episode[d] /\ episode'[d] \in Nat
      /\ \A d \in LaunchCTAs : \A e \in 0 .. NumBars : Beyond(d, e)' => Beyond(d, e)
      /\ \A d \in LaunchCTAs : Beyond(d, Fc1At) => fc1Pc'[d] = fc1Pc[d]
  BY <1>1, Standing, PhasesAre DEF Beyond, barrierVars, fc1Vars
<1>6. SharesInv'
  BY <1>1, <1>3, <1>4, <1>5, SharesGrow
<1> QED BY <1>1, <1>2, <1>6 DEF FusedInv

LEMMA Fc1Moves ==
  ASSUME G1!IInv, NEW c \in LaunchCTAs, FC1!Step(c), NEW d \in LaunchCTAs, d # c
  PROVE  fc1Pc'[d] = fc1Pc[d]
<1>1. G1!TypeOK
  BY G1!TypesCorrect, GemmsAssumed
<1>2. DOMAIN fc1Pc = LaunchCTAs
  BY <1>1 DEF G1!TypeOK, G1!CTAs, LaunchCTAs
<1>3. fc1Pc' = fc1Pc \/ \E label : fc1Pc' = [fc1Pc EXCEPT ![c] = label]
  <2>1. CASE FC1!PickWave(c) \/ FC1!PickTail(c)
    BY <2>1 DEF FC1!PickWave, FC1!PickTail, FC1!Emit
  <2>2. CASE FC1!Finish(c) \/ FC1!TakeTurn(c) \/ FC1!Merge(c) \/ FC1!Publish(c) \/ FC1!Store(c)
    BY <2>2 DEF FC1!Finish, FC1!TakeTurn, FC1!Merge, FC1!Publish, FC1!Store
  <2> QED BY <2>1, <2>2 DEF FC1!Step
<1> QED BY <1>2, <1>3

LEMMA RunFc1Keeps ==
  ASSUME FusedInv, NEW c \in LaunchCTAs, RunFc1(c)
  PROVE  FusedInv'
<1>1. /\ bpc[c] = "work" /\ episode[c] = Fc1At /\ flips = Fc1At /\ FC1!Step(c)
      /\ UNCHANGED <<barrierVars, fc2Vars, shareVars>>
  BY PhaseIs, Standing DEF RunFc1
<1>2. UNCHANGED noExpert
  BY <1>1, Fc1StepIs DEF G1!Step, G1!PickWave, G1!PickTail, G1!Finish, G1!TakeTurn,
     G1!Merge, G1!Publish, G1!Store, G1!Emit
<1>3. Fc1At < NumBars /\ Fc1At \in Nat /\ NumBars \in Nat
  BY PhasesAre, BuildAssumption DEF BuildAssumption, One
<1>4. B!IInv'
  BY <1>1, BarrierKeeps
<1>5. GemmsInv'
  <2>1. G1!IInv'
    BY <1>1, <1>3, Fc1Keeps DEF FusedInv, GemmsInv
  <2>2. Fc2Fresh'
    BY <1>1, <1>3 DEF FusedInv, GemmsInv, Fc2Fresh, fc2Vars
  <2>3. flips' = flips /\ Fc1At' = Fc1At /\ NumBars' = NumBars
    BY <1>1 DEF barrierVars, Fc1At, NumBars, Phases
  <2> QED BY <1>1, <1>3, <2>1, <2>2, <2>3 DEF GemmsInv
<1>6. \A d \in LaunchCTAs : Beyond(d, Fc1At) => fc1Pc'[d] = fc1Pc[d]
  <2>1. ~Beyond(c, Fc1At)
    BY <1>1, <1>3 DEF Beyond
  <2>2. G1!IInv
    BY <1>1, <1>3 DEF FusedInv, GemmsInv
  <2> QED BY <1>1, <2>1, <2>2, Fc1Moves
<1>7. /\ \A d \in LaunchCTAs : episode'[d] >= episode[d] /\ episode'[d] \in Nat
      /\ \A d \in LaunchCTAs : \A e \in 0 .. NumBars : Beyond(d, e)' => Beyond(d, e)
      /\ {rotated', activated', zeroed'} \subseteq SUBSET LaunchCTAs
      /\ rotated' = rotated /\ activated' = activated /\ zeroed' = zeroed
  BY <1>1, Standing, PhasesAre DEF Beyond, barrierVars, shareVars, FusedInv, SharesInv
<1>8. SharesInv'
  BY <1>6, <1>7, SharesGrow
<1> QED BY <1>2, <1>4, <1>5, <1>8 DEF FusedInv

LEMMA RunFc2Keeps ==
  ASSUME FusedInv, NEW c \in LaunchCTAs, RunFc2(c)
  PROVE  FusedInv'
<1>1. Fc1At < NumBars /\ Fc1At \in Nat /\ NumBars \in Nat
  BY PhasesAre, BuildAssumption DEF BuildAssumption, One
<1>2. /\ episode[c] = NumBars /\ flips = NumBars /\ FC2!Step(c)
      /\ UNCHANGED <<barrierVars, fc1Vars, shareVars>>
  BY <1>1, PhaseIs, Standing DEF RunFc2
<1>3. UNCHANGED noExpert
  BY <1>2, Fc2StepIs DEF G2!Step, G2!PickWave, G2!PickTail, G2!Finish, G2!TakeTurn,
     G2!Merge, G2!Publish, G2!Store, G2!Emit
<1>4. B!IInv'
  BY <1>2, BarrierKeeps
<1>5. GemmsInv'
  <2>1. G2!IInv'
    BY <1>2, Fc2Keeps DEF FusedInv, GemmsInv
  <2>2. Fc1Stored'
    BY <1>1, <1>2, <1>3 DEF FusedInv, GemmsInv, Fc1Stored, Wanted, fc1Vars, FC1!Tiles, FC1!KTiles
  <2>3. flips' = flips /\ Fc1At' = Fc1At /\ NumBars' = NumBars
    BY <1>2 DEF barrierVars, Fc1At, NumBars, Phases
  <2> QED BY <1>1, <1>2, <2>1, <2>2, <2>3 DEF GemmsInv
<1>6. /\ \A d \in LaunchCTAs : episode'[d] >= episode[d] /\ episode'[d] \in Nat
      /\ \A d \in LaunchCTAs : \A e \in 0 .. NumBars : Beyond(d, e)' => Beyond(d, e)
      /\ \A d \in LaunchCTAs : Beyond(d, Fc1At) => fc1Pc'[d] = fc1Pc[d]
      /\ {rotated', activated', zeroed'} \subseteq SUBSET LaunchCTAs
      /\ rotated' = rotated /\ activated' = activated /\ zeroed' = zeroed
  BY <1>2, Standing, PhasesAre DEF Beyond, barrierVars, fc1Vars, shareVars, FusedInv, SharesInv
<1>7. SharesInv'
  BY <1>6, SharesGrow
<1> QED BY <1>3, <1>4, <1>5, <1>7 DEF FusedInv

\* A CTA goes to the barrier only when its own part of the phase is done.
LEMMA ReachBarrierKeeps ==
  ASSUME FusedInv, NEW c \in LaunchCTAs, ReachBarrier(c)
  PROVE  FusedInv'
<1>1. /\ PhaseDone(c) /\ bpc[c] = "work" /\ Barrier!ReadSense(c)
      /\ UNCHANGED <<flips, episode, noExpert, locks, fc1Vars, fc2Vars, shareVars>>
      /\ \A d \in LaunchCTAs : d # c => bpc'[d] = bpc[d]
  BY DEF ReachBarrier, Barrier!ReadSense
<1>2. B!IInv' /\ GemmsInv'
  BY <1>1, BarrierKeeps, GemmsStand
<1>3. /\ NumBars \in Nat \ {0} /\ Fc1At \in 0 .. NumBars
      /\ Fc1At' = Fc1At /\ NumBars' = NumBars
  BY PhasesAre, BuildAssumption DEF BuildAssumption, One, Fc1At, NumBars, Phases
<1>4. \A d \in LaunchCTAs : episode[d] \in 0 .. NumBars
  BY Standing
<1>5. ASSUME NEW d \in LaunchCTAs PROVE SharesDone(d)'
  <2>1. SharesDone(d)
    BY DEF FusedInv, SharesInv
  <2>2. CASE d # c
    <3>1. \A e \in Int : Beyond(d, e)' <=> Beyond(d, e)
      BY <1>1, <2>2 DEF Beyond
    <3> QED BY <1>1, <1>3, <2>1, <3>1 DEF SharesDone, shareVars, fc1Vars
  <2>3. CASE d = c
    <3>1. \A e \in Int : Beyond(c, e)' => Beyond(c, e) \/ e = episode[c]
      BY <1>1, <1>4 DEF Beyond
    <3>2. /\ FullRotation /\ episode[c] = 0 => c \in rotated
          /\ episode[c] = Fc1At => fc1Pc[c] = "done" /\ (TcZero => c \in zeroed)
          /\ Gated /\ episode[c] = Fc1At + 1 => c \in activated
          /\ ZeroFc2 /\ episode[c] = NumBars - 1 => c \in zeroed
      BY <1>1, PhaseIs DEF PhaseDone, ZeroHere
    <3>3. /\ rotated' = rotated /\ activated' = activated /\ zeroed' = zeroed
          /\ fc1Pc' = fc1Pc
      BY <1>1 DEF shareVars, fc1Vars
    <3>4. FullRotation /\ Beyond(c, 0)' => c \in rotated'
      BY <2>1, <2>3, <3>1, <3>2, <3>3 DEF SharesDone
    <3>5. Beyond(c, Fc1At)' => fc1Pc'[c] = "done" /\ (TcZero => c \in zeroed')
      BY <1>3, <2>1, <2>3, <3>1, <3>2, <3>3 DEF SharesDone
    <3>6. Gated /\ Beyond(c, Fc1At + 1)' => c \in activated'
      BY <1>3, <2>1, <2>3, <3>1, <3>2, <3>3 DEF SharesDone
    <3>7. ZeroFc2 /\ Beyond(c, NumBars - 1)' => c \in zeroed'
      BY <1>3, <2>1, <2>3, <3>1, <3>2, <3>3 DEF SharesDone
    <3> QED BY <1>3, <2>3, <3>4, <3>5, <3>6, <3>7 DEF SharesDone
  <2> QED BY <2>2, <2>3
<1>6. SharesInv'
  <2>1. LaunchCTAs' = LaunchCTAs
    BY DEF LaunchCTAs
  <2> QED BY <1>1, <1>3, <1>5, <2>1 DEF FusedInv, SharesInv, shareVars
<1> QED BY <1>1, <1>2, <1>6 DEF FusedInv

\* The last arriver at the barrier after FC1 finds FC1 finished everywhere.
LEMMA FlipKeeps ==
  ASSUME FusedInv, NEW c \in LaunchCTAs, Barrier!FlipSense(c),
         UNCHANGED <<noExpert, locks, fc1Vars, fc2Vars, shareVars>>
  PROVE  FusedInv'
<1>1. /\ bpc[c] = "flip" /\ flips' = flips + 1
      /\ episode' = [episode EXCEPT ![c] = @ + 1]
      /\ bpc' = [bpc EXCEPT ![c] = IF episode[c] + 1 = Len(Phases) - 1 THEN "exit" ELSE "work"]
  BY DEF Barrier!FlipSense, Barrier!Leave
<1>2. B!IInv'
  BY BarrierKeeps
<1>3. \A d \in LaunchCTAs : episode[d] = flips /\ bpc[d] \in {"spin", "flip"}
  <2>1. B!ReleaseExclusive /\ \A d \in LaunchCTAs : B!Placed(d)
    BY DEF FusedInv, B!IInv, B!CTA, LaunchCTAs
  <2>2. \A d \in LaunchCTAs : d # c => episode[d] = flips /\ bpc[d] = "spin"
    BY <1>1, <2>1 DEF B!ReleaseExclusive, B!Releasing, B!Level, B!CTA, LaunchCTAs
  <2>3. episode[c] = flips
    BY <1>1, <2>1 DEF B!Placed, B!Level
  <2> QED BY <1>1, <2>2, <2>3
<1>4. /\ NumBars \in Nat \ {0} /\ Fc1At \in 0 .. NumBars - 1 /\ flips \in 0 .. NumBars - 1
      /\ Fc1At' = Fc1At /\ NumBars' = NumBars /\ Zeros' = Zeros /\ NumBars = Len(Phases) - 1
  <2>1. NumBars \in Nat \ {0} /\ Fc1At \in 0 .. NumBars - 1
    BY PhasesAre, BuildAssumption DEF BuildAssumption, One
  <2>2. flips \in 0 .. NumBars /\ flips # NumBars
    BY <1>1, <1>3, Standing
  <2> QED BY <2>1, <2>2 DEF Fc1At, NumBars, Phases, Zeros, FC1!Slots
<1>5. DOMAIN episode = LaunchCTAs /\ DOMAIN bpc = LaunchCTAs
  BY DEF FusedInv, B!IInv, B!TypeOK, B!CTA, LaunchCTAs
<1>6. GemmsInv'
  <2>1. flips = Fc1At => Fc1Stored /\ locks = Zeros
    <3> SUFFICES ASSUME flips = Fc1At PROVE Fc1Stored /\ locks = Zeros
      OBVIOUS
    <3>1. G1!IInv
      BY <1>4 DEF FusedInv, GemmsInv
    <3>2. \A d \in LaunchCTAs : fc1Pc[d] = "done"
      BY <1>3 DEF FusedInv, SharesInv, SharesDone, Beyond
    <3> QED BY <3>1, <3>2, Fc1Leaves
  <2>2. (Fc1Stored' <=> Fc1Stored) /\ (Fc2Fresh' <=> Fc2Fresh)
    BY DEF Fc1Stored, Fc2Fresh, Wanted, fc1Vars, fc2Vars, FC1!Tiles, FC1!KTiles
  <2>3. flips' <= Fc1At => G1!IInv'
    <3>1. flips' <= Fc1At => flips <= Fc1At
      BY <1>1, <1>4
    <3> QED BY <3>1, Fc1Keeps DEF FusedInv, GemmsInv
  <2>4. flips' > Fc1At => Fc1Stored' /\ locks' = Zeros
    <3>1. flips' > Fc1At => flips = Fc1At \/ (flips > Fc1At /\ flips < NumBars)
      BY <1>1, <1>4
    <3> QED BY <2>1, <2>2, <3>1 DEF FusedInv, GemmsInv
  <2>5. Fc2Fresh'
    BY <1>4, <2>2 DEF FusedInv, GemmsInv
  <2>6. flips' = NumBars => G2!IInv'
    <3>1. flips' = NumBars => locks = Zeros
      BY <1>1, <1>4, <2>4
    <3>2. Fc2Fresh
      BY <1>4 DEF FusedInv, GemmsInv
    <3>3. noExpert \subseteq 0 .. Fc1.routeBlocks - 1
      BY DEF FusedInv
    <3>4. locks = Zeros => G2!IInv
      BY <3>2, <3>3, Fc2Starts
    <3> QED BY <3>1, <3>4, Fc2Keeps
  <2> QED BY <1>4, <2>3, <2>4, <2>5, <2>6 DEF GemmsInv
<1>7. /\ \A d \in LaunchCTAs : episode'[d] >= episode[d] /\ episode'[d] \in Nat
      /\ \A d \in LaunchCTAs : \A e \in 0 .. NumBars : Beyond(d, e)' => Beyond(d, e)
  BY <1>1, <1>3, <1>4, <1>5 DEF Beyond
<1>8. /\ \A d \in LaunchCTAs : Beyond(d, Fc1At) => fc1Pc'[d] = fc1Pc[d]
      /\ {rotated', activated', zeroed'} \subseteq SUBSET LaunchCTAs
      /\ rotated' = rotated /\ activated' = activated /\ zeroed' = zeroed
  BY DEF fc1Vars, shareVars, FusedInv, SharesInv
<1>9. SharesInv'
  BY <1>7, <1>8, SharesGrow
<1> QED BY <1>2, <1>6, <1>9 DEF FusedInv

LEMMA InBarrierKeeps ==
  ASSUME FusedInv, NEW c \in LaunchCTAs, InBarrier(c)
  PROVE  FusedInv'
<1>1. UNCHANGED <<noExpert, locks, fc1Vars, fc2Vars, shareVars>>
  BY DEF InBarrier
<1>2. CASE Barrier!FlipSense(c)
  BY <1>1, <1>2, FlipKeeps
<1>3. CASE Barrier!Arrive(c) \/ Barrier!ResetCount(c) \/ Barrier!SeeFlip(c)
  <2>1. B!IInv' /\ flips' = flips
    BY <1>3, BarrierKeeps DEF Barrier!Arrive, Barrier!ResetCount, Barrier!SeeFlip
  <2>2. GemmsInv'
    BY <1>1, <2>1, GemmsStand
  <2>3. DOMAIN episode = LaunchCTAs /\ DOMAIN bpc = LaunchCTAs
    BY DEF FusedInv, B!IInv, B!TypeOK, B!CTA, LaunchCTAs
  <2>4. \A d \in LaunchCTAs : episode[d] \in Nat
    BY Standing, PhasesAre
  <2>5. /\ \A d \in LaunchCTAs : episode'[d] >= episode[d] /\ episode'[d] \in Nat
        /\ \A d \in LaunchCTAs : \A e \in 0 .. NumBars : Beyond(d, e)' => Beyond(d, e)
    <3>1. CASE Barrier!Arrive(c)
      BY <2>3, <2>4, <3>1 DEF Barrier!Arrive, Beyond
    <3>2. CASE Barrier!ResetCount(c)
      BY <2>3, <2>4, <3>2 DEF Barrier!ResetCount, Beyond
    <3>3. CASE Barrier!SeeFlip(c)
      <4>1. \A e \in 0 .. NumBars : e \in Int
        BY PhasesAre
      <4> QED BY <2>3, <2>4, <3>3, <4>1 DEF Barrier!SeeFlip, Barrier!Leave, Beyond
    <3> QED BY <1>3, <3>1, <3>2, <3>3
  <2>6. /\ \A d \in LaunchCTAs : Beyond(d, Fc1At) => fc1Pc'[d] = fc1Pc[d]
        /\ {rotated', activated', zeroed'} \subseteq SUBSET LaunchCTAs
        /\ rotated' = rotated /\ activated' = activated /\ zeroed' = zeroed
    BY <1>1 DEF fc1Vars, shareVars, FusedInv, SharesInv
  <2>7. SharesInv'
    BY <2>5, <2>6, SharesGrow
  <2> QED BY <1>1, <2>1, <2>2, <2>7 DEF FusedInv
<1> QED BY <1>2, <1>3 DEF InBarrier

LEMMA NextLaunchKeeps ==
  ASSUME FusedInv, NextLaunch
  PROVE  FusedInv'
<1>1. B!IInv'
  BY BarrierKeeps DEF NextLaunch
<1>2. /\ NumBars \in Nat \ {0} /\ Fc1At \in 0 .. NumBars - 1
      /\ Fc1At' = Fc1At /\ NumBars' = NumBars /\ Zeros' = Zeros /\ LaunchCTAs' = LaunchCTAs
  BY PhasesAre, BuildAssumption DEF BuildAssumption, One, Fc1At, NumBars, Phases, Zeros,
     FC1!Slots, LaunchCTAs
<1>3. flips' = 0 /\ episode' = [c \in LaunchCTAs |-> 0] /\ bpc' = [c \in LaunchCTAs |-> "work"]
  BY DEF NextLaunch, Barrier!Relaunch, Barrier!CTA, LaunchCTAs
<1>4. locks = Zeros
  <2>1. 0 \in LaunchCTAs
    BY LaunchAssumption DEF LaunchAssumption, LaunchCTAs
  <2>2. bpc[0] = "exit"
    BY <2>1 DEF NextLaunch, Retired
  <2>3. flips = NumBars
    BY <1>2, <2>1, <2>2, Standing
  <2>4. G2!IInv
    BY <2>3 DEF FusedInv, GemmsInv
  <2> QED BY <2>4, Fc2Leaves DEF NextLaunch, Retired
<1>5. noExpert' \subseteq 0 .. Fc1.routeBlocks - 1
  BY DEF NextLaunch
<1>6. G1!IInv'
  <2>1. Fc1First'
    BY <1>2, <1>4, <1>5 DEF Fc1First, NextLaunch, Fresh, Unfilled,
       FC1!StartLoop, FC1!StartLabel, FC1!RangeCounts, FC1!Slots, FC1!Garbage, FC1!Tiles
  <2> QED BY <2>1, Fc1Starts, PTL
<1>7. Fc2Fresh'
  BY <1>2 DEF Fc2Fresh, NextLaunch, Fresh, Unfilled
<1>8. GemmsInv'
  BY <1>2, <1>3, <1>6, <1>7 DEF GemmsInv
<1>9. SharesInv'
  <2>1. \A c \in LaunchCTAs : \A e \in 0 .. NumBars : ~Beyond(c, e)'
    BY <1>2, <1>3 DEF Beyond
  <2>2. \A c \in LaunchCTAs : SharesDone(c)'
    <3>1. 0 \in 0 .. NumBars /\ Fc1At \in 0 .. NumBars /\ NumBars - 1 \in 0 .. NumBars
          /\ Fc1At + 1 \in 0 .. NumBars
      BY <1>2
    <3> QED BY <1>2, <2>1, <3>1 DEF SharesDone
  <2>3. rotated' = {} /\ activated' = {} /\ zeroed' = {}
    BY DEF NextLaunch
  <2> QED BY <1>2, <2>2, <2>3 DEF SharesInv
<1> QED BY <1>1, <1>5, <1>8, <1>9 DEF FusedInv

LEMMA FirstLaunch == LaunchInit => FusedInv
<1> SUFFICES ASSUME LaunchInit PROVE FusedInv
  OBVIOUS
<1>1. B!IInv
  <2>1. B!Init
    BY DEF LaunchInit, Barrier!Init, B!Init, Barrier!CTA, B!CTA, Barrier!Sense, B!Sense
  <2> QED BY <2>1, B!InitInv, BarrierAssumed
<1>2. NumBars \in Nat \ {0} /\ Fc1At \in 0 .. NumBars - 1
  BY PhasesAre, BuildAssumption DEF BuildAssumption, One
<1>3. flips = 0 /\ episode = [c \in LaunchCTAs |-> 0] /\ bpc = [c \in LaunchCTAs |-> "work"]
  BY DEF LaunchInit, Barrier!Init, Barrier!CTA, LaunchCTAs
<1>4. noExpert \subseteq 0 .. Fc1.routeBlocks - 1 /\ locks = Zeros
  BY DEF LaunchInit, Zeros
<1>5. G1!IInv
  <2>1. Fc1First
    BY <1>4 DEF Fc1First, LaunchInit, Fresh, Unfilled
  <2> QED BY <2>1, Fc1Starts
<1>6. Fc2Fresh
  BY DEF Fc2Fresh, LaunchInit, Fresh, Unfilled
<1>7. GemmsInv
  BY <1>2, <1>3, <1>5, <1>6 DEF GemmsInv
<1>8. SharesInv
  <2>1. \A c \in LaunchCTAs : \A e \in 0 .. NumBars : ~Beyond(c, e)
    BY <1>2, <1>3 DEF Beyond
  <2>2. \A c \in LaunchCTAs : SharesDone(c)
    <3>1. 0 \in 0 .. NumBars /\ Fc1At \in 0 .. NumBars /\ NumBars - 1 \in 0 .. NumBars
          /\ Fc1At + 1 \in 0 .. NumBars
      BY <1>2
    <3> QED BY <2>1, <3>1 DEF SharesDone
  <2>3. rotated = {} /\ activated = {} /\ zeroed = {}
    BY DEF LaunchInit
  <2> QED BY <2>2, <2>3 DEF SharesInv
<1> QED BY <1>1, <1>4, <1>7, <1>8 DEF FusedInv

LEMMA LaunchKeeps == FusedInv /\ [LaunchNext]_launchVars => FusedInv'
<1> SUFFICES ASSUME FusedInv, [LaunchNext]_launchVars PROVE FusedInv'
  OBVIOUS
<1>1. CASE UNCHANGED launchVars
  <2>1. UNCHANGED <<barrierVars, noExpert, locks, fc1Vars, fc2Vars, shareVars>>
    BY <1>1 DEF launchVars
  <2>2. B!IInv' /\ GemmsInv'
    BY <2>1, BarrierKeeps, GemmsStand DEF barrierVars
  <2>3. /\ \A d \in LaunchCTAs : episode'[d] >= episode[d] /\ episode'[d] \in Nat
        /\ \A d \in LaunchCTAs : \A e \in 0 .. NumBars : Beyond(d, e)' => Beyond(d, e)
        /\ \A d \in LaunchCTAs : Beyond(d, Fc1At) => fc1Pc'[d] = fc1Pc[d]
        /\ {rotated', activated', zeroed'} \subseteq SUBSET LaunchCTAs
        /\ rotated' = rotated /\ activated' = activated /\ zeroed' = zeroed
    BY <2>1, Standing, PhasesAre DEF Beyond, barrierVars, fc1Vars, shareVars, FusedInv, SharesInv
  <2>4. SharesInv'
    BY <2>3, SharesGrow
  <2> QED BY <2>1, <2>2, <2>4 DEF FusedInv
<1>2. CASE NextLaunch
  BY <1>2, NextLaunchKeeps
<1>3. ASSUME NEW c \in LaunchCTAs, LaunchStep(c) PROVE FusedInv'
  BY <1>3, ShareKeeps, RunFc1Keeps, RunFc2Keeps, ReachBarrierKeeps, InBarrierKeeps DEF LaunchStep
<1> QED BY <1>1, <1>2, <1>3 DEF LaunchNext

LEMMA LaunchesInv == LaunchSpec => []FusedInv
BY FirstLaunch, LaunchKeeps, PTL DEF LaunchSpec

-----------------------------------------------------------------------------
(* What the invariant gives.                                               *)

LEMMA Fc1WholeAfter ==
  ASSUME FusedInv, flips > Fc1At
  PROVE  Fc1Complete
BY DEF FusedInv, GemmsInv, Fc1Stored, Fc1Complete

\* Nothing is read before it is whole.
LEMMA InputsFromInv == FusedInv => InputsReady
<1> SUFFICES ASSUME FusedInv, NEW c \in LaunchCTAs
             PROVE  /\ Phase(c) = "fc1" /\ FullRotation => rotated = LaunchCTAs
                    /\ Phase(c) = "activate" => Fc1Complete
                    /\ Phase(c) = "fc2" => Fc1Complete /\ (Gated => activated = LaunchCTAs)
  BY DEF InputsReady
<1>1. /\ NumBars \in Nat \ {0} /\ Fc1At \in Nat /\ Fc1At < NumBars
      /\ FullRotation => Fc1At = 1
      /\ Gated => Fc1At + 1 < NumBars
  BY PhasesAre, BuildAssumption DEF BuildAssumption, One, Fc1At
<1>2. episode[c] <= flips /\ flips \in 0 .. NumBars /\ episode[c] \in 0 .. NumBars
  BY <1>1, Standing
<1>3. rotated \subseteq LaunchCTAs /\ activated \subseteq LaunchCTAs
  BY DEF FusedInv, SharesInv
<1>4. ASSUME FullRotation, Phase(c) = "fc1" PROVE rotated = LaunchCTAs
  <2>1. 0 < flips
    BY <1>1, <1>2, <1>4, PhaseIs
  <2>2. \A d \in LaunchCTAs : d \in rotated
    BY <1>4, <2>1, AllBeyond DEF FusedInv, SharesInv, SharesDone
  <2> QED BY <1>3, <2>2
<1>5. ASSUME Phase(c) = "activate" \/ Phase(c) = "fc2" PROVE Fc1Complete
  <2>1. flips > Fc1At
    BY <1>1, <1>2, <1>5, PhaseIs
  <2> QED BY <2>1, Fc1WholeAfter
<1>6. ASSUME Phase(c) = "fc2", Gated PROVE activated = LaunchCTAs
  <2>1. Fc1At + 1 < flips /\ Fc1At + 1 \in Nat
    BY <1>1, <1>2, <1>6, PhaseIs
  <2>2. \A d \in LaunchCTAs : d \in activated
    BY <1>6, <2>1, AllBeyond DEF FusedInv, SharesInv, SharesDone
  <2> QED BY <1>3, <2>2
<1> QED BY <1>4, <1>5, <1>6

\* Nothing is overwritten before it was read.
LEMMA OverwriteFromInv == FusedInv => OverwriteSafe
<1> SUFFICES ASSUME FusedInv PROVE OverwriteSafe
  OBVIOUS
<1>1. /\ NumBars \in Nat \ {0} /\ Fc1At \in Nat /\ Fc1At < NumBars
      /\ Gated => Fc1At + 1 < NumBars
      /\ Gated /\ ZeroFc2 => Fc1At + 1 < NumBars - 1
  BY PhasesAre, BuildAssumption DEF BuildAssumption, One, Fc1At
<1>2. activated \subseteq LaunchCTAs /\ zeroed \subseteq LaunchCTAs
  BY DEF FusedInv, SharesInv
<1>3. ASSUME NEW t \in FC2!Tiles, fc2Out[t] # NotStored
      PROVE  /\ TcZero \/ ZeroFc2 => zeroed = LaunchCTAs
             /\ Gated => activated = LaunchCTAs
  <2>1. flips = NumBars
    <3>1. ~(flips < NumBars)
      BY <1>3 DEF FusedInv, GemmsInv, Fc2Fresh
    <3> QED BY <1>1, <3>1, Standing
  <2>2. \A d \in LaunchCTAs : \A e \in 0 .. NumBars - 1 : Beyond(d, e)
    BY <1>1, <2>1, AllBeyond
  <2>3. Fc1At \in 0 .. NumBars - 1 /\ NumBars - 1 \in 0 .. NumBars - 1
        /\ (Gated => Fc1At + 1 \in 0 .. NumBars - 1)
    BY <1>1
  <2>4. TcZero \/ ZeroFc2 => LaunchCTAs \subseteq zeroed
    BY <2>2, <2>3 DEF FusedInv, SharesInv, SharesDone
  <2>5. Gated => LaunchCTAs \subseteq activated
    BY <2>2, <2>3 DEF FusedInv, SharesInv, SharesDone
  <2> QED BY <1>2, <2>4, <2>5
<1>4. ASSUME ZeroFc2, Gated, NEW c \in zeroed PROVE activated = LaunchCTAs
  <2>1. episode[c] >= NumBars - 1 /\ c \in LaunchCTAs
    BY <1>2, <1>4 DEF FusedInv, SharesInv
  <2>2. Fc1At + 1 < flips /\ Fc1At + 1 \in Nat
    BY <1>1, <1>4, <2>1, Standing
  <2>3. \A d \in LaunchCTAs : d \in activated
    BY <1>4, <2>2, AllBeyond DEF FusedInv, SharesInv, SharesDone
  <2> QED BY <1>2, <2>3
<1> QED BY <1>3, <1>4 DEF OverwriteSafe

\* What a retired launch leaves.
LEMMA CorrectFromInv == FusedInv => LaunchCorrect
<1> SUFFICES ASSUME FusedInv, \A c \in LaunchCTAs : Retired(c)
             PROVE  /\ \A t \in FC2!Tiles :
                         fc2Out[t] = IF Wanted(Fc2, t) THEN [k \in FC2!KTiles |-> 1] ELSE NotStored
                    /\ \A s \in FC1!Slots : locks[s] = 0
                    /\ count = 0
  BY DEF LaunchCorrect
<1>1. 0 \in LaunchCTAs
  BY LaunchAssumption DEF LaunchAssumption, LaunchCTAs
<1>2. flips = NumBars
  <2>1. bpc[0] = "exit"
    BY <1>1 DEF Retired
  <2> QED BY <1>1, <2>1, PhasesAre, Standing
<1>3. G2!IInv
  BY <1>2 DEF FusedInv, GemmsInv
<1>4. /\ \A t \in FC2!Tiles :
           fc2Out[t] = IF Wanted(Fc2, t) THEN [k \in FC2!KTiles |-> 1] ELSE NotStored
      /\ locks = Zeros
  BY <1>3, Fc2Leaves DEF Retired
<1>5. \A s \in FC1!Slots : locks[s] = 0
  BY <1>4 DEF Zeros
<1>6. count = 0
  <2>1. B!CountReusable
    BY B!CountFromInv, BarrierAssumed DEF FusedInv
  <2> QED BY <2>1 DEF B!CountReusable, B!CTA, LaunchCTAs, Retired
<1> QED BY <1>4, <1>5, <1>6

\* The barriers of a launch are where they have to be, whatever the grid, the
\* shapes of the two GEMMs and the phases the build has: rotation, FC1,
\* activation, zeroing and FC2 neither read what is not whole nor write what
\* is still to be read.
THEOREM PhasesHold == LaunchSpec => []PhasesSafe
<1>1. FusedInv => PhasesSafe
  BY InputsFromInv, OverwriteFromInv DEF PhasesSafe
<1> QED BY <1>1, LaunchesInv, PTL

\* Every launch leaves the layer's result complete and the shared words as
\* the next launch needs them, over any number of launches.
THEOREM LaunchesHold == LaunchSpec => []LaunchCorrect
BY CorrectFromInv, LaunchesInv, PTL

-----------------------------------------------------------------------------
(* Tiles.                                                                  *)

\* The tiles a compiled launch can have.
KnownTiles ==
  {Tile(64, 256, 256), Tile(128, 128, 256), Tile(64, 128, 128), Tile(128, 64, 128),
   Tile(32, 512, 256)}

\* The tiles a GEMM is given to choose from.
LEMMA ListedTiles ==
  ASSUME NEW r \in Requests, NEW i \in 1 .. 3
  PROVE  (IF BlockRows(r) > 1 THEN LargeBatchTiles ELSE SmallBatchTiles)[i] \in KnownTiles
BY DEF LargeBatchTiles, SmallBatchTiles, KnownTiles

\* A tile that scores fits its problem.
LEMMA SelectedFits ==
  ASSUME NEW r \in Requests, NEW p, NEW threads, NEW n, NEW e,
         NEW t \in SelectTile(r, p, threads, n, e)
  PROVE  t \in KnownTiles /\ Fits(r, p, t, FALSE)
<1> DEFINE tiles == IF BlockRows(r) > 1 THEN LargeBatchTiles ELSE SmallBatchTiles
           s == Scores(r, p, threads, n, e)
<1>1. DOMAIN tiles = 1 .. 3 /\ Len(tiles) = 3
  BY DEF LargeBatchTiles, SmallBatchTiles
<1>2. DOMAIN s = 1 .. 3
  BY <1>1 DEF Scores
<1>3. PICK i \in 1 .. 3 : t = s[i].tile /\ s[i].score > 0
  BY <1>2 DEF SelectTile
<1>4. s[i] = [tile  |-> tiles[i],
              score |-> IF tiles[i].threads \in threads /\ Fits(r, p, tiles[i], FALSE)
                        THEN BlocksPerSm(r, p, tiles[i], n, e) ELSE 0]
  BY <1>1 DEF Scores
<1>5. tiles[i].threads \in threads /\ Fits(r, p, tiles[i], FALSE)
  <2>1. s[i].score = IF tiles[i].threads \in threads /\ Fits(r, p, tiles[i], FALSE)
                     THEN BlocksPerSm(r, p, tiles[i], n, e) ELSE 0
    BY <1>4
  <2> HIDE DEF tiles, s
  <2>2. CASE ~(tiles[i].threads \in threads /\ Fits(r, p, tiles[i], FALSE))
    <3>1. s[i].score = 0
      BY <2>1, <2>2, Zenon
    <3> QED BY <1>3, <3>1
  <2> QED BY <2>2
<1>6. t = tiles[i]
  BY <1>3, <1>4
<1>7. tiles[i] \in KnownTiles
  BY ListedTiles
<1> QED BY <1>5, <1>6, <1>7

\* A tile fits the GEMM it is for; FC2 has the 32 x 512 tile besides.
FitsFc1(r, t) == Fits(r, Fc1Problem(r), t, FALSE)
FitsFc2(r, t) == Fits(r, Fc2Problem(r), t, TRUE)

\* What FC1 may use, FC2 may use.
LEMMA WideFits ==
  ASSUME NEW r, NEW t, Fits(r, Fc2Problem(r), t, FALSE)
  PROVE  FitsFc2(r, t)
BY DEF Fits, FitsFc2

\* Two tiles with one thread count, each fit for its GEMM.
Chosen(r, ts) ==
  \E a \in KnownTiles, b \in KnownTiles :
    /\ ts = <<a, b>> /\ a.threads = b.threads
    /\ FitsFc1(r, a) /\ FitsFc2(r, b)

\* The tiles of two GEMMs that agreed on a thread count.
LEMMA CommonChosen ==
  ASSUME NEW r \in Requests, NEW n, NEW e, NEW ts \in CommonTiles(r, n, e)
  PROVE  Chosen(r, ts)
<1>1. \E threads : ts \in Pairs(r, threads, n, e) /\ ts[1].threads = ts[2].threads
  <2>1. PICK ps \in Pairs(r, {128, 256}, n, e) :
          ts \in IF ps[1].threads = ps[2].threads THEN {ps}
                ELSE {us \in Pairs(r, {Smaller(ps[1].threads, ps[2].threads)}, n, e) :
                        us[1].threads = us[2].threads}
    BY Zenon DEF CommonTiles
  <2>2. CASE ps[1].threads = ps[2].threads
    BY <2>1, <2>2, Zenon
  <2>3. CASE ps[1].threads # ps[2].threads
    BY <2>1, <2>3, Zenon
  <2> QED BY <2>2, <2>3
<1>2. PICK threads : ts \in Pairs(r, threads, n, e) /\ ts[1].threads = ts[2].threads
  BY <1>1
<1>3. PICK a \in SelectTile(r, Fc1Problem(r), threads, n, e),
           b \in SelectTile(r, Fc2Problem(r), threads, n, e) : ts = <<a, b>>
  BY <1>2 DEF Pairs
<1>4. /\ a \in KnownTiles /\ FitsFc1(r, a)
      /\ b \in KnownTiles /\ FitsFc2(r, b)
  BY SelectedFits, WideFits DEF FitsFc1
<1>5. ts[1] = a /\ ts[2] = b
  BY <1>3
<1>6. a.threads = b.threads
  BY <1>2, <1>5
<1> QED BY <1>3, <1>4, <1>6, Zenon DEF Chosen

\* The tiles WidenFc1 and WidenFc2 put in.
LEMMA WideTiles ==
  /\ Tile(64, 256, 256) \in KnownTiles /\ Tile(64, 256, 256).threads = 256
  /\ Tile(32, 512, 256) \in KnownTiles /\ Tile(32, 512, 256).threads = 256
  /\ Tile(128, 128, 256).threads = 256
BY DEF Tile, KnownTiles

\* A wider tile has the threads of the one it replaces.
LEMMA WidenChosen ==
  ASSUME NEW r \in Requests, NEW n, NEW a \in KnownTiles, NEW b \in KnownTiles,
         a.threads = b.threads, FitsFc1(r, a), FitsFc2(r, b)
  PROVE  /\ Chosen(r, WidenFc1(r, <<a, b>>, n))
         /\ Chosen(r, WidenFc2(r, <<a, b>>))
         /\ Chosen(r, WidenFc2Again(r, <<a, b>>, n))
<1>1. PICK ts : ts = <<a, b>>
  OBVIOUS
<1>2. ts[1] = a /\ ts[2] = b
  BY <1>1
<1>3. Chosen(r, ts)
  BY <1>1, Zenon DEF Chosen
<1>4. Chosen(r, WidenFc1(r, ts, n))
  <2>1. CASE WidenFc1(r, ts, n) = ts
    BY <1>3, <2>1
  <2>2. CASE WidenFc1(r, ts, n) # ts
    <3>1. /\ WidenFc1(r, ts, n) = <<Tile(64, 256, 256), ts[2]>>
          /\ ts[1] = Tile(128, 128, 256)
          /\ Fits(r, Fc1Problem(r), Tile(64, 256, 256), FALSE)
      BY <2>2, ZenonT(60) DEF WidenFc1
    <3>2. b.threads = 256
      BY <1>2, <3>1, WideTiles
    <3>3. WidenFc1(r, ts, n) = <<Tile(64, 256, 256), b>> /\ FitsFc1(r, Tile(64, 256, 256))
      BY <1>2, <3>1, Zenon DEF FitsFc1
    <3>4. Tile(64, 256, 256).threads = b.threads
      BY <3>2, WideTiles
    <3> QED BY <3>3, <3>4, WideTiles, ZenonT(60) DEF Chosen
  <2> QED BY <2>1, <2>2
<1>5. Chosen(r, WidenFc2(r, ts))
  <2>1. CASE WidenFc2(r, ts) = ts
    BY <1>3, <2>1
  <2>2. CASE WidenFc2(r, ts) # ts
    <3>1. /\ WidenFc2(r, ts) = <<ts[1], Tile(64, 256, 256)>>
          /\ ts[1].threads = 256
          /\ Fits(r, Fc2Problem(r), Tile(64, 256, 256), FALSE)
      BY <2>2, ZenonT(60) DEF WidenFc2
    <3>2. WidenFc2(r, ts) = <<a, Tile(64, 256, 256)>> /\ FitsFc2(r, Tile(64, 256, 256))
      BY <1>2, <3>1, WideFits, Zenon
    <3>3. a.threads = Tile(64, 256, 256).threads
      BY <1>2, <3>1, WideTiles
    <3> QED BY <3>2, <3>3, WideTiles, ZenonT(60) DEF Chosen
  <2> QED BY <2>1, <2>2
<1>6. Chosen(r, WidenFc2Again(r, ts, n))
  <2>1. CASE WidenFc2Again(r, ts, n) = ts
    BY <1>3, <2>1
  <2>2. CASE WidenFc2Again(r, ts, n) # ts
    <3>1. /\ WidenFc2Again(r, ts, n) = <<ts[1], Tile(32, 512, 256)>>
          /\ ts[1].threads = 256
          /\ Fits(r, Fc2Problem(r), Tile(32, 512, 256), TRUE)
      BY <2>2, ZenonT(60) DEF WidenFc2Again
    <3>2. WidenFc2Again(r, ts, n) = <<a, Tile(32, 512, 256)>> /\ FitsFc2(r, Tile(32, 512, 256))
      BY <1>2, <3>1, Zenon DEF FitsFc2
    <3>3. a.threads = Tile(32, 512, 256).threads
      BY <1>2, <3>1, WideTiles
    <3> QED BY <3>2, <3>3, WideTiles, ZenonT(60) DEF Chosen
  <2> QED BY <2>1, <2>2
<1> QED BY <1>1, <1>4, <1>5, <1>6

\* All three widenings, in the order the code makes them.
LEMMA WidenedChosen ==
  ASSUME NEW r \in Requests, NEW n, NEW ts, Chosen(r, ts)
  PROVE  Chosen(r, WidenFc2Again(r, WidenFc2(r, WidenFc1(r, ts, n)), n))
<1>1. ASSUME NEW us, Chosen(r, us)
      PROVE  /\ Chosen(r, WidenFc1(r, us, n))
             /\ Chosen(r, WidenFc2(r, us))
             /\ Chosen(r, WidenFc2Again(r, us, n))
  <2>1. PICK a \in KnownTiles, b \in KnownTiles :
          /\ us = <<a, b>> /\ a.threads = b.threads
          /\ FitsFc1(r, a) /\ FitsFc2(r, b)
    BY <1>1, Zenon DEF Chosen
  <2> QED BY <2>1, WidenChosen, Zenon
<1> QED BY <1>1, Zenon

\* The rows of the register table.
LEMMA TableRows ==
  ASSUME NEW r, NEW t, NEW e \in Measured(r, t)
  PROVE  /\ e[5] \in 1 .. 255 /\ (~SmallM(r) => e[5] >= 143)
         /\ t.n \div 16 = 32 => SmallM(r)
         /\ <<t.threads, t.n \div 16, t.k \div 16>> \in
              {<<256, 8, 8>>, <<256, 16, 4>>, <<256, 16, 8>>, <<256, 32, 2>>,
               <<128, 4, 8>>, <<128, 8, 4>>}
<1>1. /\ e \in RegisterTable(SmallM(r))
      /\ e[1] = t.threads /\ e[3] = t.n \div 16 /\ e[4] = t.k \div 16
  BY DEF Measured
<1>2. /\ e[5] \in 1 .. 255
      /\ <<e[1], e[3], e[4]>> \in
              {<<256, 8, 8>>, <<256, 16, 4>>, <<256, 16, 8>>, <<256, 32, 2>>,
               <<128, 4, 8>>, <<128, 8, 4>>}
      /\ ~SmallM(r) => e[5] >= 143 /\ e[3] # 32
  <2>1. CASE SmallM(r)
    BY <1>1, <2>1 DEF RegisterTable
  <2>2. CASE ~SmallM(r)
    BY <1>1, <2>2 DEF RegisterTable
  <2> QED BY <2>1, <2>2
<1> QED BY <1>1, <1>2

\* A pinned tile whose registers were measured is one of those chosen here.
LEMMA MeasuredKnown ==
  ASSUME NEW r \in Requests, NEW k \in Nat, NEW n \in Nat, NEW p, NEW wide,
         NEW t, t = Tile(k, n, (n * k) \div 64), Measured(r, t) # {}, Fits(r, p, t, wide)
  PROVE  t \in KnownTiles
<1>1. t.k = k /\ t.n = n /\ t.threads = (n * k) \div 64
  BY DEF Tile
<1>2. PICK e \in Measured(r, t) : TRUE
  OBVIOUS
<1>3. <<t.threads, n \div 16, k \div 16>> \in
        {<<256, 8, 8>>, <<256, 16, 4>>, <<256, 16, 8>>, <<256, 32, 2>>,
         <<128, 4, 8>>, <<128, 8, 4>>}
  BY <1>1, <1>2, TableRows
<1>4. k % 16 = 0
  <2>1. k % r.group = 0
    BY <1>1 DEF Fits
  <2>2. r.group \in {16, 32}
    BY RequestsAssumption
  <2> QED BY <2>1, <2>2
<1>5. k >= 64 \/ t = Tile(32, 512, 256)
  BY <1>1 DEF Fits
<1>6. CASE k \div 16 = 8
  <2>1. k = 128
    BY <1>4, <1>6
  <2>2. t.threads = 2 * n
    BY <1>1, <2>1
  <2>3. (t.threads = 256 /\ n = 128) \/ (t.threads = 128 /\ n = 64)
    <3>1. \/ t.threads = 256 /\ n \div 16 \in {8, 16}
          \/ t.threads = 128 /\ n \div 16 = 4
      BY <1>3, <1>6
    <3> QED BY <2>2, <3>1
  <2> QED BY <2>1, <2>3 DEF KnownTiles, Tile
<1>7. CASE k \div 16 = 4
  <2>1. k = 64
    BY <1>4, <1>7
  <2>2. t.threads = n
    BY <1>1, <2>1
  <2>3. (t.threads = 256 /\ n = 256) \/ (t.threads = 128 /\ n = 128)
    <3>1. \/ t.threads = 256 /\ n \div 16 = 16
          \/ t.threads = 128 /\ n \div 16 = 8
      BY <1>3, <1>7
    <3> QED BY <2>2, <3>1
  <2> QED BY <2>1, <2>3 DEF KnownTiles, Tile
<1>8. CASE k \div 16 = 2
  BY <1>5, <1>8 DEF KnownTiles
<1> QED BY <1>3, <1>6, <1>7, <1>8

\* Whatever way the tiles of a built kernel were come by.
LEMMA TilesChosen ==
  ASSUME NEW r \in Requests, NEW n, NEW e, NEW ts \in Tiles(r, n, e), Buildable(r, ts)
  PROVE  Chosen(r, ts)
<1> DEFINE chosen == {WidenFc2Again(r, WidenFc2(r, WidenFc1(r, us, n)), n) :
                        us \in CommonTiles(r, n, e)}
<1>1. ASSUME ts \in chosen
      PROVE  Chosen(r, ts)
  <2>1. PICK us \in CommonTiles(r, n, e) :
          ts = WidenFc2Again(r, WidenFc2(r, WidenFc1(r, us, n)), n)
    BY <1>1
  <2>2. Chosen(r, us)
    BY CommonChosen
  <2> QED BY <2>1, <2>2, WidenedChosen
<1>2. ASSUME r.pin # Default, ts \in Pinned(r)
      PROVE  Chosen(r, ts)
  <2>1. r.pin \in [1 .. 4 -> Nat]
    BY <1>2, RequestsAssumption
  <2>2. PICK k1 \in Nat, n1 \in Nat, k2 \in Nat, n2 \in Nat :
          r.pin[1] = k1 /\ r.pin[2] = n1 /\ r.pin[3] = k2 /\ r.pin[4] = n2
    BY <2>1
  <2>3. PICK a, b : /\ a = Tile(k1, n1, (n1 * k1) \div 64)
                    /\ b = Tile(k2, n2, (n2 * k2) \div 64)
    OBVIOUS
  <2>4. ts = <<a, b>> /\ ts[1].threads = ts[2].threads
        /\ Fits(r, Fc1Problem(r), ts[1], FALSE) /\ Fits(r, Fc2Problem(r), ts[2], TRUE)
    BY <1>2, <2>2, <2>3, Zenon DEF Pinned
  <2>5. ts[1] = a /\ ts[2] = b
    BY <2>4
  <2>6. Measured(r, ts[1]) # {} /\ Measured(r, ts[2]) # {}
    BY DEF Buildable
  <2>7. /\ Fits(r, Fc1Problem(r), a, FALSE) /\ Fits(r, Fc2Problem(r), b, TRUE)
        /\ Measured(r, a) # {} /\ Measured(r, b) # {} /\ a.threads = b.threads
    BY <2>4, <2>5, <2>6, Zenon
  <2>8. a \in KnownTiles
    BY <2>3, <2>7, MeasuredKnown
  <2>9. b \in KnownTiles
    BY <2>3, <2>7, MeasuredKnown
  <2> QED BY <2>4, <2>7, <2>8, <2>9, Zenon DEF Chosen, FitsFc1, FitsFc2
<1>3. ts \in chosen \/ (r.pin # Default /\ ts \in Pinned(r))
  BY Zenon DEF Tiles
<1> QED BY <1>1, <1>2, <1>3, Zenon

-----------------------------------------------------------------------------
(* What a CTA needs, and what the planner thinks it needs.                 *)

\* What a CTA of a GEMM takes of an SM's shared memory: as the kernel lays it
\* out, with the decoder table a trellis may have and the driver's part.
Taken(r, t) == 16 * SharedUnits(r, t) + (IF Trellis(r) THEN 4096 ELSE 0) + CtaReserved

\* What the arithmetic of a request comes to.
LEMMA RequestShape ==
  ASSUME NEW r \in Requests
  PROVE  /\ <<r.block, BlockRows(r)>> \in {<<8, 1>>, <<16, 1>>, <<32, 2>>, <<48, 3>>, <<64, 4>>}
         /\ SmallM(r) <=> r.block = 8
         /\ r.group \in {16, 32}
         /\ \/ ~Trellis(r) /\ WeightBits(r) = 4
            \/ /\ Trellis(r) /\ r.bits \in 2 .. 6 /\ r.group = 32
               /\ WeightBits(r) = IF r.bits < 4 THEN 4 ELSE r.bits
BY RequestsAssumption DEF BlockRows, SmallM, CeilDiv, Trellis, WeightBits, Larger

\* The estimate, the layout and what a CTA takes are numbers of bytes.
LEMMA FootprintNat ==
  ASSUME NEW r \in Requests, NEW t \in KnownTiles
  PROVE  /\ Footprint(r, t) \in Nat /\ Taken(r, t) \in Nat \ {0}
         /\ SharedUnits(r, t) \in Nat
<1>1. /\ <<r.block, BlockRows(r)>> \in {<<8, 1>>, <<16, 1>>, <<32, 2>>, <<48, 3>>, <<64, 4>>}
      /\ r.group \in {16, 32}
      /\ \/ ~Trellis(r) /\ WeightBits(r) = 4
         \/ /\ Trellis(r) /\ r.bits \in 2 .. 6 /\ r.group = 32
            /\ WeightBits(r) = IF r.bits < 4 THEN 4 ELSE r.bits
  BY RequestShape
<1>2. CASE t = Tile(64, 256, 256)
  <2>1. t.k = 64 /\ t.n = 256
    BY <1>2 DEF Tile
  <2> QED BY <1>1, <2>1, HardwareAssumption, SMTT(60)
      DEF Taken, Footprint, SharedUnits, PipeStages, CeilDiv, Larger, Smaller
<1>3. CASE t = Tile(128, 128, 256)
  <2>1. t.k = 128 /\ t.n = 128
    BY <1>3 DEF Tile
  <2> QED BY <1>1, <2>1, HardwareAssumption, SMTT(60)
      DEF Taken, Footprint, SharedUnits, PipeStages, CeilDiv, Larger, Smaller
<1>4. CASE t = Tile(64, 128, 128)
  <2>1. t.k = 64 /\ t.n = 128
    BY <1>4 DEF Tile
  <2> QED BY <1>1, <2>1, HardwareAssumption, SMTT(60)
      DEF Taken, Footprint, SharedUnits, PipeStages, CeilDiv, Larger, Smaller
<1>5. CASE t = Tile(128, 64, 128)
  <2>1. t.k = 128 /\ t.n = 64
    BY <1>5 DEF Tile
  <2> QED BY <1>1, <2>1, HardwareAssumption, SMTT(60)
      DEF Taken, Footprint, SharedUnits, PipeStages, CeilDiv, Larger, Smaller
<1>6. CASE t = Tile(32, 512, 256)
  <2>1. t.k = 32 /\ t.n = 512
    BY <1>6 DEF Tile
  <2> QED BY <1>1, <2>1, HardwareAssumption, SMTT(60)
      DEF Taken, Footprint, SharedUnits, PipeStages, CeilDiv, Larger, Smaller
<1> QED BY <1>2, <1>3, <1>4, <1>5, <1>6 DEF KnownTiles

\* A tile that fits by the planner's estimate leaves it its margin.
LEMMA FitsOnce ==
  ASSUME NEW r \in Requests, NEW t \in KnownTiles, Footprint(r, t) <= MaxShared - 512
  PROVE  Footprint(r, t) + 1536 <= MaxShared
<1>1. /\ <<r.block, BlockRows(r)>> \in {<<8, 1>>, <<16, 1>>, <<32, 2>>, <<48, 3>>, <<64, 4>>}
      /\ r.group \in {16, 32}
      /\ \/ ~Trellis(r) /\ WeightBits(r) = 4
         \/ /\ Trellis(r) /\ r.bits \in 2 .. 6 /\ r.group = 32
            /\ WeightBits(r) = IF r.bits < 4 THEN 4 ELSE r.bits
  BY RequestShape
<1>2. CASE t = Tile(64, 256, 256)
  <2>1. t.k = 64 /\ t.n = 256
    BY <1>2 DEF Tile
  <2> QED BY <1>1, <2>1, HardwareAssumption, SMTT(60)
      DEF Footprint, PipeStages, CeilDiv, Larger, Smaller
<1>3. CASE t = Tile(128, 128, 256)
  <2>1. t.k = 128 /\ t.n = 128
    BY <1>3 DEF Tile
  <2> QED BY <1>1, <2>1, HardwareAssumption, SMTT(60)
      DEF Footprint, PipeStages, CeilDiv, Larger, Smaller
<1>4. CASE t = Tile(64, 128, 128)
  <2>1. t.k = 64 /\ t.n = 128
    BY <1>4 DEF Tile
  <2> QED BY <1>1, <2>1, HardwareAssumption, SMTT(60)
      DEF Footprint, PipeStages, CeilDiv, Larger, Smaller
<1>5. CASE t = Tile(128, 64, 128)
  <2>1. t.k = 128 /\ t.n = 64
    BY <1>5 DEF Tile
  <2> QED BY <1>1, <2>1, HardwareAssumption, SMTT(60)
      DEF Footprint, PipeStages, CeilDiv, Larger, Smaller
<1>6. CASE t = Tile(32, 512, 256)
  <2>1. t.k = 32 /\ t.n = 512
    BY <1>6 DEF Tile
  <2> QED BY <1>1, <2>1, HardwareAssumption, SMTT(60)
      DEF Footprint, PipeStages, CeilDiv, Larger, Smaller
<1> QED BY <1>2, <1>3, <1>4, <1>5, <1>6 DEF KnownTiles

\* As many CTAs as the estimate allows fit as the kernel lays them out, though
\* the estimate knows nothing of the decoder table: up to three of any tile but
\* the widest, where there may be two.
LEMMA RoomOnSm ==
  ASSUME NEW r \in Requests, NEW t \in KnownTiles, NEW q \in 1 .. 3,
         SmallM(r) \/ t.n = 512 => q <= 2,
         q * (Footprint(r, t) + 1536) <= MaxShared
  PROVE  q * Taken(r, t) <= SmShared
<1>1. /\ <<r.block, BlockRows(r)>> \in {<<8, 1>>, <<16, 1>>, <<32, 2>>, <<48, 3>>, <<64, 4>>}
      /\ r.block = 8 \/ t.n = 512 => q <= 2
      /\ r.group \in {16, 32}
      /\ \/ ~Trellis(r) /\ WeightBits(r) = 4
         \/ /\ Trellis(r) /\ r.bits \in 2 .. 6 /\ r.group = 32
            /\ WeightBits(r) = IF r.bits < 4 THEN 4 ELSE r.bits
  BY RequestShape
<1>2. CASE t = Tile(64, 256, 256)
  <2>1. t.k = 64 /\ t.n = 256
    BY <1>2 DEF Tile
  <2> QED BY <1>1, <2>1, HardwareAssumption, SMTT(60)
      DEF Taken, Footprint, SharedUnits, PipeStages, CeilDiv, Larger, Smaller
<1>3. CASE t = Tile(128, 128, 256)
  <2>1. t.k = 128 /\ t.n = 128
    BY <1>3 DEF Tile
  <2> QED BY <1>1, <2>1, HardwareAssumption, SMTT(60)
      DEF Taken, Footprint, SharedUnits, PipeStages, CeilDiv, Larger, Smaller
<1>4. CASE t = Tile(64, 128, 128)
  <2>1. t.k = 64 /\ t.n = 128
    BY <1>4 DEF Tile
  <2> QED BY <1>1, <2>1, HardwareAssumption, SMTT(60)
      DEF Taken, Footprint, SharedUnits, PipeStages, CeilDiv, Larger, Smaller
<1>5. CASE t = Tile(128, 64, 128)
  <2>1. t.k = 128 /\ t.n = 64
    BY <1>5 DEF Tile
  <2> QED BY <1>1, <2>1, HardwareAssumption, SMTT(60)
      DEF Taken, Footprint, SharedUnits, PipeStages, CeilDiv, Larger, Smaller
<1>6. CASE t = Tile(32, 512, 256)
  <2>1. t.k = 32 /\ t.n = 512
    BY <1>6 DEF Tile
  <2> QED BY <1>1, <2>1, HardwareAssumption, SMTT(60)
      DEF Taken, Footprint, SharedUnits, PipeStages, CeilDiv, Larger, Smaller
<1> QED BY <1>2, <1>3, <1>4, <1>5, <1>6 DEF KnownTiles

\* A measured tile has between 1 and 255 registers a thread.
LEMMA RegistersKnown ==
  ASSUME NEW r \in Requests, NEW t, Measured(r, t) # {}
  PROVE  /\ NumRegs(r, t) \in 1 .. 255 /\ (~SmallM(r) => NumRegs(r, t) >= 143)
         /\ t.n \div 16 = 32 => SmallM(r)
<1>1. PICK e : e \in Measured(r, t) /\ NumRegs(r, t) = e[5]
  <2>1. (CHOOSE e \in Measured(r, t) : TRUE) \in Measured(r, t)
    OBVIOUS
  <2> QED BY <2>1 DEF NumRegs
<1> QED BY <1>1, TableRows

\* A quotient, by what it is at least.
LEMMA DivBounds ==
  ASSUME NEW a \in Nat, NEW b \in Nat \ {0}, NEW q \in Nat
  PROVE  q <= a \div b <=> q * b <= a
<1>1. a \div b \in Int /\ b * (a \div b) <= a /\ a < b * (a \div b) + b
  OBVIOUS
<1>2. PICK d \in Int : d = a \div b
  BY <1>1
<1>3. ASSUME q <= d PROVE q * b <= a
  <2>1. q * b <= d * b
    BY <1>3
  <2> QED BY <1>1, <1>2, <2>1
<1>4. ASSUME q > d PROVE q * b > a
  <2>1. q * b >= (d + 1) * b
    BY <1>4
  <2>2. (d + 1) * b = d * b + b
    OBVIOUS
  <2> QED BY <1>1, <1>2, <2>1, <2>2
<1>5. q * b \in Nat
  OBVIOUS
<1> QED BY <1>2, <1>3, <1>4, <1>5

\* A number of CTAs of one GEMM that an SM can hold at a time.
Holds(r, t, q) ==
  /\ q \in 1 .. 3
  /\ q * Taken(r, t) <= SmShared
  /\ NumRegs(r, t) \in 1 .. 255
  /\ q * (NumRegs(r, t) * t.threads) <= SmRegisters

\* Where some CTAs fit, so do fewer.
LEMMA FewerHold ==
  ASSUME NEW r \in Requests, NEW t \in KnownTiles, Measured(r, t) # {},
         NEW q, Holds(r, t, q), NEW p \in 1 .. q
  PROVE  Holds(r, t, p)
<1>1. q \in 1 .. 3 /\ p \in 1 .. 3
  BY DEF Holds
<1>2. Taken(r, t) \in Nat /\ NumRegs(r, t) \in Nat
  BY FootprintNat, RegistersKnown
<1>3. t.threads \in {128, 256}
  BY DEF KnownTiles, Tile
<1>4. NumRegs(r, t) * t.threads \in Nat
  BY <1>2, <1>3
<1>5. ASSUME NEW x \in Nat PROVE p * x <= q * x
  BY <1>1, <1>5
<1>6. \A x \in Nat : p * x <= q * x /\ p * x \in Nat /\ q * x \in Nat
  BY <1>1, <1>5
<1> QED BY <1>1, <1>2, <1>4, <1>6, HardwareAssumption DEF Holds

\* The cap the planner starts from: at least one CTA, and no more than fit.
LEMMA CapHolds ==
  ASSUME NEW r \in Requests, NEW t \in KnownTiles, NEW e \in Envs,
         Measured(r, t) # {}, Footprint(r, t) <= MaxShared - 512
  PROVE  Holds(r, t, ResidencyCap(r, t, e))
<1> DEFINE regs == NumRegs(r, t)
           F == Footprint(r, t) + 1536
<1>1. /\ regs \in 1 .. 255 /\ (~SmallM(r) => regs >= 143)
      /\ t.n \div 16 = 32 => SmallM(r)
  BY RegistersKnown
<1>2. t.threads \in {128, 256} /\ (t.n = 512 => t.n \div 16 = 32)
  BY DEF KnownTiles, Tile
<1>3. F \in Nat \ {0} /\ F <= MaxShared
  BY FootprintNat, FitsOnce
<1>4. PICK lr, ls : lr = RegisterLimit(r, t) /\ ls = SharedLimit(r, t)
  OBVIOUS
<1>5. ls \in Nat \ {0} /\ ls * F <= MaxShared
  <2>1. ls = MaxShared \div F
    BY <1>4 DEF SharedLimit
  <2>2. MaxShared \in Nat
    BY HardwareAssumption
  <2>3. ls \in Nat
    BY <1>3, <2>1, <2>2
  <2>4. 1 * F <= MaxShared
    BY <1>3
  <2>5. ls >= 1
    <3> HIDE DEF F
    <3> QED BY <1>3, <2>1, <2>2, <2>4, DivBounds
  <2> HIDE DEF F
  <2> QED BY <1>3, <2>1, <2>2, <2>3, <2>5, DivBounds
<1>6. /\ lr \in Nat \ {0} /\ lr * (regs * t.threads) <= 65280
      /\ ~SmallM(r) => lr <= 3
  <2>1. AtLeast1(regs) = regs
    BY <1>1 DEF AtLeast1
  <2>2. lr = 261120 \div (regs * t.threads * 4)
    BY <1>4, <2>1 DEF RegisterLimit
  <2>3. CASE t.threads = 128
    <3>1. lr = 261120 \div (regs * 512)
      BY <1>1, <2>2, <2>3
    <3>2. regs * 512 \in Nat \ {0} /\ lr \in Nat
      BY <1>1, <3>1
    <3>3. lr >= 1
      <4>1. 1 * (regs * 512) <= 261120
        BY <1>1
      <4> HIDE DEF regs
      <4> QED BY <3>1, <3>2, <4>1, DivBounds
    <3>4. lr * (regs * 512) <= 261120
      <4> HIDE DEF regs
      <4> QED BY <3>1, <3>2, DivBounds
    <3>5. lr * (regs * 128) <= 65280
      <4> HIDE DEF regs
      <4>1. PICK x \in Nat : x = lr * regs
        BY <1>1, <3>2
      <4>2. lr * (regs * 512) = x * 512 /\ lr * (regs * 128) = x * 128
        BY <1>1, <3>2, <4>1
      <4> QED BY <3>4, <4>2
    <3>6. ~SmallM(r) => lr <= 3
      <4> SUFFICES ASSUME regs >= 143 PROVE lr <= 3
        BY <1>1
      <4> HIDE DEF regs
      <4>1. ~ 4 * (regs * 512) <= 261120
        BY <1>1
      <4>2. ~ 4 <= lr
        BY <3>1, <3>2, <4>1, DivBounds
      <4> QED BY <3>2, <4>2
    <3> QED BY <2>3, <3>2, <3>3, <3>5, <3>6
  <2>4. CASE t.threads = 256
    <3>1. lr = 261120 \div (regs * 1024)
      BY <1>1, <2>2, <2>4
    <3>2. regs * 1024 \in Nat \ {0} /\ lr \in Nat
      BY <1>1, <3>1
    <3>3. lr >= 1
      <4>1. 1 * (regs * 1024) <= 261120
        BY <1>1
      <4> HIDE DEF regs
      <4> QED BY <3>1, <3>2, <4>1, DivBounds
    <3>4. lr * (regs * 1024) <= 261120
      <4> HIDE DEF regs
      <4> QED BY <3>1, <3>2, DivBounds
    <3>5. lr * (regs * 256) <= 65280
      <4> HIDE DEF regs
      <4>1. PICK x \in Nat : x = lr * regs
        BY <1>1, <3>2
      <4>2. lr * (regs * 1024) = x * 1024 /\ lr * (regs * 256) = x * 256
        BY <1>1, <3>2, <4>1
      <4> QED BY <3>4, <4>2
    <3>6. ~SmallM(r) => lr <= 3
      <4> SUFFICES ASSUME regs >= 143 PROVE lr <= 3
        BY <1>1
      <4> HIDE DEF regs
      <4>1. ~ 4 * (regs * 1024) <= 261120
        BY <1>1
      <4>2. ~ 4 <= lr
        BY <3>1, <3>2, <4>1, DivBounds
      <4> QED BY <3>2, <4>2
    <3> QED BY <2>4, <3>2, <3>3, <3>5, <3>6
  <2> QED BY <1>2, <2>3, <2>4
<1>7. PICK q : q = ResidencyCap(r, t, e)
  OBVIOUS
<1>8. /\ q \in 1 .. 3 /\ q <= lr /\ q <= ls
      /\ SmallM(r) \/ t.n = 512 => q <= 2
  <2>1. e.perSm \in {1, 2}
    BY EnvsAssumption
  <2>2. CASE SmallM(r)
    <3>1. q = Smaller(Smaller(lr, ls), e.perSm)
      BY <1>4, <1>7, <2>2 DEF ResidencyCap
    <3> QED BY <1>5, <1>6, <2>1, <3>1 DEF Smaller
  <2>3. CASE ~SmallM(r)
    <3>1. q = AtLeast1(Smaller(Smaller(lr, ls), IF BlockRows(r) = 1 THEN 4 ELSE 2))
      BY <1>4, <1>7, <2>3 DEF ResidencyCap
    <3> QED BY <1>1, <1>2, <1>5, <1>6, <2>3, <3>1 DEF Smaller, AtLeast1
  <2> QED BY <2>2, <2>3
<1>9. q * F <= MaxShared /\ q * (regs * t.threads) <= 65280
  <2>1. ASSUME NEW x \in Nat, NEW y \in Nat, NEW l \in Nat, q <= l, l * x <= y
        PROVE  q * x <= y
    <3>1. q * x <= l * x
      BY <1>8, <2>1
    <3>2. q * x \in Nat /\ l * x \in Nat
      BY <1>8
    <3> QED BY <2>1, <3>1, <3>2
  <2>2. regs * t.threads \in Nat
    BY <1>1, <1>2
  <2>3. MaxShared \in Nat
    BY HardwareAssumption
  <2> HIDE DEF F, regs
  <2> QED BY <1>3, <1>5, <1>6, <1>8, <2>1, <2>2, <2>3
<1>10. q * Taken(r, t) <= SmShared
  BY <1>8, <1>9, RoomOnSm
<1> QED BY <1>7, <1>8, <1>9, <1>10, <1>1, <1>2, HardwareAssumption DEF Holds

\* With little work the planner asks for less, but for a CTA at least.
LEMMA BlocksHold ==
  ASSUME NEW r \in Requests, NEW t \in KnownTiles, NEW n \in Nat \ {0}, NEW e \in Envs,
         NEW p, p.n \in Nat, p.m \in Nat, p.topk \in Nat,
         Measured(r, t) # {}, Footprint(r, t) <= MaxShared - 512
  PROVE  Holds(r, t, BlocksPerSm(r, p, t, n, e))
<1>1. PICK cap : cap = ResidencyCap(r, t, e) /\ Holds(r, t, cap)
  BY CapHolds
<1>2. cap \in 1 .. 3
  BY <1>1 DEF Holds
<1>3. PICK work \in Nat : work = (p.n \div t.n) * p.m * p.topk * 4
  <2>1. t.n \in {64, 128, 256, 512}
    BY DEF KnownTiles, Tile
  <2>2. p.n \div t.n \in Nat
    BY <2>1
  <2>3. PICK x \in Nat : x = p.n \div t.n
    BY <2>2
  <2>4. x * p.m \in Nat
    OBVIOUS
  <2>5. x * p.m * p.topk \in Nat
    BY <2>4
  <2> QED BY <2>3, <2>5
<1>4. PICK d \in Int : d = work \div n /\ n * d <= work
  BY <1>3
<1>5. ASSUME work < n * cap
      PROVE  AtLeast1(d) \in 1 .. cap
  <2>1. d < cap
    <3> SUFFICES ASSUME d >= cap PROVE FALSE
      BY <1>2
    <3>1. n * d >= n * cap
      BY <1>2
    <3>2. n * d \in Int /\ n * cap \in Int
      BY <1>2
    <3> QED BY <1>4, <1>5, <3>1, <3>2
  <2> QED BY <1>2, <2>1 DEF AtLeast1
<1>6. \/ BlocksPerSm(r, p, t, n, e) = cap
      \/ work < n * cap /\ BlocksPerSm(r, p, t, n, e) = AtLeast1(d)
  BY <1>1, <1>3, <1>4, Zenon DEF BlocksPerSm
<1>7. BlocksPerSm(r, p, t, n, e) \in 1 .. cap
  BY <1>2, <1>5, <1>6
<1> QED BY <1>1, <1>7, FewerHold

\* The extents of both problems are positive.
LEMMA ProblemsNat ==
  ASSUME NEW r \in Requests
  PROVE  /\ Fc1Problem(r).n \in Nat \ {0} /\ Fc1Problem(r).k \in Nat \ {0}
         /\ Fc1Problem(r).m \in Nat /\ Fc1Problem(r).topk \in Nat
         /\ Fc2Problem(r).n \in Nat \ {0} /\ Fc2Problem(r).k \in Nat \ {0}
         /\ Fc2Problem(r).m \in Nat /\ Fc2Problem(r).topk \in Nat
<1>1. /\ r.hidden \in Nat \ {0} /\ r.inter \in Nat \ {0}
      /\ r.topk \in Nat \ {0} /\ r.rows \in Nat \ {0}
  BY RequestsAssumption
<1>2. r.rows * r.topk \in Nat
  BY <1>1
<1> QED BY <1>1, <1>2 DEF Fc1Problem, Fc2Problem, Fc1Cols, RoutedRows

\* The launch of a kernel that was built.
Built(r, ts, q) ==
  /\ Chosen(r, ts)
  /\ Holds(r, ts[1], q) /\ Holds(r, ts[2], q)

\* The smaller of two counts suits both GEMMs.
LEMMA FusedHolds ==
  ASSUME NEW r \in Requests, NEW n \in Nat \ {0}, NEW e \in Envs,
         NEW ts \in Tiles(r, n, e), Buildable(r, ts)
  PROVE  Built(r, ts, FusedBlocksPerSm(r, ts, n, e))
<1>1. PICK a \in KnownTiles, b \in KnownTiles :
        /\ ts = <<a, b>> /\ a.threads = b.threads
        /\ FitsFc1(r, a) /\ FitsFc2(r, b)
  BY TilesChosen, Zenon DEF Chosen
<1>2. ts[1] = a /\ ts[2] = b
  BY <1>1
<1>3. Measured(r, a) # {} /\ Measured(r, b) # {}
  <2>1. Measured(r, ts[1]) # {} /\ Measured(r, ts[2]) # {}
    BY DEF Buildable
  <2> QED BY <1>2, <2>1
<1>4. Footprint(r, a) <= MaxShared - 512 /\ Footprint(r, b) <= MaxShared - 512
  BY <1>1 DEF FitsFc1, FitsFc2, Fits
<1>5. PICK x, y : /\ x = BlocksPerSm(r, Fc1Problem(r), a, n, e)
                  /\ y = BlocksPerSm(r, Fc2Problem(r), b, n, e)
  OBVIOUS
<1>6. Holds(r, a, x) /\ Holds(r, b, y)
  BY <1>3, <1>4, <1>5, BlocksHold, ProblemsNat
<1>7. FusedBlocksPerSm(r, ts, n, e) = Smaller(x, y)
  BY <1>2, <1>5 DEF FusedBlocksPerSm
<1>8. x \in 1 .. 3 /\ y \in 1 .. 3
  BY <1>6 DEF Holds
<1>9. Smaller(x, y) \in 1 .. x /\ Smaller(x, y) \in 1 .. y
  BY <1>8 DEF Smaller
<1>10. Holds(r, a, Smaller(x, y)) /\ Holds(r, b, Smaller(x, y))
  BY <1>3, <1>6, <1>9, FewerHold
<1>11. Chosen(r, ts)
  BY TilesChosen
<1> QED BY <1>2, <1>7, <1>10, <1>11 DEF Built

\* Min picks one of its three.
LEMMA MinOfThree ==
  ASSUME NEW x \in Nat, NEW y \in Nat, NEW z \in Nat
  PROVE  Min({x, y, z}) \in {x, y, z}
<1>1. Min({x, y, z}) = CHOOSE u \in {x, y, z} : \A v \in {x, y, z} : u <= v
  BY DEF Min
<1>2. \E u \in {x, y, z} : \A v \in {x, y, z} : u <= v
  OBVIOUS
<1> QED BY <1>1, <1>2

\* A kernel takes the larger of what its two GEMMs need, and the CTAs that each
\* GEMM alone leaves room for still fit.
LEMMA BuiltResident ==
  ASSUME req \in Requests, env \in Envs, Built(req, fused.tiles, fused.perSm)
  PROVE  fused.perSm \in Nat \ {0} /\ fused.perSm <= Resident /\ Resident \in Nat
<1>1. PICK a \in KnownTiles, b \in KnownTiles :
        /\ fused.tiles = <<a, b>> /\ a.threads = b.threads
        /\ FitsFc1(req, a) /\ FitsFc2(req, b)
  BY Zenon DEF Built, Chosen
<1>2. fused.tiles[1] = a /\ fused.tiles[2] = b
  BY <1>1
<1>3. PICK q : q = fused.perSm /\ Holds(req, a, q) /\ Holds(req, b, q)
  BY <1>2 DEF Built
<1>4. /\ q \in 1 .. 3
      /\ NumRegs(req, a) \in 1 .. 255 /\ NumRegs(req, b) \in 1 .. 255
      /\ q * Taken(req, a) <= SmShared /\ q * Taken(req, b) <= SmShared
      /\ q * (NumRegs(req, a) * a.threads) <= SmRegisters
      /\ q * (NumRegs(req, b) * b.threads) <= SmRegisters
  BY <1>3 DEF Holds
<1>5. PICK taken \in Nat \ {0} : /\ taken = SharedBytes(req, env, fused.tiles) + CtaReserved
                                 /\ q * taken <= SmShared
  <2>1. PICK ua \in Nat, ub \in Nat : ua = SharedUnits(req, a) /\ ub = SharedUnits(req, b)
    BY FootprintNat
  <2>2. PICK table \in {0, 4096} :
          /\ table = IF req.codebook = "sqg_e4m3" /\ env.table THEN 4096 ELSE 0
          /\ table <= IF Trellis(req) THEN 4096 ELSE 0
    BY RequestsAssumption DEF Trellis
  <2>3. SharedBytes(req, env, fused.tiles) = 16 * Larger(ua, ub) + table
    BY <1>2, <2>1, <2>2 DEF SharedBytes
  <2>4. Larger(ua, ub) = ua \/ Larger(ua, ub) = ub
    BY DEF Larger
  <2>5. 16 * ua + table + 1024 <= Taken(req, a) /\ 16 * ub + table + 1024 <= Taken(req, b)
    BY <2>1, <2>2, HardwareAssumption DEF Taken
  <2>6. Taken(req, a) \in Nat /\ Taken(req, b) \in Nat
    BY FootprintNat
  <2>7. PICK x \in Nat \ {0} : /\ x = SharedBytes(req, env, fused.tiles) + CtaReserved
                               /\ x <= Taken(req, a) \/ x <= Taken(req, b)
    BY <2>1, <2>2, <2>3, <2>4, <2>5, HardwareAssumption
  <2>8. q * x <= SmShared
    BY <1>4, <2>6, <2>7, HardwareAssumption
  <2> QED BY <2>7, <2>8
<1>6. PICK perCta \in Nat \ {0} :
        /\ perCta = Larger(NumRegs(req, a), NumRegs(req, b)) * a.threads
        /\ q * perCta <= SmRegisters
  <2>1. a.threads \in {128, 256}
    BY DEF KnownTiles, Tile
  <2>2. \/ Larger(NumRegs(req, a), NumRegs(req, b)) = NumRegs(req, a)
        \/ Larger(NumRegs(req, a), NumRegs(req, b)) = NumRegs(req, b)
    BY DEF Larger
  <2>3. /\ NumRegs(req, a) * a.threads \in Nat \ {0}
        /\ NumRegs(req, b) * a.threads \in Nat \ {0}
    BY <1>4, <2>1
  <2>4. q * (NumRegs(req, b) * a.threads) <= SmRegisters
    BY <1>1, <1>4
  <2> QED BY <1>4, <2>2, <2>3, <2>4
<1>7. /\ SmShared \div taken \in Nat /\ q <= SmShared \div taken
      /\ SmRegisters \div perCta \in Nat /\ q <= SmRegisters \div perCta
  <2>1. SmShared \in Nat /\ SmRegisters \in Nat /\ q \in Nat
    BY <1>4, HardwareAssumption
  <2>2. SmShared \div taken \in Nat /\ SmRegisters \div perCta \in Nat
    BY <2>1
  <2> QED BY <1>5, <1>6, <2>1, <2>2, DivBounds
<1>8. 1536 \div a.threads \in Nat /\ q <= 1536 \div a.threads
  <2>1. a.threads \in {128, 256}
    BY DEF KnownTiles, Tile
  <2> QED BY <1>4, <2>1
<1>9. Resident = Min({SmShared \div taken, SmRegisters \div perCta, 1536 \div a.threads})
  BY <1>2, <1>5, <1>6 DEF Resident
<1>10. Resident \in {SmShared \div taken, SmRegisters \div perCta, 1536 \div a.threads}
  BY <1>7, <1>8, <1>9, MinOfThree
<1> QED BY <1>3, <1>4, <1>7, <1>8, <1>10

-----------------------------------------------------------------------------
(* The grid of a launch.                                                   *)

\* The inductive invariant: the kernel was built from what the request and the
\* device say, and a running launch has the grid the host chose for its rows.
GridInv ==
  /\ sms \in Devices /\ env \in Envs /\ req \in Requests
  /\ stage \in {"ready", "running"} => Built(req, fused.tiles, fused.perSm)
  /\ stage = "running" => rows \in 1 .. req.rows /\ grid = PersistentGrid(rows)

\* FC1 tiles of a launch, and that there are some.
LEMMA TilesPositive ==
  ASSUME req \in Requests, Built(req, fused.tiles, fused.perSm), NEW m \in 1 .. req.rows
  PROVE  /\ m * req.topk * MnTiles(Fc1Problem(req), fused.tiles[1]) \in Nat \ {0}
         /\ m * req.topk * MnTiles(Fc2Problem(req), fused.tiles[2]) \in Nat \ {0}
<1>1. PICK a \in KnownTiles, b \in KnownTiles :
        /\ fused.tiles = <<a, b>> /\ a.threads = b.threads
        /\ FitsFc1(req, a) /\ FitsFc2(req, b)
  BY Zenon DEF Built, Chosen
<1>2. fused.tiles[1] = a /\ fused.tiles[2] = b
  BY <1>1
<1>3. /\ a.n \in {64, 128, 256, 512} /\ b.n \in {64, 128, 256, 512}
  BY DEF KnownTiles, Tile
<1>4. PICK n1 \in Nat \ {0}, n2 \in Nat \ {0} :
        n1 = Fc1Problem(req).n /\ n2 = Fc2Problem(req).n
  BY ProblemsNat
<1>5. n1 % a.n = 0 /\ n2 % b.n = 0
  BY <1>1, <1>4 DEF FitsFc1, FitsFc2, Fits
<1>6. PICK x \in Nat \ {0}, y \in Nat \ {0} :
        /\ x = MnTiles(Fc1Problem(req), fused.tiles[1])
        /\ y = MnTiles(Fc2Problem(req), fused.tiles[2])
  <2>1. n1 \div a.n \in Nat \ {0}
    BY <1>3, <1>5
  <2>2. n2 \div b.n \in Nat \ {0}
    BY <1>3, <1>5
  <2> QED BY <1>2, <1>4, <2>1, <2>2 DEF MnTiles
<1>7. req.topk \in Nat \ {0} /\ m \in Nat \ {0}
  BY RequestsAssumption
<1>8. m * req.topk \in Nat \ {0}
  BY <1>7
<1> QED BY <1>6, <1>8

\* Division with remainder.
LEMMA WaveDivMod ==
  ASSUME NEW a \in Int, NEW b \in Nat \ {0}
  PROVE  /\ a \div b \in Int /\ a % b \in 0 .. b - 1
         /\ a = b * (a \div b) + (a % b)
  OBVIOUS

\* Division without one.
LEMMA EvenDivision ==
  ASSUME NEW a \in Nat, NEW b \in Nat \ {0}, a % b = 0
  PROVE  a \div b \in Nat /\ a = b * (a \div b)
<1>1. PICK q \in Nat : q = a \div b
  OBVIOUS
<1>2. PICK p \in Nat : p = b * q
  OBVIOUS
<1>3. a = b * q + (a % b)
  BY <1>1, WaveDivMod
<1> QED BY <1>1, <1>2, <1>3

\* A right-sized grid is a number of whole waves, and within the cap.
LEMMA WaveGrid ==
  ASSUME NEW tiles \in Nat \ {0}, NEW c \in Nat \ {0}, NEW w, w = CeilDiv(tiles, c)
  PROVE  /\ w \in Nat \ {0}
         /\ tiles % w = 0 => /\ tiles \div w \in 1 .. c
                             /\ tiles = w * (tiles \div w)
<1>1. PICK z \in Nat \ {0} : z = tiles + c - 1
  OBVIOUS
<1>2. w = z \div c
  BY <1>1 DEF CeilDiv
<1>3. w \in Nat
  BY <1>1, <1>2
<1>4. 1 <= w
  <2>1. 1 * c <= z
    BY <1>1
  <2> QED BY <1>1, <1>2, <2>1, DivBounds
<1>5. tiles <= w * c
  <2>1. ~ (w + 1) * c <= z
    <3>1. w + 1 \in Nat /\ ~ (w + 1 <= w)
      BY <1>3
    <3> QED BY <1>1, <1>2, <3>1, DivBounds
  <2>2. (w + 1) * c = w * c + c /\ w * c \in Nat
    BY <1>3
  <2> QED BY <1>1, <2>1, <2>2
<1>6. ASSUME tiles % w = 0
      PROVE  tiles \div w \in 1 .. c /\ tiles = w * (tiles \div w)
  <2>1. PICK v \in Nat \ {0} : v = w
    BY <1>3, <1>4
  <2>2. tiles \div v \in Nat /\ tiles = v * (tiles \div v)
    BY <1>6, <2>1, EvenDivision
  <2>3. PICK g \in Nat : g = tiles \div w /\ tiles = w * g
    BY <2>1, <2>2
  <2>4. g # 0
    BY <1>3, <2>3
  <2>5. g <= c
    <3> SUFFICES ASSUME g >= c + 1 PROVE FALSE
      OBVIOUS
    <3>1. w * g >= w * (c + 1)
      BY <1>3
    <3>2. w * (c + 1) = w * c + w /\ w * c \in Nat
      BY <1>3
    <3> QED BY <1>3, <1>4, <1>5, <2>3, <3>1, <3>2
  <2> QED BY <2>3, <2>4, <2>5
<1> QED BY <1>3, <1>4, <1>6

\* What a launch may have: the cap, the shorter path or whole waves.
LEMMA GridKinds ==
  ASSUME GridInv, stage = "running"
  PROVE  /\ Cap \in Nat \ {0} /\ grid \in 1 .. Cap
         /\ grid = Cap \/ WholeTiles(req, env) \/
              \E w \in Nat \ {0} :
                rows * req.topk * MnTiles(Fc1Problem(req), fused.tiles[1]) = w * grid
<1>1. /\ sms \in Nat \ {0} /\ fused.perSm \in Nat \ {0}
      /\ rows \in 1 .. req.rows /\ grid = PersistentGrid(rows)
  BY DevicesAssumption, BuiltResident DEF GridInv
<1>2. Cap \in Nat \ {0}
  BY <1>1 DEF Cap
<1>3. PICK x \in Nat \ {0}, y \in Nat \ {0} :
        /\ x = rows * req.topk * MnTiles(Fc1Problem(req), fused.tiles[1])
        /\ y = rows * req.topk * MnTiles(Fc2Problem(req), fused.tiles[2])
  BY <1>1, TilesPositive DEF GridInv
<1>4. PersistentGrid(rows) = Cap \/ (WholeTiles(req, env) /\ PersistentGrid(rows) = ShortestPath(rows))
        \/ PersistentGrid(rows) = RightSized(rows)
  BY Zenon DEF PersistentGrid
<1>5. ShortestPath(rows) \in 1 .. Cap
  <2>1. ShortestPath(rows) = Smaller(x, Cap) \/ ShortestPath(rows) = Cap
    BY <1>3, Zenon DEF ShortestPath
  <2>2. Smaller(x, Cap) \in 1 .. Cap
    BY <1>2 DEF Smaller
  <2> QED BY <1>2, <2>1, <2>2
<1>6. \/ RightSized(rows) = Cap
      \/ \E w \in Nat \ {0} : RightSized(rows) \in 1 .. Cap /\ x = w * RightSized(rows)
  <2>1. PICK w : w = CeilDiv(x, Cap)
    OBVIOUS
  <2>2. RightSized(rows) = IF x % w # 0 THEN Cap ELSE x \div w
    BY <1>3, <2>1 DEF RightSized, SplitTiles
  <2>3. w \in Nat \ {0} /\ (x % w = 0 => x \div w \in 1 .. Cap /\ x = w * (x \div w))
    BY <1>2, <2>1, WaveGrid
  <2> QED BY <2>2, <2>3
<1> QED BY <1>1, <1>2, <1>3, <1>4, <1>5, <1>6

\* The grid is within the cap, and the cap within what is resident.
LEMMA ResidentHolds ==
  ASSUME GridInv
  PROVE  GridResident
<1> SUFFICES ASSUME stage = "running" PROVE grid >= 1 /\ grid <= sms * Resident
  BY DEF GridResident
<1>1. Cap \in Nat \ {0} /\ grid \in 1 .. Cap
  BY GridKinds
<1>2. /\ fused.perSm \in Nat /\ Resident \in Nat /\ fused.perSm <= Resident
      /\ sms \in Nat
  BY BuiltResident, DevicesAssumption DEF GridInv
<1>3. sms * fused.perSm <= sms * Resident
  BY <1>2
<1> QED BY <1>1, <1>2, <1>3 DEF Cap

-----------------------------------------------------------------------------
(* FC1 of a grid smaller than the cap.                                     *)

\* Whole tiles leave no tail, nor does one tile for each CTA.
LEMMA NoTail ==
  ASSUME NEW n, NEW g,
         g.mode = "whole_tiles" \/ Schedule(n)!ForceOneTilePerCta(g)
  PROVE  Schedule(n)!TailTiles(g) = 0
BY Zenon DEF Schedule!TailTiles

\* A quotient, by the multiples on either side.
LEMMA QuotientIs ==
  ASSUME NEW z \in Nat, NEW n \in Nat \ {0}, NEW w \in Nat,
         w * n <= z, ~ ((w + 1) * n <= z)
  PROVE  z \div n = w
<1>1. w <= z \div n
  BY DivBounds
<1>2. w + 1 \in Nat /\ ~ (w + 1 <= z \div n)
  BY DivBounds
<1>3. z \div n \in Int
  BY WaveDivMod
<1> QED BY <1>1, <1>2, <1>3

\* A multiple divided, and rounded up from just above the one before.
LEMMA DivExact ==
  ASSUME NEW n \in Nat \ {0}, NEW w \in Nat
  PROVE  (w * n) \div n = w /\ (w * n + n - 1) \div n = w
<1>1. PICK x \in Nat, z \in Nat : x = w * n /\ z = w * n + n - 1
  OBVIOUS
<1>2. (w + 1) * n = x + n
  BY <1>1
<1>3. x \div n = w
  BY <1>1, <1>2, QuotientIs
<1>4. z \div n = w
  BY <1>1, <1>2, QuotientIs
<1> QED BY <1>1, <1>3, <1>4

\* Whole waves leave no tail or a tail of one tile for each CTA.
LEMMA WholeWavesTail ==
  ASSUME NEW n \in Nat \ {0}, NEW g, NEW w \in Nat \ {0},
         Schedule(n)!MnTiles(g) = w * n
  PROVE  Schedule(n)!TailTiles(g) \in {0, n}
<1>1. PICK z \in Nat \ {0} : z = w * n
  OBVIOUS
<1>2. z - (z \div n) * n = 0
  BY <1>1, DivExact
<1>3. z <= n => z = n
  BY <1>1
<1>4. CASE g.mode = "whole_tiles" \/ Schedule(n)!ForceOneTilePerCta(g)
  BY <1>4, NoTail
<1>5. CASE ~ (g.mode = "whole_tiles" \/ Schedule(n)!ForceOneTilePerCta(g))
  <2>1. Schedule(n)!TailTiles(g) =
          IF z <= n THEN z ELSE IF (z - (z \div n) * n) * 3 <= n
                                THEN (z - (z \div n) * n) + n ELSE z - (z \div n) * n
    BY <1>1, <1>5, Zenon DEF Schedule!TailTiles
  <2> QED BY <1>2, <1>3, <2>1
<1> QED BY <1>4, <1>5

\* A tail of one tile for each CTA is cut at its tiles.
LEMMA OneSlice ==
  ASSUME NEW n \in Nat \ {0}, NEW g, g.kTiles \in Nat \ {0},
         Schedule(n)!TailTiles(g) = n, NEW v \in Nat
  PROVE  Schedule(n)!SliceCount(g, v) = 1
<1>1. PICK k \in Nat \ {0} : k = g.kTiles
  OBVIOUS
<1>2. Schedule(n)!Iters(g) = k
  <2>1. (k * n + n - 1) \div n = k
    BY DivExact
  <2> QED BY <1>1, <2>1 DEF Schedule!Iters, Schedule!CeilDiv
<1>3. Schedule(n)!FirstBoundary(g, v) = k * v
  <2>1. k * v = v * k /\ (v * k + k - 1) \div k = v
    BY DivExact
  <2> QED BY <1>1, <1>2, <2>1 DEF Schedule!FirstBoundary, Schedule!CeilDiv
<1>4. PICK x \in Nat : x = k * v
  OBVIOUS
<1>5. Schedule(n)!BoundaryInside(g, v)
  <2>1. k * (v + 1) = x + k
    BY <1>4
  <2> QED BY <1>1, <1>3, <1>4, <2>1 DEF Schedule!BoundaryInside
<1>6. Schedule(n)!BoundaryOffset(g, v) = 0
  BY <1>1, <1>3, <1>4 DEF Schedule!BoundaryOffset
<1>7. (k - 0 + k - 1) \div k = 1
  BY <1>1
<1> QED BY <1>1, <1>2, <1>5, <1>6, <1>7 DEF Schedule!SliceCount, Schedule!CeilDiv

\* Either way no FC1 tile is cut.
LEMMA UnsplitHolds ==
  ASSUME GridInv
  PROVE  Fc1Unsplit
<1> SUFFICES ASSUME stage = "running", grid < Cap
             PROVE  Unsplit(Gemm(Fc1Problem(req), fused.tiles[1]))
  BY DEF Fc1Unsplit
<1>g. PICK g : g = Gemm(Fc1Problem(req), fused.tiles[1])
  OBVIOUS
<1>1. /\ Cap \in Nat \ {0} /\ grid \in Nat \ {0}
      /\ \/ WholeTiles(req, env)
         \/ \E w \in Nat \ {0} :
              rows * req.topk * MnTiles(Fc1Problem(req), fused.tiles[1]) = w * grid
  BY GridKinds
<1>2. WholeTiles(req, env) => g.mode = "whole_tiles"
  BY <1>g, Zenon DEF Gemm
<1>3. Schedule(grid)!MnTiles(g) = rows * req.topk * MnTiles(Fc1Problem(req), fused.tiles[1])
  BY <1>g DEF Gemm, Schedule!MnTiles
<1>4. Schedule(grid)!TailTiles(g) \in {0, grid}
  BY <1>1, <1>2, <1>3, NoTail, WholeWavesTail
<1>5. g.kTiles \in Nat \ {0}
  <2>1. PICK a \in KnownTiles : fused.tiles[1] = a /\ FitsFc1(req, a)
    <3>1. Built(req, fused.tiles, fused.perSm)
      BY DEF GridInv
    <3>2. PICK a \in KnownTiles, b \in KnownTiles :
            fused.tiles = <<a, b>> /\ FitsFc1(req, a)
      BY <3>1, Zenon DEF Built, Chosen
    <3> QED BY <3>2
  <2>2. PICK k1 \in Nat \ {0} : k1 = Fc1Problem(req).k
    BY ProblemsNat DEF GridInv
  <2>3. a.k \in {32, 64, 128}
    BY DEF KnownTiles, Tile
  <2>4. k1 % a.k = 0
    BY <2>1, <2>2 DEF FitsFc1, Fits
  <2>5. k1 \div a.k \in Nat \ {0}
    BY <2>3, <2>4
  <2> QED BY <1>g, <2>1, <2>2, <2>5 DEF Gemm
<1>6. CASE Schedule(grid)!TailTiles(g) = 0
  BY <1>g, <1>6 DEF Unsplit
<1>7. CASE Schedule(grid)!TailTiles(g) = grid
  BY <1>g, <1>1, <1>5, <1>7, OneSlice DEF Unsplit
<1> QED BY <1>4, <1>6, <1>7

-----------------------------------------------------------------------------
\* Nothing is built at first.
LEMMA GridStart ==
  ASSUME GridInit PROVE GridInv
BY DEF GridInit, GridInv

\* Building a kernel and launching it keep the invariant.
LEMMA GridStep ==
  ASSUME GridInv, [GridNext]_gridVars
  PROVE  GridInv'
<1>1. CASE Compile
  <2>1. PICK ts \in Tiles(req, sms, env) :
          /\ Buildable(req, ts)
          /\ fused' = [tiles |-> ts, perSm |-> FusedBlocksPerSm(req, ts, sms, env)]
    BY <1>1 DEF Compile
  <2>2. Built(req, ts, FusedBlocksPerSm(req, ts, sms, env))
    BY <2>1, TilesChosen, FusedHolds, DevicesAssumption DEF GridInv
  <2>3. fused'.tiles = ts /\ fused'.perSm = FusedBlocksPerSm(req, ts, sms, env)
    BY <2>1
  <2>4. Built(req, fused'.tiles, fused'.perSm)
    BY <2>2, <2>3
  <2>5. /\ stage' = "ready" /\ UNCHANGED <<sms, env, req>>
    BY <1>1 DEF Compile
  <2> QED BY <2>4, <2>5 DEF GridInv
<1>2. CASE Refuse
  BY <1>2 DEF Refuse, GridInv
<1>3. CASE Launch
  <2>1. PICK m \in 1 .. req.rows : rows' = m /\ grid' = PersistentGrid(m)
    BY <1>3 DEF Launch
  <2>2. /\ stage = "ready" /\ stage' = "running" /\ UNCHANGED <<sms, env, req, fused>>
    BY <1>3 DEF Launch
  <2>3. grid' = PersistentGrid(rows)'
    BY <2>1, <2>2 DEF PersistentGrid, ShortestPath, RightSized, SplitTiles, Cap
  <2>4. Built(req, fused.tiles, fused.perSm)
    BY <2>2 DEF GridInv
  <2> QED BY <2>1, <2>2, <2>3, <2>4 DEF GridInv
<1>4. CASE Finish
  BY <1>4 DEF Finish, GridInv
<1>5. CASE UNCHANGED gridVars
  <2>1. UNCHANGED <<sms, env, req, fused, stage, rows, grid>>
    BY <1>5 DEF gridVars
  <2>2. PersistentGrid(rows)' = PersistentGrid(rows)
    BY <2>1 DEF PersistentGrid, ShortestPath, RightSized, SplitTiles, Cap
  <2> QED BY <2>1, <2>2 DEF GridInv
<1> QED BY <1>1, <1>2, <1>3, <1>4, <1>5 DEF GridNext

\* The invariant of every behaviour.
LEMMA GridAlways == GridSpec => []GridInv
<1>1. GridInit => GridInv
  BY GridStart
<1>2. GridInv /\ [GridNext]_gridVars => GridInv'
  BY GridStep
<1> QED BY <1>1, <1>2, PTL DEF GridSpec

\* No launch has more CTAs than the device holds at once.
THEOREM GridsFit == GridSpec => []GridResident
<1>1. GridInv => GridResident
  BY ResidentHolds
<1> QED BY <1>1, GridAlways, PTL

\* A grid that was made smaller leaves every FC1 tile to one CTA.
THEOREM GridsLeaveFc1Whole == GridSpec => []Fc1Unsplit
<1>1. GridInv => Fc1Unsplit
  BY UnsplitHolds
<1> QED BY <1>1, GridAlways, PTL

=============================================================================

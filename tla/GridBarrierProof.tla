-------------------------- MODULE GridBarrierProof ---------------------------
(***************************************************************************)
(* Proofs about GridBarrier for every grid, every number of barriers and   *)
(* every width of the sense word.                                          *)
(***************************************************************************)
EXTENDS GridBarrier, FiniteSetTheorems, TLAPS

USE GridAssumption, NumBarriersAssumption, SenseModAssumption

\* Where a CTA can stand relative to the sense: it is level with the flips
\* of this launch, or one behind and still spinning on the sense before.
Level(c) == episode[c] = flips

Placed(c) ==
  /\ \/ Level(c)
     \/ episode[c] + 1 = flips /\ pc[c] = "spin" /\ sense # oldSense[c]
  /\ Level(c) /\ pc[c] \in {"arrive", "reset", "flip", "spin"} => oldSense[c] = sense
  /\ pc[c] \in {"work", "arrive", "reset", "flip", "spin"} => episode[c] < NumBarriers
  /\ pc[c] = "exit" => episode[c] = NumBarriers

\* While the last arriver releases the barrier all the others wait at it.
Releasing(c) == pc[c] \in {"reset", "flip"}

ReleaseExclusive ==
  \A c, d \in CTA : Releasing(c) /\ c # d => Level(d) /\ pc[d] = "spin"

\* The strengthening of the safety invariants that a step preserves.
IInv ==
  /\ TypeOK
  /\ \A c \in CTA : Placed(c)
  /\ ReleaseExclusive
  /\ CountAccurate

LEMMA GridSize ==
  NumCTAs \in Nat \ {0} /\ IsFiniteSet(CTA) /\ CTA # {} /\ NumCTAs = Cardinality(CTA)
<1>1. IsFiniteSet(CTA) /\ Cardinality(CTA) = NumCTAs - 1 - 0 + 1
  BY FS_Interval DEF CTA
<1>2. 0 \in CTA
  BY DEF CTA
<1>. QED  BY <1>1, <1>2

LEMMA InitInv == Init => IInv
<1> SUFFICES ASSUME Init PROVE IInv
  OBVIOUS
<1>1. TypeOK
  BY GridSize DEF Init, TypeOK, Sense, Label
<1>2. \A c \in CTA : Placed(c)
  BY DEF Init, Placed, Level
<1>3. ReleaseExclusive
  BY DEF Init, ReleaseExclusive, Releasing
<1>4. CountAccurate
  <2>1. Arrived = {}
    BY DEF Init, Arrived
  <2>. QED  BY <2>1, FS_EmptySet DEF Init, CountAccurate
<1>. QED  BY <1>1, <1>2, <1>3, <1>4 DEF IInv

\* The CTAs at the barrier are finitely many, at most the grid.
LEMMA ArrivedFinite ==
  /\ IsFiniteSet(Arrived)
  /\ Cardinality(Arrived) \in 0 .. NumCTAs
  /\ Cardinality(Arrived) = NumCTAs => Arrived = CTA
<1>1. Arrived \subseteq CTA
  BY DEF Arrived
<1>. QED  BY <1>1, GridSize, FS_Subset, FS_CardinalityType

LEMMA ReadSensePreserves ==
  ASSUME IInv, NEW c \in CTA, ReadSense(c) PROVE IInv'
<1>. USE DEF ReadSense
<1>1. TypeOK'
  BY DEF IInv, TypeOK, Label
<1>2. \A d \in CTA : Placed(d)'
  BY DEF IInv, TypeOK, Placed, Level
<1>3. ReleaseExclusive'
  BY DEF IInv, TypeOK, ReleaseExclusive, Releasing, Level
<1>4. CountAccurate'
  <2>1. Arrived' = Arrived
    BY DEF IInv, TypeOK, Arrived
  <2>2. (\E d \in CTA : pc'[d] = "flip") <=> \E d \in CTA : pc[d] = "flip"
    BY DEF IInv, TypeOK
  <2>. QED  BY <2>1, <2>2 DEF IInv, CountAccurate
<1>. QED  BY <1>1, <1>2, <1>3, <1>4 DEF IInv

LEMMA ArrivePreserves ==
  ASSUME IInv, NEW c \in CTA, Arrive(c) PROVE IInv'
<1>. USE DEF Arrive
<1>1. /\ c \notin Arrived
      /\ Level(c)
      /\ \A d \in CTA : ~Releasing(d)
  BY DEF IInv, TypeOK, Arrived, Placed, Level, ReleaseExclusive, Releasing
<1>2. count = Cardinality(Arrived)
  BY <1>1 DEF IInv, CountAccurate, Releasing
<1>3. Arrived' = Arrived \cup {c}
  BY <1>1 DEF IInv, TypeOK, Arrived, Level
<1>4. Cardinality(Arrived') = count + 1
  BY <1>1, <1>2, <1>3, ArrivedFinite, FS_AddElement
<1>5. Cardinality(Arrived') \in 0 .. NumCTAs /\ (Cardinality(Arrived') = NumCTAs => Arrived' = CTA)
  <2>1. Arrived' \subseteq CTA
    BY DEF Arrived
  <2>. QED  BY <2>1, GridSize, FS_Subset, FS_CardinalityType
<1>6. TypeOK'
  BY <1>4, <1>5, GridSize DEF IInv, TypeOK, Label
<1>7. \A d \in CTA : Placed(d)'
  BY <1>1 DEF IInv, TypeOK, Placed, Level
<1>8. ReleaseExclusive'
  <2>1. CASE IsLast(count)
    <3>0. count + 1 = NumCTAs
      BY <2>1, GridSize DEF IsLast, IInv, TypeOK
    <3>1. Arrived' = CTA
      BY <3>0, <1>4, <1>5
    <3>2. \A d \in CTA : d # c => Level(d) /\ pc[d] = "spin"
      BY <3>1, <1>1, <1>3 DEF Arrived, Releasing, Level
    <3>. QED  BY <3>2, <1>1 DEF IInv, TypeOK, ReleaseExclusive, Releasing, Level
  <2>2. CASE ~IsLast(count)
    BY <2>2, <1>1 DEF IInv, TypeOK, ReleaseExclusive, Releasing, Level
  <2>. QED  BY <2>1, <2>2
<1>9. CountAccurate'
  <2>1. ~ \E d \in CTA : pc'[d] = "flip"
    BY <1>1 DEF IInv, TypeOK, Releasing
  <2>. QED  BY <2>1, <1>4 DEF CountAccurate
<1>. QED  BY <1>6, <1>7, <1>8, <1>9 DEF IInv

LEMMA ResetPreserves ==
  ASSUME IInv, NEW c \in CTA, ResetCount(c) PROVE IInv'
<1>. USE DEF ResetCount
<1>1. \A d \in CTA : d # c => Level(d) /\ pc[d] = "spin"
  BY DEF IInv, ReleaseExclusive, Releasing
<1>2. TypeOK'
  BY GridSize DEF IInv, TypeOK, Label
<1>3. \A d \in CTA : Placed(d)'
  BY DEF IInv, TypeOK, Placed, Level
<1>4. ReleaseExclusive'
  BY <1>1 DEF IInv, TypeOK, ReleaseExclusive, Releasing, Level
<1>5. CountAccurate'
  BY DEF IInv, TypeOK, CountAccurate
<1>. QED  BY <1>2, <1>3, <1>4, <1>5 DEF IInv

\* The sense moves to a different value even when it wraps.
LEMMA SenseMoves ==
  ASSUME NEW s \in Sense
  PROVE  (s + 1) % SenseMod \in Sense /\ (s + 1) % SenseMod # s
<1>1. CASE s + 1 < SenseMod
  <2>1. (s + 1) % SenseMod = s + 1
    BY <1>1 DEF Sense
  <2>. QED  BY <2>1, <1>1 DEF Sense
<1>2. CASE s + 1 = SenseMod
  <2>1. (s + 1) % SenseMod = 0
    BY <1>2 DEF Sense
  <2>. QED  BY <2>1, <1>2 DEF Sense
<1>. QED  BY <1>1, <1>2 DEF Sense

LEMMA FlipPreserves ==
  ASSUME IInv, NEW c \in CTA, FlipSense(c) PROVE IInv'
<1>. USE DEF FlipSense, Leave
<1>1. \A d \in CTA : d # c => Level(d) /\ pc[d] = "spin"
  BY DEF IInv, ReleaseExclusive, Releasing
<1>2. /\ Level(c) /\ episode[c] < NumBarriers
      /\ \A d \in CTA : oldSense[d] = sense /\ episode[d] < NumBarriers
  BY <1>1 DEF IInv, Placed, Level
<1>3. sense' \in Sense /\ sense' # sense
  BY SenseMoves DEF IInv, TypeOK
<1>4. TypeOK'
  BY <1>2, <1>3 DEF IInv, TypeOK, Label, Level
<1>5. \A d \in CTA : Placed(d)'
  <2>. SUFFICES ASSUME NEW d \in CTA PROVE Placed(d)'
    OBVIOUS
  <2>1. CASE d = c
    BY <2>1, <1>2 DEF IInv, TypeOK, Placed, Level
  <2>2. CASE d # c
    BY <2>2, <1>1, <1>2, <1>3 DEF IInv, TypeOK, Placed, Level
  <2>. QED  BY <2>1, <2>2
<1>6. ReleaseExclusive'
  BY <1>1 DEF IInv, TypeOK, ReleaseExclusive, Releasing, Level
<1>7. CountAccurate'
  <2>1. Arrived' = {}
    BY <1>1, <1>2 DEF IInv, TypeOK, Arrived, Level
  <2>2. ~ \E d \in CTA : pc'[d] = "flip"
    BY <1>1 DEF IInv, TypeOK
  <2>3. count' = 0
    BY DEF IInv, CountAccurate
  <2>. QED  BY <2>1, <2>2, <2>3, FS_EmptySet DEF CountAccurate
<1>. QED  BY <1>4, <1>5, <1>6, <1>7 DEF IInv

LEMMA SeeFlipPreserves ==
  ASSUME IInv, NEW c \in CTA, SeeFlip(c) PROVE IInv'
<1>. USE DEF SeeFlip, Leave
<1>1. episode[c] + 1 = flips /\ ~Level(c) /\ episode[c] < NumBarriers
  BY DEF IInv, TypeOK, Placed, Level
<1>2. \A d \in CTA : ~Releasing(d)
  BY <1>1 DEF IInv, ReleaseExclusive, Releasing
<1>3. TypeOK'
  BY <1>1 DEF IInv, TypeOK, Label
<1>4. \A d \in CTA : Placed(d)'
  BY <1>1 DEF IInv, TypeOK, Placed, Level
<1>5. ReleaseExclusive'
  BY <1>2 DEF IInv, TypeOK, ReleaseExclusive, Releasing
<1>6. CountAccurate'
  <2>1. Arrived' = Arrived
    BY <1>1 DEF IInv, TypeOK, Arrived, Level
  <2>2. (\E d \in CTA : pc'[d] = "flip") <=> \E d \in CTA : pc[d] = "flip"
    BY DEF IInv, TypeOK
  <2>. QED  BY <2>1, <2>2 DEF IInv, CountAccurate
<1>. QED  BY <1>3, <1>4, <1>5, <1>6 DEF IInv

LEMMA RelaunchPreserves == ASSUME IInv, Relaunch PROVE IInv'
<1>. USE DEF Relaunch
<1>1. TypeOK'
  BY DEF IInv, TypeOK, Label
<1>2. \A d \in CTA : Placed(d)'
  BY DEF Placed, Level
<1>3. ReleaseExclusive'
  BY DEF ReleaseExclusive, Releasing
<1>4. CountAccurate'
  <2>1. Arrived = {} /\ Arrived' = {}
    BY DEF Arrived
  <2>. QED  BY <2>1 DEF IInv, CountAccurate
<1>. QED  BY <1>1, <1>2, <1>3, <1>4 DEF IInv

LEMMA NextInv == IInv /\ [Next]_vars => IInv'
<1> SUFFICES ASSUME IInv, [Next]_vars PROVE IInv'
  OBVIOUS
<1>1. CASE UNCHANGED vars
  BY <1>1 DEF vars, IInv, TypeOK, Placed, Level, ReleaseExclusive, Releasing,
              CountAccurate, Arrived
<1>2. CASE Relaunch
  BY <1>2, RelaunchPreserves
<1>3. ASSUME NEW c \in CTA, Step(c) PROVE IInv'
  BY <1>3, ReadSensePreserves, ArrivePreserves, ResetPreserves, FlipPreserves,
     SeeFlipPreserves DEF Step
<1>. QED  BY <1>1, <1>2, <1>3 DEF Next

THEOREM Inductive == Spec => []IInv
<1>. QED  BY InitInv, NextInv, PTL DEF Spec, SafeSpec

\* Every variable keeps its type, whatever the size of the grid.
THEOREM TypeCorrect == Spec => []TypeOK
<1>1. IInv => TypeOK
  BY DEF IInv
<1>. QED  BY <1>1, Inductive, PTL

\* No CTA enters the phase after a barrier before every CTA has arrived.
THEOREM BarrierSeparatesPhases == Spec => []NoOvertaking
<1>1. IInv => NoOvertaking
  BY DEF IInv, TypeOK, Placed, Level, NoOvertaking
<1>. QED  BY <1>1, Inductive, PTL

\* A released CTA sees the release however the sense has wrapped.
THEOREM ReleaseSeen == Spec => []ReleaseStaysVisible
<1>1. IInv => ReleaseStaysVisible
  BY DEF IInv, TypeOK, Placed, Level, ReleaseStaysVisible
<1>. QED  BY <1>1, Inductive, PTL

\* The three together: what the run checks under one name.
THEOREM LaunchSafe == Spec => []PhasesSeparate
<1>1. TypeOK /\ NoOvertaking /\ ReleaseStaysVisible => PhasesSeparate
  BY DEF PhasesSeparate
<1>. QED  BY <1>1, TypeCorrect, BarrierSeparatesPhases, ReleaseSeen, PTL

LEMMA CountFromInv == IInv => CountReusable
<1>. SUFFICES ASSUME IInv, \A c \in CTA : pc[c] = "exit" PROVE count = 0
  BY DEF CountReusable
<1>1. Arrived = {}
  BY DEF Arrived
<1>. QED  BY <1>1, FS_EmptySet DEF IInv, CountAccurate

\* A retired launch leaves the count ready for the next one.
THEOREM LaunchLeavesCountZero == Spec => []CountReusable
BY CountFromInv, Inductive, PTL

\* The barrier implements the abstract one: a step joins one CTA, releases
\* all, starts a new launch or changes nothing the abstract one sees.
THEOREM BarrierRefinement == Spec => ImplementsBarrier
<1>1. Init => Abstract!Init
  BY DEF Init, Abstract!Init, Arrived
<1>2. IInv /\ [Next]_vars => [Abstract!Next]_<<Arrived, flips>>
  <2>. SUFFICES ASSUME IInv, [Next]_vars PROVE [Abstract!Next]_<<Arrived, flips>>
    OBVIOUS
  <2>1. CASE UNCHANGED vars
    BY <2>1 DEF vars, Arrived
  <2>2. CASE Relaunch
    <3>1. Arrived = {} /\ Arrived' = {}
      BY <2>2 DEF Relaunch, Arrived
    <3>2. flips = NumBarriers
      BY <2>2, GridSize DEF Relaunch, IInv, TypeOK, Placed, Level
    <3>. QED  BY <3>1, <3>2, <2>2 DEF Relaunch, Abstract!Next, Abstract!Relaunch
  <2>3. ASSUME NEW c \in CTA, ReadSense(c) PROVE UNCHANGED <<Arrived, flips>>
    BY <2>3 DEF ReadSense, IInv, TypeOK, Arrived
  <2>4. ASSUME NEW c \in CTA, Arrive(c) PROVE Abstract!Join(c)
    <3>1. Level(c) /\ c \notin Arrived /\ flips < NumBarriers
      BY <2>4 DEF Arrive, IInv, TypeOK, Placed, Level, Arrived
    <3>2. Arrived' = Arrived \cup {c} /\ flips' = flips
      BY <2>4, <3>1 DEF Arrive, IInv, TypeOK, Arrived, Level
    <3>. QED  BY <3>1, <3>2 DEF Abstract!Join
  <2>5. ASSUME NEW c \in CTA, ResetCount(c) PROVE UNCHANGED <<Arrived, flips>>
    BY <2>5 DEF ResetCount, IInv, TypeOK, Arrived
  <2>6. ASSUME NEW c \in CTA, FlipSense(c) PROVE Abstract!Release
    <3>1. \A d \in CTA : Level(d) /\ pc[d] \in {"spin", "flip"}
      BY <2>6 DEF FlipSense, IInv, TypeOK, ReleaseExclusive, Releasing, Placed, Level
    <3>2. Arrived = CTA
      BY <3>1 DEF Arrived, Level
    <3>3. Arrived' = {} /\ flips' = flips + 1
      BY <3>1, <2>6 DEF FlipSense, Leave, IInv, TypeOK, Arrived, Level
    <3>. QED  BY <3>2, <3>3 DEF Abstract!Release
  <2>7. ASSUME NEW c \in CTA, SeeFlip(c) PROVE UNCHANGED <<Arrived, flips>>
    <3>1. ~Level(c) /\ episode[c] + 1 = flips
      BY <2>7 DEF SeeFlip, IInv, Placed, Level
    <3>. QED  BY <3>1, <2>7 DEF SeeFlip, Leave, IInv, TypeOK, Arrived, Level
  <2>. QED  BY <2>1, <2>2, <2>3, <2>4, <2>5, <2>6, <2>7
            DEF Next, Step, Abstract!Next
<1>. QED  BY <1>1, <1>2, Inductive, PTL DEF Spec, SafeSpec, ImplementsBarrier, Abstract!Spec

=============================================================================

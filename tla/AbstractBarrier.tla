--------------------------- MODULE AbstractBarrier ---------------------------
(***************************************************************************)
(* What a grid barrier promises to the phases it separates.  Every CTA of  *)
(* the launch joins; once all have joined they are all released in one     *)
(* step.  A kernel runs NumBarriers of them in sequence and is then        *)
(* launched again over the same workspace.                                 *)
(***************************************************************************)
EXTENDS Naturals

CONSTANTS CTA,          \* the CTAs of the persistent grid
          NumBarriers   \* barrier calls in one launch of the kernel

VARIABLES joined,       \* CTAs waiting at the current barrier
          released      \* barriers completed in this launch

Init ==
  /\ joined = {}
  /\ released = 0

Join(c) ==
  /\ released < NumBarriers
  /\ c \notin joined
  /\ joined' = joined \cup {c}
  /\ UNCHANGED released

Release ==
  /\ joined = CTA
  /\ joined' = {}
  /\ released' = released + 1

Relaunch ==
  /\ released = NumBarriers
  /\ joined = {}
  /\ released' = 0
  /\ UNCHANGED joined

Next ==
  \/ \E c \in CTA : Join(c)
  \/ Release
  \/ Relaunch

Spec == Init /\ [][Next]_<<joined, released>>

=============================================================================

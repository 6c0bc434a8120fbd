---------------------------- MODULE Publication ------------------------------
(***************************************************************************)
(* What building a checkpoint directory promises, whoever builds it and    *)
(* however often the builder is killed: weight files appear whole and stay *)
(* whole; the index appears when every weight file is there; the receipt,  *)
(* which is what a launcher looks for, appears last, over a directory in   *)
(* which nothing is missing, and nothing is spoilt afterwards.             *)
(***************************************************************************)
CONSTANTS Small,     \* auxiliary files: may be rewritten until the receipt
          Weights,   \* weight shards
          Configs    \* configuration files

VARIABLES whole,     \* files present under their final names with all content
          indexed,   \* the index is there
          receipted  \* the receipt is there

Init == whole = {} /\ indexed = FALSE /\ receipted = FALSE

Appear ==
  /\ \E f \in (Small \cup Weights \cup Configs) \ whole : whole' = whole \cup {f}
  /\ UNCHANGED <<indexed, receipted>>

\* Two builders at once may copy a small file over itself.
Rewrite ==
  /\ ~receipted
  /\ \E f \in Small \cap whole : whole' = whole \ {f}
  /\ UNCHANGED <<indexed, receipted>>

Index ==
  /\ Weights \cup Configs \subseteq whole
  /\ indexed' = TRUE
  /\ UNCHANGED <<whole, receipted>>

Receipt ==
  /\ indexed /\ whole = Small \cup Weights \cup Configs
  /\ receipted' = TRUE
  /\ UNCHANGED <<whole, indexed>>

Next == Appear \/ Rewrite \/ Index \/ Receipt

Spec == Init /\ [][Next]_<<whole, indexed, receipted>>

=============================================================================

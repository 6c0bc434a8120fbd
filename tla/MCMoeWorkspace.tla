--------------------------- MODULE MCMoeWorkspace ---------------------------
(* Two layers of 256 experts, top 8, in the bands where the tile changes.  *)
EXTENDS MoeWorkspace

Mode(kind, quant, micro, max, listed) ==
    [kind |-> kind, quant |-> quant, micro |-> micro, max |-> max, listed |-> listed]

Quants == {"nvfp4", "w4a8_mx"}

MCModes ==
    {Mode(k, q, TRUE, 2048, {4}) : k \in {"frozen", "scratch"}, q \in Quants} \cup
    {Mode("frozen", "w4a8_mx", TRUE, 375, {4}), Mode("scratch", "nvfp4", FALSE, 4, {}),
     Mode("frozen", "nvfp4", FALSE, 480, {4}), Mode("growing", "nvfp4", TRUE, 480, {}),
     Mode("scratch", "w4a8_mx", TRUE, 4, {})}

MCGrowing == {Mode("growing", "nvfp4", TRUE, 480, {})}
=============================================================================

--------------------------- MODULE MCMaterializer ----------------------------
(* Two workers with a native shard each, beside main; one archive shard,  *)
(* one auxiliary file.                                                    *)
EXTENDS Materializer

MCShardOf == [w \in Workers |-> IF w = "w1" THEN "n1" ELSE "n2"]

=============================================================================

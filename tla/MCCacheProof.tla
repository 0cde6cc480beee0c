---------------------------- MODULE MCCacheProof ----------------------------
(* Two paraphrases, and two near-misses of two families. *)
EXTENDS CacheProof

MCPairs == 1..4
MCPositive == {1, 2}
MCFamilyOf == [p \in 3..4 |-> IF p = 3 THEN "numbers" ELSE "unrelated"]
MCGrid == Thresholds(1, 3, 1)
=============================================================================

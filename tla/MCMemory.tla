------------------------------ MODULE MCMemory ------------------------------
(***************************************************************************)
(* A bounded instance of Memory: two texts that are similar to each other, *)
(* in two categories.                                                      *)
(***************************************************************************)
EXTENDS Memory, TLC

CONSTANTS t1, t2, fact, session

MCSim == [p \in {t1, t2} \X {t1, t2} |-> IF p[1] = p[2] THEN 2 ELSE 1]
MemorySymmetry == Permutations({t1, t2}) \cup Permutations({fact, session})
=============================================================================

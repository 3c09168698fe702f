--------------------------- MODULE MCSharedHashTable ---------------------------
(***************************************************************************)
(* Three keys compete for two slots; a and b have the same home slot, the  *)
(* last one, so that probing wraps around.                                 *)
(***************************************************************************)
EXTENDS SharedHashTable, TLC

CONSTANTS a, b, c, w1, w2, d1, d2

MCKey == {a, b, c}
MCWorker == {w1, w2}
MCHome(k) == IF k = c THEN 0 ELSE 1
MCSymmetry == Permutations(MCWorker)

=============================================================================

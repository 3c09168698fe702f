---------------------------- MODULE MCSharedTable ----------------------------
(***************************************************************************)
(* Two keys and caches of capacity one, so that every second read evicts   *)
(* or collects.  F exchanges the two values.                               *)
(***************************************************************************)
EXTENDS SharedTable, TLC

CONSTANTS a, b, w1, w2, d1, d2

MCKey == {a, b}
MCWorker == {w1, w2}
MCF(d) == IF d = d1 THEN d2 ELSE d1
MCJoin(d, e) == IF d = e THEN d ELSE d2
MCSymmetry == Permutations(MCWorker) \cup Permutations(MCKey)

=============================================================================

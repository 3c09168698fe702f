----------------------------- MODULE KeyValueStore -----------------------------
(***************************************************************************)
(* What shared memory promises to its users (the comments of hh_shared.c   *)
(* and the signatures NoCache.S, New and Old of sharedMemory.ml): a map    *)
(* from keys to values in which the first writer of a key wins.            *)
(***************************************************************************)
CONSTANTS Key, Data, NoValue

VARIABLE store

Init == store = [k \in Key |-> NoValue]

(* "the table is left unchanged if the key was already bound" *)
Add(k, d) == store[k] = NoValue /\ store' = [store EXCEPT ![k] = d]

Remove(k) == store[k] # NoValue /\ store' = [store EXCEPT ![k] = NoValue]

(* oldify, revive *)
Move(k1, k2) ==
  /\ store[k1] # NoValue /\ store[k2] = NoValue
  /\ store' = [store EXCEPT ![k1] = NoValue, ![k2] = store[k1]]

Reset == store' = [k \in Key |-> NoValue]

Next ==
  \/ \E k \in Key, d \in Data : Add(k, d)
  \/ \E k \in Key : Remove(k)
  \/ \E k1, k2 \in Key : Move(k1, k2)
  \/ Reset

Spec == Init /\ [][Next]_store

=============================================================================

----------------------------- MODULE SharedTable -----------------------------
(***************************************************************************)
(* The OCaml side of shared memory (sharedMemory.ml): a table under new    *)
(* and old keys, read through a process-local cache of two levels, and     *)
(* the whole-table operations of FirstClassWithKeys, whose handle lists    *)
(* the keys.  The master calls the whole-table operations between the      *)
(* parallel phases; in a phase each key is dealt to one worker, which runs *)
(* its job in a process forked for it.                                     *)
(***************************************************************************)
EXTENDS Naturals, Sequences, FiniteSetsExt

CONSTANTS
  Key, Data, None,
  Worker, Master,
  Capacity,     \* LocalCache.ConfValue.capacity
  F(_),         \* the f of map_parallel_keys
  Join(_, _),   \* the f of merge_with_alist_sequential
  MaxQueue      \* bound: no cached read when the queue of L1 is this long

ASSUME TableAssumption ==
  /\ None \notin Data
  /\ Master \notin Worker
  /\ Capacity \in Nat \ {0} /\ MaxQueue \in Nat
  /\ \A d \in Data : F(d) \in Data /\ \A e \in Data : Join(d, e) \in Data

Process == Worker \cup {Master}
Option == Data \cup {None}

VARIABLES
  mode,       \* what the master is doing with the table
  new, old,   \* the values under the new and the old keys
  keys,       \* Handle.keys: how often each key is in the list
  oldified,   \* the batch the master has moved to the old keys
  undealt,    \* inputs of the phase no worker has been given
  job,        \* what is left of a worker's inputs
  busy,       \* workers that have a job
  written,    \* keys in the answers of the workers, as `keys`
  answer,     \* keys a worker will answer with
  cache,      \* the LocalCache of each process
  expected    \* history: what map_parallel_keys is to leave

tableVars == <<new, old, keys>>
phaseVars == <<undealt, job, busy, written, answer>>
vars == <<mode, tableVars, oldified, phaseVars, cache, expected>>

NoValues == [k \in Key |-> None]
NoKeys == [k \in Key |-> 0]
Bound(t) == {k \in Key : t[k] # None}
Without(t, S) == [k \in Key |-> IF k \in S THEN None ELSE t[k]]
Listed(bag) == {k \in Key : bag[k] > 0}

-----------------------------------------------------------------------------
(* The caches: L1 is an OrderedCache, L2 a FreqCache. *)

EmptyCache == [l1 |-> NoValues, queue |-> <<>>, size1 |-> 0, l2 |-> NoValues, size2 |-> 0]

(* mutant: the size of the ordered cache survives clear *)
ClearSizeKept(c) == [EmptyCache EXCEPT !.size1 = c.size1]

(* LocalCache.clear *)
Clear(c) == EmptyCache

(* "Remove oldest element - if it's still around." *)
Evict(c) ==
  IF c.size1 < Capacity THEN c
  ELSE LET x == Head(c.queue)
       IN [c EXCEPT !.queue = Tail(@), !.l1[x] = None,
                    !.size1 = IF c.l1[x] = None THEN @ ELSE @ - 1]

L1Add(c, x, y) ==
  LET e == Evict(c)
  IN [e EXCEPT !.queue = Append(@, x), !.l1[x] = y, !.size1 = IF e.l1[x] = None THEN @ + 1 ELSE @]

(* Capacity entries survive; which ones depends on use, here any may. *)
Survivors(t) ==
  {S \in SUBSET Bound(t) : Cardinality(S) = Min({Capacity, Cardinality(Bound(t))})}

Collect(c) ==
  IF c.size2 < 2 * Capacity THEN {c}
  ELSE {[c EXCEPT !.l2 = Without(@, Key \ S), !.size2 = Capacity] : S \in Survivors(c.l2)}

L2Add(c, x, y) ==
  {[e EXCEPT !.l2[x] = y, !.size2 = IF e.l2[x] = None THEN @ + 1 ELSE @] : e \in Collect(c)}

(* LocalCache.add *)
CacheAdd(c, x, y) == L2Add(L1Add(c, x, y), x, y)

Cached(c, x) == IF c.l1[x] # None THEN c.l1[x] ELSE c.l2[x]

(* LocalCache.get: a hit in one level is added to the other. *)
CacheGet(c, x) ==
  IF c.l1[x] # None THEN L2Add(c, x, c.l1[x])
  ELSE IF c.l2[x] # None THEN {L1Add(c, x, c.l2[x])}
  ELSE {c}

(* mutant: only the young values are dropped *)
CacheRemoveYoung(c, S) ==
  [c EXCEPT !.l1 = Without(@, S), !.size1 = @ - Cardinality(S \cap Bound(c.l1))]

(* KeySet.iter Cache.remove; the queue of L1 keeps its entries. *)
CacheRemove(c, S) ==
  [c EXCEPT !.l1 = Without(@, S), !.size1 = @ - Cardinality(S \cap Bound(c.l1)),
            !.l2 = Without(@, S), !.size2 = @ - Cardinality(S \cap Bound(c.l2))]

-----------------------------------------------------------------------------
(* Reads, by a worker in its job or by the master between phases *)

Sequential == {"idle", "oldified", "preserved", "mapped"}

CanRead(p) == IF p = Master THEN mode \in Sequential ELSE p \in busy

(* WithCache.get *)
Get(p, k) ==
  /\ CanRead(p)
  /\ Len(cache[p].queue) < MaxQueue
  /\ \E c \in IF Cached(cache[p], k) = None /\ new[k] # None
              THEN CacheAdd(cache[p], k, new[k])
              ELSE CacheGet(cache[p], k) :
       cache' = [cache EXCEPT ![p] = c]
  /\ UNCHANGED <<mode, tableVars, oldified, phaseVars, expected>>

(* WithCache.mem: a value that is not cached is not loaded. *)
Mem(p, k) ==
  /\ CanRead(p)
  /\ Len(cache[p].queue) < MaxQueue
  /\ \E c \in CacheGet(cache[p], k) : cache' = [cache EXCEPT ![p] = c]
  /\ UNCHANGED <<mode, tableVars, oldified, phaseVars, expected>>

(* SharedMemory.invalidate_caches, in the master *)
invalidate_caches ==
  /\ mode \in Sequential
  /\ cache' = [cache EXCEPT ![Master] = Clear(@)]
  /\ UNCHANGED <<mode, tableVars, oldified, phaseVars, expected>>

-----------------------------------------------------------------------------
(* The master, between phases *)

Idle == mode \in {"idle", "mapped"}

(* of_alist_sequential, and of_alist_parallel, whose workers only write *)
of_alist(t) ==
  /\ Idle
  /\ keys = NoKeys      \* FirstClass.create: a table no one has used
  /\ mode' = "idle"
  /\ new' = t
  /\ keys' = [k \in Key |-> IF t[k] = None THEN 0 ELSE 1]
  /\ UNCHANGED <<old, oldified, phaseVars, cache, expected>>

(* One round of the loop of merge_with_alist_sequential; the keys of the   *)
(* handle become those it had and the new ones, without duplicates.        *)
merge_with_alist_sequential(k, d) ==
  /\ Idle
  /\ mode' = "idle"
  /\ new' = [new EXCEPT ![k] = IF @ = None THEN d ELSE Join(@, d)]
  /\ cache' = [cache EXCEPT ![Master] = IF new[k] = None THEN @ ELSE CacheRemove(@, {k})]
  /\ keys' = [keys EXCEPT ![k] = 1]
  /\ UNCHANGED <<old, oldified, phaseVars, expected>>

(* oldify_batch: a key without a value loses its old value, too. *)
oldify_batch(S) ==
  /\ Idle
  /\ mode' = "oldified"
  /\ oldified' = S
  /\ old' = [k \in Key |-> IF k \in S THEN new[k] ELSE old[k]]
  /\ new' = Without(new, S)
  /\ cache' = [cache EXCEPT ![Master] = CacheRemove(@, S)]
  /\ UNCHANGED <<keys, phaseVars, expected>>

(* mutant: the old values stay *)
remove_no_old ==
  /\ mode = "preserved"
  /\ mode' = "idle"
  /\ oldified' = {}
  /\ UNCHANGED <<tableVars, phaseVars, cache, expected>>

(* As every caller does when the oldified keys have been written again *)
remove_old_batch ==
  /\ mode = "preserved"
  /\ mode' = "idle"
  /\ oldified' = {}
  /\ old' = Without(old, oldified)
  /\ UNCHANGED <<new, keys, phaseVars, cache, expected>>

(* cleanup ~clean_old; nobody uses the handle afterwards. *)
cleanup(clean_old) ==
  /\ Idle
  /\ mode' = "clean"
  /\ old' = IF clean_old THEN Without(old, Listed(keys)) ELSE old
  /\ new' = Without(new, Listed(keys))
  /\ cache' = [cache EXCEPT ![Master] = CacheRemove(@, Listed(keys))]
  /\ UNCHANGED <<keys, oldified, phaseVars, expected>>

(* create: another table, with another id in its keys *)
create ==
  /\ mode = "clean"
  /\ mode' = "idle"
  /\ keys' = NoKeys
  /\ new' = NoValues /\ old' = NoValues
  /\ cache' = [cache EXCEPT ![Master] = Clear(@)]
  /\ UNCHANGED <<oldified, phaseVars, expected>>

-----------------------------------------------------------------------------
(* The parallel phases *)

Start(m, inputs) ==
  /\ mode' = m
  /\ undealt' = inputs
  /\ written' = NoKeys
  /\ UNCHANGED <<tableVars, oldified, job, busy, answer, cache>>

(* Workers add keys the table does not have, through an AddOnly handle. *)
StartAdd(S) == Idle /\ S \cap Listed(keys) = {} /\ Start("add", S) /\ UNCHANGED expected

(* Workers write the keys that were oldified, through a PreserveKeyOnly    *)
(* handle (analyze_callable fails for a key without an old value).         *)
StartPreserve ==
  mode = "oldified" /\ Start("preserve", oldified \cap Bound(old)) /\ UNCHANGED expected

(* map_parallel: all keys of the handle *)
StartMap ==
  /\ Idle
  /\ Start("map", Listed(keys))
  /\ expected' = [k \in Key |-> IF new[k] = None THEN None ELSE F(new[k])]

(* A worker is given some of the inputs and forks a process for them. *)
Deal(w, S) ==
  /\ mode \in {"add", "preserve", "map"}
  /\ w \notin busy
  /\ S # {} /\ S \subseteq undealt
  /\ undealt' = undealt \ S
  /\ busy' = busy \cup {w}
  /\ job' = [job EXCEPT ![w] = S]
  /\ UNCHANGED <<mode, tableVars, oldified, written, answer, cache, expected>>

Take(w, k) == k \in job[w] /\ job' = [job EXCEPT ![w] = @ \ {k}]

(* The first writer wins. *)
Write(t, k, d) == IF t[k] = None THEN [t EXCEPT ![k] = d] ELSE t

(* AddOnly.add *)
AddOnlyAdd(w, k, d) ==
  /\ mode = "add" /\ Take(w, k)
  /\ new' = Write(new, k, d)
  /\ answer' = [answer EXCEPT ![w] = @ \cup {k}]
  /\ UNCHANGED <<mode, old, keys, oldified, undealt, busy, written, cache, expected>>

(* PreserveKeyOnly.set_new *)
set_new(w, k, d, cached) ==
  /\ mode = "preserve" /\ Take(w, k)
  /\ new' = Write(new, k, d)
  /\ \E c \in IF cached THEN CacheAdd(cache[w], k, d) ELSE {cache[w]} :
       cache' = [cache EXCEPT ![w] = c]
  /\ UNCHANGED <<mode, old, keys, oldified, undealt, busy, written, answer, expected>>

(* mutant: the new value is added under the new key, which has one *)
add_new_and_accumulate(w, k) ==
  /\ mode = "map" /\ Take(w, k)
  /\ new' = IF new[k] = None THEN new ELSE Write(new, k, F(new[k]))
  /\ answer' = [answer EXCEPT ![w] = IF new[k] = None THEN @ ELSE @ \cup {k}]
  /\ UNCHANGED <<mode, old, keys, oldified, undealt, busy, written, cache, expected>>

(* The map of map_parallel_keys: a worker may not remove, so that the new  *)
(* value waits under the old key.                                          *)
add_old_and_accumulate_written_keys(w, k) ==
  /\ mode = "map" /\ Take(w, k)
  /\ old' = IF new[k] = None THEN old ELSE Write(old, k, F(new[k]))
  /\ answer' = [answer EXCEPT ![w] = IF new[k] = None THEN @ ELSE @ \cup {k}]
  /\ UNCHANGED <<mode, new, keys, oldified, undealt, busy, written, cache, expected>>

(* mutant: of two answers one is kept *)
FinishJobReplace(w) ==
  /\ w \in busy /\ job[w] = {}
  /\ busy' = busy \ {w}
  /\ written' = [k \in Key |-> IF k \in answer[w] THEN 1 ELSE 0]
  /\ answer' = [answer EXCEPT ![w] = {}]
  /\ cache' = [cache EXCEPT ![w] = EmptyCache]
  /\ UNCHANGED <<mode, tableVars, oldified, undealt, job, expected>>

(* The process ends; its answer is reduced (merge_same_handle_disjoint_keys, *)
(* rev_append).                                                            *)
FinishJob(w) ==
  /\ w \in busy /\ job[w] = {}
  /\ busy' = busy \ {w}
  /\ written' = [k \in Key |-> IF k \in answer[w] THEN written[k] + 1 ELSE written[k]]
  /\ answer' = [answer EXCEPT ![w] = {}]
  /\ cache' = [cache EXCEPT ![w] = EmptyCache]
  /\ UNCHANGED <<mode, tableVars, oldified, undealt, job, expected>>

Done == undealt = {} /\ busy = {}

(* from_add_only, which fails for duplicate keys *)
from_add_only ==
  /\ mode = "add" /\ Done
  /\ keys' = [k \in Key |-> keys[k] + written[k]]
  /\ mode' = IF \E k \in Key : keys'[k] > 1 THEN "duplicate keys" ELSE "idle"
  /\ UNCHANGED <<new, old, oldified, phaseVars, cache, expected>>

EndPreserve ==
  /\ mode = "preserve" /\ Done
  /\ mode' = "preserved"
  /\ UNCHANGED <<tableVars, oldified, phaseVars, cache, expected>>

(* revive_batch of the keys the workers have written *)
revive_batch ==
  /\ mode = "map" /\ Done
  /\ mode' = "mapped"
  /\ new' = [k \in Key |-> IF k \in Listed(written) THEN old[k] ELSE new[k]]
  /\ old' = Without(old, Listed(written))
  /\ cache' = [cache EXCEPT ![Master] = CacheRemove(@, Listed(written))]
  /\ UNCHANGED <<keys, oldified, phaseVars, expected>>

-----------------------------------------------------------------------------

Init ==
  /\ mode = "idle"
  /\ new = NoValues /\ old = NoValues /\ keys = NoKeys
  /\ oldified = {} /\ undealt = {} /\ busy = {}
  /\ job = [w \in Worker |-> {}]
  /\ answer = [w \in Worker |-> {}]
  /\ written = NoKeys
  /\ cache = [p \in Process |-> EmptyCache]
  /\ expected = NoValues

MasterNext ==
  \/ \E t \in [Key -> Option] : of_alist(t)
  \/ \E k \in Key, d \in Data : merge_with_alist_sequential(k, d)
  \/ \E S \in SUBSET Key : oldify_batch(S) \/ StartAdd(S)
  \/ \E clean_old \in BOOLEAN : cleanup(clean_old)
  \/ create \/ remove_old_batch \/ invalidate_caches
  \/ StartPreserve \/ StartMap
  \/ from_add_only \/ EndPreserve \/ revive_batch

WorkerNext(w) ==
  \/ \E S \in SUBSET Key : Deal(w, S)
  \/ \E k \in Key, d \in Data : AddOnlyAdd(w, k, d) \/ \E cached \in BOOLEAN : set_new(w, k, d, cached)
  \/ \E k \in Key : add_old_and_accumulate_written_keys(w, k)
  \/ FinishJob(w)

Next ==
  \/ MasterNext
  \/ \E w \in Worker : WorkerNext(w)
  \/ \E p \in Process, k \in Key : Get(p, k) \/ Mem(p, k)

Spec == Init /\ [][Next]_vars

-----------------------------------------------------------------------------

(***************************************************************************)
(* A value that a process reads from its cache is the one shared memory    *)
(* has: no operation of the master or of another worker leaves a stale     *)
(* entry in either level of any cache that is still read.                  *)
(***************************************************************************)
CachesCoherent ==
  \A p \in busy \cup {Master}, k \in Key :
    /\ cache[p].l1[k] \in {None, new[k]}
    /\ cache[p].l2[k] \in {None, new[k]}

(***************************************************************************)
(* Between phases the handle lists every key that has a value, once: then  *)
(* from_add_only never fails, map_parallel reaches every value and cleanup *)
(* leaves nothing behind in shared memory.                                 *)
(***************************************************************************)
HandleComplete ==
  /\ mode # "duplicate keys"
  /\ mode \in Sequential => Bound(new) \cup Bound(old) \subseteq Listed(keys)
  /\ mode = "clean" => Bound(new) = {} /\ Bound(old) = {}

(***************************************************************************)
(* map_parallel_keys replaces every value by its image, however the keys   *)
(* are dealt, and leaves no old value.  It needs that none is left when it *)
(* begins, and so does oldify_batch: hh_move needs a free destination.     *)
(***************************************************************************)
MapApplied ==
  /\ mode = "mapped" => new = expected /\ old = NoValues
  /\ Idle => old = NoValues

(***************************************************************************)
(* The counters of the caches count their entries, through evictions,      *)
(* collections, removals and hits in one level that fill the other, and    *)
(* OrderedCache finds something in its queue when it has to evict          *)
(* (Queue.pop does not raise).                                             *)
(***************************************************************************)
CacheAccounting ==
  \A p \in Process :
    /\ cache[p].size1 = Cardinality(Bound(cache[p].l1))
    /\ cache[p].size2 = Cardinality(Bound(cache[p].l2))
    /\ cache[p].size1 >= Capacity => cache[p].queue # <<>>

=============================================================================

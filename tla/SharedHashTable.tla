---------------------------- MODULE SharedHashTable ----------------------------
(***************************************************************************)
(* The lock-free hash table of hack_parallel/heap/hh_shared.c, one action  *)
(* per atomic access to shared memory.  Worker processes add and look up   *)
(* keys concurrently; the master removes, moves, compacts, resets, saves   *)
(* and loads when no worker is inside an operation.  A worker may be killed*)
(* in an operation or raise, and the others and the master go on.          *)
(*                                                                         *)
(* A key stands for its 64 bit hash (get_hash), which is assumed to be     *)
(* nonzero and different for different keys.  All values have one size.    *)
(***************************************************************************)
EXTENDS Naturals, FiniteSets

CONSTANTS
  Worker,     \* the processes that add and read
  Key,
  Data,       \* the values, serialized
  NoKey,      \* hash = 0, an empty slot
  NULL,       \* addr of a slot without a value
  WRITE_IN_PROGRESS,   \* HASHTBL_WRITE_IN_PROGRESS
  Garbage,    \* contents of heap memory that nobody has written
  Size,       \* hashtbl_size
  HeapSize,   \* heap_max - heap_init, in values
  Home(_),    \* hash & (hashtbl_size - 1)
  MaxDeaths,  \* bound: workers that die in the middle of an operation
  SavedState  \* whether the table is saved and loaded by another process

Slot == 0 .. Size - 1
Chunk == 0 .. HeapSize - 1

ASSUME SizeAssumption == Size \in Nat \ {0} /\ HeapSize \in Nat
ASSUME KeyAssumption ==
  /\ NoKey \notin Key
  /\ \A k \in Key : Home(k) \in Slot
ASSUME AddrAssumption ==
  /\ NULL \notin Chunk /\ WRITE_IN_PROGRESS \notin Chunk
  /\ NULL # WRITE_IN_PROGRESS
  /\ Garbage \notin Data /\ NULL \notin Data

VARIABLES
  hash, addr,   \* the two fields of the slots of hashtbl
  hcounter,     \* "the number of slots taken in the table"
  heap,         \* *heap - heap_init
  memory,       \* the heap
  wasted,       \* wasted_heap_size
  pc, key, probe, datum, chunk,   \* a worker's operation and its locals
  stopped,      \* an assertion failed in the master, the server is gone
  deaths,
  added         \* history: keys some hh_add has returned for

table == <<hash, addr, hcounter, heap, memory, wasted>>
locals == <<key, probe, datum, chunk>>
history == <<stopped, deaths, added>>
vars == <<table, pc, locals, history>>

(* The i-th slot that is looked at for k: (slot + 1) & (hashtbl_size - 1). *)
SlotAt(k, i) == IF Home(k) + i < Size THEN Home(k) + i ELSE Home(k) + i - Size

slot(p) == SlotAt(key[p], probe[p])

Init ==
  /\ hash = [s \in Slot |-> NoKey]
  /\ addr = [s \in Slot |-> NULL]
  /\ hcounter = 0
  /\ heap = 0
  /\ memory = [c \in Chunk |-> Garbage]
  /\ wasted = 0
  /\ pc = [p \in Worker |-> "idle"]
  /\ key = [p \in Worker |-> NoKey]
  /\ probe = [p \in Worker |-> 0]
  /\ datum = [p \in Worker |-> Garbage]
  /\ chunk = [p \in Worker |-> 0]
  /\ stopped = FALSE
  /\ deaths = 0
  /\ added = {}

(* The hash is set, for ever. *)
Taken == {s \in Slot : hash[s] # NoKey}

Goto(p, from, to) == pc[p] = from /\ pc' = [pc EXCEPT ![p] = to]

(* The operation returns or raises, its locals are gone. *)
Leave(p, from, to) ==
  /\ Goto(p, from, to)
  /\ key' = [key EXCEPT ![p] = NoKey]
  /\ probe' = [probe EXCEPT ![p] = 0]
  /\ datum' = [datum EXCEPT ![p] = Garbage]
  /\ chunk' = [chunk EXCEPT ![p] = 0]

Return(p, from) == Leave(p, from, "idle")

(***************************************************************************)
(* hh_add.  The pc of a process that has raised is the exception.          *)
(***************************************************************************)
AddBegin(p) ==
  /\ Goto(p, "idle", "add_read")
  /\ \E k \in Key, d \in Data :
       key' = [key EXCEPT ![p] = k] /\ datum' = [datum EXCEPT ![p] = d]
  /\ probe' = [probe EXCEPT ![p] = 0]
  /\ UNCHANGED <<table, chunk, history>>

(* uint64_t slot_hash = hashtbl[slot].hash *)
AddRead(p) ==
  /\ Goto(p, "add_read", CASE hash[slot(p)] = key[p] -> "claim"
                           [] hash[slot(p)] = NoKey  -> "check_free"
                           [] OTHER                  -> "check_taken")
  /\ UNCHANGED <<table, locals, history>>

(* mutant: the probe does not stop at init_slot *)
AdvanceForever(p, from, to) ==
  Goto(p, from, to) /\ probe' = [probe EXCEPT ![p] = @ + 1]

(* slot = (slot + 1) & (hashtbl_size - 1), back at init_slot or not *)
Advance(p, from, to) ==
  \/ /\ probe[p] + 1 = Size
     /\ Goto(p, from, "full")
     /\ UNCHANGED probe
  \/ /\ probe[p] + 1 < Size
     /\ Goto(p, from, to)
     /\ probe' = [probe EXCEPT ![p] = @ + 1]

(* *hcounter >= hashtbl_size *)
AddFull(p) ==
  /\ \E pc0 \in {"check_free", "check_taken"} : Goto(p, pc0, "full")
  /\ hcounter >= Size
  /\ UNCHANGED <<table, locals, history>>

(***************************************************************************)
(* raise_hash_table_full counts the taken slots (get_slots_stats) before   *)
(* it raises and asserts that they are hcounter.  No slot is free any more *)
(* (CountExact), so the loop counts the same whenever it looks at a slot,  *)
(* and its last step, reading hcounter, decides.                           *)
(***************************************************************************)
raise_hash_table_full(p) ==
  /\ Leave(p, "full", IF Cardinality(Taken) = hcounter THEN "hash_table_full" ELSE "stats_failure")
  /\ UNCHANGED <<table, history>>

AddNext(p) ==
  /\ hcounter < Size
  /\ Advance(p, "check_taken", "add_read")
  /\ UNCHANGED <<table, key, datum, chunk, history>>

AddTry(p) ==
  /\ hcounter < Size
  /\ Goto(p, "check_free", "grab")
  /\ UNCHANGED <<table, locals, history>>

(* mutant: the hash is not read again when the compare-and-swap fails *)
AddGrabNoRecheck(p) ==
  \/ /\ hash[slot(p)] = NoKey
     /\ Goto(p, "grab", "count")
     /\ hash' = [hash EXCEPT ![slot(p)] = key[p]]
     /\ UNCHANGED <<addr, hcounter, heap, memory, wasted, locals, history>>
  \/ /\ hash[slot(p)] # NoKey
     /\ Advance(p, "grab", "add_read")
     /\ UNCHANGED <<table, key, datum, chunk, history>>

(* mutant: the loser of the race for the slot returns at once *)
AddGrabReturn(p) ==
  \/ /\ hash[slot(p)] = NoKey
     /\ Goto(p, "grab", "count")
     /\ hash' = [hash EXCEPT ![slot(p)] = key[p]]
     /\ UNCHANGED <<addr, hcounter, heap, memory, wasted, locals, history>>
  \/ /\ hash[slot(p)] = key[p]
     /\ Return(p, "grab")
     /\ added' = added \cup {key[p]}
     /\ UNCHANGED <<table, stopped, deaths>>
  \/ /\ hash[slot(p)] \notin {NoKey, key[p]}
     /\ Advance(p, "grab", "add_read")
     /\ UNCHANGED <<table, key, datum, chunk, history>>

(* mutant: the slot is taken without checking that it is still free *)
AddGrabStore(p) ==
  /\ Goto(p, "grab", "count")
  /\ hash' = [hash EXCEPT ![slot(p)] = key[p]]
  /\ UNCHANGED <<addr, hcounter, heap, memory, wasted, locals, history>>

(***************************************************************************)
(* The compare-and-swap of the hash, and what follows when it fails: a     *)
(* hash that is set never changes, so reading it again is the same step.   *)
(***************************************************************************)
AddGrab(p) ==
  \/ /\ hash[slot(p)] = NoKey
     /\ Goto(p, "grab", "count")
     /\ hash' = [hash EXCEPT ![slot(p)] = key[p]]
     /\ UNCHANGED <<addr, hcounter, heap, memory, wasted, locals, history>>
  \/ /\ hash[slot(p)] = key[p]
     /\ Goto(p, "grab", "claim")
     /\ UNCHANGED <<table, locals, history>>
  \/ /\ hash[slot(p)] \notin {NoKey, key[p]}
     /\ Advance(p, "grab", "add_read")
     /\ UNCHANGED <<table, key, datum, chunk, history>>

(* __sync_fetch_and_add(hcounter, 1), assert(size < hashtbl_size) *)
AddCount(p) ==
  /\ Goto(p, "count", IF hcounter < Size THEN "claim" ELSE "assertion_failure")
  /\ hcounter' = hcounter + 1
  /\ UNCHANGED <<hash, addr, heap, memory, wasted, locals, history>>

(* mutant: every writer writes *)
WriteAlways(p) ==
  /\ Goto(p, "claim", "alloc")
  /\ addr' = [addr EXCEPT ![slot(p)] = WRITE_IN_PROGRESS]
  /\ UNCHANGED <<hash, hcounter, heap, memory, wasted, locals, history>>

(* write_at: the first writer wins, the others return *)
WriteClaim(p) ==
  \/ /\ addr[slot(p)] = NULL
     /\ Goto(p, "claim", "alloc")
     /\ addr' = [addr EXCEPT ![slot(p)] = WRITE_IN_PROGRESS]
     /\ UNCHANGED <<hash, hcounter, heap, memory, wasted, locals, history>>
  \/ /\ addr[slot(p)] # NULL
     /\ Return(p, "claim")
     /\ added' = added \cup {key[p]}
     /\ UNCHANGED <<table, stopped, deaths>>

(* hh_alloc: the heap pointer is moved before the limit is checked *)
Alloc(p) ==
  /\ heap' = heap + 1
  /\ \/ /\ heap < HeapSize
        /\ Goto(p, "alloc", "copy")
        /\ chunk' = [chunk EXCEPT ![p] = heap]
        /\ UNCHANGED <<key, probe, datum>>
     \/ /\ heap >= HeapSize
        /\ Leave(p, "alloc", "heap_full")
  /\ UNCHANGED <<hash, addr, hcounter, memory, wasted, history>>

(* hh_store_ocaml copies the serialized value behind the header *)
Copy(p) ==
  /\ Goto(p, "copy", "publish")
  /\ memory' = [memory EXCEPT ![chunk[p]] = datum[p]]
  /\ UNCHANGED <<hash, addr, hcounter, heap, wasted, locals, history>>

(* hashtbl[slot].addr = ... *)
Publish(p) ==
  /\ Return(p, "publish")
  /\ addr' = [addr EXCEPT ![slot(p)] = chunk[p]]
  /\ added' = added \cup {key[p]}
  /\ UNCHANGED <<hash, hcounter, heap, memory, wasted, stopped, deaths>>

(***************************************************************************)
(* hh_mem, then hh_get_and_deserialize if the key is there: what `get` of  *)
(* sharedMemory.ml does.                                                   *)
(***************************************************************************)
MemBegin(p) ==
  /\ Goto(p, "idle", "find")
  /\ \E k \in Key : key' = [key EXCEPT ![p] = k]
  /\ probe' = [probe EXCEPT ![p] = 0]
  /\ UNCHANGED <<table, datum, chunk, history>>

(* find_slot reads the hash twice; a writer may set it in between *)
FindSame(p) ==
  /\ Goto(p, "find", IF hash[slot(p)] = key[p] THEN "mem" ELSE "find_free")
  /\ UNCHANGED <<table, locals, history>>

FindFree(p) ==
  \/ /\ hash[slot(p)] = NoKey
     /\ Goto(p, "find_free", "mem")
     /\ UNCHANGED <<table, locals, history>>
  \/ /\ hash[slot(p)] # NoKey
     /\ Advance(p, "find_free", "find")
     /\ UNCHANGED <<table, key, datum, chunk, history>>

(* What hh_mem_inner finds at the slot: 1, -1 or -2. *)
Status(s, k) == IF hash[s] # k THEN "absent" ELSE IF addr[s] = NULL THEN "deleted" ELSE "present"

Mem(p) ==
  \/ /\ Status(slot(p), key[p]) = "present"
     /\ Goto(p, "mem", "wait")
     /\ UNCHANGED <<table, locals, history>>
  \/ /\ Status(slot(p), key[p]) # "present"
     /\ Return(p, "mem")
     /\ UNCHANGED <<table, history>>

(* mutant: the data is used without waiting *)
MemNoWait(p) ==
  /\ Goto(p, "wait", "get")
  /\ UNCHANGED <<table, locals, history>>

(* mutant: the clock is started again in every round *)
MemSpin(p) ==
  /\ addr[slot(p)] = WRITE_IN_PROGRESS
  /\ pc[p] = "wait"
  /\ UNCHANGED vars

(* The data is being written: busy-wait, for at most a minute. *)
MemReady(p) ==
  /\ addr[slot(p)] # WRITE_IN_PROGRESS
  /\ Goto(p, "wait", "get")
  /\ UNCHANGED <<table, locals, history>>

MemTimeout(p) ==
  /\ addr[slot(p)] = WRITE_IN_PROGRESS
  /\ Leave(p, "wait", "stuck")
  /\ UNCHANGED <<table, history>>

(* find_slot when no one interferes: s is the first slot that is free or k's. *)
find_slot(k, s) ==
  \E i \in Slot :
    /\ s = SlotAt(k, i)
    /\ hash[s] \in {k, NoKey}
    /\ \A j \in 0 .. i - 1 : hash[SlotAt(k, j)] \notin {k, NoKey}

(* hh_mem: find_slot ends at s, and there is a value. *)
Present(k, s) == find_slot(k, s) /\ Status(s, k) = "present"

mem(k) == \E s \in Slot : Present(k, s)

Get(p) ==
  /\ Return(p, "get")
  /\ UNCHANGED <<table, history>>

(* How an operation ends that does not return, and what of it is sent to the master as the answer. *)
Raised == {"hash_table_full", "stats_failure", "assertion_failure", "stuck", "heap_full", "dead"}
Reported == Raised \ {"heap_full", "dead"}

(***************************************************************************)
(* The exception was the answer, the worker runs its next job in a new     *)
(* process.  Heap_full and a signal end the worker itself.                 *)
(***************************************************************************)
NextJob(p) ==
  /\ \E exception \in Reported : Return(p, exception)
  /\ UNCHANGED <<table, history>>

(* A process is killed in the middle of an operation. *)
Die(p) ==
  /\ deaths < MaxDeaths
  /\ \E at \in {"grab", "count", "claim", "alloc", "copy", "publish"} : Leave(p, at, "dead")
  /\ deaths' = deaths + 1
  /\ UNCHANGED <<table, stopped, added>>

(***************************************************************************)
(* The master, between two parallel phases: every worker has returned, or  *)
(* has failed.                                                             *)
(***************************************************************************)
Quiescent == \A p \in Worker : pc[p] \in {"idle"} \cup Raised

masterUnchanged == UNCHANGED <<pc, locals, stopped, deaths>>

(* hh_mem said yes: the busy-wait for the value has ended. *)
Readable(k, s) == Present(k, s) /\ addr[s] # WRITE_IN_PROGRESS

(* mutant: the hash is removed too *)
hh_remove_hash(k, s) ==
  /\ Quiescent
  /\ Readable(k, s)
  /\ hash' = [hash EXCEPT ![s] = NoKey]
  /\ addr' = [addr EXCEPT ![s] = NULL]
  /\ wasted' = wasted + 1
  /\ added' = added \ {k}
  /\ UNCHANGED <<hcounter, heap, memory>> /\ masterUnchanged

(* mutant: the value is not counted as wasted *)
hh_remove_uncounted(k, s) ==
  /\ Quiescent
  /\ Readable(k, s)
  /\ addr' = [addr EXCEPT ![s] = NULL]
  /\ added' = added \ {k}
  /\ UNCHANGED <<hash, hcounter, heap, memory, wasted>> /\ masterUnchanged

(* remove: k, which is bound, is found at s *)
hh_remove(k, s) ==
  /\ Quiescent
  /\ Readable(k, s)
  /\ addr' = [addr EXCEPT ![s] = NULL]
  /\ wasted' = wasted + 1
  /\ added' = added \ {k}
  /\ UNCHANGED <<hash, hcounter, heap, memory>> /\ masterUnchanged

(* mutant: the value stays under k1 too *)
hh_copy(k1, s1, k2, s2) ==
  /\ Quiescent
  /\ Readable(k1, s1) /\ find_slot(k2, s2) /\ Status(s2, k2) # "present"
  /\ hcounter' = IF hash[s2] = NoKey THEN hcounter + 1 ELSE hcounter
  /\ hash' = [hash EXCEPT ![s2] = k2]
  /\ addr' = [addr EXCEPT ![s2] = addr[s1]]
  /\ added' = added \cup {k2}
  /\ UNCHANGED <<heap, memory, wasted>> /\ masterUnchanged

(* mutant: a slot that is taken by a move is not counted *)
hh_move_uncounted(k1, s1, k2, s2) ==
  /\ Quiescent
  /\ Readable(k1, s1) /\ find_slot(k2, s2) /\ Status(s2, k2) # "present"
  /\ hash' = [hash EXCEPT ![s2] = k2]
  /\ addr' = [addr EXCEPT ![s2] = addr[s1], ![s1] = NULL]
  /\ added' = (added \ {k1}) \cup {k2}
  /\ UNCHANGED <<hcounter, heap, memory, wasted>> /\ masterUnchanged

(* oldify and revive: k1 is bound and found at s1, k2 is not and goes to s2 *)
hh_move(k1, s1, k2, s2) ==
  /\ Quiescent
  /\ Readable(k1, s1) /\ find_slot(k2, s2) /\ Status(s2, k2) # "present"
  /\ hcounter' = IF hash[s2] = NoKey THEN hcounter + 1 ELSE hcounter
  /\ hash' = [hash EXCEPT ![s2] = k2]
  /\ addr' = [addr EXCEPT ![s2] = addr[s1], ![s1] = NULL]
  /\ added' = (added \ {k1}) \cup {k2}
  /\ UNCHANGED <<heap, memory, wasted>> /\ masterUnchanged

Live == {addr[s] : s \in Slot} \cap Chunk

(* Where a live chunk is after compaction: the live ones before it. *)
Relocated(c) == Cardinality({d \in Live : d < c})

(***************************************************************************)
(* hh_collect (HeapCollection has its loops): live values move to the left,*)
(* the slots follow them.  Hashes without a value stay.  It asserts that   *)
(* no value is being written.                                              *)
(***************************************************************************)
hh_collect ==
  /\ Quiescent
  /\ \A s \in Slot : addr[s] # WRITE_IN_PROGRESS
  /\ addr' = [s \in Slot |-> IF addr[s] \in Chunk THEN Relocated(addr[s]) ELSE addr[s]]
  /\ memory' = [c \in Chunk |->
                  IF \E d \in Live : Relocated(d) = c
                  THEN memory[CHOOSE d \in Live : Relocated(d) = c] ELSE memory[c]]
  /\ heap' = Cardinality(Live)
  /\ wasted' = 0
  /\ UNCHANGED <<hash, hcounter, added>> /\ masterUnchanged

(***************************************************************************)
(* "If a worker died in the middle of a write, that is also very bad": the *)
(* assertion fails when headers and slots before that slot are swapped     *)
(* already.  Nobody catches the exception: the server stops, and the       *)
(* memory goes with it.                                                    *)
(***************************************************************************)
CollectFails ==
  /\ Quiescent
  /\ \E s \in Slot : addr[s] = WRITE_IN_PROGRESS
  /\ stopped' = TRUE
  /\ UNCHANGED <<table, pc, locals, deaths, added>>

pyre_reset ==
  /\ Quiescent
  /\ hash' = [s \in Slot |-> NoKey]
  /\ addr' = [s \in Slot |-> NULL]
  /\ hcounter' = 0
  /\ heap' = 0
  /\ wasted' = 0
  /\ added' = {}
  /\ UNCHANGED memory /\ masterUnchanged

(***************************************************************************)
(* hh_save_table writes the table and the heap, hh_load_table reads them   *)
(* in another process: hcounter and wasted_heap_size, which are not in the *)
(* file, are those of a fresh process, and so are its workers.  A heap     *)
(* pointer that ran over the limit is not saved: the server is stopping.   *)
(***************************************************************************)
SaveAndLoad ==
  /\ SavedState
  /\ Quiescent
  /\ heap <= HeapSize
  /\ hcounter' = 0
  /\ wasted' = 0
  /\ pc' = [p \in Worker |-> "idle"]
  /\ UNCHANGED <<hash, addr, heap, memory, locals, history>>

AddNextStep(p) ==
  \/ AddRead(p) \/ AddFull(p) \/ raise_hash_table_full(p) \/ AddNext(p) \/ AddTry(p) \/ AddGrab(p) \/ AddCount(p)
  \/ WriteClaim(p) \/ Alloc(p) \/ Copy(p) \/ Publish(p)

MemNextStep(p) ==
  FindSame(p) \/ FindFree(p) \/ Mem(p) \/ MemReady(p) \/ MemTimeout(p) \/ Get(p)

MasterNext ==
  \/ \E k \in Key, s \in Slot : hh_remove(k, s)
  \/ \E k1, k2 \in Key, s1, s2 \in Slot : k1 # k2 /\ hh_move(k1, s1, k2, s2)
  \/ hh_collect \/ CollectFails
  \/ pyre_reset
  \/ SaveAndLoad

WorkerNext(p) ==
  \/ AddBegin(p) \/ MemBegin(p)
  \/ AddNextStep(p) \/ MemNextStep(p)
  \/ NextJob(p) \/ Die(p)

Next ==
  /\ ~ stopped
  /\ (\E p \in Worker : WorkerNext(p)) \/ MasterNext

Spec == Init /\ [][Next]_vars

(* The map that the table stands for: the values that are published. *)
PublishedAt(k) == {s \in Slot : hash[s] = k /\ addr[s] \in Chunk}

binding ==
  [k \in Key |-> IF PublishedAt(k) = {} THEN NULL
                 ELSE memory[addr[CHOOSE s \in PublishedAt(k) : TRUE]]]

Store == INSTANCE KeyValueStore WITH store <- binding, NoValue <- NULL

(* A worker that is inside an operation keeps running. *)
FairSpec == Spec /\ \A p \in Worker : WF_vars(AddNextStep(p) \/ MemNextStep(p))

-----------------------------------------------------------------------------

(* Where an operation may be. *)
Adding == {"add_read", "check_free", "check_taken", "grab", "count", "claim", "alloc", "copy", "publish"}
Reading == {"find", "find_free", "mem", "wait", "get", "full"}

(* Every variable stays in its set. *)
TypeOK ==
  /\ hash \in [Slot -> Key \cup {NoKey}]
  /\ addr \in [Slot -> Chunk \cup {NULL, WRITE_IN_PROGRESS}]
  /\ hcounter \in Nat
  /\ heap \in Nat
  /\ memory \in [Chunk -> Data \cup {Garbage}]
  /\ wasted \in Nat
  /\ pc \in [Worker -> {"idle"} \cup Adding \cup Reading \cup Raised]
  /\ key \in [Worker -> Key \cup {NoKey}]
  /\ probe \in [Worker -> Slot]
  /\ datum \in [Worker -> Data \cup {Garbage}]
  /\ chunk \in [Worker -> Chunk \cup {0}]

(***************************************************************************)
(* A key is in one slot at most: two workers that insert the same new key  *)
(* at once, both having seen a free slot, agree on the slot.  Otherwise a  *)
(* removed key would come back.                                            *)
(***************************************************************************)
UniqueSlot == \A s, t \in Slot : hash[s] = hash[t] /\ hash[s] # NoKey => s = t

(***************************************************************************)
(* Linear probing works: between the home slot of a key and the slot where *)
(* it is there is no free slot, so find_slot does not stop too early.      *)
(***************************************************************************)
NoGap ==
  \A k \in Key, i \in 0 .. Size - 1 :
    hash[SlotAt(k, i)] = k => \A j \in 0 .. i - 1 : hash[SlotAt(k, j)] # NoKey

(***************************************************************************)
(* "We can't return from hh_add until we know that hh_mem would succeed":  *)
(* once hh_add has returned, to the winner of a race or to a loser, the    *)
(* key is in the table until the master removes it.                        *)
(***************************************************************************)
AddedIsPresent == \A k \in added : mem(k)

(***************************************************************************)
(* A reader that was told that the key is present finds it again, with a   *)
(* value that is completely written.                                       *)
(***************************************************************************)
ReadComplete ==
  \A p \in Worker : pc[p] = "get" =>
    \E s \in Slot : find_slot(key[p], s) /\ addr[s] \in Chunk /\ memory[addr[s]] \in Data

(***************************************************************************)
(* Shared memory is a map whose values are never overwritten: a concurrent *)
(* add is one atomic Add or none, hh_collect moves every value in the heap *)
(* and changes none, saving and loading give the same map.                 *)
(***************************************************************************)
ImplementsStore == Store!Spec

(***************************************************************************)
(* No value belongs to two slots: hh_collect stores the header of a value  *)
(* in its slot and the slot in the value, which works for one slot only.   *)
(* And wasted_heap_size is "kept in sync": with no worker in an operation  *)
(* it is what a collection frees, and at most one value is lost for every  *)
(* slot that a worker left unfinished when it was killed or ran out of     *)
(* heap, the pointer that hh_alloc moved over the limit included.          *)
(***************************************************************************)
HeapExact ==
  /\ \A s, t \in Slot : addr[s] = addr[t] /\ addr[s] \in Chunk => s = t
  /\ Quiescent =>
       LET used == Cardinality(Live) + wasted
           unfinished == Cardinality({s \in Slot : addr[s] = WRITE_IN_PROGRESS})
       IN  used <= heap /\ heap <= used + unfinished

(* Every operation that is begun ends: it returns, or raises. *)
OperationsEnd ==
  \A p \in Worker : (pc[p] \in Adding \cup Reading) ~> (pc[p] \in {"idle"} \cup Raised)

(***************************************************************************)
(* Every taken slot is counted once, over every race, removal, move,       *)
(* collection and reset, except in a table that was loaded (SaveAndLoad):  *)
(* hcounter is behind the taken slots by those of the workers that are     *)
(* between the compare-and-swap and the fetch-and-add, and of workers that *)
(* were killed there.  So the assertion nonempty_slots == *hcounter fails  *)
(* in a worker that finds the table full in no other case, and never       *)
(* between two phases unless a worker was killed.  An operation gives up   *)
(* only when no slot is free, and the sanity check of hh_add never fails.  *)
(***************************************************************************)
CountExact ==
  /\ LET counted == hcounter + Cardinality({p \in Worker : pc[p] = "count"})
     IN  counted <= Cardinality(Taken) /\ Cardinality(Taken) <= counted + deaths
  /\ \A p \in Worker : pc[p] = "full" => Taken = Slot
  /\ \A p \in Worker : pc[p] # "assertion_failure"

-----------------------------------------------------------------------------
(***************************************************************************)
(* The inductive invariant behind UniqueSlot, NoGap, AddedIsPresent and    *)
(* ReadComplete.                                                           *)
(***************************************************************************)
Probing == {"add_read", "check_free", "check_taken", "grab"}
Writing == {"count", "claim", "alloc", "copy", "publish"}

(* What the locals of an operation hold while it runs. *)
LocalInv ==
  \A p \in Worker :
    /\ pc[p] \in Adding \cup Reading => key[p] \in Key
    /\ pc[p] \in Adding => datum[p] \in Data
    /\ pc[p] \in {"copy", "publish"} => chunk[p] \in Chunk
    /\ pc[p] = "publish" => memory[chunk[p]] \in Data

(* A writer has passed only slots of other keys, or is at the slot of its key. *)
ProbeInv ==
  \A p \in Worker :
    /\ pc[p] \in Probing =>
         \A j \in 0 .. probe[p] - 1 : hash[SlotAt(key[p], j)] \notin {NoKey, key[p]}
    /\ pc[p] = "check_taken" => hash[slot(p)] \notin {NoKey, key[p]}
    /\ pc[p] \in Writing => hash[slot(p)] = key[p]

(* A reader that was told that the key is present is at its slot. *)
ReaderInv ==
  \A p \in Worker :
    /\ pc[p] = "wait" => hash[slot(p)] = key[p] /\ addr[slot(p)] # NULL
    /\ pc[p] = "get" => hash[slot(p)] = key[p] /\ addr[slot(p)] \in Chunk

(* A published value is completely written. *)
ValueInv == \A s \in Slot : addr[s] \in Chunk => memory[addr[s]] \in Data

AddedInv ==
  /\ added \subseteq Key
  /\ \A k \in added : \E s \in Slot : hash[s] = k /\ addr[s] # NULL

TableInv ==
  /\ TypeOK /\ LocalInv /\ ProbeInv /\ ReaderInv /\ ValueInv /\ AddedInv
  /\ UniqueSlot /\ NoGap

=============================================================================

------------------------- MODULE SharedHashTableProofs -------------------------
(***************************************************************************)
(* TableInv is an invariant of the hash table, for every table and heap    *)
(* size, every set of keys and any number of workers and deaths.           *)
(***************************************************************************)
EXTENDS SharedHashTable, FiniteSetTheorems, FunctionTheorems, TLAPS

(* Linear probing from the home slot of k visits every slot once. *)
LEMMA ProbeSlots ==
  ASSUME NEW k \in Key
  PROVE  /\ \A i \in Slot : SlotAt(k, i) \in Slot
         /\ \A i, j \in Slot : SlotAt(k, i) = SlotAt(k, j) => i = j
         /\ \A s \in Slot : \E i \in Slot : SlotAt(k, i) = s
<1>1. Home(k) \in 0 .. Size - 1 /\ Size \in Nat \ {0}
  BY KeyAssumption, SizeAssumption DEF Slot
<1>2. \A i \in Slot : SlotAt(k, i) \in Slot
  BY <1>1 DEF Slot, SlotAt
<1>3. \A i, j \in Slot : SlotAt(k, i) = SlotAt(k, j) => i = j
  BY <1>1 DEF Slot, SlotAt
<1>4. ASSUME NEW s \in Slot PROVE \E i \in Slot : SlotAt(k, i) = s
  <2>1. CASE s >= Home(k)
    <3>1. s - Home(k) \in Slot /\ SlotAt(k, s - Home(k)) = s
      BY <1>1, <2>1 DEF Slot, SlotAt
    <3> QED BY <3>1
  <2>2. CASE s < Home(k)
    <3>1. s + Size - Home(k) \in Slot /\ SlotAt(k, s + Size - Home(k)) = s
      BY <1>1, <2>2 DEF Slot, SlotAt
    <3> QED BY <3>1
  <2> QED BY <1>1, <2>1, <2>2 DEF Slot
<1> QED BY <1>2, <1>3, <1>4

(* A live chunk moves to an address that is in the heap. *)
LEMMA RelocatedInHeap == \A c \in Chunk : Relocated(c) \in Chunk
<1> SUFFICES ASSUME NEW c \in Chunk PROVE Relocated(c) \in Chunk
  OBVIOUS
<1>1. c \in Nat /\ HeapSize \in Nat /\ c < HeapSize
  BY SizeAssumption DEF Chunk
<1>2. {d \in Live : d < c} \subseteq 0 .. c - 1
  BY <1>1 DEF Live, Chunk
<1>3. IsFiniteSet(0 .. c - 1) /\ Cardinality(0 .. c - 1) = c
  BY <1>1, FS_Interval
<1>4. /\ IsFiniteSet({d \in Live : d < c})
      /\ Cardinality({d \in Live : d < c}) <= c
  BY <1>2, <1>3, FS_Subset
<1>5. Cardinality({d \in Live : d < c}) \in Nat
  BY <1>4, FS_CardinalityType
<1> QED BY <1>1, <1>4, <1>5 DEF Relocated, Chunk

LEMMA LiveFinite == Cardinality(Live) \in Nat
<1>1. IsFiniteSet(Chunk)
  BY SizeAssumption, FS_Interval DEF Chunk
<1>2. Live \subseteq Chunk
  BY DEF Live
<1> QED BY <1>1, <1>2, FS_Subset, FS_CardinalityType

(***************************************************************************)
(* The first free slot, or the slot of k itself, may be given to k: if k   *)
(* were further on there would be a gap before it.                         *)
(***************************************************************************)
LEMMA TakeSlot ==
  ASSUME hash \in [Slot -> Key \cup {NoKey}], UniqueSlot, NoGap,
         NEW k \in Key, NEW i \in Slot,
         \A j \in 0 .. i - 1 : hash[SlotAt(k, j)] \notin {k, NoKey},
         hash[SlotAt(k, i)] \in {k, NoKey},
         hash' = [hash EXCEPT ![SlotAt(k, i)] = k]
  PROVE  UniqueSlot' /\ NoGap'
<1>1. NoKey \notin Key /\ Size \in Nat \ {0}
  BY KeyAssumption, SizeAssumption
<1>2. SlotAt(k, i) \in Slot
  BY ProbeSlots
<1>3. ASSUME NEW t \in Slot, hash[t] = k PROVE t = SlotAt(k, i)
  <2>1. PICK j \in Slot : SlotAt(k, j) = t
    BY ProbeSlots
  <2>2. ~ (j < i)
    BY <1>1, <1>3, <2>1 DEF Slot
  <2>3. CASE j > i
    <3>1. hash[SlotAt(k, i)] # NoKey
      BY <1>1, <1>3, <2>1, <2>3 DEF NoGap, Slot
    <3> QED BY <1>1, <1>2, <1>3, <3>1 DEF UniqueSlot
  <2> QED BY <1>1, <2>1, <2>2, <2>3 DEF Slot
<1>4. UniqueSlot'
  BY <1>1, <1>2, <1>3 DEF UniqueSlot
<1>5. ASSUME NEW l \in Key, NEW n \in 0 .. Size - 1, hash'[SlotAt(l, n)] = l,
             NEW j \in 0 .. n - 1
      PROVE  hash'[SlotAt(l, j)] # NoKey
  <2>1. n \in Slot /\ j \in Slot /\ SlotAt(l, n) \in Slot /\ SlotAt(l, j) \in Slot
    <3>1. n \in Slot /\ j \in Slot
      BY <1>1 DEF Slot
    <3> QED BY <3>1, ProbeSlots
  <2>2. hash[SlotAt(l, j)] # NoKey \/ SlotAt(l, j) = SlotAt(k, i)
    <3>1. CASE SlotAt(l, n) = SlotAt(k, i)
      <4>1. l = k
        BY <1>2, <1>5, <3>1
      <4>2. n = i
        BY <2>1, <3>1, <4>1, ProbeSlots
      <4> QED BY <4>1, <4>2
    <3>2. CASE SlotAt(l, n) # SlotAt(k, i)
      <4>1. hash[SlotAt(l, n)] = l
        BY <1>2, <1>5, <2>1, <3>2
      <4> QED BY <4>1 DEF NoGap
    <3> QED BY <3>1, <3>2
  <2> QED BY <1>1, <1>2, <2>1, <2>2
<1>6. NoGap'
  BY <1>5 DEF NoGap
<1> QED BY <1>4, <1>6

LEMMA SameHash ==
  ASSUME UniqueSlot, NoGap, UNCHANGED hash
  PROVE  UniqueSlot' /\ NoGap'
BY DEF UniqueSlot, NoGap, SlotAt

(* A worker's slot is one of the table. *)
LEMMA WorkerSlot ==
  ASSUME TypeOK, NEW p \in Worker, key[p] \in Key
  PROVE  slot(p) \in Slot
BY ProbeSlots DEF TypeOK, slot

LEMMA InitTableInv == Init => TableInv
<1> SUFFICES ASSUME Init PROVE TableInv
  OBVIOUS
<1>1. 0 \in Slot
  BY SizeAssumption DEF Slot
<1>2. TypeOK
  BY <1>1 DEF Init, TypeOK
<1>3. LocalInv /\ ProbeInv /\ ReaderInv
  BY DEF Init, LocalInv, ProbeInv, ReaderInv, Adding, Reading, Probing, Writing
<1>4. ValueInv /\ AddedInv
  BY AddrAssumption DEF Init, ValueInv, AddedInv
<1>5. UniqueSlot
  BY DEF Init, UniqueSlot
<1>6. NoGap
  <2>1. \A k \in Key, i \in 0 .. Size - 1 : hash[SlotAt(k, i)] # k
    BY KeyAssumption, ProbeSlots DEF Init, Slot
  <2> QED BY <2>1 DEF NoGap
<1> QED BY <1>2, <1>3, <1>4, <1>5, <1>6 DEF TableInv

(***************************************************************************)
(* Steps of a worker that only read shared memory and change its locals.   *)
(***************************************************************************)
LEMMA TableUnchanged ==
  ASSUME TableInv, UNCHANGED <<table, added>>
  PROVE  ValueInv' /\ AddedInv' /\ UniqueSlot' /\ NoGap'
BY SameHash DEF TableInv, ValueInv, AddedInv, table

LEMMA AddBeginInv ==
  ASSUME NEW p \in Worker, TableInv, AddBegin(p) PROVE TableInv'
<1>1. PICK k \in Key, d \in Data :
        key' = [key EXCEPT ![p] = k] /\ datum' = [datum EXCEPT ![p] = d]
  BY DEF AddBegin
<1>2. 0 \in Slot
  BY SizeAssumption DEF Slot
<1>3. TypeOK'
  BY <1>1, <1>2 DEF TableInv, TypeOK, AddBegin, Goto, table, history, Adding
<1>4. LocalInv'
  BY <1>1 DEF TableInv, TypeOK, LocalInv, AddBegin, Goto, table, history, Adding, Reading
<1>5. ProbeInv' /\ ReaderInv'
  BY <1>1 DEF TableInv, TypeOK, ProbeInv, ReaderInv, AddBegin, Goto, table, history,
              Probing, Writing, slot, SlotAt
<1> QED BY <1>3, <1>4, <1>5, TableUnchanged DEF TableInv, AddBegin, history

LEMMA MemBeginInv ==
  ASSUME NEW p \in Worker, TableInv, MemBegin(p) PROVE TableInv'
<1>1. PICK k \in Key : key' = [key EXCEPT ![p] = k]
  BY DEF MemBegin
<1>2. 0 \in Slot
  BY SizeAssumption DEF Slot
<1>3. TypeOK'
  BY <1>1, <1>2 DEF TableInv, TypeOK, MemBegin, Goto, table, history, Reading
<1>4. LocalInv'
  BY <1>1 DEF TableInv, TypeOK, LocalInv, MemBegin, Goto, table, history, Adding, Reading
<1>5. ProbeInv' /\ ReaderInv'
  BY <1>1 DEF TableInv, TypeOK, ProbeInv, ReaderInv, MemBegin, Goto, table, history,
              Probing, Writing, slot, SlotAt
<1> QED BY <1>3, <1>4, <1>5, TableUnchanged DEF TableInv, MemBegin, history

(***************************************************************************)
(* A step that only moves the pc of p, to a place whose assertions hold.   *)
(***************************************************************************)
LEMMA MovePc ==
  ASSUME NEW p \in Worker, NEW to \in Adding \cup Reading \cup Raised, TableInv,
         pc' = [pc EXCEPT ![p] = to], UNCHANGED <<table, locals, added>>,
         to \in Adding \cup Reading => key[p] \in Key,
         to \in Adding => datum[p] \in Data,
         to \in {"copy", "publish"} => chunk[p] \in Chunk,
         to = "publish" => memory[chunk[p]] \in Data,
         to \in Probing => \A j \in 0 .. probe[p] - 1 : hash[SlotAt(key[p], j)] \notin {NoKey, key[p]},
         to = "check_taken" => hash[slot(p)] \notin {NoKey, key[p]},
         to \in Writing => hash[slot(p)] = key[p],
         to = "wait" => hash[slot(p)] = key[p] /\ addr[slot(p)] # NULL,
         to = "get" => hash[slot(p)] = key[p] /\ addr[slot(p)] \in Chunk
  PROVE  TableInv'
<1>1. TypeOK'
  BY DEF TableInv, TypeOK, table, locals
<1>2. LocalInv'
  BY DEF TableInv, TypeOK, LocalInv, table, locals
<1>3. ProbeInv'
  BY DEF TableInv, TypeOK, ProbeInv, table, locals, slot, SlotAt
<1>4. ReaderInv'
  BY DEF TableInv, TypeOK, ReaderInv, table, locals, slot, SlotAt
<1> QED BY <1>1, <1>2, <1>3, <1>4, TableUnchanged DEF TableInv

LEMMA AddReadInv ==
  ASSUME NEW p \in Worker, TableInv, AddRead(p) PROVE TableInv'
<1> DEFINE to == CASE hash[slot(p)] = key[p] -> "claim"
                   [] hash[slot(p)] = NoKey  -> "check_free"
                   [] OTHER                  -> "check_taken"
<1>1. pc[p] = "add_read" /\ pc' = [pc EXCEPT ![p] = to]
  BY DEF AddRead, Goto
<1>2. /\ to \in {"claim", "check_free", "check_taken"}
      /\ to = "claim" => hash[slot(p)] = key[p]
      /\ to = "check_taken" => hash[slot(p)] \notin {NoKey, key[p]}
  OBVIOUS
<1>3. /\ key[p] \in Key /\ datum[p] \in Data
      /\ \A j \in 0 .. probe[p] - 1 : hash[SlotAt(key[p], j)] \notin {NoKey, key[p]}
  BY <1>1 DEF TableInv, LocalInv, ProbeInv, Adding, Probing
<1>4. UNCHANGED <<table, locals, added>>
  BY DEF AddRead, history
<1> HIDE DEF to
<1> QED BY <1>1, <1>2, <1>3, <1>4, MovePc DEF Adding, Reading, Raised, Probing, Writing

LEMMA AddTryInv ==
  ASSUME NEW p \in Worker, TableInv, AddTry(p) PROVE TableInv'
<1>1. pc[p] = "check_free" /\ pc' = [pc EXCEPT ![p] = "grab"]
  BY DEF AddTry, Goto
<1>2. /\ key[p] \in Key /\ datum[p] \in Data
      /\ \A j \in 0 .. probe[p] - 1 : hash[SlotAt(key[p], j)] \notin {NoKey, key[p]}
  BY <1>1 DEF TableInv, LocalInv, ProbeInv, Adding, Probing
<1>3. UNCHANGED <<table, locals, added>>
  BY DEF AddTry, history
<1> QED BY <1>1, <1>2, <1>3, MovePc DEF Adding, Reading, Raised, Probing, Writing

LEMMA AddFullInv ==
  ASSUME NEW p \in Worker, TableInv, AddFull(p) PROVE TableInv'
<1>1. pc[p] \in {"check_free", "check_taken"} /\ pc' = [pc EXCEPT ![p] = "full"]
  BY DEF AddFull, Goto
<1>2. key[p] \in Key
  BY <1>1 DEF TableInv, LocalInv, Adding
<1>3. UNCHANGED <<table, locals, added>>
  BY DEF AddFull, history
<1> QED BY <1>1, <1>2, <1>3, MovePc DEF Adding, Reading, Raised, Probing, Writing

(* The next slot: a writer has passed the slot of another key. *)
LEMMA AdvanceInv ==
  ASSUME NEW p \in Worker, TableInv, NEW from, NEW to \in {"add_read", "find"},
         Advance(p, from, to), key[p] \in Key,
         to = "add_read" => /\ datum[p] \in Data
                            /\ hash[slot(p)] \notin {NoKey, key[p]}
                            /\ \A j \in 0 .. probe[p] - 1 :
                                 hash[SlotAt(key[p], j)] \notin {NoKey, key[p]},
         UNCHANGED <<table, key, datum, chunk, added>>
  PROVE  TableInv'
<1>1. CASE Goto(p, from, "full") /\ UNCHANGED probe
  BY <1>1, MovePc DEF Goto, locals, Adding, Reading, Raised, Probing, Writing
<1>2. CASE /\ probe[p] + 1 < Size
           /\ Goto(p, from, to)
           /\ probe' = [probe EXCEPT ![p] = @ + 1]
  <2>1. Size \in Nat /\ probe[p] \in Slot
    BY SizeAssumption DEF TableInv, TypeOK
  <2>2. probe[p] + 1 \in Slot
    BY <1>2, <2>1 DEF Slot
  <2>3. TypeOK'
    BY <1>2, <2>2 DEF TableInv, TypeOK, Goto, table, Adding, Reading
  <2>4. LocalInv'
    BY <1>2 DEF TableInv, TypeOK, LocalInv, Goto, table, Adding, Reading
  <2>5. to = "add_read" => \A j \in 0 .. probe[p] : hash[SlotAt(key[p], j)] \notin {NoKey, key[p]}
    BY <2>1 DEF slot, Slot
  <2>6. ProbeInv'
    <3> SUFFICES ASSUME NEW q \in Worker PROVE
          (/\ pc[q] \in Probing =>
                \A j \in 0 .. probe[q] - 1 : hash[SlotAt(key[q], j)] \notin {NoKey, key[q]}
           /\ pc[q] = "check_taken" => hash[slot(q)] \notin {NoKey, key[q]}
           /\ pc[q] \in Writing => hash[slot(q)] = key[q])'
      BY DEF ProbeInv
    <3>1. CASE q = p
      <4>1. pc'[p] = to /\ probe'[p] - 1 = probe[p] /\ hash' = hash /\ key' = key
        BY <1>2, <2>1 DEF TableInv, TypeOK, Goto, table, Slot
      <4> QED BY <2>5, <3>1, <4>1 DEF Probing, Writing, SlotAt
    <3>2. CASE q # p
      <4>1. pc'[q] = pc[q] /\ probe'[q] = probe[q] /\ hash' = hash /\ key' = key
        BY <1>2, <3>2 DEF TableInv, TypeOK, Goto, table
      <4> QED BY <4>1 DEF TableInv, ProbeInv, slot, SlotAt
    <3> QED BY <3>1, <3>2
  <2>7. ReaderInv'
    BY <1>2 DEF TableInv, TypeOK, ReaderInv, Goto, table, slot, SlotAt
  <2> QED BY <2>3, <2>4, <2>6, <2>7, TableUnchanged DEF TableInv
<1> QED BY <1>1, <1>2 DEF Advance

LEMMA AddNextInv ==
  ASSUME NEW p \in Worker, TableInv, AddNext(p) PROVE TableInv'
<1>1. pc[p] = "check_taken" /\ Advance(p, "check_taken", "add_read")
  BY DEF AddNext, Advance, Goto
<1>2. /\ key[p] \in Key /\ datum[p] \in Data
      /\ hash[slot(p)] \notin {NoKey, key[p]}
      /\ \A j \in 0 .. probe[p] - 1 : hash[SlotAt(key[p], j)] \notin {NoKey, key[p]}
  BY <1>1 DEF TableInv, LocalInv, ProbeInv, Adding, Probing
<1> QED BY <1>1, <1>2, AdvanceInv DEF AddNext, history

(* The operation returns or raises: the worker asserts nothing any more. *)
LEMMA LeaveLocals ==
  ASSUME NEW p \in Worker, NEW from, NEW to \in {"idle"} \cup Raised, TableInv, Leave(p, from, to)
  PROVE  /\ pc' \in [Worker -> {"idle"} \cup Adding \cup Reading \cup Raised]
         /\ key' \in [Worker -> Key \cup {NoKey}]
         /\ probe' \in [Worker -> Slot]
         /\ datum' \in [Worker -> Data \cup {Garbage}]
         /\ chunk' \in [Worker -> Chunk \cup {0}]
         /\ pc[p] = from /\ pc'[p] = to
         /\ \A q \in Worker \ {p} : /\ pc'[q] = pc[q] /\ key'[q] = key[q]
                                    /\ probe'[q] = probe[q] /\ datum'[q] = datum[q]
                                    /\ chunk'[q] = chunk[q]
<1>1. 0 \in Slot
  BY SizeAssumption DEF Slot
<1> QED BY <1>1 DEF TableInv, TypeOK, Leave, Goto

LEMMA LeaveTypes ==
  ASSUME NEW p \in Worker, NEW from, NEW to \in {"idle"} \cup Raised, TableInv, Leave(p, from, to),
         UNCHANGED <<hash, addr, hcounter, memory, wasted>>, heap' \in Nat
  PROVE  TypeOK' /\ LocalInv' /\ ProbeInv' /\ ReaderInv'
<1>1. to \notin Adding \cup Reading \cup Probing \cup Writing
  BY DEF Adding, Reading, Probing, Writing, Raised
<1>2. TypeOK'
  BY LeaveLocals DEF TableInv, TypeOK
<1>3. LocalInv'
  BY <1>1, LeaveLocals DEF TableInv, LocalInv, Adding
<1>4. ProbeInv'
  BY <1>1, LeaveLocals DEF TableInv, ProbeInv, slot, SlotAt, Probing
<1>5. ReaderInv'
  BY <1>1, LeaveLocals DEF TableInv, ReaderInv, slot, SlotAt, Reading
<1> QED BY <1>2, <1>3, <1>4, <1>5

LEMMA LeaveInv ==
  ASSUME NEW p \in Worker, NEW from, NEW to \in {"idle"} \cup Raised, TableInv, Leave(p, from, to),
         UNCHANGED table, AddedInv'
  PROVE  TableInv'
<1>1. UNCHANGED <<hash, addr, hcounter, memory, wasted>> /\ heap' \in Nat
  BY DEF TableInv, TypeOK, table
<1>2. ValueInv'
  BY DEF TableInv, ValueInv, table
<1> QED BY <1>1, <1>2, LeaveTypes, SameHash DEF TableInv

(* The operations that end without a change of the table. *)
LEMMA RaiseInv ==
  ASSUME NEW p \in Worker, TableInv,
         raise_hash_table_full(p) \/ MemTimeout(p) \/ Get(p) \/ Die(p) \/ NextJob(p)
  PROVE  TableInv'
<1>1. UNCHANGED <<table, added>>
  BY DEF raise_hash_table_full, MemTimeout, Get, Die, NextJob, history
<1>2. AddedInv'
  BY <1>1 DEF TableInv, AddedInv, table
<1>3. \E from, to : to \in {"idle"} \cup Raised /\ Leave(p, from, to)
  BY DEF raise_hash_table_full, MemTimeout, Get, Die, NextJob, Return, Raised
<1> QED BY <1>1, <1>2, <1>3, LeaveInv

LEMMA FindInv ==
  ASSUME NEW p \in Worker, TableInv, FindSame(p) \/ FindFree(p) PROVE TableInv'
<1>1. CASE FindSame(p)
  <2>1. pc[p] = "find" /\ \E to \in {"mem", "find_free"} : pc' = [pc EXCEPT ![p] = to]
    BY <1>1 DEF FindSame, Goto
  <2>2. key[p] \in Key
    BY <2>1 DEF TableInv, LocalInv, Reading
  <2> QED BY <1>1, <2>1, <2>2, MovePc DEF FindSame, history, Adding, Reading, Raised, Probing, Writing
<1>2. CASE FindFree(p)
  <2>1. pc[p] = "find_free"
    BY <1>2 DEF FindFree, Goto, Advance
  <2>2. key[p] \in Key
    BY <2>1 DEF TableInv, LocalInv, Reading
  <2>3. CASE Goto(p, "find_free", "mem") /\ UNCHANGED <<table, locals, history>>
    BY <2>2, <2>3, MovePc DEF Goto, history, Adding, Reading, Raised, Probing, Writing
  <2>4. CASE Advance(p, "find_free", "find") /\ UNCHANGED <<table, key, datum, chunk, history>>
    BY <2>2, <2>4, AdvanceInv DEF history
  <2> QED BY <1>2, <2>3, <2>4 DEF FindFree
<1> QED BY <1>1, <1>2

LEMMA MemInv ==
  ASSUME NEW p \in Worker, TableInv, Mem(p) PROVE TableInv'
<1>1. pc[p] = "mem"
  BY DEF Mem, Goto, Return, Leave
<1>2. key[p] \in Key
  BY <1>1 DEF TableInv, LocalInv, Reading
<1>3. CASE /\ Status(slot(p), key[p]) = "present"
           /\ Goto(p, "mem", "wait")
           /\ UNCHANGED <<table, locals, history>>
  <2>1. hash[slot(p)] = key[p] /\ addr[slot(p)] # NULL
    BY <1>3 DEF Status
  <2> QED BY <1>2, <1>3, <2>1, MovePc DEF Goto, history, Adding, Reading, Raised, Probing, Writing
<1>4. CASE Return(p, "mem") /\ UNCHANGED <<table, history>>
  <2>1. AddedInv'
    BY <1>4 DEF TableInv, AddedInv, table, history
  <2> QED BY <1>4, <2>1, LeaveInv DEF Return
<1> QED BY <1>3, <1>4 DEF Mem

LEMMA MemReadyInv ==
  ASSUME NEW p \in Worker, TableInv, MemReady(p) PROVE TableInv'
<1>1. pc[p] = "wait" /\ pc' = [pc EXCEPT ![p] = "get"]
  BY DEF MemReady, Goto
<1>2. key[p] \in Key /\ hash[slot(p)] = key[p] /\ addr[slot(p)] # NULL
  BY <1>1 DEF TableInv, LocalInv, ReaderInv, Reading
<1>3. addr[slot(p)] \in Chunk
  BY <1>2, WorkerSlot DEF TableInv, TypeOK, MemReady
<1> QED BY <1>1, <1>2, <1>3, MovePc DEF MemReady, history, Adding, Reading, Raised, Probing, Writing

(***************************************************************************)
(* Steps of a worker that write to shared memory.                          *)
(***************************************************************************)
LEMMA AddGrabInv ==
  ASSUME NEW p \in Worker, TableInv, AddGrab(p) PROVE TableInv'
<1>1. pc[p] = "grab"
  BY DEF AddGrab, Goto, Advance
<1>2. /\ key[p] \in Key /\ datum[p] \in Data /\ probe[p] \in Slot
      /\ \A j \in 0 .. probe[p] - 1 : hash[SlotAt(key[p], j)] \notin {NoKey, key[p]}
  BY <1>1 DEF TableInv, TypeOK, LocalInv, ProbeInv, Adding, Probing
<1>3. slot(p) \in Slot
  BY <1>2, WorkerSlot DEF TableInv
<1>4. CASE /\ hash[slot(p)] = NoKey
           /\ Goto(p, "grab", "count")
           /\ hash' = [hash EXCEPT ![slot(p)] = key[p]]
           /\ UNCHANGED <<addr, hcounter, heap, memory, wasted, locals, history>>
  <2>1. UniqueSlot' /\ NoGap'
    BY <1>2, <1>4, TakeSlot DEF TableInv, TypeOK, slot
  <2>2. TypeOK'
    BY <1>2, <1>3, <1>4 DEF TableInv, TypeOK, Goto, locals, Adding
  <2>3. LocalInv'
    BY <1>2, <1>4 DEF TableInv, TypeOK, LocalInv, Goto, locals, Adding, Reading
  <2>4. \A s \in Slot : hash[s] # NoKey => hash'[s] = hash[s]
    BY <1>3, <1>4 DEF TableInv, TypeOK
  <2>5. ProbeInv'
    <3> SUFFICES ASSUME NEW q \in Worker PROVE
          (/\ pc[q] \in Probing =>
                \A j \in 0 .. probe[q] - 1 : hash[SlotAt(key[q], j)] \notin {NoKey, key[q]}
           /\ pc[q] = "check_taken" => hash[slot(q)] \notin {NoKey, key[q]}
           /\ pc[q] \in Writing => hash[slot(q)] = key[q])'
      BY DEF ProbeInv
    <3>1. CASE q = p
      <4>1. pc'[p] = "count" /\ hash'[slot(p)] = key[p] /\ slot(p)' = slot(p) /\ key' = key
        BY <1>3, <1>4 DEF TableInv, TypeOK, Goto, locals, slot, SlotAt
      <4> QED BY <3>1, <4>1 DEF Probing, Writing
    <3>2. CASE q # p
      <4>1. pc'[q] = pc[q] /\ probe'[q] = probe[q] /\ key'[q] = key[q] /\ slot(q)' = slot(q)
        BY <1>4, <3>2 DEF TableInv, TypeOK, Goto, locals, slot, SlotAt
      <4>2. CASE pc[q] \in Adding
        <5>1. key[q] \in Key /\ key[q] # NoKey /\ slot(q) \in Slot
          BY <4>2, KeyAssumption, WorkerSlot DEF TableInv, LocalInv
        <5>2. \A j \in 0 .. probe[q] - 1 : SlotAt(key[q], j) \in Slot /\ SlotAt(key[q], j)' = SlotAt(key[q], j)
          <6>1. probe[q] \in 0 .. Size - 1 /\ Size \in Nat
            BY SizeAssumption DEF TableInv, TypeOK, Slot
          <6>2. \A j \in 0 .. probe[q] - 1 : j \in Slot
            BY <6>1 DEF Slot
          <6> QED BY <4>1, <5>1, <6>2, ProbeSlots DEF SlotAt
        <5> QED BY <2>4, <4>1, <5>1, <5>2 DEF TableInv, ProbeInv
      <4>3. CASE pc[q] \notin Adding
        BY <4>1, <4>3 DEF Adding, Probing, Writing
      <4> QED BY <4>2, <4>3
    <3> QED BY <3>1, <3>2
  <2>6. ReaderInv'
    <3> SUFFICES ASSUME NEW q \in Worker, pc'[q] \in {"wait", "get"}
                 PROVE  hash'[slot(q)'] = hash[slot(q)] /\ pc'[q] = pc[q] /\ key'[q] = key[q]
                        /\ addr'[slot(q)'] = addr[slot(q)]
      BY DEF TableInv, ReaderInv
    <3>1. pc'[q] = pc[q] /\ key'[q] = key[q] /\ slot(q)' = slot(q) /\ addr' = addr
      BY <1>4 DEF TableInv, TypeOK, Goto, locals, slot, SlotAt
    <3>2. key[q] \in Key /\ key[q] # NoKey /\ slot(q) \in Slot /\ hash[slot(q)] = key[q]
      BY <3>1, KeyAssumption, WorkerSlot DEF TableInv, LocalInv, ReaderInv, Reading
    <3> QED BY <2>4, <3>1, <3>2
  <2>7. ValueInv'
    BY <1>4 DEF TableInv, ValueInv
  <2>8. AddedInv'
    BY <1>4, <2>4, KeyAssumption DEF TableInv, AddedInv, history
  <2> QED BY <2>1, <2>2, <2>3, <2>5, <2>6, <2>7, <2>8 DEF TableInv
<1>5. CASE /\ hash[slot(p)] = key[p]
           /\ Goto(p, "grab", "claim")
           /\ UNCHANGED <<table, locals, history>>
  BY <1>2, <1>5, MovePc DEF Goto, history, Adding, Reading, Raised, Probing, Writing
<1>6. CASE /\ hash[slot(p)] \notin {NoKey, key[p]}
           /\ Advance(p, "grab", "add_read")
           /\ UNCHANGED <<table, key, datum, chunk, history>>
  BY <1>2, <1>6, AdvanceInv DEF history
<1> QED BY <1>4, <1>5, <1>6 DEF AddGrab

LEMMA AddCountInv ==
  ASSUME NEW p \in Worker, TableInv, AddCount(p) PROVE TableInv'
<1>1. /\ pc[p] = "count" /\ UNCHANGED <<hash, addr, heap, memory, wasted, locals, history>>
      /\ hcounter' = hcounter + 1
  BY DEF AddCount, Goto
<1>2. PICK to \in {"claim", "assertion_failure"} : pc' = [pc EXCEPT ![p] = to]
  BY DEF AddCount, Goto
<1>3. TypeOK'
  BY <1>1, <1>2 DEF TableInv, TypeOK, locals, Adding, Raised
<1>4. LocalInv'
  BY <1>1, <1>2 DEF TableInv, TypeOK, LocalInv, locals, Adding, Reading
<1>5. ProbeInv' /\ ReaderInv'
  BY <1>1, <1>2 DEF TableInv, TypeOK, ProbeInv, ReaderInv, locals, slot, SlotAt, Probing, Writing
<1>6. ValueInv' /\ AddedInv'
  BY <1>1 DEF TableInv, ValueInv, AddedInv, history
<1> QED BY <1>1, <1>3, <1>4, <1>5, <1>6, SameHash DEF TableInv

LEMMA WriteClaimInv ==
  ASSUME NEW p \in Worker, TableInv, WriteClaim(p) PROVE TableInv'
<1>1. pc[p] = "claim"
  BY DEF WriteClaim, Goto, Return, Leave
<1>2. key[p] \in Key /\ datum[p] \in Data /\ hash[slot(p)] = key[p]
  BY <1>1 DEF TableInv, LocalInv, ProbeInv, Adding, Writing
<1>3. slot(p) \in Slot
  BY <1>2, WorkerSlot DEF TableInv
<1>4. CASE /\ addr[slot(p)] = NULL
           /\ Goto(p, "claim", "alloc")
           /\ addr' = [addr EXCEPT ![slot(p)] = WRITE_IN_PROGRESS]
           /\ UNCHANGED <<hash, hcounter, heap, memory, wasted, locals, history>>
  <2>1. TypeOK'
    BY <1>4 DEF TableInv, TypeOK, Goto, locals, Adding
  <2>2. LocalInv'
    BY <1>2, <1>4 DEF TableInv, TypeOK, LocalInv, Goto, locals, Adding, Reading
  <2>3. ProbeInv'
    BY <1>2, <1>4 DEF TableInv, TypeOK, ProbeInv, Goto, locals, slot, SlotAt, Probing, Writing
  <2>4. \A s \in Slot : addr[s] # NULL => addr'[s] = addr[s]
    BY <1>4 DEF TableInv, TypeOK
  <2>5. ReaderInv'
    <3> SUFFICES ASSUME NEW q \in Worker, pc'[q] \in {"wait", "get"}
                 PROVE  hash'[slot(q)'] = hash[slot(q)] /\ pc'[q] = pc[q] /\ key'[q] = key[q]
                        /\ addr'[slot(q)'] = addr[slot(q)]
      BY DEF TableInv, ReaderInv
    <3>1. pc'[q] = pc[q] /\ key'[q] = key[q] /\ slot(q)' = slot(q) /\ hash' = hash
      BY <1>4 DEF TableInv, TypeOK, Goto, locals, slot, SlotAt
    <3>2. key[q] \in Key /\ slot(q) \in Slot /\ addr[slot(q)] # NULL
      BY <3>1, AddrAssumption, WorkerSlot DEF TableInv, LocalInv, ReaderInv, Reading
    <3> QED BY <2>4, <3>1, <3>2
  <2>6. ValueInv'
    BY <1>3, <1>4, AddrAssumption DEF TableInv, TypeOK, ValueInv
  <2>7. AddedInv'
    BY <1>4, <2>4 DEF TableInv, AddedInv, history
  <2> QED BY <1>4, <2>1, <2>2, <2>3, <2>5, <2>6, <2>7, SameHash DEF TableInv
<1>5. CASE /\ addr[slot(p)] # NULL
           /\ Return(p, "claim")
           /\ added' = added \cup {key[p]}
           /\ UNCHANGED <<table, stopped, deaths>>
  <2>1. AddedInv'
    BY <1>2, <1>3, <1>5 DEF TableInv, AddedInv, table
  <2> QED BY <1>5, <2>1, LeaveInv DEF Return
<1> QED BY <1>4, <1>5 DEF WriteClaim

LEMMA AllocInv ==
  ASSUME NEW p \in Worker, TableInv, Alloc(p) PROVE TableInv'
<1>1. heap' = heap + 1 /\ UNCHANGED <<hash, addr, hcounter, memory, wasted, history>>
  BY DEF Alloc
<1>2. ValueInv' /\ AddedInv'
  BY <1>1 DEF TableInv, ValueInv, AddedInv, history
<1>3. CASE /\ heap < HeapSize /\ Goto(p, "alloc", "copy") /\ chunk' = [chunk EXCEPT ![p] = heap]
           /\ UNCHANGED <<key, probe, datum>>
  <2>1. heap \in Chunk
    BY <1>3, SizeAssumption DEF TableInv, TypeOK, Chunk
  <2>2. TypeOK'
    BY <1>1, <1>3, <2>1 DEF TableInv, TypeOK, Goto, Adding
  <2>3. LocalInv'
    BY <1>1, <1>3, <2>1 DEF TableInv, TypeOK, LocalInv, Goto, Adding, Reading
  <2>4. ProbeInv' /\ ReaderInv'
    BY <1>1, <1>3 DEF TableInv, TypeOK, ProbeInv, ReaderInv, Goto, slot, SlotAt, Probing, Writing
  <2> QED BY <1>1, <1>2, <2>2, <2>3, <2>4, SameHash DEF TableInv
<1>4. CASE Leave(p, "alloc", "heap_full")
  <2>1. heap' \in Nat
    BY <1>1 DEF TableInv, TypeOK
  <2>2. TypeOK' /\ LocalInv' /\ ProbeInv' /\ ReaderInv'
    BY <1>1, <1>4, <2>1, LeaveTypes DEF Raised
  <2> QED BY <1>1, <1>2, <2>2, SameHash DEF TableInv
<1> QED BY <1>3, <1>4 DEF Alloc

LEMMA CopyInv ==
  ASSUME NEW p \in Worker, TableInv, Copy(p) PROVE TableInv'
<1>1. /\ pc[p] = "copy" /\ pc' = [pc EXCEPT ![p] = "publish"]
      /\ memory' = [memory EXCEPT ![chunk[p]] = datum[p]]
      /\ UNCHANGED <<hash, addr, hcounter, heap, wasted, locals, history>>
  BY DEF Copy, Goto
<1>2. datum[p] \in Data /\ chunk[p] \in Chunk /\ key[p] \in Key
  BY <1>1 DEF TableInv, LocalInv, Adding
<1>3. TypeOK'
  BY <1>1, <1>2 DEF TableInv, TypeOK, locals, Adding
<1>4. LocalInv'
  BY <1>1, <1>2 DEF TableInv, TypeOK, LocalInv, locals, Adding, Reading
<1>5. ProbeInv' /\ ReaderInv'
  BY <1>1, <1>2 DEF TableInv, TypeOK, ProbeInv, ReaderInv, locals, slot, SlotAt, Probing, Writing
<1>6. ValueInv' /\ AddedInv'
  BY <1>1, <1>2 DEF TableInv, TypeOK, ValueInv, AddedInv, history
<1> QED BY <1>1, <1>3, <1>4, <1>5, <1>6, SameHash DEF TableInv

LEMMA PublishInv ==
  ASSUME NEW p \in Worker, TableInv, Publish(p) PROVE TableInv'
<1>1. /\ pc[p] = "publish" /\ Leave(p, "publish", "idle")
      /\ addr' = [addr EXCEPT ![slot(p)] = chunk[p]]
      /\ added' = added \cup {key[p]}
      /\ UNCHANGED <<hash, hcounter, heap, memory, wasted>>
  BY DEF Publish, Return, Leave, Goto
<1>2. /\ key[p] \in Key /\ chunk[p] \in Chunk /\ memory[chunk[p]] \in Data
      /\ hash[slot(p)] = key[p] /\ chunk[p] # NULL
  BY <1>1, AddrAssumption DEF TableInv, LocalInv, ProbeInv, Adding, Writing
<1>3. slot(p) \in Slot
  BY <1>2, WorkerSlot DEF TableInv
<1>4. \A s \in Slot : /\ addr[s] # NULL => addr'[s] # NULL
                      /\ addr[s] \in Chunk => addr'[s] \in Chunk
  BY <1>1, <1>2 DEF TableInv, TypeOK
<1>5. TypeOK'
  BY <1>1, <1>2, LeaveLocals DEF TableInv, TypeOK
<1>6. LocalInv'
  BY <1>1, LeaveLocals DEF TableInv, LocalInv, Adding, Reading
<1>7. ProbeInv'
  BY <1>1, LeaveLocals DEF TableInv, ProbeInv, slot, SlotAt, Probing, Writing
<1>8. ReaderInv'
  <2> SUFFICES ASSUME NEW q \in Worker, pc'[q] \in {"wait", "get"}
               PROVE  /\ hash'[slot(q)'] = key'[q] /\ addr'[slot(q)'] # NULL
                      /\ pc'[q] = "get" => addr'[slot(q)'] \in Chunk
    BY DEF ReaderInv
  <2>1. pc'[q] = pc[q] /\ key'[q] = key[q] /\ slot(q)' = slot(q) /\ hash' = hash
    BY <1>1, LeaveLocals DEF slot, SlotAt
  <2>2. /\ slot(q) \in Slot /\ hash[slot(q)] = key[q] /\ addr[slot(q)] # NULL
        /\ pc[q] = "get" => addr[slot(q)] \in Chunk
    BY <2>1, AddrAssumption, WorkerSlot DEF TableInv, LocalInv, ReaderInv, Reading
  <2> QED BY <1>4, <2>1, <2>2
<1>9. ValueInv'
  BY <1>1, <1>2 DEF TableInv, TypeOK, ValueInv
<1>10. AddedInv'
  BY <1>1, <1>2, <1>3, <1>4 DEF TableInv, TypeOK, AddedInv
<1> QED BY <1>1, <1>5, <1>6, <1>7, <1>8, <1>9, <1>10, SameHash DEF TableInv

(***************************************************************************)
(* The master's operations: no worker asserts anything.                    *)
(***************************************************************************)
LEMMA MasterLocals ==
  ASSUME Quiescent'
  PROVE  LocalInv' /\ ProbeInv' /\ ReaderInv'
<1>1. \A p \in Worker : pc'[p] \notin Adding \cup Reading \cup Probing \cup Writing
  BY DEF Quiescent, Adding, Reading, Probing, Writing, Raised
<1> QED BY <1>1 DEF LocalInv, ProbeInv, ReaderInv, Adding, Reading, Probing

LEMMA MasterQuiet == ASSUME Quiescent, masterUnchanged PROVE Quiescent'
BY DEF Quiescent, masterUnchanged

LEMMA RemoveInv ==
  ASSUME NEW k \in Key, NEW s \in Slot, TableInv, hh_remove(k, s) PROVE TableInv'
<1>1. /\ hash[s] = k /\ addr[s] # NULL
      /\ addr' = [addr EXCEPT ![s] = NULL] /\ wasted' = wasted + 1 /\ added' = added \ {k}
      /\ UNCHANGED <<hash, hcounter, heap, memory>>
  BY DEF hh_remove, Readable, Present, Status
<1>2. TypeOK'
  BY <1>1 DEF TableInv, TypeOK, hh_remove, masterUnchanged, locals
<1>3. ValueInv'
  BY <1>1, AddrAssumption DEF TableInv, TypeOK, ValueInv
<1>4. AddedInv'
  BY <1>1 DEF TableInv, TypeOK, AddedInv
<1> QED BY <1>1, <1>2, <1>3, <1>4, SameHash, MasterLocals, MasterQuiet DEF TableInv, hh_remove

LEMMA MoveInv ==
  ASSUME NEW k1 \in Key, NEW k2 \in Key, NEW s1 \in Slot, NEW s2 \in Slot, k1 # k2,
         TableInv, hh_move(k1, s1, k2, s2)
  PROVE  TableInv'
<1>1. /\ hash[s1] = k1 /\ addr[s1] # NULL
      /\ find_slot(k2, s2)
      /\ hcounter' \in {hcounter, hcounter + 1}
      /\ hash' = [hash EXCEPT ![s2] = k2]
      /\ addr' = [addr EXCEPT ![s2] = addr[s1], ![s1] = NULL]
      /\ added' = (added \ {k1}) \cup {k2}
      /\ UNCHANGED <<heap, memory, wasted>>
  BY DEF hh_move, Readable, Present, Status
<1>2. PICK i \in Slot : /\ s2 = SlotAt(k2, i)
                        /\ hash[s2] \in {k2, NoKey}
                        /\ \A j \in 0 .. i - 1 : hash[SlotAt(k2, j)] \notin {k2, NoKey}
  BY <1>1 DEF find_slot
<1>3. s1 # s2
  BY <1>1, <1>2, KeyAssumption
<1>4. UniqueSlot' /\ NoGap'
  BY <1>1, <1>2, TakeSlot DEF TableInv, TypeOK
<1>5. TypeOK'
  BY <1>1 DEF TableInv, TypeOK, hh_move, masterUnchanged, locals
<1>6. ValueInv'
  BY <1>1, AddrAssumption DEF TableInv, TypeOK, ValueInv
<1>7. AddedInv'
  <2>1. hash'[s2] = k2 /\ addr'[s2] # NULL
    BY <1>1, <1>3 DEF TableInv, TypeOK
  <2>2. ASSUME NEW k \in added, k # k1, k # k2
        PROVE  \E s \in Slot : hash'[s] = k /\ addr'[s] # NULL
    <3>1. PICK s \in Slot : hash[s] = k /\ addr[s] # NULL
      BY DEF TableInv, AddedInv
    <3>2. s # s1 /\ s # s2
      BY <1>1, <1>2, <2>2, <3>1, KeyAssumption DEF TableInv, AddedInv
    <3> QED BY <1>1, <3>1, <3>2 DEF TableInv, TypeOK
  <2> QED BY <1>1, <2>1, <2>2 DEF TableInv, AddedInv
<1> QED BY <1>4, <1>5, <1>6, <1>7, MasterLocals, MasterQuiet DEF TableInv, hh_move

LEMMA CollectInv ==
  ASSUME TableInv, hh_collect PROVE TableInv'
<1>1. /\ addr' = [s \in Slot |-> IF addr[s] \in Chunk THEN Relocated(addr[s]) ELSE addr[s]]
      /\ memory' = [c \in Chunk |->
                      IF \E d \in Live : Relocated(d) = c
                      THEN memory[CHOOSE d \in Live : Relocated(d) = c] ELSE memory[c]]
      /\ heap' = Cardinality(Live) /\ wasted' = 0
      /\ UNCHANGED <<hash, hcounter, added>>
  BY DEF hh_collect
<1>2. \A s \in Slot : addr[s] \in Chunk => addr[s] \in Live
  BY DEF Live
<1>3. \A d \in Live : d \in Chunk /\ memory[d] \in Data
  BY DEF Live, TableInv, ValueInv
<1>4. ASSUME NEW c \in Chunk
      PROVE  /\ memory'[c] \in Data \cup {Garbage}
             /\ (\E d \in Live : Relocated(d) = c) => memory'[c] \in Data
  <2>1. CASE \E d \in Live : Relocated(d) = c
    <3>1. (CHOOSE d \in Live : Relocated(d) = c) \in Live
      BY <2>1
    <3> QED BY <1>1, <1>3, <2>1, <3>1
  <2>2. CASE ~ \E d \in Live : Relocated(d) = c
    BY <1>1, <2>2 DEF TableInv, TypeOK
  <2> QED BY <2>1, <2>2
<1>5. TypeOK'
  <2>1. addr' \in [Slot -> Chunk \cup {NULL, WRITE_IN_PROGRESS}]
    BY <1>1, RelocatedInHeap DEF TableInv, TypeOK
  <2>2. memory' \in [Chunk -> Data \cup {Garbage}]
    BY <1>1, <1>4
  <2> QED BY <1>1, <2>1, <2>2, LiveFinite DEF TableInv, TypeOK, hh_collect, masterUnchanged, locals
<1>6. ValueInv'
  <2> SUFFICES ASSUME NEW s \in Slot, addr'[s] \in Chunk PROVE memory'[addr'[s]] \in Data
    BY DEF ValueInv
  <2>1. addr[s] \in Chunk
    BY <1>1 DEF TableInv, TypeOK
  <2> QED BY <1>1, <1>2, <1>4, <2>1
<1>7. AddedInv'
  <2>1. \A s \in Slot : addr[s] # NULL => addr'[s] # NULL
    BY <1>1, RelocatedInHeap, AddrAssumption
  <2> QED BY <1>1, <2>1 DEF TableInv, AddedInv
<1> QED BY <1>1, <1>5, <1>6, <1>7, SameHash, MasterLocals, MasterQuiet DEF TableInv, hh_collect

LEMMA ResetInv ==
  ASSUME TableInv, pyre_reset PROVE TableInv'
<1>1. TypeOK'
  BY DEF TableInv, TypeOK, pyre_reset, masterUnchanged, locals
<1>2. ValueInv' /\ AddedInv'
  BY AddrAssumption DEF ValueInv, AddedInv, pyre_reset
<1>3. UniqueSlot'
  BY DEF UniqueSlot, pyre_reset
<1>4. NoGap'
  <2>1. \A k \in Key, i \in 0 .. Size - 1 : hash'[SlotAt(k, i)] # k
    BY KeyAssumption, ProbeSlots DEF pyre_reset, Slot
  <2> QED BY <2>1 DEF NoGap
<1> QED BY <1>1, <1>2, <1>3, <1>4, MasterLocals, MasterQuiet DEF TableInv, pyre_reset

LEMMA LoadInv ==
  ASSUME TableInv, SaveAndLoad PROVE TableInv'
<1>1. TypeOK'
  BY DEF TableInv, TypeOK, SaveAndLoad, locals
<1>2. ValueInv' /\ AddedInv'
  BY DEF TableInv, ValueInv, AddedInv, SaveAndLoad, history
<1>3. Quiescent'
  BY DEF SaveAndLoad, Quiescent
<1> QED BY <1>1, <1>2, <1>3, SameHash, MasterLocals DEF TableInv, SaveAndLoad

(* No variable of the invariant changes. *)
LEMMA StutterInv ==
  ASSUME TableInv, UNCHANGED <<table, pc, locals, added>> PROVE TableInv'
<1>1. TypeOK' /\ LocalInv'
  BY DEF TableInv, TypeOK, LocalInv, table, locals
<1>2. ProbeInv' /\ ReaderInv'
  BY DEF TableInv, ProbeInv, ReaderInv, table, locals, slot, SlotAt
<1> QED BY <1>1, <1>2, TableUnchanged DEF TableInv

LEMMA NextTableInv == TableInv /\ [Next]_vars => TableInv'
<1> SUFFICES ASSUME TableInv, [Next]_vars PROVE TableInv'
  OBVIOUS
<1>1. ASSUME NEW p \in Worker, WorkerNext(p) PROVE TableInv'
  <2>1. CASE AddNextStep(p)
    BY <2>1, AddReadInv, AddFullInv, RaiseInv, AddNextInv, AddTryInv, AddGrabInv, AddCountInv,
       WriteClaimInv, AllocInv, CopyInv, PublishInv DEF AddNextStep
  <2>2. CASE MemNextStep(p)
    BY <2>2, FindInv, MemInv, MemReadyInv, RaiseInv DEF MemNextStep
  <2> QED BY <1>1, <2>1, <2>2, AddBeginInv, MemBeginInv, RaiseInv DEF WorkerNext
<1>2. CASE MasterNext
  <2>1. CASE CollectFails
    BY <2>1, StutterInv DEF CollectFails
  <2> QED BY <1>2, <2>1, RemoveInv, MoveInv, CollectInv, ResetInv, LoadInv DEF MasterNext
<1>3. CASE UNCHANGED vars
  BY <1>3, StutterInv DEF vars, history
<1> QED BY <1>1, <1>2, <1>3 DEF Next

(* A key that is in the table is where find_slot ends. *)
LEMMA FoundAt ==
  ASSUME TableInv, NEW k \in Key, NEW s \in Slot, hash[s] = k
  PROVE  find_slot(k, s)
<1>1. PICK i \in Slot : SlotAt(k, i) = s
  BY ProbeSlots
<1>2. ASSUME NEW j \in 0 .. i - 1 PROVE hash[SlotAt(k, j)] \notin {k, NoKey}
  <2>1. j \in Slot /\ j # i
    BY <1>1, SizeAssumption DEF Slot
  <2>2. SlotAt(k, j) \in Slot /\ SlotAt(k, j) # s
    BY <1>1, <2>1, ProbeSlots
  <2>3. hash[SlotAt(k, j)] # k
    BY <2>2, KeyAssumption DEF TableInv, UniqueSlot
  <2>4. hash[SlotAt(k, j)] # NoKey
    BY <1>1 DEF TableInv, NoGap, Slot
  <2> QED BY <2>3, <2>4
<1> QED BY <1>1, <1>2 DEF find_slot

LEMMA TableInvariant == Spec => []TableInv
BY InitTableInv, NextTableInv, PTL DEF Spec

(* The variables of the table and the locals of the workers keep their types. *)
THEOREM TypeCorrect == Spec => []TypeOK
BY TableInvariant, PTL DEF TableInv

(***************************************************************************)
(* Workers that race for a free slot, with any number of other keys in     *)
(* between and at any table size, never put one key into two slots.        *)
(***************************************************************************)
THEOREM KeysAreUnique == Spec => []UniqueSlot
BY TableInvariant, PTL DEF TableInv

(***************************************************************************)
(* Removing and moving keys never opens a gap that find_slot would stop    *)
(* at: hh_remove and hh_move leave the hash in its slot.                   *)
(***************************************************************************)
THEOREM ProbingWorks == Spec => []NoGap
BY TableInvariant, PTL DEF TableInv

(***************************************************************************)
(* When hh_add has returned, to the worker that wrote the value or to one  *)
(* that lost the race, hh_mem finds the key.                               *)
(***************************************************************************)
THEOREM AddIsVisible == Spec => []AddedIsPresent
<1>1. TableInv => AddedIsPresent
  <2> SUFFICES ASSUME TableInv, NEW k \in added PROVE mem(k)
    BY DEF AddedIsPresent
  <2>1. PICK s \in Slot : hash[s] = k /\ addr[s] # NULL
    BY DEF TableInv, AddedInv
  <2>2. find_slot(k, s) /\ Status(s, k) = "present"
    BY <2>1, FoundAt DEF TableInv, AddedInv, Status
  <2> QED BY <2>2 DEF mem, Present
<1> QED BY <1>1, TableInvariant, PTL

(***************************************************************************)
(* A reader that hh_mem has told that the key is present gets a value that *)
(* is completely written.                                                  *)
(***************************************************************************)
THEOREM ReadsAreComplete == Spec => []ReadComplete
<1>1. TableInv => ReadComplete
  <2> SUFFICES ASSUME TableInv, NEW p \in Worker, pc[p] = "get"
               PROVE  \E s \in Slot : find_slot(key[p], s) /\ addr[s] \in Chunk /\ memory[addr[s]] \in Data
    BY DEF ReadComplete
  <2>1. key[p] \in Key /\ hash[slot(p)] = key[p] /\ addr[slot(p)] \in Chunk
    BY DEF TableInv, LocalInv, ReaderInv, Reading
  <2>2. slot(p) \in Slot
    BY <2>1, WorkerSlot DEF TableInv
  <2> QED BY <2>1, <2>2, FoundAt DEF TableInv, ValueInv
<1> QED BY <1>1, TableInvariant, PTL

-----------------------------------------------------------------------------
(***************************************************************************)
(* The heap and the counters of the hash table, and the refinement of      *)
(* KeyValueStore: for every table and heap size, every set of keys and any *)
(* number of workers and deaths.  On top of TableInv these proofs need to  *)
(* know who owns what: the slots and the chunks of the heap that belong to *)
(* a writer which has not finished or never will, and the slots that are   *)
(* taken and not counted yet.                                              *)
(***************************************************************************)

(* The workers between the claim of a slot and the publication of the value. *)
Claiming == {"alloc", "copy", "publish"}
Claimer == {p \in Worker : pc[p] \in Claiming}
Claimed == {slot(p) : p \in Claimer}

(* The slots of writers that were killed or ran out of heap. *)
Abandoned == {s \in Slot : addr[s] = WRITE_IN_PROGRESS} \ Claimed

(* A slot in which a value is being written has one writer at most. *)
ClaimInv ==
  /\ \A p \in Claimer : addr[slot(p)] = WRITE_IN_PROGRESS
  /\ \A p, q \in Claimer : slot(p) = slot(q) => p = q

(* The writers that have a chunk of the heap, and the chunks. *)
Holder == {p \in Worker : pc[p] \in {"copy", "publish"}}
Held == {chunk[p] : p \in Holder}

(* What is below the heap pointer belongs to one slot or to one writer. *)
ChunkInv ==
  /\ \A s \in Slot : addr[s] \in Chunk => addr[s] < heap
  /\ \A s, t \in Slot : addr[s] = addr[t] /\ addr[s] \in Chunk => s = t
  /\ \A p \in Holder : chunk[p] < heap /\ \A s \in Slot : addr[s] # chunk[p]
  /\ \A p, q \in Holder : chunk[p] = chunk[q] => p = q

(* The heap is what is in use, what is wasted, and what was abandoned. *)
WasteInv ==
  ~ SavedState =>
    /\ Cardinality(Live \cup Held) + wasted <= heap
    /\ heap <= Cardinality(Live \cup Held) + wasted + Cardinality(Abandoned)

(* The slots that are taken and that hcounter does not know yet. *)
Counting == {p \in Worker : pc[p] = "count"}
Uncounted == {slot(p) : p \in Counting}

CountInv ==
  /\ deaths \in Nat
  /\ \A p, q \in Counting : slot(p) = slot(q) => p = q
  /\ hcounter <= Cardinality(Taken \ Uncounted)
  /\ ~ SavedState => Cardinality(Taken \ Uncounted) <= hcounter + deaths
  /\ \A p \in Worker : pc[p] # "assertion_failure"

(* A slot without a key has no value. *)
EmptyInv == \A s \in Slot : hash[s] = NoKey => addr[s] = NULL

HeapInv == ClaimInv /\ ChunkInv /\ WasteInv /\ CountInv /\ EmptyInv

-----------------------------------------------------------------------------

LEMMA TakenFinite ==
  /\ IsFiniteSet(Slot) /\ Cardinality(Slot) = Size
  /\ Taken \subseteq Slot
  /\ \A S : IsFiniteSet(Taken \ S) /\ Cardinality(Taken \ S) \in Nat
<1>1. IsFiniteSet(Slot) /\ Cardinality(Slot) = Size
  BY SizeAssumption, FS_Interval DEF Slot
<1>2. Taken \subseteq Slot
  BY DEF Taken
<1>3. ASSUME NEW S PROVE IsFiniteSet(Taken \ S) /\ Cardinality(Taken \ S) \in Nat
  <2>1. Taken \ S \in SUBSET Slot
    BY <1>2
  <2> QED BY <1>1, <2>1, FS_Subset, FS_CardinalityType
<1> QED BY <1>1, <1>2, <1>3

LEMMA AbandonedFinite == IsFiniteSet(Abandoned) /\ Cardinality(Abandoned) \in Nat
<1>1. Abandoned \in SUBSET Slot
  BY DEF Abandoned
<1> QED BY <1>1, TakenFinite, FS_Subset, FS_CardinalityType

LEMMA HeldFinite ==
  ASSUME TableInv
  PROVE  Live \cup Held \subseteq Chunk /\ IsFiniteSet(Live \cup Held)
         /\ Cardinality(Live \cup Held) \in Nat
<1>1. Live \cup Held \subseteq Chunk
  BY DEF Live, Held, Holder, TableInv, LocalInv
<1>2. IsFiniteSet(Chunk)
  BY SizeAssumption, FS_Interval DEF Chunk
<1> QED BY <1>1, <1>2, FS_Subset, FS_CardinalityType

LEMMA InitHeapInv == Init => HeapInv
<1> SUFFICES ASSUME Init PROVE HeapInv
  OBVIOUS
<1>1. Holder = {} /\ Counting = {} /\ Claimer = {} /\ \A p \in Worker : pc[p] = "idle"
  BY DEF Init, Holder, Counting, Claimer, Claiming
<1>2. \A s \in Slot : addr[s] = NULL /\ hash[s] = NoKey
  BY DEF Init
<1>3. Live = {} /\ Held = {} /\ Taken = {} /\ Uncounted = {}
  BY <1>1, <1>2, AddrAssumption DEF Live, Held, Taken, Uncounted
<1>4. Cardinality(Live \cup Held) = 0 /\ Cardinality(Taken \ Uncounted) = 0
  BY <1>3, FS_EmptySet
<1>5. heap = 0 /\ wasted = 0 /\ hcounter = 0 /\ deaths = 0
  BY DEF Init
<1>6. ClaimInv
  BY <1>1 DEF ClaimInv
<1>7. ChunkInv
  BY <1>1, <1>2, AddrAssumption DEF ChunkInv
<1>8. WasteInv
  BY <1>4, <1>5, AbandonedFinite DEF WasteInv
<1>9. CountInv
  BY <1>1, <1>4, <1>5 DEF CountInv
<1> QED BY <1>2, <1>6, <1>7, <1>8, <1>9 DEF HeapInv, EmptyInv

(***************************************************************************)
(* A step of p that leaves shared memory alone, and p neither a writer nor *)
(* counting: everything is owned as before.                                *)
(***************************************************************************)
Others(p) ==
  \A q \in Worker \ {p} : /\ pc'[q] = pc[q] /\ key'[q] = key[q]
                          /\ probe'[q] = probe[q] /\ chunk'[q] = chunk[q]

LEMMA QuietStep ==
  ASSUME TableInv, HeapInv, NEW p \in Worker, UNCHANGED <<table, deaths>>, Others(p),
         pc[p] \notin Claiming \cup {"count"},
         pc'[p] \notin Claiming \cup {"count", "assertion_failure"}
  PROVE  HeapInv'
<1>1. \A q \in Worker : pc[q] \in Claiming \cup {"count"} \/ pc'[q] \in Claiming \cup {"count"} =>
         /\ pc[q] = pc'[q] /\ slot(q)' = slot(q) /\ chunk'[q] = chunk[q]
  BY DEF Others, slot, SlotAt
<1>2. Holder' = Holder /\ Counting' = Counting /\ Claimer' = Claimer
  BY <1>1 DEF Holder, Counting, Claiming, Claimer
<1>3. /\ \A q \in Claimer : slot(q)' = slot(q) /\ chunk'[q] = chunk[q]
      /\ \A q \in Holder : chunk'[q] = chunk[q]
      /\ \A q \in Counting : slot(q)' = slot(q)
  BY <1>1 DEF Holder, Counting, Claiming, Claimer
<1>4. Held' = Held /\ Uncounted' = Uncounted /\ Claimed' = Claimed
  BY <1>2, <1>3 DEF Held, Uncounted, Claimed
<1>5. Live' = Live /\ Taken' = Taken /\ Abandoned' = Abandoned
  BY <1>4 DEF Live, Taken, Abandoned, table
<1>6. ClaimInv'
  BY <1>2, <1>3 DEF HeapInv, ClaimInv, table
<1>7. ChunkInv'
  BY <1>2, <1>3 DEF HeapInv, ChunkInv, table
<1>8. WasteInv'
  BY <1>4, <1>5 DEF HeapInv, WasteInv, table
<1>9. CountInv'
  <2>1. \A q, r \in Counting' : slot(q)' = slot(r)' => q = r
    BY <1>2, <1>3 DEF HeapInv, CountInv
  <2>2. \A q \in Worker : pc'[q] # "assertion_failure"
    BY DEF HeapInv, CountInv, Others
  <2> QED BY <1>4, <1>5, <2>1, <2>2 DEF HeapInv, CountInv, table
<1>10. EmptyInv'
  BY DEF HeapInv, EmptyInv, table
<1> QED BY <1>6, <1>7, <1>8, <1>9, <1>10 DEF HeapInv

(* An operation that neither writes nor counts returns or raises. *)
LEMMA QuietLeave ==
  ASSUME TableInv, HeapInv, NEW p \in Worker, NEW from, NEW to \in {"idle"} \cup Raised,
         Leave(p, from, to), from \notin Claiming \cup {"count"}, to # "assertion_failure",
         UNCHANGED <<table, deaths>>
  PROVE  HeapInv'
<1>1. Others(p) /\ pc[p] = from /\ pc'[p] = to
  BY LeaveLocals DEF Others
<1>2. to \notin Claiming \cup {"count"}
  BY DEF Claiming, Raised
<1> QED BY <1>1, <1>2, QuietStep

(* The steps that only read: of a writer that looks for its slot or finds  *)
(* it claimed, and of a reader; and what follows an exception.             *)
LEMMA ReadOnlySteps ==
  ASSUME TableInv, HeapInv, NEW p \in Worker,
         \/ AddBegin(p) \/ AddRead(p) \/ AddFull(p) \/ AddNext(p) \/ AddTry(p)
         \/ raise_hash_table_full(p) \/ MemBegin(p) \/ MemNextStep(p) \/ NextJob(p)
  PROVE  HeapInv' /\ UNCHANGED <<table, deaths>>
<1> USE DEF Claiming, Others
<1>1. /\ pc \in [Worker -> {"idle"} \cup Adding \cup Reading \cup Raised]
      /\ key \in [Worker -> Key \cup {NoKey}] /\ probe \in [Worker -> Slot]
      /\ chunk \in [Worker -> Chunk \cup {0}]
  BY DEF TableInv, TypeOK
<1>2. CASE AddBegin(p)
  BY <1>1, <1>2, QuietStep DEF AddBegin, Goto, history
<1>3. CASE AddRead(p)
  <2>1. \E to \in {"claim", "check_free", "check_taken"} : Goto(p, "add_read", to)
    BY <1>3 DEF AddRead
  <2> QED BY <1>1, <1>3, <2>1, QuietStep DEF AddRead, Goto, locals, history
<1>4. CASE AddFull(p)
  BY <1>1, <1>4, QuietStep DEF AddFull, Goto, locals, history
<1>5. CASE AddNext(p)
  BY <1>1, <1>5, QuietStep DEF AddNext, Advance, Goto, history
<1>6. CASE AddTry(p)
  BY <1>1, <1>6, QuietStep DEF AddTry, Goto, locals, history
<1>7. CASE MemBegin(p)
  BY <1>1, <1>7, QuietStep DEF MemBegin, Goto, history
<1>8. CASE FindSame(p)
  <2>1. \E to \in {"mem", "find_free"} : Goto(p, "find", to)
    BY <1>8 DEF FindSame
  <2> QED BY <1>1, <1>8, <2>1, QuietStep DEF FindSame, Goto, locals, history
<1>9. CASE FindFree(p)
  BY <1>1, <1>9, QuietStep DEF FindFree, Advance, Goto, locals, history
<1>10. CASE Mem(p)
  <2>1. CASE Return(p, "mem") /\ UNCHANGED <<table, history>>
    BY <2>1, QuietLeave DEF Return, history
  <2>2. CASE Goto(p, "mem", "wait") /\ UNCHANGED <<table, locals, history>>
    BY <1>1, <2>2, QuietStep DEF Goto, locals, history
  <2> QED BY <1>10, <2>1, <2>2 DEF Mem, history
<1>11. CASE MemReady(p)
  BY <1>1, <1>11, QuietStep DEF MemReady, Goto, locals, history
<1>12. CASE raise_hash_table_full(p) \/ MemTimeout(p) \/ Get(p) \/ NextJob(p)
  <2>1. \E from, to : /\ from \notin Claiming \cup {"count"} /\ to # "assertion_failure"
                      /\ to \in {"idle"} \cup Raised /\ Leave(p, from, to)
    BY <1>12 DEF raise_hash_table_full, MemTimeout, Get, NextJob, Return, Raised, Reported
  <2>2. UNCHANGED <<table, deaths>>
    BY <1>12 DEF raise_hash_table_full, MemTimeout, Get, NextJob, history
  <2> QED BY <2>1, <2>2, QuietLeave
<1> QED BY <1>2, <1>3, <1>4, <1>5, <1>6, <1>7, <1>8, <1>9, <1>10, <1>11, <1>12 DEF MemNextStep

(***************************************************************************)
(* The steps of a writer.  Each one takes or gives up one thing: a slot, a *)
(* claim, a chunk, or its place among the processes that count.            *)
(***************************************************************************)

(* A writer is at the slot of its key. *)
LEMMA WriterSlot ==
  ASSUME TableInv, NEW p \in Worker, pc[p] \in Writing
  PROVE  /\ key[p] \in Key /\ slot(p) \in Slot /\ hash[slot(p)] = key[p]
         /\ hash[slot(p)] # NoKey
BY WorkerSlot, KeyAssumption DEF TableInv, LocalInv, ProbeInv, Adding, Writing

LEMMA GrabHeapInv ==
  ASSUME TableInv, HeapInv, NEW p \in Worker, AddGrab(p)
  PROVE  HeapInv' /\ UNCHANGED <<addr, memory>>
<1> USE DEF Claiming
<1>1. /\ pc \in [Worker -> {"idle"} \cup Adding \cup Reading \cup Raised]
      /\ key \in [Worker -> Key \cup {NoKey}] /\ probe \in [Worker -> Slot]
      /\ hash \in [Slot -> Key \cup {NoKey}]
      /\ chunk \in [Worker -> Chunk \cup {0}]
  BY DEF TableInv, TypeOK
<1>2. CASE /\ hash[slot(p)] = key[p]
           /\ Goto(p, "grab", "claim")
           /\ UNCHANGED <<table, locals, history>>
  BY <1>1, <1>2, QuietStep DEF Others, Goto, locals, table, history
<1>3. CASE /\ Advance(p, "grab", "add_read")
           /\ UNCHANGED <<table, key, datum, chunk, history>>
  BY <1>1, <1>3, QuietStep DEF Others, Advance, Goto, table, history
<1>4. CASE /\ hash[slot(p)] = NoKey
           /\ Goto(p, "grab", "count")
           /\ hash' = [hash EXCEPT ![slot(p)] = key[p]]
           /\ UNCHANGED <<addr, hcounter, heap, memory, wasted, locals, history>>
  <2>1. pc[p] = "grab" /\ pc' = [pc EXCEPT ![p] = "count"] /\ chunk' = chunk
        /\ \A q \in Worker : slot(q)' = slot(q)
    BY <1>4 DEF Goto, locals, slot, SlotAt
  <2>2. key[p] \in Key /\ key[p] # NoKey /\ slot(p) \in Slot
    BY <2>1, WorkerSlot, KeyAssumption DEF TableInv, LocalInv, Adding
  <2>3. Holder' = Holder /\ Claimer' = Claimer /\ Counting' = Counting \cup {p} /\ p \notin Counting
    BY <1>1, <2>1 DEF Holder, Claimer, Counting
  <2>4. \A q \in Counting : slot(q) # slot(p)
    BY <1>4, WriterSlot DEF Counting, Writing
  <2>5. Held' = Held /\ Uncounted' = Uncounted \cup {slot(p)} /\ Live' = Live /\ Abandoned' = Abandoned
    <3>1. Held' = Held
      BY <2>1, <2>3 DEF Held
    <3>2. Uncounted' = Uncounted \cup {slot(p)}
      BY <2>1, <2>3 DEF Uncounted, Counting
    <3>3. Live' = Live
      BY <1>4 DEF Live
    <3>4. Claimed' = Claimed
      BY <2>1, <2>3 DEF Claimed, Claimer
    <3>5. Abandoned' = Abandoned
      BY <1>4, <3>4 DEF Abandoned
    <3> QED BY <3>1, <3>2, <3>3, <3>5
  <2>6. Taken' = Taken \cup {slot(p)} /\ slot(p) \notin Taken
    BY <1>1, <1>4, <2>2 DEF Taken
  <2>7. Taken' \ Uncounted' = Taken \ Uncounted
    BY <2>5, <2>6
  <2>8. ClaimInv'
    BY <1>4, <2>1, <2>3 DEF HeapInv, ClaimInv, Claimer
  <2>9. ChunkInv'
    BY <1>1, <1>4, <2>1, <2>3 DEF HeapInv, ChunkInv
  <2>10. WasteInv'
    BY <1>4, <2>5 DEF HeapInv, WasteInv
  <2>11. CountInv'
    <3>1. \A q, r \in Counting' : slot(q)' = slot(r)' => q = r
      BY <2>1, <2>3, <2>4 DEF HeapInv, CountInv, Counting
    <3>2. \A q \in Worker : pc'[q] # "assertion_failure"
      BY <1>1, <2>1 DEF HeapInv, CountInv
    <3> QED BY <1>4, <2>7, <3>1, <3>2 DEF HeapInv, CountInv, history
  <2>12. EmptyInv'
    BY <1>1, <1>4, <2>2 DEF HeapInv, EmptyInv
  <2> QED BY <1>4, <2>8, <2>9, <2>10, <2>11, <2>12 DEF HeapInv
<1> QED BY <1>2, <1>3, <1>4 DEF AddGrab

LEMMA CountHeapInv ==
  ASSUME TableInv, HeapInv, NEW p \in Worker, AddCount(p)
  PROVE  HeapInv' /\ UNCHANGED <<hash, addr, memory>>
<1> USE DEF Claiming
<1>1. /\ pc \in [Worker -> {"idle"} \cup Adding \cup Reading \cup Raised]
      /\ hcounter \in Nat /\ Size \in Nat
  BY SizeAssumption DEF TableInv, TypeOK
<1>2. /\ pc[p] = "count" /\ hcounter' = hcounter + 1
      /\ UNCHANGED <<hash, addr, heap, memory, wasted, key, probe, chunk, deaths>>
  BY DEF AddCount, Goto, locals, history
<1>3. slot(p) \in Slot /\ hash[slot(p)] # NoKey
  BY <1>2, WriterSlot DEF Writing
<1>4. slot(p) \in Taken /\ slot(p) \in Uncounted /\ p \in Counting
  BY <1>2, <1>3 DEF Taken, Uncounted, Counting
<1>5. hcounter < Size
  <2>1. Taken \ Uncounted \in SUBSET Slot
    BY TakenFinite
  <2>2. Cardinality(Taken \ Uncounted) # Size
    BY <1>3, <1>4, <2>1, TakenFinite, FS_Subset
  <2>3. Cardinality(Taken \ Uncounted) <= Size
    BY <2>1, TakenFinite, FS_Subset
  <2>4. Cardinality(Taken \ Uncounted) \in Nat
    BY TakenFinite
  <2> QED BY <1>1, <2>2, <2>3, <2>4 DEF HeapInv, CountInv
<1>6. pc' = [pc EXCEPT ![p] = "claim"]
  BY <1>5 DEF AddCount, Goto
<1>7. \A q \in Worker : slot(q)' = slot(q)
  BY <1>2 DEF slot, SlotAt
<1>8. Holder' = Holder /\ Claimer' = Claimer /\ Counting' = Counting \ {p}
  BY <1>1, <1>2, <1>6 DEF Holder, Claimer, Counting
<1>9. Uncounted' = Uncounted \ {slot(p)}
  BY <1>4, <1>7, <1>8 DEF HeapInv, CountInv, Uncounted, Counting
<1>10. Held' = Held /\ Live' = Live /\ Taken' = Taken
  BY <1>2, <1>8 DEF Held, Live, Taken
<1>11. Taken' \ Uncounted' = (Taken \ Uncounted) \cup {slot(p)}
  BY <1>4, <1>9, <1>10
<1>12. Cardinality(Taken' \ Uncounted') = Cardinality(Taken \ Uncounted) + 1
  BY <1>4, <1>11, TakenFinite, FS_AddElement
<1>13. Claimed' = Claimed
  BY <1>7, <1>8 DEF Claimed, Claimer
<1>14. Abandoned' = Abandoned
  BY <1>2, <1>13 DEF Abandoned
<1>15. ClaimInv'
  BY <1>2, <1>7, <1>8 DEF HeapInv, ClaimInv, Claimer
<1>16. ChunkInv'
  BY <1>2, <1>8 DEF HeapInv, ChunkInv
<1>17. WasteInv'
  BY <1>2, <1>10, <1>14 DEF HeapInv, WasteInv
<1>18. CountInv'
  <2>1. \A q, r \in Counting' : slot(q)' = slot(r)' => q = r
    BY <1>7, <1>8 DEF HeapInv, CountInv, Counting
  <2>2. \A q \in Worker : pc'[q] # "assertion_failure"
    BY <1>1, <1>6 DEF HeapInv, CountInv
  <2>3. Cardinality(Taken \ Uncounted) \in Nat
    BY TakenFinite
  <2> QED BY <1>1, <1>2, <1>12, <2>1, <2>2, <2>3 DEF HeapInv, CountInv
<1> QED BY <1>2, <1>15, <1>16, <1>17, <1>18 DEF HeapInv, EmptyInv

LEMMA ClaimHeapInv ==
  ASSUME TableInv, HeapInv, NEW p \in Worker, WriteClaim(p)
  PROVE  HeapInv' /\ Live' = Live /\ UNCHANGED <<hash, memory>>
         /\ \A s \in Slot : addr[s] \in Chunk \/ addr'[s] \in Chunk => addr'[s] = addr[s]
<1> USE DEF Claiming
<1>1. /\ pc \in [Worker -> {"idle"} \cup Adding \cup Reading \cup Raised]
      /\ addr \in [Slot -> Chunk \cup {NULL, WRITE_IN_PROGRESS}]
  BY DEF TableInv, TypeOK
<1>2. CASE /\ addr[slot(p)] # NULL
           /\ Return(p, "claim")
           /\ UNCHANGED <<table, stopped, deaths>>
  BY <1>2, QuietLeave DEF Return, table, Live
<1>3. CASE /\ addr[slot(p)] = NULL
           /\ Goto(p, "claim", "alloc")
           /\ addr' = [addr EXCEPT ![slot(p)] = WRITE_IN_PROGRESS]
           /\ UNCHANGED <<hash, hcounter, heap, memory, wasted, locals, history>>
  <2>1. /\ pc[p] = "claim" /\ pc' = [pc EXCEPT ![p] = "alloc"] /\ chunk' = chunk
        /\ \A q \in Worker : slot(q)' = slot(q)
    BY <1>3 DEF Goto, locals, slot, SlotAt
  <2>2. slot(p) \in Slot
    BY <2>1, WriterSlot DEF Writing
  <2>3. \A s \in Slot : addr[s] \in Chunk \/ addr'[s] \in Chunk => addr'[s] = addr[s]
    BY <1>1, <1>3, AddrAssumption
  <2>4. \A c \in Chunk : \A s \in Slot : addr'[s] = c <=> addr[s] = c
    BY <2>3
  <2>5. Holder' = Holder /\ Counting' = Counting /\ Claimer' = Claimer \cup {p} /\ p \notin Claimer
    BY <1>1, <2>1 DEF Holder, Counting, Claimer
  <2>6. Held' = Held
    BY <2>1, <2>5 DEF Held
  <2>7. Uncounted' = Uncounted /\ Taken' = Taken
    BY <1>3, <2>1, <2>5 DEF Uncounted, Counting, Taken
  <2>8. Live' = Live
    BY <2>4 DEF Live
  <2>9. \A q \in Claimer : slot(q) # slot(p)
    BY <1>3, AddrAssumption DEF HeapInv, ClaimInv
  <2>10. Abandoned' = Abandoned
    <3>1. Claimed' = Claimed \cup {slot(p)}
      BY <2>1, <2>5 DEF Claimed, Claimer
    <3>2. \A s \in Slot : addr'[s] = WRITE_IN_PROGRESS <=> s = slot(p) \/ addr[s] = WRITE_IN_PROGRESS
      BY <1>1, <1>3
    <3>3. addr[slot(p)] # WRITE_IN_PROGRESS
      BY <1>3, AddrAssumption
    <3> QED BY <2>2, <3>1, <3>2, <3>3 DEF Abandoned
  <2>11. ClaimInv'
    <3>1. ASSUME NEW q \in Claimer' PROVE addr'[slot(q)'] = WRITE_IN_PROGRESS
      <4>1. slot(q) \in Slot
        BY <2>1, <2>2, <2>5, WriterSlot DEF Claimer, Writing
      <4> QED BY <1>1, <1>3, <2>1, <2>2, <2>5, <4>1 DEF HeapInv, ClaimInv, Claimer
    <3>2. \A q, r \in Claimer' : slot(q)' = slot(r)' => q = r
      BY <2>1, <2>5, <2>9 DEF HeapInv, ClaimInv, Claimer
    <3> QED BY <3>1, <3>2 DEF ClaimInv
  <2>12. ChunkInv'
    <3>1. \A q \in Holder : chunk[q] \in Chunk
      BY DEF Holder, TableInv, LocalInv
    <3> QED BY <1>3, <2>1, <2>3, <2>4, <2>5, <3>1 DEF HeapInv, ChunkInv
  <2>13. WasteInv'
    BY <1>3, <2>6, <2>8, <2>10 DEF HeapInv, WasteInv
  <2>14. CountInv'
    BY <1>1, <1>3, <2>1, <2>5, <2>7 DEF HeapInv, CountInv, Counting, history
  <2>15. EmptyInv'
    BY <1>1, <1>3, <2>1, WriterSlot DEF HeapInv, EmptyInv, Writing
  <2> QED BY <1>3, <2>3, <2>8, <2>11, <2>12, <2>13, <2>14, <2>15 DEF HeapInv
<1> QED BY <1>2, <1>3 DEF WriteClaim

(***************************************************************************)
(* A writer gives up its slot: it is killed, or the heap is full.  What it *)
(* had allocated is lost, and so is the slot.                              *)
(***************************************************************************)
LEMMA Abandon ==
  ASSUME TableInv, HeapInv, NEW p \in Worker, NEW from, NEW to \in Raised, Leave(p, from, to),
         to # "assertion_failure", from \in Writing,
         UNCHANGED <<hash, addr, hcounter, memory, wasted>>,
         heap' \in Nat, heap <= heap',
         heap' <= heap + (IF from = "alloc" THEN 1 ELSE 0),
         deaths' \in Nat, deaths <= deaths', from = "count" => deaths' = deaths + 1
  PROVE  HeapInv'
<1> USE DEF Claiming
<1>1. /\ pc[p] = from /\ pc'[p] = to
      /\ \A q \in Worker \ {p} : pc'[q] = pc[q] /\ chunk'[q] = chunk[q] /\ slot(q)' = slot(q)
  BY LeaveLocals DEF slot, SlotAt
<1>2. to \notin Claiming \cup {"count"}
  BY DEF Raised
<1>3. slot(p) \in Slot /\ hash[slot(p)] # NoKey
  BY <1>1, WriterSlot
<1>4. Holder' = Holder \ {p} /\ Claimer' = Claimer \ {p} /\ Counting' = Counting \ {p}
  BY <1>1, <1>2 DEF Holder, Claimer, Counting
<1>5. /\ \A q \in Claimer' : slot(q)' = slot(q)
      /\ \A q \in Counting' : slot(q)' = slot(q)
      /\ \A q \in Holder' : chunk'[q] = chunk[q]
  BY <1>1, <1>4 DEF Holder, Claimer, Counting
<1>6. heap \in Nat /\ wasted \in Nat /\ hcounter \in Nat
  BY DEF TableInv, TypeOK
<1>7. Live' = Live /\ Taken' = Taken
  BY DEF Live, Taken
<1>8. ClaimInv'
  BY <1>4, <1>5 DEF HeapInv, ClaimInv
<1>9. ChunkInv'
  <2>1. \A c \in Chunk : c \in Nat
    BY DEF Chunk
  <2>2. \A q \in Holder : chunk[q] \in Chunk
    BY DEF Holder, TableInv, LocalInv
  <2>3. \A s \in Slot : addr'[s] \in Chunk => addr'[s] < heap'
    BY <1>6, <2>1 DEF HeapInv, ChunkInv
  <2>4. \A q \in Holder' : chunk'[q] < heap' /\ \A s \in Slot : addr'[s] # chunk'[q]
    BY <1>4, <1>5, <1>6, <2>1, <2>2 DEF HeapInv, ChunkInv
  <2> QED BY <1>4, <1>5, <2>3, <2>4 DEF HeapInv, ChunkInv
<1>10. CASE from \in Claiming
  <2>1. p \in Claimer /\ addr[slot(p)] = WRITE_IN_PROGRESS /\ Counting' = Counting
    BY <1>1, <1>4, <1>10 DEF Claimer, Counting, HeapInv, ClaimInv
  <2>2. Claimed' = Claimed \ {slot(p)} /\ slot(p) \in Claimed
    <3>1. \A q \in Claimer' : slot(q) # slot(p)
      BY <1>4, <2>1 DEF HeapInv, ClaimInv
    <3> QED BY <1>4, <1>5, <2>1, <3>1 DEF Claimed
  <2>3. Abandoned' = Abandoned \cup {slot(p)} /\ slot(p) \notin Abandoned
    BY <1>3, <2>1, <2>2 DEF Abandoned
  <2>4. Cardinality(Abandoned') = Cardinality(Abandoned) + 1
    BY <2>3, AbandonedFinite, FS_AddElement
  <2>5. Cardinality(Live \cup Held) - (IF from = "alloc" THEN 0 ELSE 1) = Cardinality(Live' \cup Held')
    <3>1. CASE from = "alloc"
      <4>1. Holder' = Holder
        BY <1>1, <1>4, <3>1 DEF Holder
      <4>2. Held' = Held
        BY <1>5, <4>1 DEF Held
      <4> QED BY <1>7, <3>1, <4>2, HeldFinite
    <3>2. CASE from # "alloc"
      <4>1. p \in Holder
        BY <1>1, <1>10, <3>2 DEF Holder
      <4>2. Held' = Held \ {chunk[p]} /\ chunk[p] \in Held
        <5>1. \A q \in Holder' : chunk[q] # chunk[p]
          BY <1>4, <4>1 DEF HeapInv, ChunkInv
        <5> QED BY <1>4, <1>5, <4>1, <5>1 DEF Held
      <4>3. chunk[p] \notin Live
        BY <4>1 DEF HeapInv, ChunkInv, Live
      <4>4. Live' \cup Held' = (Live \cup Held) \ {chunk[p]}
        BY <1>7, <4>2, <4>3
      <4>5. Cardinality((Live \cup Held) \ {chunk[p]}) = Cardinality(Live \cup Held) - 1
        BY <4>2, HeldFinite, FS_RemoveElement
      <4> QED BY <3>2, <4>4, <4>5
    <3> QED BY <3>1, <3>2
  <2>6. Cardinality(Live' \cup Held') \in Nat
    <3>1. IsFiniteSet(Live' \cup Held')
      <4>1. Held' \subseteq Held
        BY <1>4, <1>5 DEF Held
      <4>2. Live' \cup Held' \in SUBSET (Live \cup Held)
        BY <1>7, <4>1
      <4> QED BY <4>2, HeldFinite, FS_Subset
    <3> QED BY <3>1, FS_CardinalityType
  <2>7. WasteInv'
    BY <1>6, <2>4, <2>5, <2>6, HeldFinite, AbandonedFinite DEF HeapInv, WasteInv
  <2>8. CountInv'
    <3>1. Uncounted' = Uncounted
      BY <1>5, <2>1 DEF Uncounted
    <3>2. \A q \in Worker : pc'[q] # "assertion_failure"
      BY <1>1 DEF HeapInv, CountInv
    <3>3. \A q, r \in Counting' : slot(q)' = slot(r)' => q = r
      BY <1>5, <2>1 DEF HeapInv, CountInv
    <3>4. Cardinality(Taken \ Uncounted) \in Nat
      BY TakenFinite
    <3> QED BY <1>6, <1>7, <3>1, <3>2, <3>3, <3>4 DEF HeapInv, CountInv
  <2> QED BY <1>8, <1>9, <2>7, <2>8 DEF HeapInv, EmptyInv
<1>11. CASE from \notin Claiming
  <2>1. Holder' = Holder /\ Claimer' = Claimer /\ heap' = heap
    BY <1>1, <1>4, <1>6, <1>11 DEF Holder, Claimer
  <2>2. Held' = Held /\ Claimed' = Claimed
    BY <1>5, <2>1 DEF Held, Claimed
  <2>3. Abandoned' = Abandoned
    BY <2>2 DEF Abandoned
  <2>4. WasteInv'
    BY <1>7, <2>1, <2>2, <2>3 DEF HeapInv, WasteInv
  <2>5. \A q \in Worker : pc'[q] # "assertion_failure"
    BY <1>1 DEF HeapInv, CountInv
  <2>6. \A q, r \in Counting' : slot(q)' = slot(r)' => q = r
    BY <1>4, <1>5 DEF HeapInv, CountInv
  <2>7. Cardinality(Taken \ Uncounted) \in Nat
    BY TakenFinite
  <2>8. CASE from = "count"
    <3>1. p \in Counting /\ \A q \in Counting' : slot(q) # slot(p)
      BY <1>1, <1>4, <2>8 DEF Counting, HeapInv, CountInv
    <3>2. Uncounted' = Uncounted \ {slot(p)} /\ slot(p) \in Uncounted
      BY <1>4, <1>5, <3>1 DEF Uncounted
    <3>3. Taken' \ Uncounted' = (Taken \ Uncounted) \cup {slot(p)} /\ slot(p) \notin Taken \ Uncounted
      BY <1>3, <1>7, <3>2 DEF Taken
    <3>4. Cardinality(Taken' \ Uncounted') = Cardinality(Taken \ Uncounted) + 1
      BY <3>3, TakenFinite, FS_AddElement
    <3>5. CountInv'
      BY <1>6, <2>5, <2>6, <2>7, <2>8, <3>4 DEF HeapInv, CountInv
    <3> QED BY <1>8, <1>9, <2>4, <3>5 DEF HeapInv, EmptyInv
  <2>9. CASE from # "count"
    <3>1. Counting' = Counting
      BY <1>1, <1>4, <2>9 DEF Counting
    <3>2. Uncounted' = Uncounted
      BY <1>5, <3>1 DEF Uncounted
    <3>3. CountInv'
      BY <1>6, <1>7, <2>5, <2>6, <2>7, <3>2 DEF HeapInv, CountInv
    <3> QED BY <1>8, <1>9, <2>4, <3>3 DEF HeapInv, EmptyInv
  <2> QED BY <2>8, <2>9
<1> QED BY <1>10, <1>11

LEMMA DieHeapInv ==
  ASSUME TableInv, HeapInv, NEW p \in Worker, Die(p)
  PROVE  HeapInv' /\ UNCHANGED table
<1>1. PICK from \in {"grab", "count", "claim", "alloc", "copy", "publish"} : Leave(p, from, "dead")
  BY DEF Die
<1>2. UNCHANGED table /\ deaths' = deaths + 1 /\ deaths \in Nat
  BY DEF Die, HeapInv, CountInv
<1>3. heap \in Nat
  BY DEF TableInv, TypeOK
<1>4. CASE from \in Writing
  BY <1>1, <1>2, <1>3, <1>4, Abandon DEF table, Raised
<1>5. CASE from = "grab"
  <2>1. Others(p) /\ pc[p] = "grab" /\ pc'[p] = "dead"
    BY <1>1, <1>5, LeaveLocals DEF Others, Raised
  <2>2. Holder' = Holder /\ Claimer' = Claimer /\ Counting' = Counting
    BY <2>1 DEF Others, Holder, Claimer, Counting, Claiming
  <2>3. \A q \in Holder \cup Claimer \cup Counting : slot(q)' = slot(q) /\ chunk'[q] = chunk[q]
    BY <2>1 DEF Others, Holder, Claimer, Counting, Claiming, slot, SlotAt
  <2>4. Held' = Held /\ Claimed' = Claimed /\ Uncounted' = Uncounted
    BY <2>2, <2>3 DEF Held, Claimed, Uncounted
  <2>5. Live' = Live /\ Taken' = Taken /\ Abandoned' = Abandoned
    BY <1>2, <2>4 DEF Live, Taken, Abandoned, table
  <2>6. ClaimInv' /\ EmptyInv'
    BY <1>2, <2>2, <2>3 DEF HeapInv, ClaimInv, EmptyInv, table
  <2>7. ChunkInv'
    BY <1>2, <2>2, <2>3 DEF HeapInv, ChunkInv, table
  <2>8. WasteInv'
    BY <1>2, <2>4, <2>5 DEF HeapInv, WasteInv, table
  <2>9. CountInv'
    <3>1. \A q \in Worker : pc'[q] # "assertion_failure"
      BY <2>1 DEF Others, HeapInv, CountInv
    <3>2. Cardinality(Taken \ Uncounted) \in Nat /\ hcounter \in Nat
      BY TakenFinite DEF TableInv, TypeOK
    <3>3. \A q, r \in Counting' : slot(q)' = slot(r)' => q = r
      BY <2>2, <2>3 DEF HeapInv, CountInv
    <3> QED BY <1>2, <2>4, <2>5, <3>1, <3>2, <3>3 DEF HeapInv, CountInv, table
  <2> QED BY <1>2, <2>6, <2>7, <2>8, <2>9 DEF HeapInv
<1> QED BY <1>1, <1>4, <1>5 DEF Writing

LEMMA AllocHeapInv ==
  ASSUME TableInv, HeapInv, NEW p \in Worker, Alloc(p)
  PROVE  HeapInv' /\ UNCHANGED <<hash, addr, memory>>
<1> USE DEF Claiming
<1>1. /\ pc \in [Worker -> {"idle"} \cup Adding \cup Reading \cup Raised]
      /\ chunk \in [Worker -> Chunk \cup {0}]
      /\ addr \in [Slot -> Chunk \cup {NULL, WRITE_IN_PROGRESS}]
      /\ heap \in Nat /\ wasted \in Nat
  BY DEF TableInv, TypeOK
<1>2. heap' = heap + 1 /\ UNCHANGED <<hash, addr, hcounter, memory, wasted, deaths>>
  BY DEF Alloc, history
<1>3. CASE Leave(p, "alloc", "heap_full")
  <2>1. deaths \in Nat
    BY DEF HeapInv, CountInv
  <2> QED BY <1>1, <1>2, <1>3, <2>1, Abandon DEF Writing, Raised
<1>4. CASE /\ heap < HeapSize /\ Goto(p, "alloc", "copy") /\ chunk' = [chunk EXCEPT ![p] = heap]
           /\ UNCHANGED <<key, probe, datum>>
  <2>1. heap \in Chunk
    BY <1>1, <1>4, SizeAssumption DEF Chunk
  <2>2. \A q \in Worker : slot(q)' = slot(q)
    BY <1>4 DEF slot, SlotAt
  <2>3. /\ Holder' = Holder \cup {p} /\ p \notin Holder
        /\ Counting' = Counting /\ Claimer' = Claimer
    BY <1>1, <1>4 DEF Goto, Holder, Counting, Claimer
  <2>4. chunk'[p] = heap /\ \A q \in Holder : chunk'[q] = chunk[q]
    BY <1>1, <1>4, <2>3 DEF Holder
  <2>5. /\ \A s \in Slot : addr[s] \in Chunk => addr[s] < heap
        /\ \A q \in Holder : chunk[q] \in Chunk /\ chunk[q] < heap
    BY DEF HeapInv, ChunkInv, TableInv, LocalInv, Holder
  <2>6. \A c \in Chunk : c \in Nat
    BY DEF Chunk
  <2>7. Held' = Held \cup {heap}
    BY <2>3, <2>4 DEF Held
  <2>8. heap \notin Live \cup Held
    BY <1>1, <2>1, <2>5, <2>6 DEF Live, Held
  <2>9. Uncounted' = Uncounted /\ Taken' = Taken /\ Live' = Live /\ Claimed' = Claimed
    BY <1>2, <2>2, <2>3 DEF Uncounted, Counting, Taken, Live, Claimed, Claimer
  <2>10. Abandoned' = Abandoned
    BY <1>2, <2>9 DEF Abandoned
  <2>11. Cardinality(Live' \cup Held') = Cardinality(Live \cup Held) + 1
    <3>1. Live' \cup Held' = (Live \cup Held) \cup {heap}
      BY <2>7, <2>9
    <3> QED BY <2>8, <3>1, HeldFinite, FS_AddElement
  <2>12. WasteInv'
    BY <1>1, <1>2, <2>10, <2>11, HeldFinite, AbandonedFinite DEF HeapInv, WasteInv
  <2>13. ClaimInv'
    BY <1>2, <2>2, <2>3 DEF HeapInv, ClaimInv, Claimer
  <2>14. CountInv'
    <3>1. \A q \in Worker : pc'[q] # "assertion_failure"
      BY <1>1, <1>4 DEF Goto, HeapInv, CountInv
    <3>2. \A q, r \in Counting' : slot(q)' = slot(r)' => q = r
      BY <2>2, <2>3 DEF HeapInv, CountInv, Counting
    <3> QED BY <1>2, <2>9, <3>1, <3>2 DEF HeapInv, CountInv
  <2>15. ChunkInv'
    <3>1. \A s \in Slot : addr'[s] \in Chunk => addr'[s] < heap'
      BY <1>1, <1>2, <2>5, <2>6
    <3>2. ASSUME NEW q \in Holder' PROVE chunk'[q] < heap' /\ \A s \in Slot : addr'[s] # chunk'[q]
      <4>1. CASE q = p
        <5>1. \A s \in Slot : addr[s] # heap
          BY <1>1, <2>1, <2>5
        <5> QED BY <1>1, <1>2, <2>4, <4>1, <5>1
      <4>2. CASE q # p
        BY <1>1, <1>2, <2>3, <2>4, <2>5, <2>6, <4>2 DEF HeapInv, ChunkInv
      <4> QED BY <4>1, <4>2
    <3>3. \A q, r \in Holder' : chunk'[q] = chunk'[r] => q = r
      <4>1. \A q \in Holder : chunk[q] # heap
        BY <1>1, <2>5, <2>6
      <4> QED BY <2>3, <2>4, <4>1 DEF HeapInv, ChunkInv
    <3> QED BY <1>2, <3>1, <3>2, <3>3 DEF HeapInv, ChunkInv
  <2> QED BY <1>2, <2>12, <2>13, <2>14, <2>15 DEF HeapInv, EmptyInv
<1> QED BY <1>2, <1>3, <1>4 DEF Alloc

LEMMA CopyHeapInv ==
  ASSUME TableInv, HeapInv, NEW p \in Worker, Copy(p)
  PROVE  HeapInv' /\ UNCHANGED <<hash, addr>> /\ \A c \in Live : memory'[c] = memory[c]
<1> USE DEF Claiming
<1>1. /\ pc \in [Worker -> {"idle"} \cup Adding \cup Reading \cup Raised]
      /\ memory \in [Chunk -> Data \cup {Garbage}]
  BY DEF TableInv, TypeOK
<1>2. /\ pc[p] = "copy" /\ pc' = [pc EXCEPT ![p] = "publish"]
      /\ memory' = [memory EXCEPT ![chunk[p]] = datum[p]]
      /\ UNCHANGED <<hash, addr, hcounter, heap, wasted, key, probe, chunk, deaths>>
  BY DEF Copy, Goto, locals, history
<1>3. \A q \in Worker : slot(q)' = slot(q)
  BY <1>2 DEF slot, SlotAt
<1>4. p \in Holder /\ Holder' = Holder /\ Counting' = Counting /\ Claimer' = Claimer
  BY <1>1, <1>2 DEF Holder, Counting, Claimer
<1>5. Held' = Held /\ Uncounted' = Uncounted /\ Taken' = Taken /\ Live' = Live /\ Claimed' = Claimed
  BY <1>2, <1>3, <1>4 DEF Held, Uncounted, Counting, Taken, Live, Claimed, Claimer
<1>6. ClaimInv'
  BY <1>2, <1>3, <1>4 DEF HeapInv, ClaimInv, Claimer
<1>7. ChunkInv'
  BY <1>2, <1>4 DEF HeapInv, ChunkInv
<1>8. WasteInv'
  <2>1. Abandoned' = Abandoned
    BY <1>2, <1>5 DEF Abandoned
  <2> QED BY <1>2, <1>5, <2>1 DEF HeapInv, WasteInv
<1>9. CountInv'
  BY <1>1, <1>2, <1>3, <1>4, <1>5 DEF HeapInv, CountInv, Counting
<1>10. \A c \in Live : c # chunk[p]
  BY <1>4 DEF HeapInv, ChunkInv, Live
<1>11. \A c \in Live : memory'[c] = memory[c]
  BY <1>1, <1>2, <1>10 DEF Live
<1> QED BY <1>2, <1>6, <1>7, <1>8, <1>9, <1>11 DEF HeapInv, EmptyInv

LEMMA PublishHeapInv ==
  ASSUME TableInv, HeapInv, NEW p \in Worker, Publish(p)
  PROVE  HeapInv'
<1> USE DEF Claiming
<1>1. /\ pc \in [Worker -> {"idle"} \cup Adding \cup Reading \cup Raised]
      /\ addr \in [Slot -> Chunk \cup {NULL, WRITE_IN_PROGRESS}]
  BY DEF TableInv, TypeOK
<1>2. /\ pc[p] = "publish" /\ Leave(p, "publish", "idle")
      /\ addr' = [addr EXCEPT ![slot(p)] = chunk[p]]
      /\ UNCHANGED <<hash, hcounter, heap, memory, wasted, deaths>>
  BY DEF Publish, Return, Leave, Goto
<1>3. /\ pc'[p] = "idle"
      /\ \A q \in Worker \ {p} : pc'[q] = pc[q] /\ chunk'[q] = chunk[q] /\ slot(q)' = slot(q)
  BY <1>2, LeaveLocals DEF slot, SlotAt
<1>4. p \in Holder /\ p \in Claimer
  BY <1>2 DEF Holder, Claimer
<1>5. slot(p) \in Slot /\ chunk[p] \in Chunk /\ addr[slot(p)] = WRITE_IN_PROGRESS
  BY <1>2, <1>4, WriterSlot DEF Writing, TableInv, LocalInv, HeapInv, ClaimInv
<1>6. Holder' = Holder \ {p} /\ Counting' = Counting /\ Claimer' = Claimer \ {p}
  BY <1>2, <1>3 DEF Holder, Counting, Claimer
<1>7. /\ \A q \in Holder' : chunk'[q] = chunk[q] /\ chunk[q] # chunk[p]
      /\ \A q \in Claimer' : slot(q)' = slot(q) /\ slot(q) # slot(p)
      /\ \A q \in Counting' : slot(q)' = slot(q)
  <2>1. \A q \in Holder' : chunk'[q] = chunk[q] /\ chunk[q] # chunk[p]
    BY <1>3, <1>4, <1>6 DEF Holder, HeapInv, ChunkInv
  <2>2. \A q \in Claimer' : slot(q)' = slot(q) /\ slot(q) # slot(p)
    BY <1>3, <1>4, <1>6 DEF Claimer, HeapInv, ClaimInv
  <2>3. \A q \in Counting' : slot(q)' = slot(q)
    BY <1>2, <1>3, <1>6 DEF Counting
  <2> QED BY <2>1, <2>2, <2>3
<1>8. Held = Held' \cup {chunk[p]}
  BY <1>4, <1>6, <1>7 DEF Held
<1>9. \A s \in Slot : addr'[s] = IF s = slot(p) THEN chunk[p] ELSE addr[s]
  BY <1>1, <1>2
<1>10. Live' = Live \cup {chunk[p]}
  <2>1. addr[slot(p)] \notin Chunk
    BY <1>5, AddrAssumption
  <2>2. \A c \in Chunk : (\E s \in Slot : addr'[s] = c) <=> c = chunk[p] \/ \E s \in Slot : addr[s] = c
    BY <1>5, <1>9, <2>1
  <2> QED BY <1>5, <2>2 DEF Live
<1>11. Live' \cup Held' = Live \cup Held
  BY <1>8, <1>10
<1>12. Abandoned' = Abandoned
  <2>1. Claimed' = Claimed \ {slot(p)} /\ slot(p) \in Claimed
    BY <1>4, <1>6, <1>7 DEF Claimed
  <2>2. \A s \in Slot : addr'[s] = WRITE_IN_PROGRESS <=> s # slot(p) /\ addr[s] = WRITE_IN_PROGRESS
    BY <1>5, <1>9, AddrAssumption
  <2> QED BY <2>1, <2>2 DEF Abandoned
<1>13. Uncounted' = Uncounted /\ Taken' = Taken
  BY <1>2, <1>6, <1>7 DEF Uncounted, Taken
<1>14. ClaimInv'
  <2>1. \A q \in Claimer' : addr'[slot(q)'] = WRITE_IN_PROGRESS
    <3> SUFFICES ASSUME NEW q \in Claimer' PROVE addr'[slot(q)'] = WRITE_IN_PROGRESS
      OBVIOUS
    <3>1. slot(q) \in Slot /\ addr[slot(q)] = WRITE_IN_PROGRESS
      BY <1>6, WriterSlot DEF Claimer, Writing, HeapInv, ClaimInv
    <3> QED BY <1>7, <1>9, <3>1
  <2>2. \A q, r \in Claimer' : slot(q)' = slot(r)' => q = r
    BY <1>6, <1>7 DEF HeapInv, ClaimInv
  <2> QED BY <2>1, <2>2 DEF ClaimInv
<1>15. ChunkInv'
  <2>1. chunk[p] < heap /\ \A s \in Slot : addr[s] # chunk[p]
    BY <1>4 DEF HeapInv, ChunkInv
  <2>2. \A s \in Slot : addr'[s] \in Chunk => addr'[s] < heap'
    BY <1>2, <1>9, <2>1 DEF HeapInv, ChunkInv
  <2>3. \A s, t \in Slot : addr'[s] = addr'[t] /\ addr'[s] \in Chunk => s = t
    BY <1>5, <1>9, <2>1 DEF HeapInv, ChunkInv
  <2>4. \A q \in Holder' : chunk'[q] < heap' /\ \A s \in Slot : addr'[s] # chunk'[q]
    BY <1>2, <1>6, <1>7, <1>9 DEF HeapInv, ChunkInv
  <2>5. \A q, r \in Holder' : chunk'[q] = chunk'[r] => q = r
    BY <1>6, <1>7 DEF HeapInv, ChunkInv
  <2> QED BY <2>2, <2>3, <2>4, <2>5 DEF ChunkInv
<1>16. WasteInv'
  BY <1>2, <1>11, <1>12 DEF HeapInv, WasteInv
<1>17. CountInv'
  <2>1. \A q \in Worker : pc'[q] # "assertion_failure"
    BY <1>3 DEF HeapInv, CountInv
  <2>2. \A q, r \in Counting' : slot(q)' = slot(r)' => q = r
    BY <1>6, <1>7 DEF HeapInv, CountInv
  <2> QED BY <1>2, <1>13, <2>1, <2>2 DEF HeapInv, CountInv
<1>18. EmptyInv'
  BY <1>1, <1>2, WriterSlot DEF HeapInv, EmptyInv, Writing
<1> QED BY <1>14, <1>15, <1>16, <1>17, <1>18 DEF HeapInv

(***************************************************************************)
(* The operations of the master: no worker owns anything.                  *)
(***************************************************************************)
LEMMA MasterOwnsAll ==
  ASSUME Quiescent
  PROVE  /\ Holder = {} /\ Held = {} /\ Counting = {} /\ Uncounted = {} /\ Claimer = {}
         /\ Abandoned = {s \in Slot : addr[s] = WRITE_IN_PROGRESS}
         /\ Live \cup Held = Live /\ Taken \ Uncounted = Taken
<1>1. \A p \in Worker : pc[p] \notin Claiming \cup {"count"}
  BY DEF Quiescent, Claiming, Raised
<1>2. Holder = {} /\ Counting = {} /\ Claimer = {}
  BY <1>1 DEF Holder, Counting, Claiming, Claimer
<1>3. Held = {} /\ Uncounted = {} /\ Claimed = {}
  BY <1>2 DEF Held, Uncounted, Claimed
<1> QED BY <1>2, <1>3 DEF Abandoned

LEMMA MasterOwnsAllNext ==
  ASSUME Quiescent'
  PROVE  /\ Holder' = {} /\ Counting' = {} /\ Claimer' = {}
         /\ Abandoned' = {s \in Slot : addr'[s] = WRITE_IN_PROGRESS}
         /\ Live' \cup Held' = Live' /\ Taken' \ Uncounted' = Taken'
<1>1. \A p \in Worker : pc'[p] \notin Claiming \cup {"count"}
  BY DEF Quiescent, Claiming, Raised
<1>2. Holder' = {} /\ Counting' = {} /\ Claimer' = {}
  BY <1>1 DEF Holder, Counting, Claiming, Claimer
<1>3. Held' = {} /\ Uncounted' = {} /\ Claimed' = {}
  BY <1>2 DEF Held, Uncounted, Claimed
<1> QED BY <1>2, <1>3 DEF Abandoned

LEMMA MasterHeapInv ==
  ASSUME Quiescent', deaths' \in Nat,
         \A p \in Worker : pc'[p] # "assertion_failure",
         \A s \in Slot : addr'[s] \in Chunk => addr'[s] < heap',
         \A s, t \in Slot : addr'[s] = addr'[t] /\ addr'[s] \in Chunk => s = t,
         ~ SavedState =>
           /\ Cardinality(Live') + wasted' <= heap'
           /\ heap' <= Cardinality(Live') + wasted' + Cardinality(Abandoned'),
         hcounter' <= Cardinality(Taken'),
         ~ SavedState => Cardinality(Taken') <= hcounter' + deaths',
         EmptyInv'
  PROVE  HeapInv'
<1>1. ClaimInv'
  BY MasterOwnsAllNext DEF ClaimInv
<1>2. ChunkInv'
  BY MasterOwnsAllNext DEF ChunkInv
<1>3. WasteInv'
  BY MasterOwnsAllNext DEF WasteInv
<1>4. CountInv'
  BY MasterOwnsAllNext DEF CountInv
<1> QED BY <1>1, <1>2, <1>3, <1>4 DEF HeapInv

(* The master's step leaves the workers where they are. *)
LEMMA MasterIdle ==
  ASSUME HeapInv, Quiescent, masterUnchanged
  PROVE  Quiescent' /\ deaths' = deaths /\ deaths' \in Nat
         /\ \A p \in Worker : pc'[p] # "assertion_failure"
BY MasterQuiet DEF masterUnchanged, HeapInv, CountInv

(* What the counters are between two operations of the master. *)
LEMMA MasterCounts ==
  ASSUME TableInv, HeapInv, Quiescent
  PROVE  /\ ~ SavedState =>
              /\ Cardinality(Live) + wasted <= heap
              /\ heap <= Cardinality(Live) + wasted + Cardinality(Abandoned)
         /\ hcounter <= Cardinality(Taken)
         /\ ~ SavedState => Cardinality(Taken) <= hcounter + deaths
         /\ IsFiniteSet(Live) /\ Cardinality(Live) \in Nat
         /\ IsFiniteSet(Taken) /\ Cardinality(Taken) \in Nat
<1>1. Live \cup Held = Live /\ Taken \ Uncounted = Taken
  BY MasterOwnsAll
<1>2. IsFiniteSet(Live) /\ Cardinality(Live) \in Nat
  BY <1>1, HeldFinite
<1>3. IsFiniteSet(Taken) /\ Cardinality(Taken) \in Nat
  BY <1>1, TakenFinite
<1> QED BY <1>1, <1>2, <1>3 DEF HeapInv, WasteInv, CountInv

LEMMA RemoveHeapInv ==
  ASSUME NEW k \in Key, NEW s \in Slot, TableInv, HeapInv, hh_remove(k, s)
  PROVE  HeapInv'
<1>1. /\ hash[s] = k /\ addr[s] # NULL /\ addr[s] # WRITE_IN_PROGRESS
      /\ addr' = [addr EXCEPT ![s] = NULL] /\ wasted' = wasted + 1
      /\ UNCHANGED <<hash, hcounter, heap, memory>>
      /\ Quiescent /\ masterUnchanged
  BY DEF hh_remove, Readable, Present, Status
<1>2. /\ addr \in [Slot -> Chunk \cup {NULL, WRITE_IN_PROGRESS}]
      /\ heap \in Nat /\ wasted \in Nat
  BY DEF TableInv, TypeOK
<1>3. addr[s] \in Chunk
  BY <1>1, <1>2
<1>4. \A t \in Slot : addr'[t] = IF t = s THEN NULL ELSE addr[t]
  BY <1>1, <1>2
<1>5. Live' = Live \ {addr[s]} /\ addr[s] \in Live
  <2>1. \A c \in Chunk : (\E t \in Slot : addr'[t] = c) <=> c # addr[s] /\ \E t \in Slot : addr[t] = c
    BY <1>3, <1>4, AddrAssumption DEF HeapInv, ChunkInv
  <2> QED BY <1>3, <2>1 DEF Live
<1>6. Taken' = Taken
  BY <1>1 DEF Taken
<1>7. Quiescent' /\ deaths' = deaths /\ deaths' \in Nat /\ \A p \in Worker : pc'[p] # "assertion_failure"
  BY <1>1, MasterIdle
<1>8. Abandoned' = Abandoned
  <2>1. \A t \in Slot : addr'[t] = WRITE_IN_PROGRESS <=> addr[t] = WRITE_IN_PROGRESS
    BY <1>1, <1>4, AddrAssumption
  <2> QED BY <1>1, <1>7, <2>1, MasterOwnsAll, MasterOwnsAllNext
<1>9. Cardinality(Live') = Cardinality(Live) - 1
  BY <1>1, <1>5, MasterCounts, FS_RemoveElement
<1>10. ~ SavedState => /\ Cardinality(Live') + wasted' <= heap'
                       /\ heap' <= Cardinality(Live') + wasted' + Cardinality(Abandoned')
  BY <1>1, <1>2, <1>8, <1>9, MasterCounts, AbandonedFinite
<1>11. /\ \A t \in Slot : addr'[t] \in Chunk => addr'[t] < heap'
       /\ \A t, u \in Slot : addr'[t] = addr'[u] /\ addr'[t] \in Chunk => t = u
  BY <1>1, <1>4, AddrAssumption DEF HeapInv, ChunkInv
<1>12. hcounter' <= Cardinality(Taken') /\ (~ SavedState => Cardinality(Taken') <= hcounter' + deaths')
  BY <1>1, <1>6, <1>7, MasterCounts
<1>13. EmptyInv'
  BY <1>1, <1>2 DEF HeapInv, EmptyInv
<1> QED BY <1>7, <1>10, <1>11, <1>12, <1>13, MasterHeapInv

LEMMA MoveHeapInv ==
  ASSUME NEW k1 \in Key, NEW k2 \in Key, NEW s1 \in Slot, NEW s2 \in Slot, k1 # k2,
         TableInv, HeapInv, hh_move(k1, s1, k2, s2)
  PROVE  HeapInv'
<1>1. /\ hash[s1] = k1 /\ addr[s1] # NULL /\ addr[s1] # WRITE_IN_PROGRESS
      /\ hash[s2] \in {k2, NoKey} /\ Status(s2, k2) # "present"
      /\ hcounter' = IF hash[s2] = NoKey THEN hcounter + 1 ELSE hcounter
      /\ hash' = [hash EXCEPT ![s2] = k2]
      /\ addr' = [addr EXCEPT ![s2] = addr[s1], ![s1] = NULL]
      /\ UNCHANGED <<heap, memory, wasted>>
      /\ Quiescent /\ masterUnchanged
  BY DEF hh_move, Readable, Present, Status, find_slot
<1>2. s1 # s2
  BY <1>1, KeyAssumption
<1>3. /\ addr \in [Slot -> Chunk \cup {NULL, WRITE_IN_PROGRESS}]
      /\ hash \in [Slot -> Key \cup {NoKey}] /\ hcounter \in Nat
  BY DEF TableInv, TypeOK
<1>4. \A t \in Slot : addr'[t] = IF t = s1 THEN NULL ELSE IF t = s2 THEN addr[s1] ELSE addr[t]
  BY <1>1, <1>2, <1>3
<1>5. addr[s1] \in Chunk
  BY <1>1, <1>3
<1>6. addr[s2] = NULL
  BY <1>1, KeyAssumption DEF HeapInv, EmptyInv, Status
<1>7. Live' = Live
  <2>1. \A c \in Chunk : (\E t \in Slot : addr'[t] = c) <=> \E t \in Slot : addr[t] = c
    BY <1>2, <1>4, <1>6, AddrAssumption
  <2> QED BY <2>1 DEF Live
<1>8. Quiescent' /\ deaths' = deaths /\ deaths' \in Nat /\ \A p \in Worker : pc'[p] # "assertion_failure"
  BY <1>1, MasterIdle
<1>9. Abandoned' = Abandoned
  <2>1. \A t \in Slot : addr'[t] = WRITE_IN_PROGRESS <=> addr[t] = WRITE_IN_PROGRESS
    BY <1>1, <1>4, <1>6, AddrAssumption
  <2> QED BY <1>1, <1>8, <2>1, MasterOwnsAll, MasterOwnsAllNext
<1>10. \A t \in Slot : addr'[t] \in Chunk => addr'[t] < heap'
  <2>1. heap' = heap /\ \A t \in Slot : addr[t] \in Chunk => addr[t] < heap
    BY <1>1 DEF HeapInv, ChunkInv
  <2> QED BY <1>4, <1>5, <2>1, AddrAssumption
<1>11. \A t, u \in Slot : addr'[t] = addr'[u] /\ addr'[t] \in Chunk => t = u
  BY <1>4, AddrAssumption DEF HeapInv, ChunkInv
<1>12. ~ SavedState => /\ Cardinality(Live') + wasted' <= heap'
                       /\ heap' <= Cardinality(Live') + wasted' + Cardinality(Abandoned')
  BY <1>1, <1>7, <1>9, MasterCounts
<1>13. EmptyInv'
  BY <1>1, <1>2, <1>3, <1>4, KeyAssumption DEF HeapInv, EmptyInv
<1>14. Cardinality(Taken') = IF hash[s2] = NoKey THEN Cardinality(Taken) + 1 ELSE Cardinality(Taken)
  <2>1. Taken' = Taken \cup {s2} /\ (s2 \in Taken <=> hash[s2] # NoKey)
    BY <1>1, <1>3, KeyAssumption DEF Taken
  <2> QED BY <1>1, <2>1, MasterCounts, FS_AddElement
<1>15. hcounter' <= Cardinality(Taken') /\ (~ SavedState => Cardinality(Taken') <= hcounter' + deaths')
  BY <1>1, <1>3, <1>8, <1>14, MasterCounts
<1> QED BY <1>8, <1>10, <1>11, <1>12, <1>13, <1>15, MasterHeapInv

(***************************************************************************)
(* The compaction keeps the values apart and in their order: the new place *)
(* of a value is the number of the values before it.                       *)
(***************************************************************************)
LEMMA RelocatedOrder ==
  /\ \A c, d \in Live : c < d => Relocated(c) < Relocated(d)
  /\ \A c, d \in Live : Relocated(c) = Relocated(d) => c = d
  /\ \A c \in Live : Relocated(c) \in Nat /\ Relocated(c) < Cardinality(Live)
<1> DEFINE Before(c) == {d \in Live : d < c}
<1>1. IsFiniteSet(Live) /\ Live \subseteq Chunk /\ Cardinality(Live) \in Nat
  <2>1. IsFiniteSet(Chunk)
    BY SizeAssumption, FS_Interval DEF Chunk
  <2>2. Live \subseteq Chunk
    BY DEF Live
  <2> QED BY <2>1, <2>2, FS_Subset, LiveFinite
<1>2. \A c \in Live : c \in Nat
  BY <1>1 DEF Chunk
<1>3. \A c \in Live : IsFiniteSet(Before(c)) /\ Cardinality(Before(c)) \in Nat
  <2> SUFFICES ASSUME NEW c \in Live PROVE IsFiniteSet(Before(c)) /\ Cardinality(Before(c)) \in Nat
    OBVIOUS
  <2>1. Before(c) \in SUBSET Live
    OBVIOUS
  <2> QED BY <1>1, <2>1, FS_Subset, FS_CardinalityType
<1>4. ASSUME NEW c \in Live, NEW d \in Live, c < d
      PROVE  Cardinality(Before(c)) < Cardinality(Before(d))
  <2>1. Before(c) \in SUBSET Before(d)
    BY <1>2, <1>4
  <2>2. c \in Before(d) /\ c \notin Before(c)
    BY <1>2, <1>4
  <2>3. Before(c) # Before(d)
    BY <2>2
  <2> HIDE DEF Before
  <2>4. /\ Cardinality(Before(c)) <= Cardinality(Before(d))
        /\ Cardinality(Before(d)) # Cardinality(Before(c))
    BY <1>3, <2>1, <2>3, FS_Subset
  <2> QED BY <1>3, <2>4
<1>5. ASSUME NEW c \in Live PROVE Cardinality(Before(c)) < Cardinality(Live)
  <2>1. Before(c) \in SUBSET Live
    OBVIOUS
  <2>2. Before(c) # Live
    BY <1>2
  <2> HIDE DEF Before
  <2>3. /\ Cardinality(Before(c)) <= Cardinality(Live)
        /\ Cardinality(Live) # Cardinality(Before(c))
    BY <1>1, <2>1, <2>2, FS_Subset
  <2> QED BY <1>1, <1>3, <2>3
<1>6. \A c \in Live : Relocated(c) = Cardinality(Before(c))
  BY DEF Relocated
<1> HIDE DEF Before
<1>7. \A c, d \in Live : c < d => Relocated(c) < Relocated(d)
  BY <1>4, <1>6
<1>8. \A c, d \in Live : Relocated(c) = Relocated(d) => c = d
  BY <1>2, <1>3, <1>4, <1>6
<1> QED BY <1>3, <1>5, <1>6, <1>7, <1>8

LEMMA CollectHeapInv ==
  ASSUME TableInv, HeapInv, hh_collect
  PROVE  HeapInv'
<1>1. /\ addr' = [s \in Slot |-> IF addr[s] \in Chunk THEN Relocated(addr[s]) ELSE addr[s]]
      /\ heap' = Cardinality(Live) /\ wasted' = 0
      /\ UNCHANGED <<hash, hcounter>>
      /\ Quiescent /\ masterUnchanged
  BY DEF hh_collect
<1>2. \A s \in Slot : addr[s] \in Chunk => addr[s] \in Live
  BY DEF Live
<1>3. \A s \in Slot : addr'[s] \in Chunk <=> addr[s] \in Chunk
  BY <1>1, RelocatedInHeap
<1>4. \A s \in Slot : addr'[s] \in Chunk => addr'[s] < heap'
  BY <1>1, <1>2, <1>3, RelocatedOrder
<1>5. \A s, t \in Slot : addr'[s] = addr'[t] /\ addr'[s] \in Chunk => s = t
  <2> SUFFICES ASSUME NEW s \in Slot, NEW t \in Slot, addr'[s] = addr'[t], addr'[s] \in Chunk
               PROVE  s = t
    OBVIOUS
  <2>1. addr[s] \in Chunk /\ addr[t] \in Chunk
    BY <1>3
  <2>2. Relocated(addr[s]) = Relocated(addr[t])
    BY <1>1, <2>1
  <2>3. addr[s] = addr[t]
    BY <1>2, <2>1, <2>2, RelocatedOrder
  <2> QED BY <2>1, <2>3 DEF HeapInv, ChunkInv
<1>6. Cardinality(Live') = Cardinality(Live)
  <2> DEFINE f == [c \in Live |-> Relocated(c)]
  <2>1. Live' = {Relocated(c) : c \in Live}
    <3>1. \A c \in Live' : \E d \in Live : c = Relocated(d)
      BY <1>1, <1>2, <1>3 DEF Live
    <3>2. ASSUME NEW d \in Live PROVE Relocated(d) \in Live'
      <4>1. PICK s \in Slot : addr[s] = d /\ d \in Chunk
        BY DEF Live
      <4>2. addr'[s] = Relocated(d) /\ addr'[s] \in Chunk
        BY <1>1, <4>1, RelocatedInHeap
      <4> QED BY <4>2 DEF Live
    <3> QED BY <3>1, <3>2
  <2>2. f \in Bijection(Live, Live')
    <3>1. f \in [Live -> Live']
      BY <2>1
    <3>2. \A c, d \in Live : f[c] = f[d] => c = d
      BY RelocatedOrder
    <3>3. \A c \in Live' : \E d \in Live : f[d] = c
      BY <2>1
    <3> HIDE DEF f
    <3> QED BY <3>1, <3>2, <3>3 DEF Bijection, Injection, Surjection, IsInjective
  <2>3. ExistsBijection(Live, Live')
    BY <2>2 DEF ExistsBijection
  <2> QED BY <1>1, <2>3, MasterCounts, FS_Bijection
<1>7. Quiescent' /\ deaths' = deaths /\ deaths' \in Nat /\ \A p \in Worker : pc'[p] # "assertion_failure"
  BY <1>1, MasterIdle
<1>8. Cardinality(Abandoned') \in Nat
  <2>1. Abandoned' \in SUBSET Slot
    BY DEF Abandoned
  <2> QED BY <2>1, TakenFinite, FS_Subset, FS_CardinalityType
<1>9. /\ Cardinality(Live') + wasted' <= heap'
      /\ heap' <= Cardinality(Live') + wasted' + Cardinality(Abandoned')
  BY <1>1, <1>6, <1>8, LiveFinite
<1>10. Taken' = Taken
  BY <1>1 DEF Taken
<1>11. hcounter' <= Cardinality(Taken') /\ (~ SavedState => Cardinality(Taken') <= hcounter' + deaths')
  BY <1>1, <1>7, <1>10, MasterCounts
<1>12. EmptyInv'
  BY <1>1, AddrAssumption DEF HeapInv, EmptyInv
<1> QED BY <1>4, <1>5, <1>7, <1>9, <1>11, <1>12, MasterHeapInv

LEMMA ResetHeapInv ==
  ASSUME TableInv, HeapInv, pyre_reset
  PROVE  HeapInv'
<1>1. /\ \A s \in Slot : hash'[s] = NoKey /\ addr'[s] = NULL
      /\ hcounter' = 0 /\ heap' = 0 /\ wasted' = 0
      /\ Quiescent /\ masterUnchanged
  BY DEF pyre_reset
<1>2. Live' = {} /\ Taken' = {}
  BY <1>1, AddrAssumption DEF Live, Taken
<1>3. Quiescent' /\ deaths' = deaths /\ deaths' \in Nat /\ \A p \in Worker : pc'[p] # "assertion_failure"
  BY <1>1, MasterIdle
<1>4. Abandoned' = {}
  BY <1>1, <1>3, AddrAssumption, MasterOwnsAllNext
<1>5. Cardinality(Live') = 0 /\ Cardinality(Taken') = 0 /\ Cardinality(Abandoned') = 0
  BY <1>2, <1>4, FS_EmptySet
<1>6. EmptyInv'
  BY <1>1 DEF EmptyInv
<1> QED BY <1>1, <1>3, <1>5, <1>6, AddrAssumption, MasterHeapInv

LEMMA LoadHeapInv ==
  ASSUME TableInv, HeapInv, SaveAndLoad
  PROVE  HeapInv'
<1>1. /\ SavedState /\ hcounter' = 0
      /\ UNCHANGED <<hash, addr, heap, memory, deaths>>
      /\ Quiescent /\ pc' = [p \in Worker |-> "idle"]
  BY DEF SaveAndLoad, history
<1>2. Taken' = Taken
  BY <1>1 DEF Taken
<1>3. hcounter' <= Cardinality(Taken')
  BY <1>1, <1>2, MasterCounts
<1>4. EmptyInv'
  BY <1>1 DEF HeapInv, EmptyInv
<1>5. Quiescent' /\ deaths' \in Nat /\ \A p \in Worker : pc'[p] # "assertion_failure"
  BY <1>1 DEF Quiescent, HeapInv, CountInv
<1>6. /\ \A s \in Slot : addr'[s] \in Chunk => addr'[s] < heap'
      /\ \A s, t \in Slot : addr'[s] = addr'[t] /\ addr'[s] \in Chunk => s = t
  BY <1>1 DEF HeapInv, ChunkInv
<1> QED BY <1>1, <1>3, <1>4, <1>5, <1>6, MasterHeapInv

(* No variable of the invariant changes. *)
LEMMA StutterHeapInv ==
  ASSUME HeapInv, UNCHANGED <<table, pc, locals, deaths>> PROVE HeapInv'
<1>1. UNCHANGED <<hash, addr, hcounter, heap, memory, wasted, pc, key, probe, chunk, deaths>>
  BY DEF table, locals
<1>2. Claimer' = Claimer /\ Holder' = Holder /\ Counting' = Counting
  BY <1>1 DEF Claimer, Holder, Counting
<1>3. \A p \in Worker : slot(p)' = slot(p)
  BY <1>1 DEF slot, SlotAt
<1>4. Live' = Live /\ Held' = Held /\ Taken' = Taken /\ Uncounted' = Uncounted /\ Claimed' = Claimed
  BY <1>1, <1>2, <1>3 DEF Live, Held, Taken, Uncounted, Claimed, Claimer, Counting
<1>5. Abandoned' = Abandoned
  BY <1>1, <1>4 DEF Abandoned
<1>6. ClaimInv' /\ EmptyInv'
  BY <1>1, <1>2, <1>3 DEF HeapInv, ClaimInv, EmptyInv, Claimer
<1>7. ChunkInv'
  BY <1>1, <1>2 DEF HeapInv, ChunkInv
<1>8. WasteInv'
  BY <1>1, <1>4, <1>5 DEF HeapInv, WasteInv
<1>9. CountInv'
  BY <1>1, <1>2, <1>3, <1>4 DEF HeapInv, CountInv, Counting
<1> QED BY <1>6, <1>7, <1>8, <1>9 DEF HeapInv

LEMMA NextHeapInv == TableInv /\ HeapInv /\ [Next]_vars => HeapInv'
<1> SUFFICES ASSUME TableInv, HeapInv, [Next]_vars PROVE HeapInv'
  OBVIOUS
<1>1. ASSUME NEW p \in Worker, WorkerNext(p) PROVE HeapInv'
  <2>1. CASE AddNextStep(p)
    BY <2>1, ReadOnlySteps, GrabHeapInv, CountHeapInv, ClaimHeapInv, AllocHeapInv, CopyHeapInv,
       PublishHeapInv DEF AddNextStep
  <2> QED BY <1>1, <2>1, ReadOnlySteps, DieHeapInv DEF WorkerNext
<1>2. CASE MasterNext
  <2>1. CASE CollectFails
    BY <2>1, StutterHeapInv DEF CollectFails
  <2> QED BY <1>2, <2>1, RemoveHeapInv, MoveHeapInv, CollectHeapInv, ResetHeapInv, LoadHeapInv DEF MasterNext
<1>3. CASE UNCHANGED vars
  BY <1>3, StutterHeapInv DEF vars, history
<1> QED BY <1>1, <1>2, <1>3 DEF Next

-----------------------------------------------------------------------------
(***************************************************************************)
(* An operation that finds the table full has seen, one after the other,   *)
(* that no slot is free, or has read a counter that is never ahead of the  *)
(* taken slots.  Between two phases a slot may become free again, but then *)
(* no operation is running.                                                *)
(***************************************************************************)
FullAt(p) ==
  /\ pc[p] \in {"find", "find_free"} => \A j \in 0 .. probe[p] - 1 : hash[SlotAt(key[p], j)] # NoKey
  /\ pc[p] = "full" => Taken = Slot

FullInv == \A p \in Worker : FullAt(p)

(* A worker that has passed every slot has seen that none is free. *)
LEMMA AllPassed ==
  ASSUME TableInv, NEW k \in Key, NEW i \in Slot, i + 1 = Size,
         \A j \in 0 .. i - 1 : hash[SlotAt(k, j)] # NoKey, hash[SlotAt(k, i)] # NoKey
  PROVE  Taken = Slot
<1>1. Size \in Nat \ {0}
  BY SizeAssumption
<1>2. \A j \in Slot : hash[SlotAt(k, j)] # NoKey
  BY <1>1 DEF Slot
<1> QED BY <1>2, ProbeSlots DEF Taken

(* The count is never ahead of the taken slots. *)
LEMMA CountedFull ==
  ASSUME TableInv, HeapInv, hcounter >= Size PROVE Taken = Slot
<1>1. Taken \ Uncounted \in SUBSET Slot
  BY TakenFinite
<1>2. Cardinality(Taken \ Uncounted) <= Size /\ Cardinality(Taken \ Uncounted) \in Nat
  BY <1>1, TakenFinite, FS_Subset
<1>3. Cardinality(Taken \ Uncounted) = Size
  BY <1>2, SizeAssumption DEF HeapInv, CountInv, TableInv, TypeOK
<1>4. Taken \ Uncounted = Slot
  BY <1>1, <1>3, TakenFinite, FS_Subset
<1> QED BY <1>4, TakenFinite

(* The steps of a worker only fill slots, and leave the other workers alone. *)
LEMMA WorkerFills ==
  ASSUME TableInv, NEW p \in Worker, WorkerNext(p)
  PROVE  /\ \A q \in Worker \ {p} : pc'[q] = pc[q] /\ key'[q] = key[q] /\ probe'[q] = probe[q]
         /\ \A s \in Slot : hash[s] # NoKey => hash'[s] # NoKey
<1>1. /\ pc \in [Worker -> {"idle"} \cup Adding \cup Reading \cup Raised]
      /\ key \in [Worker -> Key \cup {NoKey}] /\ probe \in [Worker -> Slot]
      /\ hash \in [Slot -> Key \cup {NoKey}]
  BY DEF TableInv, TypeOK
<1>2. CASE AddBegin(p) \/ MemBegin(p)
  BY <1>1, <1>2 DEF AddBegin, MemBegin, Goto, table
<1>3. CASE AddGrab(p)
  <2>1. pc[p] = "grab"
    BY <1>3 DEF AddGrab, Goto, Advance
  <2>2. key[p] # NoKey
    BY <2>1, KeyAssumption DEF TableInv, LocalInv, Adding
  <2> QED BY <1>1, <1>3, <2>2 DEF AddGrab, Goto, Advance, table, locals
<1>4. CASE AddRead(p) \/ AddFull(p) \/ AddTry(p) \/ AddCount(p) \/ Copy(p)
  BY <1>1, <1>4 DEF AddRead, AddFull, AddTry, AddCount, Copy, Goto, table, locals
<1>5. CASE AddNext(p) \/ FindSame(p) \/ FindFree(p) \/ MemReady(p)
  BY <1>1, <1>5 DEF AddNext, FindSame, FindFree, MemReady, Advance, Goto, table, locals
<1>6. CASE WriteClaim(p) \/ Alloc(p) \/ Publish(p) \/ Mem(p)
  BY <1>1, <1>6 DEF WriteClaim, Alloc, Publish, Mem, Return, Leave, Goto, table, locals
<1>7. CASE raise_hash_table_full(p) \/ MemTimeout(p) \/ Get(p) \/ NextJob(p) \/ Die(p)
  BY <1>1, <1>7 DEF raise_hash_table_full, MemTimeout, Get, NextJob, Die, Return, Leave, Goto, table
<1> QED BY <1>2, <1>3, <1>4, <1>5, <1>6, <1>7 DEF WorkerNext, AddNextStep, MemNextStep

(* A worker that is at the next slot, or at the end, of its probe. *)
LEMMA AdvanceFull ==
  ASSUME TableInv, NEW p \in Worker, NEW from \in {"check_taken", "grab", "find_free"},
         NEW to \in {"add_read", "find"}, Advance(p, from, to), UNCHANGED <<hash, key>>,
         \A j \in 0 .. probe[p] - 1 : hash[SlotAt(key[p], j)] # NoKey,
         hash[slot(p)] # NoKey
  PROVE  FullAt(p)'
<1>1. /\ pc \in [Worker -> {"idle"} \cup Adding \cup Reading \cup Raised]
      /\ probe \in [Worker -> Slot] /\ probe[p] \in Nat /\ Size \in Nat
  BY SizeAssumption DEF TableInv, TypeOK, Slot
<1>2. key[p] \in Key /\ pc[p] = from
  BY DEF Advance, Goto, TableInv, LocalInv, Adding, Reading
<1>3. CASE probe[p] + 1 = Size /\ pc' = [pc EXCEPT ![p] = "full"]
  <2>1. Taken = Slot
    BY <1>1, <1>2, <1>3, AllPassed DEF slot
  <2>2. Taken' = Taken /\ pc'[p] = "full"
    BY <1>1, <1>3 DEF Taken
  <2> QED BY <2>1, <2>2 DEF FullAt
<1>4. CASE pc' = [pc EXCEPT ![p] = to] /\ probe' = [probe EXCEPT ![p] = probe[p] + 1]
  <2>1. pc'[p] = to /\ probe'[p] = probe[p] + 1
    BY <1>1, <1>4
  <2>2. \A j \in 0 .. probe[p] : hash[SlotAt(key[p], j)] # NoKey
    BY <1>1 DEF slot
  <2>3. \A j \in 0 .. probe'[p] - 1 : hash'[SlotAt(key'[p], j)] # NoKey
    BY <1>1, <2>1, <2>2 DEF SlotAt
  <2> QED BY <2>1, <2>3 DEF FullAt, SlotAt
<1> QED BY <1>3, <1>4 DEF Advance, Goto

(* The worker that takes the step. *)
LEMMA StepFull ==
  ASSUME TableInv, HeapInv, FullInv, NEW p \in Worker, WorkerNext(p)
  PROVE  FullAt(p)'
<1>1. /\ pc \in [Worker -> {"idle"} \cup Adding \cup Reading \cup Raised]
      /\ probe \in [Worker -> Slot] /\ probe[p] \in Nat
  BY DEF TableInv, TypeOK, Slot
<1>2. CASE MemBegin(p)
  <2>1. pc'[p] = "find" /\ probe'[p] = 0
    BY <1>1, <1>2 DEF MemBegin, Goto
  <2> QED BY <2>1 DEF FullAt
<1>3. CASE AddNext(p)
  <2>1. /\ \A j \in 0 .. probe[p] - 1 : hash[SlotAt(key[p], j)] # NoKey
        /\ hash[slot(p)] # NoKey
    BY <1>3 DEF AddNext, Advance, Goto, TableInv, ProbeInv, Probing
  <2> QED BY <1>3, <2>1, AdvanceFull DEF AddNext, table
<1>4. CASE AddGrab(p)
  <2>1. pc[p] = "grab"
    BY <1>4 DEF AddGrab, Goto, Advance
  <2>2. CASE pc'[p] \in {"count", "claim"}
    BY <2>2 DEF FullAt
  <2>3. CASE /\ hash[slot(p)] \notin {NoKey, key[p]} /\ Advance(p, "grab", "add_read")
             /\ UNCHANGED <<table, key, datum, chunk, history>>
    <3>1. \A j \in 0 .. probe[p] - 1 : hash[SlotAt(key[p], j)] # NoKey
      BY <2>1 DEF TableInv, ProbeInv, Probing
    <3> QED BY <2>3, <3>1, AdvanceFull DEF table
  <2> QED BY <1>1, <1>4, <2>2, <2>3 DEF AddGrab, Goto
<1>5. CASE AddFull(p)
  <2>1. Taken = Slot
    BY <1>5, CountedFull DEF AddFull
  <2>2. pc'[p] = "full" /\ Taken' = Taken
    BY <1>1, <1>5 DEF AddFull, Goto, Taken, table
  <2> QED BY <2>1, <2>2 DEF FullAt
<1>6. CASE FindSame(p)
  <2>1. pc[p] = "find" /\ pc'[p] \in {"mem", "find_free"} /\ UNCHANGED <<hash, probe, key>>
    BY <1>1, <1>6 DEF FindSame, Goto, table, locals
  <2> QED BY <2>1 DEF FullInv, FullAt, SlotAt
<1>7. CASE FindFree(p)
  <2>1. pc[p] = "find_free"
    BY <1>7 DEF FindFree, Goto, Advance
  <2>2. CASE Goto(p, "find_free", "mem")
    BY <1>1, <2>2 DEF Goto, FullAt
  <2>3. CASE /\ hash[slot(p)] # NoKey /\ Advance(p, "find_free", "find")
             /\ UNCHANGED <<table, key, datum, chunk, history>>
    <3>1. \A j \in 0 .. probe[p] - 1 : hash[SlotAt(key[p], j)] # NoKey
      BY <2>1 DEF FullInv, FullAt
    <3> QED BY <2>3, <3>1, AdvanceFull DEF table
  <2> QED BY <1>7, <2>2, <2>3 DEF FindFree
<1>8. CASE pc'[p] \notin {"find", "find_free", "full"}
  BY <1>8 DEF FullAt
<1>9. CASE AddBegin(p) \/ AddRead(p) \/ AddTry(p) \/ AddCount(p) \/ Copy(p) \/ MemReady(p)
  BY <1>1, <1>8, <1>9 DEF AddBegin, AddRead, AddTry, AddCount, Copy, MemReady, Goto
<1>10. CASE WriteClaim(p) \/ Alloc(p) \/ Publish(p) \/ Mem(p)
  BY <1>1, <1>8, <1>10 DEF WriteClaim, Alloc, Publish, Mem, Return, Leave, Goto
<1>11. CASE raise_hash_table_full(p) \/ MemTimeout(p) \/ Get(p) \/ NextJob(p) \/ Die(p)
  BY <1>1, <1>8, <1>11 DEF raise_hash_table_full, MemTimeout, Get, NextJob, Die, Return, Leave, Goto
<1> QED BY <1>2, <1>3, <1>4, <1>5, <1>6, <1>7, <1>9, <1>10, <1>11
        DEF WorkerNext, AddNextStep, MemNextStep

LEMMA NextFullInv == TableInv /\ HeapInv /\ FullInv /\ [Next]_vars => FullInv'
<1> SUFFICES ASSUME TableInv, HeapInv, FullInv, [Next]_vars PROVE FullInv'
  OBVIOUS
<1>1. ASSUME NEW p \in Worker, WorkerNext(p) PROVE FullInv'
  <2> SUFFICES ASSUME NEW q \in Worker PROVE FullAt(q)'
    BY DEF FullInv
  <2>1. CASE q = p
    BY <1>1, <2>1, StepFull
  <2>2. CASE q # p
    <3>1. /\ pc'[q] = pc[q] /\ key'[q] = key[q] /\ probe'[q] = probe[q]
          /\ \A s \in Slot : hash[s] # NoKey => hash'[s] # NoKey
      BY <1>1, <2>2, WorkerFills
    <3>2. pc[q] = "full" => Taken' = Slot
      BY <3>1 DEF FullInv, FullAt, Taken
    <3>3. ASSUME pc[q] \in {"find", "find_free"}, NEW j \in 0 .. probe[q] - 1
          PROVE  hash'[SlotAt(key[q], j)] # NoKey
      <4>1. key[q] \in Key /\ probe[q] \in Slot
        BY <3>3 DEF TableInv, LocalInv, TypeOK, Reading
      <4>2. j \in Slot
        BY <4>1, SizeAssumption DEF Slot
      <4>3. SlotAt(key[q], j) \in Slot
        BY <4>1, <4>2, ProbeSlots
      <4> QED BY <3>1, <3>3, <4>3 DEF FullInv, FullAt
    <3> QED BY <3>1, <3>2, <3>3 DEF FullAt, SlotAt
  <2> QED BY <2>1, <2>2
<1>2. CASE MasterNext
  <2>1. Quiescent'
    BY <1>2, MasterQuiet DEF MasterNext, hh_remove, hh_move, hh_collect, CollectFails, pyre_reset,
       SaveAndLoad, Quiescent
  <2>2. \A p \in Worker : pc'[p] \notin {"find", "find_free", "full"}
    BY <2>1 DEF Quiescent, Raised
  <2> QED BY <2>2 DEF FullInv, FullAt
<1>3. CASE UNCHANGED vars
  BY <1>3 DEF FullInv, FullAt, Taken, vars, table, locals, SlotAt
<1> QED BY <1>1, <1>2, <1>3 DEF Next

LEMMA InitFullInv == Init => FullInv
BY DEF Init, FullInv, FullAt

LEMMA HeapInvariant == Spec => [](TableInv /\ HeapInv /\ FullInv)
BY InitTableInv, NextTableInv, InitHeapInv, NextHeapInv, InitFullInv, NextFullInv, PTL DEF Spec

(***************************************************************************)
(* In a process that has not loaded a saved table, no value belongs to two *)
(* slots; and whatever adds raced, whatever was removed, moved, collected  *)
(* and reset before, and whoever was killed or ran out of heap while       *)
(* writing, wasted_heap_size is what a collection frees, but for at most   *)
(* one value for each slot that such a writer left behind.                 *)
(***************************************************************************)
THEOREM HeapIsExact == ASSUME ~ SavedState PROVE Spec => []HeapExact
<1>1. ASSUME TableInv, HeapInv, Quiescent
      PROVE  /\ Cardinality(Live) + wasted <= heap
             /\ heap <= Cardinality(Live) + wasted
                          + Cardinality({s \in Slot : addr[s] = WRITE_IN_PROGRESS})
  BY <1>1, MasterCounts, MasterOwnsAll
<1>2. TableInv /\ HeapInv => HeapExact
  BY <1>1 DEF HeapExact, HeapInv, ChunkInv
<1> QED BY <1>2, HeapInvariant, PTL

(* Every worker that counts has a slot of its own that is taken. *)
LEMMA CountersHaveSlots ==
  ASSUME TableInv, HeapInv
  PROVE  /\ Uncounted \subseteq Taken
         /\ IsFiniteSet(Uncounted) /\ Cardinality(Counting) = Cardinality(Uncounted)
<1>1. Uncounted \subseteq Taken
  BY WriterSlot DEF Uncounted, Counting, Taken, Writing
<1>2. IsFiniteSet(Uncounted)
  BY <1>1, TakenFinite, FS_Subset
<1> DEFINE f == [p \in Counting |-> slot(p)]
<1>3. f \in Bijection(Counting, Uncounted)
  <2>1. f \in [Counting -> Uncounted]
    BY DEF Uncounted
  <2>2. \A p, q \in Counting : f[p] = f[q] => p = q
    BY DEF HeapInv, CountInv
  <2>3. \A s \in Uncounted : \E p \in Counting : f[p] = s
    BY DEF Uncounted
  <2> HIDE DEF f
  <2> QED BY <2>1, <2>2, <2>3 DEF Bijection, Injection, Surjection, IsInjective
<1>4. ExistsBijection(Counting, Uncounted)
  BY <1>3 DEF ExistsBijection
<1>5. ExistsBijection(Uncounted, Counting)
  BY <1>4, Fun_ExistsBijSymmetric
<1> QED BY <1>1, <1>2, <1>5, FS_Bijection

(***************************************************************************)
(* In such a process hcounter and the workers that are about to count make *)
(* up the taken slots, but for one slot at most for each worker that was   *)
(* killed: the assertion of get_slots_stats fails in no other case, in a   *)
(* worker that finds the table full or between two phases.  A worker gives *)
(* up only when no slot is free, and the sanity check of hh_add never      *)
(* fails.                                                                  *)
(***************************************************************************)
THEOREM CountIsExact == ASSUME ~ SavedState PROVE Spec => []CountExact
<1>1. TableInv /\ HeapInv /\ FullInv => CountExact
  <2> SUFFICES ASSUME TableInv, HeapInv, FullInv PROVE CountExact
    OBVIOUS
  <2>1. /\ Uncounted \subseteq Taken /\ IsFiniteSet(Uncounted)
        /\ Cardinality(Counting) = Cardinality(Uncounted)
    BY CountersHaveSlots
  <2>2. IsFiniteSet(Taken) /\ Cardinality(Taken) \in Nat
    BY TakenFinite, FS_Subset, FS_CardinalityType
  <2>3. Cardinality(Taken \ Uncounted) = Cardinality(Taken) - Cardinality(Uncounted)
    <3>1. Taken \cap Uncounted = Uncounted
      BY <2>1
    <3> QED BY <2>2, <3>1, FS_Difference
  <2>4. Cardinality(Uncounted) \in Nat /\ hcounter \in Nat /\ deaths \in Nat
    BY <2>1, FS_CardinalityType DEF TableInv, TypeOK, HeapInv, CountInv
  <2>5. /\ hcounter + Cardinality(Counting) <= Cardinality(Taken)
        /\ Cardinality(Taken) <= hcounter + Cardinality(Counting) + deaths
    BY <2>1, <2>2, <2>3, <2>4 DEF HeapInv, CountInv
  <2>6. \A p \in Worker : pc[p] = "full" => Taken = Slot
    BY DEF FullInv, FullAt
  <2>7. \A p \in Worker : pc[p] # "assertion_failure"
    BY DEF HeapInv, CountInv
  <2> QED BY <2>5, <2>6, <2>7 DEF CountExact, Counting
<1> QED BY <1>1, HeapInvariant, PTL

-----------------------------------------------------------------------------
(***************************************************************************)
(* The refinement of KeyValueStore.                                        *)
(***************************************************************************)

(* The value of a key is the one published in its only slot. *)
BindingOf ==
  \A k \in Key :
    /\ \A s \in Slot : hash[s] = k /\ addr[s] \in Chunk => binding[k] = memory[addr[s]]
    /\ (\A s \in Slot : hash[s] = k => addr[s] \notin Chunk) => binding[k] = NULL

LEMMA BindingIs == TableInv => BindingOf
<1> SUFFICES ASSUME TableInv, NEW k \in Key
             PROVE  /\ \A s \in Slot : hash[s] = k /\ addr[s] \in Chunk => binding[k] = memory[addr[s]]
                    /\ (\A s \in Slot : hash[s] = k => addr[s] \notin Chunk) => binding[k] = NULL
  BY DEF BindingOf
<1>1. binding[k] = IF PublishedAt(k) = {} THEN NULL
                   ELSE memory[addr[CHOOSE s \in PublishedAt(k) : TRUE]]
  BY DEF binding
<1>2. ASSUME NEW s \in Slot, hash[s] = k, addr[s] \in Chunk
      PROVE  binding[k] = memory[addr[s]]
  <2>1. PublishedAt(k) = {s}
    BY <1>2, KeyAssumption DEF PublishedAt, TableInv, UniqueSlot
  <2>2. (CHOOSE t \in PublishedAt(k) : TRUE) = s
    BY <2>1
  <2> QED BY <1>1, <2>1, <2>2
<1>3. ASSUME \A s \in Slot : hash[s] = k => addr[s] \notin Chunk
      PROVE  binding[k] = NULL
  BY <1>1, <1>3 DEF PublishedAt
<1> QED BY <1>2, <1>3

LEMMA BindingIsNext == TableInv' => BindingOf'
BY BindingIs, PTL

LEMMA BindingFunction == binding = [k \in Key |-> binding[k]] /\ binding' = [k \in Key |-> binding'[k]]
BY DEF binding

(* What is published stays published, and nothing else is. *)
LEMMA SameBinding ==
  ASSUME TableInv, TableInv',
         \A s \in Slot : hash[s] \in Key /\ addr[s] \in Chunk =>
           hash'[s] = hash[s] /\ addr'[s] \in Chunk /\ memory'[addr'[s]] = memory[addr[s]],
         \A s \in Slot : hash'[s] \in Key /\ addr'[s] \in Chunk => hash[s] \in Key /\ addr[s] \in Chunk
  PROVE  UNCHANGED binding
<1>1. BindingOf /\ BindingOf'
  BY BindingIs, BindingIsNext
<1>2. ASSUME NEW k \in Key PROVE binding'[k] = binding[k]
  <2>1. CASE \E s \in Slot : hash[s] = k /\ addr[s] \in Chunk
    BY <1>1, <2>1 DEF BindingOf
  <2>2. CASE \A s \in Slot : hash[s] = k => addr[s] \notin Chunk
    BY <1>1, <2>2 DEF BindingOf
  <2> QED BY <2>1, <2>2
<1> QED BY <1>2, BindingFunction

(* Every step of a worker but Publish, and every step that moves values    *)
(* without changing them, is a stuttering step of the store.               *)
LEMMA StutterSteps ==
  ASSUME TableInv, TableInv', HeapInv, HeapInv',
         \/ \E p \in Worker : \/ AddBegin(p) \/ AddRead(p) \/ AddFull(p) \/ AddNext(p) \/ AddTry(p)
                              \/ raise_hash_table_full(p) \/ MemBegin(p) \/ MemNextStep(p)
                              \/ NextJob(p) \/ Die(p)
                              \/ AddGrab(p) \/ AddCount(p) \/ WriteClaim(p) \/ Alloc(p) \/ Copy(p)
         \/ hh_collect \/ CollectFails \/ SaveAndLoad \/ UNCHANGED vars
  PROVE  UNCHANGED binding
<1>1. ASSUME NEW p \in Worker,
             \/ AddBegin(p) \/ AddRead(p) \/ AddFull(p) \/ AddNext(p) \/ AddTry(p)
             \/ raise_hash_table_full(p) \/ MemBegin(p) \/ MemNextStep(p) \/ NextJob(p) \/ Die(p)
             \/ AddCount(p) \/ Alloc(p)
      PROVE  UNCHANGED binding
  <2>1. UNCHANGED <<hash, addr, memory>>
    BY <1>1, ReadOnlySteps, DieHeapInv, CountHeapInv, AllocHeapInv DEF table
  <2> QED BY <2>1, SameBinding
<1>2. ASSUME NEW p \in Worker, AddGrab(p) PROVE UNCHANGED binding
  <2>1. UNCHANGED <<addr, memory>>
    BY <1>2, GrabHeapInv
  <2>2. \A s \in Slot : hash[s] # NoKey => hash'[s] = hash[s]
    BY <1>2 DEF AddGrab, table, TableInv, TypeOK
  <2>3. \A s \in Slot : addr[s] \in Chunk => hash[s] \in Key
    BY AddrAssumption DEF HeapInv, EmptyInv, TableInv, TypeOK
  <2> QED BY <2>1, <2>2, <2>3, SameBinding, KeyAssumption
<1>3. ASSUME NEW p \in Worker, WriteClaim(p) PROVE UNCHANGED binding
  <2>1. /\ UNCHANGED <<hash, memory>>
        /\ \A s \in Slot : addr[s] \in Chunk \/ addr'[s] \in Chunk => addr'[s] = addr[s]
    BY <1>3, ClaimHeapInv
  <2> QED BY <2>1, SameBinding
<1>4. ASSUME NEW p \in Worker, Copy(p) PROVE UNCHANGED binding
  <2>1. UNCHANGED <<hash, addr>> /\ \A c \in Live : memory'[c] = memory[c]
    BY <1>4, CopyHeapInv
  <2>2. \A s \in Slot : addr[s] \in Chunk => addr[s] \in Live
    BY DEF Live
  <2> QED BY <2>1, <2>2, SameBinding
<1>5. CASE hh_collect
  <2>1. /\ addr' = [s \in Slot |-> IF addr[s] \in Chunk THEN Relocated(addr[s]) ELSE addr[s]]
        /\ memory' = [c \in Chunk |->
                        IF \E d \in Live : Relocated(d) = c
                        THEN memory[CHOOSE d \in Live : Relocated(d) = c] ELSE memory[c]]
        /\ hash' = hash
    BY <1>5 DEF hh_collect
  <2>2. ASSUME NEW s \in Slot, addr[s] \in Chunk
        PROVE  addr'[s] \in Chunk /\ memory'[addr'[s]] = memory[addr[s]]
    <3>1. addr[s] \in Live /\ addr'[s] = Relocated(addr[s]) /\ addr'[s] \in Chunk
      BY <2>1, <2>2, RelocatedInHeap DEF Live
    <3>2. (CHOOSE d \in Live : Relocated(d) = addr'[s]) = addr[s]
      BY <3>1, RelocatedOrder
    <3> QED BY <2>1, <3>1, <3>2
  <2>3. \A s \in Slot : addr'[s] \in Chunk => addr[s] \in Chunk
    BY <2>1
  <2> QED BY <2>1, <2>2, <2>3, SameBinding
<1>6. CASE CollectFails \/ SaveAndLoad \/ UNCHANGED vars
  BY <1>6, SameBinding DEF CollectFails, SaveAndLoad, vars, table
<1> QED BY <1>1, <1>2, <1>3, <1>4, <1>5, <1>6

(* The moment at which an add takes effect. *)
LEMMA PublishIsAdd ==
  ASSUME TableInv, TableInv', HeapInv, NEW p \in Worker, Publish(p)
  PROVE  \E k \in Key, d \in Data : Store!Add(k, d)
<1>1. /\ pc[p] = "publish" /\ addr' = [addr EXCEPT ![slot(p)] = chunk[p]]
      /\ UNCHANGED <<hash, memory>>
  BY DEF Publish, Return, Leave, Goto
<1>2. /\ key[p] \in Key /\ slot(p) \in Slot /\ hash[slot(p)] = key[p] /\ chunk[p] \in Chunk
      /\ addr[slot(p)] = WRITE_IN_PROGRESS /\ memory[chunk[p]] \in Data
  BY <1>1, WriterSlot DEF Writing, TableInv, LocalInv, HeapInv, ClaimInv, Claimer, Claiming
<1>3. addr \in [Slot -> Chunk \cup {NULL, WRITE_IN_PROGRESS}]
  BY DEF TableInv, TypeOK
<1>4. BindingOf /\ BindingOf'
  BY BindingIs, BindingIsNext
<1>5. binding[key[p]] = NULL
  <2>1. \A s \in Slot : hash[s] = key[p] => s = slot(p)
    BY <1>2, KeyAssumption DEF TableInv, UniqueSlot
  <2> QED BY <1>2, <1>4, <2>1, AddrAssumption DEF BindingOf
<1>6. binding'[key[p]] = memory[chunk[p]]
  BY <1>1, <1>2, <1>3, <1>4 DEF BindingOf
<1>7. ASSUME NEW k \in Key, k # key[p] PROVE binding'[k] = binding[k]
  <2>1. \A s \in Slot : hash[s] = k => addr'[s] = addr[s]
    BY <1>1, <1>2, <1>3, <1>7
  <2>2. CASE \E s \in Slot : hash[s] = k /\ addr[s] \in Chunk
    BY <1>1, <1>4, <2>1, <2>2 DEF BindingOf
  <2>3. CASE \A s \in Slot : hash[s] = k => addr[s] \notin Chunk
    BY <1>1, <1>4, <2>1, <2>3 DEF BindingOf
  <2> QED BY <2>2, <2>3
<1>8. binding' = [binding EXCEPT ![key[p]] = memory[chunk[p]]]
  BY <1>6, <1>7, BindingFunction
<1> QED BY <1>2, <1>5, <1>8 DEF Store!Add

LEMMA RemoveIsRemove ==
  ASSUME TableInv, TableInv', HeapInv, NEW k \in Key, NEW s \in Slot, hh_remove(k, s)
  PROVE  Store!Remove(k)
<1>1. /\ hash[s] = k /\ addr[s] # NULL /\ addr[s] # WRITE_IN_PROGRESS
      /\ addr' = [addr EXCEPT ![s] = NULL] /\ UNCHANGED <<hash, memory>>
  BY DEF hh_remove, Readable, Present, Status
<1>2. addr \in [Slot -> Chunk \cup {NULL, WRITE_IN_PROGRESS}]
  BY DEF TableInv, TypeOK
<1>3. addr[s] \in Chunk
  BY <1>1, <1>2
<1>4. BindingOf /\ BindingOf'
  BY BindingIs, BindingIsNext
<1>5. \A t \in Slot : hash[t] = k => t = s
  BY <1>1, KeyAssumption DEF TableInv, UniqueSlot
<1>6. binding[k] # NULL
  BY <1>1, <1>3, <1>4, AddrAssumption DEF BindingOf, TableInv, ValueInv
<1>7. binding'[k] = NULL
  BY <1>1, <1>2, <1>4, <1>5, AddrAssumption DEF BindingOf
<1>8. ASSUME NEW l \in Key, l # k PROVE binding'[l] = binding[l]
  <2>1. \A t \in Slot : hash[t] = l => addr'[t] = addr[t]
    BY <1>1, <1>2, <1>8
  <2>2. CASE \E t \in Slot : hash[t] = l /\ addr[t] \in Chunk
    BY <1>1, <1>4, <2>1, <2>2 DEF BindingOf
  <2>3. CASE \A t \in Slot : hash[t] = l => addr[t] \notin Chunk
    BY <1>1, <1>4, <2>1, <2>3 DEF BindingOf
  <2> QED BY <2>2, <2>3
<1>9. binding' = [binding EXCEPT ![k] = NULL]
  BY <1>7, <1>8, BindingFunction
<1> QED BY <1>6, <1>9 DEF Store!Remove

LEMMA MoveIsMove ==
  ASSUME TableInv, TableInv', HeapInv,
         NEW k1 \in Key, NEW k2 \in Key, NEW s1 \in Slot, NEW s2 \in Slot, k1 # k2,
         hh_move(k1, s1, k2, s2)
  PROVE  Store!Move(k1, k2)
<1>1. /\ hash[s1] = k1 /\ addr[s1] # NULL /\ addr[s1] # WRITE_IN_PROGRESS
      /\ hash[s2] \in {k2, NoKey} /\ Status(s2, k2) # "present"
      /\ hash' = [hash EXCEPT ![s2] = k2]
      /\ addr' = [addr EXCEPT ![s2] = addr[s1], ![s1] = NULL]
      /\ memory' = memory
  BY DEF hh_move, Readable, Present, Status, find_slot
<1>2. s1 # s2
  BY <1>1, KeyAssumption
<1>3. /\ addr \in [Slot -> Chunk \cup {NULL, WRITE_IN_PROGRESS}]
      /\ hash \in [Slot -> Key \cup {NoKey}]
  BY DEF TableInv, TypeOK
<1>4. /\ \A t \in Slot : addr'[t] = IF t = s1 THEN NULL ELSE IF t = s2 THEN addr[s1] ELSE addr[t]
      /\ \A t \in Slot : hash'[t] = IF t = s2 THEN k2 ELSE hash[t]
  BY <1>1, <1>2, <1>3
<1>5. addr[s1] \in Chunk
  BY <1>1, <1>3
<1>6. addr[s2] = NULL
  BY <1>1, KeyAssumption DEF HeapInv, EmptyInv, Status
<1>7. BindingOf /\ BindingOf'
  BY BindingIs, BindingIsNext
<1>8. /\ \A t \in Slot : hash[t] = k1 => t = s1
      /\ \A t \in Slot : hash'[t] = k2 => t = s2
  BY <1>1, <1>4, KeyAssumption DEF TableInv, UniqueSlot
<1>9. binding[k1] = memory[addr[s1]] /\ binding[k1] # NULL
  BY <1>1, <1>5, <1>7, AddrAssumption DEF BindingOf, TableInv, ValueInv
<1>10. binding[k2] = NULL
  BY <1>4, <1>6, <1>7, <1>8, AddrAssumption DEF BindingOf
<1>11. binding'[k1] = NULL
  BY <1>4, <1>7, <1>8, AddrAssumption DEF BindingOf
<1>12. binding'[k2] = binding[k1]
  <2>1. hash'[s2] = k2 /\ addr'[s2] = addr[s1] /\ memory' = memory
    BY <1>1, <1>2, <1>4
  <2>2. binding'[k2] = memory'[addr'[s2]]
    BY <1>5, <1>7, <2>1 DEF BindingOf
  <2> QED BY <1>9, <2>1, <2>2
<1>13. ASSUME NEW l \in Key, l # k1, l # k2 PROVE binding'[l] = binding[l]
  <2>1. /\ \A t \in Slot : hash[t] = l => addr'[t] = addr[t] /\ hash'[t] = l
        /\ \A t \in Slot : hash'[t] = l => hash[t] = l
    BY <1>1, <1>4, <1>13, KeyAssumption
  <2>2. CASE \E t \in Slot : hash[t] = l /\ addr[t] \in Chunk
    <3>1. PICK t \in Slot : hash[t] = l /\ addr[t] \in Chunk
      BY <2>2
    <3>2. hash'[t] = l /\ addr'[t] = addr[t] /\ memory' = memory
      BY <1>1, <2>1, <3>1
    <3>3. binding[l] = memory[addr[t]] /\ binding'[l] = memory'[addr'[t]]
      BY <1>7, <3>1, <3>2 DEF BindingOf
    <3> QED BY <3>2, <3>3
  <2>3. CASE \A t \in Slot : hash[t] = l => addr[t] \notin Chunk
    BY <1>7, <2>1, <2>3 DEF BindingOf
  <2> QED BY <2>2, <2>3
<1>14. binding' = [binding EXCEPT ![k1] = NULL, ![k2] = binding[k1]]
  <2> DEFINE moved == [binding EXCEPT ![k1] = NULL, ![k2] = binding[k1]]
  <2>1. moved = [l \in Key |-> IF l = k2 THEN binding[k1] ELSE IF l = k1 THEN NULL ELSE binding[l]]
    BY BindingFunction
  <2>2. \A l \in Key : binding'[l] = IF l = k2 THEN binding[k1] ELSE IF l = k1 THEN NULL ELSE binding[l]
    BY <1>11, <1>12, <1>13
  <2> QED BY <2>1, <2>2, BindingFunction
<1> QED BY <1>9, <1>10, <1>14 DEF Store!Move

LEMMA ResetIsReset ==
  ASSUME TableInv', pyre_reset PROVE Store!Reset
<1>1. \A s \in Slot : hash'[s] = NoKey
  BY DEF pyre_reset
<1>2. \A k \in Key : binding'[k] = NULL
  BY <1>1, BindingIsNext, KeyAssumption DEF BindingOf
<1> QED BY <1>2, BindingFunction DEF Store!Reset

(***************************************************************************)
(* The lock-free table implements the abstract map for every number of     *)
(* workers, keys, slots and chunks: an add takes effect at the moment its  *)
(* address is stored, or not at all; collection, saving and loading, and   *)
(* all lookups leave the map alone; nothing else changes it.               *)
(***************************************************************************)
THEOREM Refinement == Spec => ImplementsStore
<1>1. Init => Store!Init
  <2> SUFFICES ASSUME Init PROVE Store!Init
    OBVIOUS
  <2>1. TableInv /\ \A s \in Slot : hash[s] = NoKey
    BY InitTableInv DEF Init
  <2>2. \A k \in Key : binding[k] = NULL
    BY <2>1, BindingIs, KeyAssumption DEF BindingOf
  <2> QED BY <2>2, BindingFunction DEF Store!Init
<1>2. /\ TableInv /\ HeapInv /\ TableInv' /\ HeapInv'
      /\ [Next]_vars
      => [Store!Next]_binding
  <2> SUFFICES ASSUME TableInv, HeapInv, TableInv', HeapInv', [Next]_vars
               PROVE  Store!Next \/ UNCHANGED binding
    OBVIOUS
  <2>1. CASE \E p \in Worker : Publish(p)
    BY <2>1, PublishIsAdd DEF Store!Next
  <2>2. CASE \E p \in Worker : WorkerNext(p) /\ ~ Publish(p)
    BY <2>2, StutterSteps DEF WorkerNext, AddNextStep
  <2>3. CASE MasterNext
    BY <2>3, StutterSteps, RemoveIsRemove, MoveIsMove, ResetIsReset DEF MasterNext, Store!Next
  <2>4. CASE UNCHANGED vars
    BY <2>4, StutterSteps
  <2> QED BY <2>1, <2>2, <2>3, <2>4 DEF Next
<1> QED BY <1>1, <1>2, HeapInvariant, PTL DEF Spec, ImplementsStore, Store!Spec

=============================================================================

---------------------------- MODULE HeapCollection ----------------------------
(***************************************************************************)
(* The loops of hh_collect (hack_parallel/heap/hh_shared.c): the heap is   *)
(* compacted in place.  For the time of the collection the slot of a live  *)
(* value holds the value's header, and the value's first word points back  *)
(* to the slot; the low bit tells a header from a pointer.                 *)
(*                                                                         *)
(* A word is 8 bytes.  A value is a header and payload words; its size in  *)
(* words, header included, is in the header.                               *)
(***************************************************************************)
EXTENDS Naturals, Sequences, SequencesExt

CONSTANTS
  Slots,     \* number of slots of hashtbl
  MaxValues, \* bound: values in the heap
  MaxSize,   \* bound: words of a value
  NULL

ASSUME BoundAssumption == Slots \in Nat /\ MaxValues \in Nat /\ MaxSize \in Nat

Slot == 1 .. Slots

VARIABLES
  field,     \* hashtbl[i].addr
  word,      \* the words of the heap
  heap,      \* *heap, the first free word
  phase, i,  \* the first loop and its counter
  src, dest, \* the second loop
  before     \* history: the payload of every slot when the collection starts

vars == <<field, word, heap, phase, i, src, dest, before>>

Header(n) == [kind |-> "header", size |-> n]
Pointer(s) == [kind |-> "pointer", slot |-> s]
Payload(v, o) == [kind |-> "data", value |-> v, offset |-> o]

(* The words of the v-th value. *)
ValueWords(v, n) == <<Header(n)>> \o [o \in 1 .. n - 1 |-> Payload(v, o)]

Address(w) == [kind |-> "addr", at |-> w]

(* Where the v-th value starts, and the words before the heap pointer. *)
Total(from, sizes) == FoldLeft(LAMBDA sum, n : sum + n, from, sizes)
StartOf(sizes, v) == Total(1, SubSeq(sizes, 1, v - 1))
Contents(sizes) ==
  FoldLeft(LAMBDA ws, v : ws \o ValueWords(v, sizes[v]), <<>>, [v \in 1 .. Len(sizes) |-> v])

PayloadAt(w, at) == [o \in 1 .. w[at].size - 1 |-> w[at + o]]

(* Values that some slots own, one slot each; the others are garbage. *)
Owners(n) ==
  {own \in [Slot -> 0 .. n] : \A s, t \in Slot : own[s] = own[t] /\ own[s] # 0 => s = t}

Init ==
  \E n \in 0 .. MaxValues : \E sizes \in [1 .. n -> 1 .. MaxSize], own \in Owners(n) :
    /\ field = [s \in Slot |-> IF own[s] = 0 THEN NULL ELSE Address(StartOf(sizes, own[s]))]
    /\ word = Contents(sizes)
    /\ heap = Len(word) + 1
    /\ before = [s \in Slot |-> IF own[s] = 0 THEN NULL
                                ELSE PayloadAt(word, StartOf(sizes, own[s]))]
    /\ phase = "mark" /\ i = 1 /\ src = 1 /\ dest = 1

(* Step 1: the roots.  Swap the address and the header. *)
Mark ==
  /\ phase = "mark" /\ i <= Slots
  /\ IF field[i] = NULL THEN UNCHANGED <<field, word>>
     ELSE /\ field' = [field EXCEPT ![i] = word[field[i].at]]
          /\ word' = [word EXCEPT ![field[i].at] = Pointer(i)]
  /\ i' = i + 1
  /\ UNCHANGED <<heap, phase, src, dest, before>>

MarkDone ==
  /\ phase = "mark" /\ i > Slots
  /\ phase' = "move"
  /\ UNCHANGED <<field, word, heap, i, src, dest, before>>

(* mutant: garbage has size zero *)
SkipNothing ==
  /\ phase = "move" /\ src < heap
  /\ word[src].kind = "header"
  /\ UNCHANGED vars

(* mutant: garbage is skipped in the destination too *)
SkipBoth ==
  /\ phase = "move" /\ src < heap
  /\ word[src].kind = "header"
  /\ src' = src + word[src].size
  /\ dest' = dest + word[src].size
  /\ UNCHANGED <<field, word, heap, phase, i, before>>

(* mutant: the size of the payload only *)
memmove_payload(w, to, from, n) ==
  [j \in DOMAIN w |-> IF to <= j /\ j < to + n - 1 THEN w[from + (j - to)] ELSE w[j]]

(* Step 2, a header: the value was not marked. *)
Skip ==
  /\ phase = "move" /\ src < heap
  /\ word[src].kind = "header"
  /\ src' = src + word[src].size
  /\ UNCHANGED <<field, word, heap, phase, i, dest, before>>

memmove(w, to, from, n) ==
  [j \in DOMAIN w |-> IF to <= j /\ j < to + n THEN w[from + (j - to)] ELSE w[j]]

(* Step 2, a pointer: restore the header, fix the slot, move to the left. *)
Move ==
  /\ phase = "move" /\ src < heap
  /\ word[src].kind = "pointer"
  /\ LET s == word[src].slot
         header == field[s]
     IN /\ field' = [field EXCEPT ![s] = Address(dest)]
        /\ word' = memmove([word EXCEPT ![src] = header], dest, src, header.size)
        /\ dest' = dest + header.size
        /\ src' = src + header.size
  /\ UNCHANGED <<heap, phase, i, before>>

MoveDone ==
  /\ phase = "move" /\ src >= heap
  /\ heap' = dest
  /\ phase' = "done"
  /\ UNCHANGED <<field, word, i, src, dest, before>>

Done == phase = "done" /\ UNCHANGED vars

Next == Mark \/ MarkDone \/ Skip \/ Move \/ MoveDone \/ Done

-----------------------------------------------------------------------------

(* No loop is under way: the slots hold addresses. *)
Quiet == phase = "done" \/ (phase = "mark" /\ i = 1)

(***************************************************************************)
(* Nothing is lost or mixed up: whenever the table is in use, every slot   *)
(* finds the payload it had before, at an address of its own.              *)
(***************************************************************************)
ValuesKept ==
  Quiet =>
    \A s \in Slot : IF before[s] = NULL THEN field[s] = NULL
                    ELSE /\ field[s] # NULL /\ field[s].kind = "addr" /\ field[s].at < heap
                         /\ word[field[s].at].kind = "header"
                         /\ field[s].at + word[field[s].at].size <= heap
                         /\ PayloadAt(word, field[s].at) = before[s]

SizeKept(s) == IF before[s] = NULL THEN 0 ELSE Len(before[s]) + 1

(***************************************************************************)
(* A collection leaves no garbage, the words left are those of live        *)
(* values; its second loop stays on the boundaries of values.              *)
(***************************************************************************)
NoGarbageLeft ==
  /\ phase = "move" => src <= heap
  /\ phase = "done" => heap = Total(1, [s \in Slot |-> SizeKept(s)])

=============================================================================

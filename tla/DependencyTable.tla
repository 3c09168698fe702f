---------------------------- MODULE DependencyTable ----------------------------
(***************************************************************************)
(* The dependency table of hack_parallel/heap/hh_shared.c: a graph that    *)
(* all processes extend without locks.  deptbl_bindings is a set of edges  *)
(* that decides who adds an edge; deptbl holds, in one array, a slot per   *)
(* source node and the cells of the linked lists of its targets.  One      *)
(* action per atomic access.                                               *)
(*                                                                         *)
(* A slot is its bit pattern: Zero is both "all bits zero", the free slot, *)
(* and the list cell in which the value 0 occurs twice; NoBinding is both  *)
(* the free slot of deptbl_bindings and the edge from 0 to 0.              *)
(***************************************************************************)
EXTENDS Naturals, Sequences, SequencesExt

CONSTANTS
  Process,
  Edge,         \* the pairs <<key, val>> that are added
  DepSize,      \* dep_size
  HashNode(_),  \* hash_uint64(key) & (dep_size - 1)
  HashEdge(_)   \* hash_uint64((key << 31) | val) & (dep_size - 1)

ASSUME DepSizeAssumption == DepSize \in Nat \ {0}
ASSUME EdgeAssumption == Edge \subseteq Nat \X Nat

Slot == 0 .. DepSize - 1
Source == {e[1] : e \in Edge}

ASSUME HashAssumption ==
  /\ \A k \in Source : HashNode(k) \in Slot
  /\ \A e \in Edge : HashEdge(e) \in Slot

NoBinding == <<0, 0>>
Value(v) == <<v, "VAL">>
Pointer(s) == <<s, "NEXT">>
Invalid == Pointer(DepSize)         \* {~0, TAG_NEXT}
HeadSlot(k, next) == [key |-> <<k, "KEY">>, next |-> next]
ListNode(v, next) == [key |-> <<v, "VAL">>, next |-> next]
Zero == ListNode(0, Value(0))

VARIABLES
  bindings,      \* deptbl_bindings
  dcounter,
  deptbl,
  pc, edge, slot, node, slotval, result,   \* locals of a process
  returned,      \* history: the edges add_dep has returned for
  before         \* history: what a reader must find

shared == <<bindings, dcounter, deptbl>>
vars == <<shared, pc, edge, slot, node, slotval, result, returned, before>>

Init ==
  /\ bindings = [s \in Slot |-> NoBinding]
  /\ dcounter = 0
  /\ deptbl = [s \in Slot |-> Zero]
  /\ pc = [p \in Process |-> "idle"]
  /\ edge = [p \in Process |-> NoBinding]
  /\ slot = [p \in Process |-> 0]
  /\ node = [p \in Process |-> 0]
  /\ slotval = [p \in Process |-> Zero]
  /\ result = [p \in Process |-> <<>>]
  /\ returned = {}
  /\ before = [p \in Process |-> {}]

Goto(p, from, to) == pc[p] = from /\ pc' = [pc EXCEPT ![p] = to]

(* slot = (slot + 1) & (dep_size - 1) *)
After(s) == (s + 1) % DepSize

(* The operation ends and its locals are gone. *)
Leave(p) ==
  /\ pc' = [pc EXCEPT ![p] = "idle"]
  /\ edge' = [edge EXCEPT ![p] = NoBinding]
  /\ slot' = [slot EXCEPT ![p] = 0]
  /\ node' = [node EXCEPT ![p] = 0]
  /\ slotval' = [slotval EXCEPT ![p] = Zero]
  /\ result' = [result EXCEPT ![p] = <<>>]
  /\ before' = [before EXCEPT ![p] = {}]

Added(p) == Leave(p) /\ returned' = returned \cup {edge[p]}

-----------------------------------------------------------------------------
(* add_binding *)

add_dep(p) ==
  /\ Goto(p, "idle", "bind")
  /\ \E e \in Edge :
       /\ edge' = [edge EXCEPT ![p] = e]
       /\ slot' = [slot EXCEPT ![p] = HashEdge(e)]
  /\ UNCHANGED <<shared, node, slotval, result, returned, before>>

(* uint64_t slot_val = table[slot]; the binding exists, done *)
BindRead(p) ==
  \/ /\ bindings[slot[p]] = edge[p]
     /\ pc[p] = "bind"
     /\ Added(p)
     /\ UNCHANGED shared
  \/ /\ bindings[slot[p]] # edge[p]
     /\ Goto(p, "bind", IF bindings[slot[p]] = NoBinding THEN "bind_free" ELSE "bind_taken")
     /\ UNCHANGED <<shared, edge, slot, node, slotval, result, returned, before>>

(* *dcounter >= dep_size *)
BindFull(p) ==
  /\ dcounter >= DepSize
  /\ \E from \in {"bind_free", "bind_taken"} : Goto(p, from, "dep_table_full")
  /\ UNCHANGED <<shared, edge, slot, node, slotval, result, returned, before>>

BindNext(p) ==
  /\ dcounter < DepSize
  /\ Goto(p, "bind_taken", "bind")
  /\ slot' = [slot EXCEPT ![p] = After(@)]
  /\ UNCHANGED <<shared, edge, node, slotval, result, returned, before>>

BindTry(p) ==
  /\ dcounter < DepSize
  /\ Goto(p, "bind_free", "bind_cas")
  /\ UNCHANGED <<shared, edge, slot, node, slotval, result, returned, before>>

(* mutant: both processes that race for the slot of an edge go on *)
BindCasBoth(p) ==
  /\ pc[p] = "bind_cas"
  /\ \/ /\ bindings[slot[p]] \in {NoBinding, edge[p]}
        /\ bindings' = [bindings EXCEPT ![slot[p]] = edge[p]]
        /\ pc' = [pc EXCEPT ![p] = "count"]
        /\ UNCHANGED <<dcounter, deptbl, edge, slot, node, slotval, result, returned, before>>
     \/ /\ bindings[slot[p]] \notin {NoBinding, edge[p]}
        /\ pc' = [pc EXCEPT ![p] = "bind"]
        /\ slot' = [slot EXCEPT ![p] = After(@)]
        /\ UNCHANGED <<shared, edge, node, slotval, result, returned, before>>

(* The slot is free, let's try to take it. *)
BindCas(p) ==
  /\ pc[p] = "bind_cas"
  /\ \/ /\ bindings[slot[p]] = NoBinding
        /\ bindings' = [bindings EXCEPT ![slot[p]] = edge[p]]
        /\ pc' = [pc EXCEPT ![p] = "count"]
        /\ UNCHANGED <<dcounter, deptbl, edge, slot, node, slotval, result, returned, before>>
     \/ /\ bindings[slot[p]] = edge[p]
        /\ Added(p)
        /\ UNCHANGED shared
     \/ /\ bindings[slot[p]] \notin {NoBinding, edge[p]}
        /\ pc' = [pc EXCEPT ![p] = "bind"]
        /\ slot' = [slot EXCEPT ![p] = After(@)]
        /\ UNCHANGED <<shared, edge, node, slotval, result, returned, before>>

(* mutant: the edge is not counted *)
BindNoCount(p) ==
  /\ Goto(p, "count", "head")
  /\ slot' = [slot EXCEPT ![p] = HashNode(edge[p][1])]
  /\ UNCHANGED <<shared, edge, node, slotval, result, returned, before>>

(* __sync_fetch_and_add(dcounter, 1), assert(size <= dep_size) *)
BindCount(p) ==
  /\ Goto(p, "count", IF dcounter <= DepSize THEN "head" ELSE "assertion_failure")
  /\ dcounter' = dcounter + 1
  /\ slot' = [slot EXCEPT ![p] = HashNode(edge[p][1])]
  /\ UNCHANGED <<bindings, deptbl, edge, node, slotval, result, returned, before>>

-----------------------------------------------------------------------------
(* prepend_to_deptbl_list and alloc_deptbl_node *)

IsHead(entry, k) == entry.key = <<k, "KEY">>

(* What prepend does with a slot that is not free. *)
SeeHead(p, entry) ==
  \/ /\ IsHead(entry, edge[p][1])
     /\ pc' = [pc EXCEPT ![p] = "alloc"]
     /\ slotval' = [slotval EXCEPT ![p] = entry]
     /\ node' = [node EXCEPT ![p] = HashEdge(edge[p])]
     /\ UNCHANGED slot
  \/ /\ ~ IsHead(entry, edge[p][1])
     /\ pc' = [pc EXCEPT ![p] = "head"]
     /\ slot' = [slot EXCEPT ![p] = After(@)]
     /\ UNCHANGED <<slotval, node>>

HeadRead(p) ==
  /\ pc[p] = "head"
  /\ \/ /\ deptbl[slot[p]] = Zero
        /\ pc' = [pc EXCEPT ![p] = "head_cas"]
        /\ UNCHANGED <<slot, slotval, node>>
     \/ deptbl[slot[p]] # Zero /\ SeeHead(p, deptbl[slot[p]])
  /\ UNCHANGED <<shared, edge, result, returned, before>>

(* mutant: what the racing writer put there is not looked at *)
HeadCasSkip(p) ==
  /\ pc[p] = "head_cas"
  /\ \/ /\ deptbl[slot[p]] = Zero
        /\ deptbl' = [deptbl EXCEPT ![slot[p]] = HeadSlot(edge[p][1], Value(edge[p][2]))]
        /\ Added(p)
        /\ UNCHANGED <<bindings, dcounter>>
     \/ /\ deptbl[slot[p]] # Zero
        /\ pc' = [pc EXCEPT ![p] = "head"]
        /\ slot' = [slot EXCEPT ![p] = After(@)]
        /\ UNCHANGED <<shared, edge, slotval, node, result, returned, before>>

(* Slot is empty. Try to create a new linked list head here. *)
HeadCas(p) ==
  /\ pc[p] = "head_cas"
  /\ \/ /\ deptbl[slot[p]] = Zero
        /\ deptbl' = [deptbl EXCEPT ![slot[p]] = HeadSlot(edge[p][1], Value(edge[p][2]))]
        /\ Added(p)
        /\ UNCHANGED <<bindings, dcounter>>
     \/ /\ deptbl[slot[p]] # Zero
        /\ SeeHead(p, deptbl[slot[p]])
        /\ UNCHANGED <<shared, edge, result, returned, before>>

(* alloc_deptbl_node: a slot that is not free never becomes free, so the   *)
(* load before the compare-and-swap makes no difference.                   *)
alloc_deptbl_node(p) ==
  /\ pc[p] = "alloc"
  /\ \/ /\ deptbl[node[p]] = Zero
        /\ deptbl' = [deptbl EXCEPT ![node[p]] = ListNode(edge[p][2], Invalid)]
        /\ pc' = [pc EXCEPT ![p] = "link"]
        /\ UNCHANGED node
     \/ /\ deptbl[node[p]] # Zero
        /\ node' = [node EXCEPT ![p] = After(@)]
        /\ UNCHANGED <<deptbl, pc>>
  /\ UNCHANGED <<bindings, dcounter, edge, slot, slotval, result, returned, before>>

(* table[list_slot].s.next = slotval.s.next *)
Link(p) ==
  /\ Goto(p, "link", "push")
  /\ deptbl' = [deptbl EXCEPT ![node[p]].next = slotval[p].next]
  /\ UNCHANGED <<bindings, dcounter, edge, slot, node, slotval, result, returned, before>>

(* mutant: after a failed compare-and-swap the node keeps its old next *)
PushNoLink(p) ==
  /\ pc[p] = "push"
  /\ \/ /\ deptbl[slot[p]] = slotval[p]
        /\ deptbl' = [deptbl EXCEPT ![slot[p]] = HeadSlot(edge[p][1], Pointer(node[p]))]
        /\ Added(p)
        /\ UNCHANGED <<bindings, dcounter>>
     \/ /\ deptbl[slot[p]] # slotval[p]
        /\ slotval' = [slotval EXCEPT ![p] = deptbl[slot[p]]]
        /\ UNCHANGED <<shared, pc, edge, slot, node, result, returned, before>>

(* Try to atomically set the new list head to be our node. *)
Push(p) ==
  /\ pc[p] = "push"
  /\ \/ /\ deptbl[slot[p]] = slotval[p]
        /\ deptbl' = [deptbl EXCEPT ![slot[p]] = HeadSlot(edge[p][1], Pointer(node[p]))]
        /\ Added(p)
        /\ UNCHANGED <<bindings, dcounter>>
     \/ /\ deptbl[slot[p]] # slotval[p]
        /\ pc' = [pc EXCEPT ![p] = "link"]
        /\ slotval' = [slotval EXCEPT ![p] = deptbl[slot[p]]]
        /\ UNCHANGED <<shared, edge, slot, node, result, returned, before>>

-----------------------------------------------------------------------------
(* hh_get_dep *)

Binding == {"bind", "bind_free", "bind_taken", "bind_cas"}
Prepending == {"count", "head", "head_cas", "alloc", "link", "push"}
Walking == {"probe", "walk"}
Raised == {"dep_table_full", "assertion_failure"}

(* The targets of k that no add_dep is still busy with. *)
Settled(k) ==
  {e[2] : e \in {f \in returned : f[1] = k /\ \A p \in Process : edge[p] = f => pc[p] \notin Prepending}}

hh_get_dep(p) ==
  /\ Goto(p, "idle", "probe")
  /\ \E k \in Source :
       /\ edge' = [edge EXCEPT ![p] = <<k, 0>>]
       /\ slot' = [slot EXCEPT ![p] = HashNode(k)]
       /\ before' = [before EXCEPT ![p] = Settled(k)]
  /\ UNCHANGED <<shared, node, slotval, result, returned>>

(* mutant: a free slot does not end the search *)
GetProbeOn(p) ==
  /\ pc[p] = "probe"
  /\ \/ /\ IsHead(deptbl[slot[p]], edge[p][1])
        /\ pc' = [pc EXCEPT ![p] = "walk"]
        /\ slotval' = [slotval EXCEPT ![p] = deptbl[slot[p]]]
        /\ UNCHANGED slot
     \/ /\ ~ IsHead(deptbl[slot[p]], edge[p][1])
        /\ slot' = [slot EXCEPT ![p] = After(@)]
        /\ UNCHANGED <<pc, slotval>>
  /\ UNCHANGED <<shared, edge, node, result, returned, before>>

GetProbe(p) ==
  /\ pc[p] = "probe"
  /\ \/ /\ deptbl[slot[p]] = Zero
        /\ pc' = [pc EXCEPT ![p] = "got"]
        /\ UNCHANGED <<slot, slotval>>
     \/ /\ IsHead(deptbl[slot[p]], edge[p][1])
        /\ pc' = [pc EXCEPT ![p] = "walk"]
        /\ slotval' = [slotval EXCEPT ![p] = deptbl[slot[p]]]
        /\ UNCHANGED slot
     \/ /\ deptbl[slot[p]] # Zero /\ ~ IsHead(deptbl[slot[p]], edge[p][1])
        /\ slot' = [slot EXCEPT ![p] = After(@)]
        /\ UNCHANGED <<pc, slotval>>
  /\ UNCHANGED <<shared, edge, node, result, returned, before>>

(***************************************************************************)
(* One round of the loop, with its assert(slotval.s.next.num < dep_size),  *)
(* or what follows the loop: the tail is a value.                          *)
(***************************************************************************)
GetWalk(p) ==
  /\ pc[p] = "walk"
  /\ LET next == slotval[p].next IN
     \/ /\ next[2] = "NEXT" /\ next[1] < DepSize
        /\ slotval' = [slotval EXCEPT ![p] = deptbl[next[1]]]
        /\ result' = [result EXCEPT ![p] = <<deptbl[next[1]].key[1]>> \o @]
        /\ UNCHANGED pc
     \/ /\ next[2] = "VAL" \/ next[1] >= DepSize
        /\ pc' = [pc EXCEPT ![p] = IF next[2] = "VAL" THEN "got" ELSE "assertion_failure"]
        /\ result' = [result EXCEPT ![p] = <<next[1]>> \o @]
        /\ UNCHANGED slotval
  /\ UNCHANGED <<shared, edge, slot, node, returned, before>>

GetReturn(p) == pc[p] = "got" /\ Leave(p) /\ UNCHANGED <<shared, returned>>

(* The master forgets all dependencies; no process is in an operation. *)
pyre_reset ==
  /\ \A p \in Process : pc[p] = "idle"
  /\ bindings' = [s \in Slot |-> NoBinding]
  /\ dcounter' = 0
  /\ deptbl' = [s \in Slot |-> Zero]
  /\ returned' = {}
  /\ UNCHANGED <<pc, edge, slot, node, slotval, result, before>>

-----------------------------------------------------------------------------
(***************************************************************************)
(* hh_save_dep_table_sqlite: the master writes a row per list into a new   *)
(* database, from which a later server reads the edges (SavedState).       *)
(***************************************************************************)

(* The values of the list with head s, in the order of its cells; nothing  *)
(* after a cell that fails assert(slotval.s.next.num < dep_size).          *)
Values(s) ==
  LET from[n \in 0 .. DepSize] == [t \in Slot |->
        LET next == deptbl[t].next IN
        IF next[2] = "VAL" THEN <<next[1]>>
        ELSE IF n = 0 \/ next[1] >= DepSize THEN <<>>
        ELSE <<deptbl[next[1]].key[1]>> \o from[n - 1][next[1]]]
  IN  from[DepSize][s]

(* mutant: the value in the tail of the list is left out *)
SaveSlotNoTail(rows, s) ==
  IF deptbl[s].key[2] = "KEY"
  THEN [rows EXCEPT ![deptbl[s].key[1]] = Front(Values(s)) \o @]
  ELSE rows

(* INSERT OR REPLACE of the values of the slot before those of the row. *)
SaveSlot(rows, s) ==
  IF deptbl[s].key[2] = "KEY"
  THEN [rows EXCEPT ![deptbl[s].key[1]] = Values(s) \o @]
  ELSE rows

hh_update_dep_table_helper(rows) ==
  FoldLeft(SaveSlot, rows, [i \in 1 .. DepSize |-> i - 1])

hh_save_dep_table_sqlite == hh_update_dep_table_helper([k \in Source |-> <<>>])

hh_get_dep_sqlite(rows, k) == Reverse(rows[k])

AddStep(p) ==
  \/ BindRead(p) \/ BindFull(p) \/ BindNext(p) \/ BindTry(p) \/ BindCas(p) \/ BindCount(p)
  \/ HeadRead(p) \/ HeadCas(p) \/ alloc_deptbl_node(p) \/ Link(p) \/ Push(p)

GetStep(p) == GetProbe(p) \/ GetWalk(p) \/ GetReturn(p)

Next ==
  \/ \E p \in Process : add_dep(p) \/ AddStep(p) \/ hh_get_dep(p) \/ GetStep(p)
  \/ pyre_reset

Spec == Init /\ [][Next]_vars

(* A process that is inside an operation keeps running. *)
FairSpec == Spec /\ \A p \in Process : WF_vars(AddStep(p) \/ GetStep(p))

-----------------------------------------------------------------------------

(***************************************************************************)
(* "Each edge in the graph takes up exactly one slot in deptbl".  As there *)
(* are as many slots in deptbl as in deptbl_bindings, alloc_deptbl_node,   *)
(* which has no limit, always finds one.                                   *)
(***************************************************************************)
OneSlotPerEdge ==
  LET used == {s \in Slot : deptbl[s] # Zero}
      bound == {s \in Slot : bindings[s] # NoBinding}
      pending == {p \in Process : pc[p] \in {"count", "head", "head_cas", "alloc"}}
  IN  Cardinality(used) + Cardinality(pending) = Cardinality(bound)

(***************************************************************************)
(* A source node has one list: two processes that add its first edges at   *)
(* once agree on the head, or one list would never be found again.         *)
(***************************************************************************)
OneList ==
  \A s, t \in Slot : deptbl[s].key[2] = "KEY" /\ deptbl[s].key = deptbl[t].key => s = t

(***************************************************************************)
(* hh_get_dep, while others add edges, returns no value twice, no value    *)
(* that was not added, and every edge that was there when it was called.   *)
(***************************************************************************)
ReadsGraph ==
  \A p \in Process : pc[p] = "got" =>
    /\ IsInjective(result[p])
    /\ before[p] \subseteq Range(result[p])
    /\ \A v \in Range(result[p]) : \E s \in Slot : bindings[s] = <<edge[p][1], v>>

(***************************************************************************)
(* Once no process is adding edges, a file that is saved holds every edge  *)
(* add_dep has returned for, and each edge once: a server that starts from *)
(* the file finds the dependents that the saving one would have found.     *)
(***************************************************************************)
SavedIsGraph ==
  (\A p \in Process : pc[p] \in {"idle"} \cup Raised) =>
    \A k \in Source :
      LET row == hh_get_dep_sqlite(hh_save_dep_table_sqlite, k)
      IN  IsInjective(row) /\ Range(row) = {e[2] : e \in {f \in returned : f[1] = k}}

(***************************************************************************)
(* Every add_dep ends, in a full table too, though none of its three loops *)
(* has a bound, and every hh_get_dep unless the table gets full under its  *)
(* feet.                                                                   *)
(***************************************************************************)
LoopsEnd ==
  \A p \in Process :
    /\ (pc[p] \in Binding \cup Prepending) ~> (pc[p] \in {"idle"} \cup Raised)
    /\ (pc[p] \in Walking) ~> (pc[p] = "got" \/ \A s \in Slot : deptbl[s] # Zero)

=============================================================================

------------------------- MODULE DependencyTableProofs -------------------------
(***************************************************************************)
(* Proofs about DependencyTable, for every size of the table, every graph, *)
(* all hash functions and any number of processes.                         *)
(***************************************************************************)
EXTENDS DependencyTable, WellFoundedInduction, FiniteSetTheorems, TLAPS

Entry == [key : Nat \X {"KEY", "VAL"}, next : Nat \X {"VAL", "NEXT"}]

(* All but "assertion_failure" *)
Place == {"idle", "got", "dep_table_full"} \cup Binding \cup Prepending \cup Walking

TypeInv ==
  /\ bindings \in [Slot -> Edge \cup {NoBinding}]
  /\ dcounter \in Nat
  /\ deptbl \in [Slot -> Entry]
  /\ pc \in [Process -> Place]
  /\ edge \in [Process -> Nat \X Nat]
  /\ slot \in [Process -> Slot]
  /\ node \in [Process -> Slot]
  /\ slotval \in [Process -> Entry]
  /\ result \in [Process -> Seq(Nat)]
  /\ returned \in SUBSET Edge
  /\ before \in [Process -> SUBSET Nat]
  /\ \A p \in Process : pc[p] \in Binding \cup Prepending => edge[p] \in Edge
  /\ \A p \in Process : pc[p] \in Walking \cup {"got"} => edge[p][1] \in Source

-----------------------------------------------------------------------------
(* deptbl_bindings: an edge has one slot, and probing finds it. *)

(* The slots a probe has passed on its way from h to s *)
Passed(h, s) == IF h <= s THEN h .. s - 1 ELSE (h .. DepSize - 1) \cup (0 .. s - 1)

IsBound(e) == \E s \in Slot : bindings[s] = e

BindTableInv ==
  /\ \A s, t \in Slot : bindings[s] = bindings[t] /\ bindings[s] # NoBinding => s = t
  /\ \A s \in Slot : bindings[s] # NoBinding =>
       \A r \in Passed(HashEdge(bindings[s]), s) : bindings[r] # NoBinding
  /\ \A e \in returned : e # NoBinding => IsBound(e)

BindLocal(p) ==
  /\ pc[p] \in Binding =>
       \A r \in Passed(HashEdge(edge[p]), slot[p]) : bindings[r] # NoBinding /\ bindings[r] # edge[p]
  /\ pc[p] = "bind_taken" => bindings[slot[p]] # NoBinding /\ bindings[slot[p]] # edge[p]
  /\ pc[p] \in {"bind_free", "bind_cas"} \cup Prepending => edge[p] # NoBinding
  /\ pc[p] \in Prepending => IsBound(edge[p])

BindInv == BindTableInv /\ \A p \in Process : BindLocal(p)

-----------------------------------------------------------------------------
(* deptbl: a source node has one head, and probing finds it. *)

HasHead(k) == \E s \in Slot : IsHead(deptbl[s], k)

HeadTableInv ==
  /\ \A s \in Slot : deptbl[s].key[2] = "KEY" => deptbl[s].key[1] \in Source
  /\ \A k \in Source : \A s, t \in Slot : IsHead(deptbl[s], k) /\ IsHead(deptbl[t], k) => s = t
  /\ \A k \in Source : \A s \in Slot : IsHead(deptbl[s], k) =>
       \A r \in Passed(HashNode(k), s) : deptbl[r] # Zero

HeadLocal(p) ==
  /\ pc[p] \in {"head", "head_cas", "probe"} =>
       \A r \in Passed(HashNode(edge[p][1]), slot[p]) :
         deptbl[r] # Zero /\ ~ IsHead(deptbl[r], edge[p][1])
  /\ pc[p] \in {"alloc", "link", "push"} =>
       IsHead(deptbl[slot[p]], edge[p][1]) /\ IsHead(slotval[p], edge[p][1])

HeadInv == HeadTableInv /\ \A p \in Process : HeadLocal(p)

-----------------------------------------------------------------------------
(* An edge and a cell that is not in its list yet have one owner. *)

OwnInv ==
  /\ \A p, q \in Process :
       pc[p] \in Prepending /\ pc[q] \in Prepending /\ edge[p] = edge[q] => p = q
  /\ \A p, q \in Process :
       pc[p] \in {"link", "push"} /\ pc[q] \in {"link", "push"} /\ node[p] = node[q] => p = q
  /\ \A p \in Process : pc[p] \in {"link", "push"} =>
       deptbl[node[p]] # Zero /\ deptbl[node[p]].key = Value(edge[p][2])
  /\ \A p \in Process : pc[p] = "push" => deptbl[node[p]].next = slotval[p].next

-----------------------------------------------------------------------------
(***************************************************************************)
(* The lists, in the order in which they grow: list k has n[k] values, the *)
(* i-th is v[k][i], and is in cell c[k][i] except for the first, which is  *)
(* in the `next' of the cell after it.                                     *)
(***************************************************************************)
NextOf(v, c, k, i) == IF i = 1 THEN Value(v[k][1]) ELSE Pointer(c[k][i])

ListsShape(n, v, c) ==
  /\ \A k \in Source : n[k] > 0 <=> HasHead(k)
  /\ \A k \in Source : \A s \in Slot : IsHead(deptbl[s], k) => deptbl[s].next = NextOf(v, c, k, n[k])
  /\ \A k \in Source : \A i \in 2 .. n[k] :
       deptbl[c[k][i]].key = Value(v[k][i]) /\ deptbl[c[k][i]].next = NextOf(v, c, k, i - 1)
  /\ \A k \in Source : \A i \in 2 .. n[k] :
       \A p \in Process : pc[p] \in {"link", "push"} => c[k][i] # node[p]

ListsValues(n, v) ==
  /\ \A k \in Source : \A i, j \in 1 .. n[k] : v[k][i] = v[k][j] => i = j
  /\ \A k \in Source : \A i \in 1 .. n[k] : <<k, v[k][i]>> # NoBinding /\ IsBound(<<k, v[k][i]>>)
  /\ \A p \in Process : pc[p] \in Prepending =>
       \A i \in 1 .. n[edge[p][1]] : v[edge[p][1]][i] # edge[p][2]
  /\ \A e \in Edge : e # NoBinding /\ IsBound(e) =>
       \/ \E p \in Process : pc[p] \in Prepending /\ edge[p] = e
       \/ \E i \in 1 .. n[e[1]] : v[e[1]][i] = e[2]

(* Who is about to put a cell before one that it has seen at the head *)
PushLocal(n, v, c, p) ==
  pc[p] \in {"alloc", "link", "push"} =>
    \E i \in 1 .. n[edge[p][1]] : slotval[p].next = NextOf(v, c, edge[p][1], i)

(* What a reader must find is among the first m values of the list. *)
FoundIn(v, k, m, S) == \A x \in S : <<k, x>> \in Edge /\ (<<k, x>> = NoBinding \/ \E i \in 1 .. m : v[k][i] = x)

ReadLocal(n, v, c, p) ==
  LET k == edge[p][1]
      len == Len(result[p])
  IN  /\ pc[p] \notin {"walk", "got"} => result[p] = <<>>
      /\ pc[p] = "probe" => FoundIn(v, k, n[k], before[p])
      /\ pc[p] = "walk" =>
           \E i \in 1 .. n[k] :
             /\ slotval[p].next = NextOf(v, c, k, i)
             /\ i + len <= n[k]
             /\ \A r \in 1 .. len : result[p][r] = v[k][i + r]
             /\ FoundIn(v, k, i + len, before[p])
      /\ pc[p] = "got" =>
           /\ len <= n[k]
           /\ \A r \in 1 .. len : result[p][r] = v[k][r]
           /\ FoundIn(v, k, len, before[p])

Lists(n, v, c) ==
  /\ ListsShape(n, v, c)
  /\ ListsValues(n, v)
  /\ \A p \in Process : PushLocal(n, v, c, p) /\ ReadLocal(n, v, c, p)

ListInv ==
  \E n \in [Source -> Nat], v \in [Source -> [Nat -> Nat]], c \in [Source -> [Nat -> Slot]] : Lists(n, v, c)

-----------------------------------------------------------------------------
(* The counters: who counts, and who has an edge and no slot for it. *)

Bound == {s \in Slot : bindings[s] # NoBinding}
Used == {s \in Slot : deptbl[s] # Zero}
Counting == {p \in Process : pc[p] = "count"}
Unplaced == {p \in Process : pc[p] \in {"count", "head", "head_cas", "alloc"}}

CountInv ==
  /\ IsFiniteSet(Unplaced)
  /\ Cardinality(Used) + Cardinality(Unplaced) = Cardinality(Bound)
  /\ dcounter + Cardinality(Counting) = Cardinality(Bound)

Inv == TypeInv /\ BindInv /\ HeadInv /\ OwnInv /\ ListInv /\ CountInv

-----------------------------------------------------------------------------
(***************************************************************************)
(* Probing                                                                 *)
(***************************************************************************)
LEMMA SlotType == DepSize \in Nat /\ DepSize > 0 /\ 0 \in Slot
BY DepSizeAssumption DEF Slot

LEMMA AfterSlot == \A s \in Slot : After(s) \in Slot /\ After(s) = IF s = DepSize - 1 THEN 0 ELSE s + 1
<1> SUFFICES ASSUME NEW s \in Slot
             PROVE  After(s) \in Slot /\ After(s) = IF s = DepSize - 1 THEN 0 ELSE s + 1
  OBVIOUS
<1>1. CASE s = DepSize - 1
  <2>1. (s + 1) % DepSize = 0
    BY <1>1, SlotType
  <2> QED BY <1>1, <2>1, SlotType DEF After
<1>2. CASE s # DepSize - 1
  <2>1. s + 1 \in 0 .. DepSize - 1
    BY <1>2, SlotType DEF Slot
  <2>2. (s + 1) % DepSize = s + 1
    BY <2>1, SlotType
  <2> QED BY <1>2, <2>1, <2>2 DEF After, Slot
<1> QED
  BY <1>1, <1>2

LEMMA PassedSlots ==
  ASSUME NEW h \in Slot, NEW s \in Slot
  PROVE  Passed(h, s) \subseteq Slot /\ s \notin Passed(h, s) /\ Passed(h, h) = {}
BY SlotType DEF Slot, Passed

LEMMA PassedNext ==
  ASSUME NEW h \in Slot, NEW s \in Slot
  PROVE  \A r \in Passed(h, After(s)) : r \in Passed(h, s) \/ r = s
BY SlotType, AfterSlot DEF Slot, Passed

(* Of two slots a probe comes to one before the other. *)
LEMMA PassedTotal ==
  ASSUME NEW h \in Slot, NEW s \in Slot, NEW t \in Slot, s # t
  PROVE  s \in Passed(h, t) \/ t \in Passed(h, s)
BY SlotType DEF Slot, Passed

LEMMA EdgePair ==
  /\ Edge \subseteq Nat \X Nat
  /\ \A e \in Edge : e[1] \in Source /\ e[1] \in Nat /\ e[2] \in Nat /\ e = <<e[1], e[2]>>
  /\ Source \subseteq Nat
BY EdgeAssumption DEF Source

LEMMA Entries ==
  /\ Zero \in Entry /\ Zero.key = <<0, "VAL">> /\ Zero.next = <<0, "VAL">>
  /\ \A k \in Nat, next \in Nat \X {"VAL", "NEXT"} :
       /\ HeadSlot(k, next) \in Entry /\ HeadSlot(k, next) # Zero
       /\ HeadSlot(k, next).key = <<k, "KEY">> /\ HeadSlot(k, next).next = next
       /\ ListNode(k, next) \in Entry
       /\ ListNode(k, next).key = <<k, "VAL">> /\ ListNode(k, next).next = next
  /\ \A k \in Nat : Value(k) \in Nat \X {"VAL", "NEXT"} /\ Pointer(k) \in Nat \X {"VAL", "NEXT"}
  /\ Invalid = Pointer(DepSize) /\ Invalid \in Nat \X {"VAL", "NEXT"}
BY SlotType DEF Zero, Entry, HeadSlot, ListNode, Value, Pointer, Invalid

LEMMA EntryEqual == \A a, b \in Entry : a.key = b.key /\ a.next = b.next => a = b
BY DEF Entry

LEMMA HeadIs ==
  ASSUME NEW a \in Entry, NEW k \in Nat
  PROVE  /\ IsHead(a, k) <=> a.key[2] = "KEY" /\ a.key[1] = k
         /\ IsHead(a, k) => a # Zero
<1>1. PICK x \in Nat, y \in {"KEY", "VAL"} : a.key = <<x, y>>
  BY DEF Entry
<1>2. a.key[1] = x /\ a.key[2] = y
  BY <1>1
<1>3. a.key = <<k, "KEY">> <=> x = k /\ y = "KEY"
  BY <1>1
<1>4. Zero.key # <<k, "KEY">>
  BY Entries
<1> QED
  BY <1>2, <1>3, <1>4 DEF IsHead

-----------------------------------------------------------------------------
(***************************************************************************)
(* Steps                                                                   *)
(***************************************************************************)
Step(p) == add_dep(p) \/ AddStep(p) \/ hh_get_dep(p) \/ GetStep(p)

LocalsKept(q) ==
  /\ pc'[q] = pc[q] /\ edge'[q] = edge[q] /\ slot'[q] = slot[q] /\ node'[q] = node[q]
  /\ slotval'[q] = slotval[q] /\ result'[q] = result[q] /\ before'[q] = before[q]

LEMMA NextCases == [Next]_vars => UNCHANGED vars \/ pyre_reset \/ \E p \in Process : Step(p)
BY DEF Next, Step

(* A step of p changes the locals of p only. *)
LEMMA OthersKept ==
  ASSUME TypeInv, NEW p \in Process, Step(p)
  PROVE  \A q \in Process : q # p => LocalsKept(q)
<1> SUFFICES ASSUME NEW q \in Process, q # p PROVE LocalsKept(q)
  OBVIOUS
<1> USE DEF LocalsKept, TypeInv, Goto
<1>1. CASE add_dep(p)
  BY <1>1 DEF add_dep
<1>2. CASE hh_get_dep(p)
  BY <1>2 DEF hh_get_dep
<1>3. CASE GetStep(p)
  BY <1>3 DEF GetStep, GetProbe, GetWalk, GetReturn, Leave
<1>4. CASE BindRead(p) \/ BindFull(p) \/ BindNext(p) \/ BindTry(p) \/ BindCas(p) \/ BindCount(p)
  BY <1>4 DEF BindRead, BindFull, BindNext, BindTry, BindCas, BindCount, Added, Leave
<1>5. CASE HeadRead(p) \/ HeadCas(p)
  BY <1>5 DEF HeadRead, HeadCas, SeeHead, Added, Leave
<1>6. CASE alloc_deptbl_node(p) \/ Link(p) \/ Push(p)
  BY <1>6 DEF alloc_deptbl_node, Link, Push, Added, Leave
<1> QED
  BY <1>1, <1>2, <1>3, <1>4, <1>5, <1>6 DEF Step, AddStep

LEMMA NoLocals ==
  NoBinding \in Nat \X Nat /\ 0 \in Slot /\ Zero \in Entry /\ <<>> \in Seq(Nat) /\ "idle" \in Place
<1>1. NoBinding \in Nat \X Nat
  BY DEF NoBinding
<1>2. <<>> \in Seq(Nat)
  OBVIOUS
<1>3. "idle" \in Place
  BY DEF Place
<1>4. Zero \in Entry
  BY DEF Zero, ListNode, Value, Entry
<1> QED
  BY <1>1, <1>2, <1>3, <1>4, SlotType

(* Who leaves is idle, and has nothing of the operation left. *)
LEMMA LeaveIs ==
  ASSUME TypeInv, NEW p \in Process, Leave(p)
  PROVE  /\ pc'[p] = "idle"
         /\ pc' \in [Process -> Place] /\ edge' \in [Process -> Nat \X Nat]
         /\ slot' \in [Process -> Slot] /\ node' \in [Process -> Slot] /\ slotval' \in [Process -> Entry]
         /\ result' \in [Process -> Seq(Nat)] /\ before' \in [Process -> SUBSET Nat]
<1>1. NoBinding \in Nat \X Nat /\ 0 \in Slot /\ Zero \in Entry /\ <<>> \in Seq(Nat) /\ "idle" \in Place
  BY NoLocals
<1>2. pc' \in [Process -> Place] /\ pc'[p] = "idle"
  BY <1>1 DEF TypeInv, Leave
<1>3. edge' \in [Process -> Nat \X Nat]
  BY <1>1 DEF TypeInv, Leave
<1>4. slot' \in [Process -> Slot] /\ node' \in [Process -> Slot]
  BY <1>1 DEF TypeInv, Leave
<1>5. slotval' \in [Process -> Entry]
  BY <1>1 DEF TypeInv, Leave
<1>6. result' \in [Process -> Seq(Nat)]
  BY <1>1 DEF TypeInv, Leave
<1>7. before' \in [Process -> SUBSET Nat]
  BY DEF TypeInv, Leave
<1> QED
  BY <1>2, <1>3, <1>4, <1>5, <1>6, <1>7

LEMMA InitTypeInv == Init => TypeInv
<1> SUFFICES ASSUME Init PROVE TypeInv
  OBVIOUS
<1>1. NoBinding \in Nat \X Nat /\ 0 \in Slot /\ Zero \in Entry /\ <<>> \in Seq(Nat) /\ "idle" \in Place
  BY NoLocals
<1>2. /\ bindings \in [Slot -> Edge \cup {NoBinding}] /\ dcounter \in Nat /\ deptbl \in [Slot -> Entry]
      /\ pc \in [Process -> Place]
  BY <1>1 DEF Init
<1>3. edge \in [Process -> Nat \X Nat] /\ slot \in [Process -> Slot] /\ node \in [Process -> Slot]
  BY <1>1 DEF Init
<1>4. slotval \in [Process -> Entry] /\ result \in [Process -> Seq(Nat)]
  BY <1>1 DEF Init
<1>5. returned \in SUBSET Edge /\ before \in [Process -> SUBSET Nat]
  BY DEF Init
<1>6. \A p \in Process : pc[p] = "idle"
  BY DEF Init
<1> QED
  BY <1>2, <1>3, <1>4, <1>5, <1>6 DEF TypeInv, Binding, Prepending, Walking

LEMMA SlotsFinite == IsFiniteSet(Slot) /\ Cardinality(Slot) = DepSize
<1>1. 0 \in Int /\ DepSize - 1 \in Int
  BY SlotType
<1>2. IsFiniteSet(0 .. DepSize - 1) /\ Cardinality(0 .. DepSize - 1) = DepSize
  BY <1>1, SlotType, FS_Interval
<1> QED
  BY <1>2 DEF Slot

LEMMA SetsFinite ==
  ASSUME TypeInv, IsFiniteSet(Unplaced)
  PROVE  /\ IsFiniteSet(Bound) /\ Cardinality(Bound) \in Nat /\ Cardinality(Bound) <= DepSize
         /\ IsFiniteSet(Used) /\ Cardinality(Used) \in Nat
         /\ IsFiniteSet(Counting) /\ Cardinality(Counting) \in Nat
         /\ Cardinality(Unplaced) \in Nat
<1>1. Bound \subseteq Slot /\ Used \subseteq Slot
  BY DEF Bound, Used
<1>2. Counting \subseteq Unplaced
  BY DEF Counting, Unplaced
<1>3. IsFiniteSet(Bound) /\ IsFiniteSet(Used) /\ IsFiniteSet(Counting) /\ Cardinality(Bound) <= DepSize
  BY <1>1, <1>2, SlotsFinite, FS_Subset
<1> QED
  BY <1>3, FS_CardinalityType

(* assert(size <= dep_size) *)
LEMMA CountSmall ==
  ASSUME TypeInv, CountInv, NEW p \in Process, pc[p] = "count"
  PROVE  dcounter < DepSize
<1>1. p \in Counting
  BY DEF Counting
<1>2. Cardinality(Counting) # 0
  BY <1>1, SetsFinite, FS_EmptySet DEF CountInv
<1> QED
  BY <1>2, SetsFinite, SlotType DEF CountInv, TypeInv

LEMMA NextOfType ==
  ASSUME NEW v \in [Source -> [Nat -> Nat]], NEW c \in [Source -> [Nat -> Slot]], NEW k \in Source, NEW i \in Nat
  PROVE  /\ NextOf(v, c, k, i) \in Nat \X {"VAL", "NEXT"}
         /\ i = 1 => NextOf(v, c, k, i)[2] = "VAL" /\ NextOf(v, c, k, i)[1] = v[k][1]
         /\ i # 1 => NextOf(v, c, k, i)[2] = "NEXT" /\ NextOf(v, c, k, i)[1] = c[k][i]
<1>1. v[k][1] \in Nat /\ c[k][i] \in Nat
  BY DEF Slot
<1> QED
  BY <1>1 DEF NextOf, Value, Pointer

(* assert(slotval.s.next.num < dep_size) *)
LEMMA WalkValid ==
  ASSUME TypeInv, ListInv, NEW p \in Process, pc[p] = "walk"
  PROVE  /\ slotval[p].next[2] \in {"VAL", "NEXT"} /\ slotval[p].next[1] \in Nat
         /\ slotval[p].next[2] = "NEXT" => slotval[p].next[1] \in Slot
<1>1. PICK n \in [Source -> Nat], v \in [Source -> [Nat -> Nat]], c \in [Source -> [Nat -> Slot]] : Lists(n, v, c)
  BY DEF ListInv
<1> DEFINE k == edge[p][1]
<1>2. k \in Source
  BY DEF TypeInv, Walking
<1>3. PICK i \in 1 .. n[k] : slotval[p].next = NextOf(v, c, k, i)
  BY <1>1 DEF Lists, ReadLocal
<1>4. i \in Nat /\ c[k][i] \in Slot /\ c[k][i] \in Nat /\ v[k][1] \in Nat
  BY <1>2, <1>3 DEF Slot
<1> HIDE DEF k
<1>5. /\ i = 1 => NextOf(v, c, k, i)[2] = "VAL" /\ NextOf(v, c, k, i)[1] = v[k][1]
      /\ i # 1 => NextOf(v, c, k, i)[2] = "NEXT" /\ NextOf(v, c, k, i)[1] = c[k][i]
  BY <1>4 DEF NextOf, Value, Pointer
<1> DEFINE x == NextOf(v, c, k, i)
<1>6. slotval[p].next = x
  BY <1>3
<1> HIDE DEF x
<1>7. x[2] \in {"VAL", "NEXT"} /\ x[1] \in Nat /\ (x[2] = "NEXT" => x[1] \in Slot)
  BY <1>4, <1>5 DEF x
<1> QED
  BY <1>6, <1>7

LEMMA ResetTypeInv == ASSUME TypeInv, pyre_reset PROVE TypeInv'
<1>1. NoBinding \in Nat \X Nat /\ Zero \in Entry
  BY NoLocals
<1>2. /\ bindings' \in [Slot -> Edge \cup {NoBinding}] /\ deptbl' \in [Slot -> Entry]
      /\ dcounter' \in Nat /\ returned' \in SUBSET Edge
  BY <1>1 DEF pyre_reset
<1> QED
  BY <1>2 DEF pyre_reset, TypeInv

(* The invariants on the edge of a process, after its own step *)
LEMMA EdgeKept ==
  ASSUME TypeInv, NEW p \in Process, \A q \in Process : q # p => LocalsKept(q),
         pc'[p] \in Binding \cup Prepending => edge'[p] \in Edge,
         pc'[p] \in Walking \cup {"got"} => edge'[p][1] \in Source
  PROVE  /\ \A q \in Process : pc'[q] \in Binding \cup Prepending => edge'[q] \in Edge
         /\ \A q \in Process : pc'[q] \in Walking \cup {"got"} => edge'[q][1] \in Source
BY DEF TypeInv, LocalsKept

LEMMA NextTypeInv == TypeInv /\ CountInv /\ ListInv /\ [Next]_vars => TypeInv'
<1> SUFFICES ASSUME TypeInv, CountInv, ListInv, [Next]_vars PROVE TypeInv'
  OBVIOUS
<1>1. CASE UNCHANGED vars
  BY <1>1 DEF vars, shared, TypeInv
<1>2. ASSUME NEW p \in Process, Step(p) PROVE TypeInv'
  <2>0. \A q \in Process : q # p => LocalsKept(q)
    BY <1>2, OthersKept
  <2> DEFINE SharedType == bindings' \in [Slot -> Edge \cup {NoBinding}] /\ dcounter' \in Nat /\ deptbl' \in [Slot -> Entry]
             EdgeType == /\ pc'[p] \in Binding \cup Prepending => edge'[p] \in Edge
                         /\ pc'[p] \in Walking \cup {"got"} => edge'[p][1] \in Source
  <2>a. ASSUME SharedType, Leave(p), returned' \in SUBSET Edge PROVE TypeInv'
    <3>1. EdgeType
      BY <2>a, LeaveIs DEF Binding, Prepending, Walking
    <3> QED BY <2>0, <2>a, <3>1, LeaveIs, EdgeKept DEF TypeInv
  <2>b. ASSUME Added(p), edge[p] \in Edge PROVE Leave(p) /\ returned' \in SUBSET Edge
    BY <2>b DEF Added, TypeInv
  <2>c. ASSUME NEW to \in Place, pc' = [pc EXCEPT ![p] = to], EdgeType, SharedType,
               edge' \in [Process -> Nat \X Nat], slot' \in [Process -> Slot], node' \in [Process -> Slot],
               slotval' \in [Process -> Entry], result' \in [Process -> Seq(Nat)],
               returned' = returned, before' \in [Process -> SUBSET Nat]
        PROVE  TypeInv'
    BY <2>0, <2>c, EdgeKept DEF TypeInv
  <2>d. UNCHANGED shared => SharedType
    BY DEF shared, TypeInv
  <2>e. pc[p] \in Binding \cup Prepending => edge[p] \in Edge /\ edge[p][1] \in Source /\ edge[p][1] \in Nat /\ edge[p][2] \in Nat
    BY EdgePair DEF TypeInv
  <2>f. slot[p] \in Slot /\ node[p] \in Slot /\ slotval[p] \in Entry /\ deptbl[slot[p]] \in Entry
    BY DEF TypeInv
  <2> HIDE DEF SharedType, EdgeType
  <2>1. CASE add_dep(p)
    <3>1. PICK e \in Edge : edge' = [edge EXCEPT ![p] = e] /\ slot' = [slot EXCEPT ![p] = HashEdge(e)]
      BY <2>1 DEF add_dep
    <3>2. e \in Nat \X Nat /\ HashEdge(e) \in Slot
      BY HashAssumption, EdgePair
    <3>3. edge' \in [Process -> Nat \X Nat] /\ edge'[p] = e /\ slot' \in [Process -> Slot]
      BY <3>1, <3>2 DEF TypeInv
    <3>4. pc' = [pc EXCEPT ![p] = "bind"] /\ pc'[p] = "bind" /\ "bind" \in Place
      BY <2>1 DEF add_dep, Goto, TypeInv, Place, Binding
    <3>5. EdgeType
      BY <3>3, <3>4 DEF EdgeType, Walking
    <3> QED BY <2>1, <2>c, <2>d, <3>3, <3>4, <3>5 DEF add_dep, TypeInv
  <2>2. CASE hh_get_dep(p)
    <3>1. PICK k \in Source : /\ edge' = [edge EXCEPT ![p] = <<k, 0>>]
                              /\ slot' = [slot EXCEPT ![p] = HashNode(k)]
                              /\ before' = [before EXCEPT ![p] = Settled(k)]
      BY <2>2 DEF hh_get_dep
    <3>2. <<k, 0>> \in Nat \X Nat /\ HashNode(k) \in Slot /\ <<k, 0>>[1] = k
      BY HashAssumption, EdgePair
    <3>3. edge' \in [Process -> Nat \X Nat] /\ edge'[p][1] = k /\ slot' \in [Process -> Slot]
      BY <3>1, <3>2 DEF TypeInv
    <3>4. pc' = [pc EXCEPT ![p] = "probe"] /\ pc'[p] = "probe" /\ "probe" \in Place
      BY <2>2 DEF hh_get_dep, Goto, TypeInv, Place, Walking
    <3>5. EdgeType
      BY <3>3, <3>4 DEF EdgeType, Binding, Prepending
    <3>6. Settled(k) \in SUBSET Nat
      <4>1. \A e \in returned : e[2] \in Nat
        BY EdgePair DEF TypeInv
      <4> QED BY <4>1 DEF Settled
    <3>7. before' \in [Process -> SUBSET Nat]
      BY <3>1, <3>6 DEF TypeInv
    <3> QED BY <2>2, <2>c, <2>d, <3>3, <3>4, <3>5, <3>7 DEF hh_get_dep, TypeInv
  <2>3. CASE BindRead(p)
    <3>1. pc[p] = "bind" /\ UNCHANGED shared
      BY <2>3 DEF BindRead, Goto
    <3>2. edge[p] \in Edge
      BY <2>e, <3>1 DEF Binding
    <3>3. CASE Added(p)
      BY <2>a, <2>b, <2>d, <3>1, <3>2, <3>3
    <3>4. CASE ~ Added(p)
      <4>1. PICK to \in {"bind_free", "bind_taken"} : pc' = [pc EXCEPT ![p] = to]
        BY <2>3, <3>4 DEF BindRead, Goto
      <4>2. UNCHANGED <<edge, slot, node, slotval, result, returned, before>>
        BY <2>3, <3>4 DEF BindRead
      <4>3. to \in Place /\ pc'[p] = to
        BY <4>1 DEF Place, Binding, TypeInv
      <4>4. EdgeType
        BY <3>2, <4>1, <4>2, <4>3 DEF EdgeType, Walking
      <4> QED BY <2>c, <2>d, <3>1, <4>1, <4>2, <4>3, <4>4 DEF TypeInv
    <3> QED BY <3>3, <3>4
  <2>4. CASE BindFull(p)
    <3>1. pc' = [pc EXCEPT ![p] = "dep_table_full"] /\ UNCHANGED <<shared, edge, slot, node, slotval, result, returned, before>>
      BY <2>4 DEF BindFull, Goto
    <3>2. "dep_table_full" \in Place /\ pc'[p] = "dep_table_full"
      BY <3>1 DEF Place, TypeInv
    <3>3. EdgeType
      BY <3>2 DEF EdgeType, Walking, Binding, Prepending
    <3> QED BY <2>c, <2>d, <3>1, <3>2, <3>3 DEF TypeInv
  <2>5. CASE BindNext(p) \/ BindTry(p)
    <3>1. PICK to \in {"bind", "bind_cas"} : pc' = [pc EXCEPT ![p] = to]
      BY <2>5 DEF BindNext, BindTry, Goto
    <3>2. pc[p] \in Binding /\ UNCHANGED <<shared, edge, node, slotval, result, returned, before>>
      BY <2>5 DEF BindNext, BindTry, Goto, Binding
    <3>3. slot' \in [Process -> Slot]
      BY <2>5, <2>f, AfterSlot DEF BindNext, BindTry, TypeInv
    <3>4. to \in Place /\ pc'[p] = to
      BY <3>1 DEF Place, Binding, TypeInv
    <3>5. EdgeType
      BY <2>e, <3>1, <3>2, <3>4 DEF EdgeType, Walking
    <3> QED BY <2>c, <2>d, <3>1, <3>2, <3>3, <3>4, <3>5 DEF TypeInv
  <2>6. CASE BindCas(p)
    <3>1. pc[p] = "bind_cas" /\ edge[p] \in Edge
      BY <2>6, <2>e DEF BindCas, Binding
    <3>2. CASE Added(p) /\ UNCHANGED shared
      BY <2>a, <2>b, <2>d, <3>1, <3>2
    <3>3. CASE ~ (Added(p) /\ UNCHANGED shared)
      <4>1. PICK to \in {"bind", "count"} : pc' = [pc EXCEPT ![p] = to]
        BY <2>6, <3>3 DEF BindCas
      <4>2. UNCHANGED <<dcounter, deptbl, edge, node, slotval, result, returned, before>>
        BY <2>6, <3>3 DEF BindCas, shared
      <4>3. slot' \in [Process -> Slot] /\ bindings' \in [Slot -> Edge \cup {NoBinding}]
        <5>1. slot' = slot \/ slot' = [slot EXCEPT ![p] = After(@)]
          BY <2>6, <3>3 DEF BindCas
        <5>2. bindings' = bindings \/ bindings' = [bindings EXCEPT ![slot[p]] = edge[p]]
          BY <2>6, <3>3 DEF BindCas, shared
        <5>3. After(slot[p]) \in Slot
          BY <2>f, AfterSlot
        <5>4. slot' \in [Process -> Slot]
          BY <5>1, <5>3 DEF TypeInv
        <5>5. bindings' \in [Slot -> Edge \cup {NoBinding}]
          BY <3>1, <5>2 DEF TypeInv
        <5> QED BY <5>4, <5>5
      <4>4. to \in Place /\ pc'[p] = to
        BY <4>1 DEF Place, Binding, Prepending, TypeInv
      <4>5. EdgeType
        BY <3>1, <4>1, <4>2, <4>4 DEF EdgeType, Walking
      <4>6. SharedType
        BY <4>2, <4>3 DEF SharedType, TypeInv
      <4> QED BY <2>c, <4>1, <4>2, <4>3, <4>4, <4>5, <4>6 DEF TypeInv
    <3> QED BY <3>2, <3>3
  <2>7. CASE BindCount(p)
    <3>1. pc[p] = "count" /\ edge[p] \in Edge /\ edge[p][1] \in Source
      BY <2>7, <2>e DEF BindCount, Goto, Prepending
    <3>2. dcounter <= DepSize
      BY <3>1, CountSmall, SlotType DEF TypeInv
    <3>3. /\ pc' = [pc EXCEPT ![p] = "head"] /\ dcounter' = dcounter + 1
          /\ slot' = [slot EXCEPT ![p] = HashNode(edge[p][1])]
          /\ UNCHANGED <<bindings, deptbl, edge, node, slotval, result, returned, before>>
      BY <2>7, <3>2 DEF BindCount, Goto
    <3>4. slot' \in [Process -> Slot]
      BY <3>1, <3>3, HashAssumption DEF TypeInv
    <3>5. "head" \in Place /\ pc'[p] = "head"
      BY <3>3 DEF Place, Prepending, TypeInv
    <3>6. EdgeType
      BY <3>1, <3>3, <3>5 DEF EdgeType, Walking
    <3>7. SharedType
      BY <3>3 DEF SharedType, TypeInv
    <3> QED BY <2>c, <3>3, <3>4, <3>5, <3>6, <3>7 DEF TypeInv
  <2>8. ASSUME pc[p] \in Prepending, SeeHead(p, deptbl[slot[p]]),
               UNCHANGED <<shared, edge, result, returned, before>>
        PROVE  TypeInv'
    <3>1. PICK to \in {"alloc", "head"} : pc' = [pc EXCEPT ![p] = to]
      BY <2>8 DEF SeeHead
    <3>2. to \in Place /\ pc'[p] = to
      BY <3>1 DEF Place, Prepending, TypeInv
    <3>3. HashEdge(edge[p]) \in Slot /\ After(slot[p]) \in Slot
      BY <2>8, <2>e, <2>f, AfterSlot, HashAssumption
    <3>4. slot' \in [Process -> Slot] /\ node' \in [Process -> Slot]
      <4>1. slot' \in [Process -> Slot]
        BY <2>8, <3>3 DEF SeeHead, TypeInv
      <4>2. node' = node \/ node' = [node EXCEPT ![p] = HashEdge(edge[p])]
        BY <2>8 DEF SeeHead
      <4>3. node' \in [Process -> Slot]
        BY <3>3, <4>2 DEF TypeInv
      <4> QED BY <4>1, <4>3
    <3>5. slotval' \in [Process -> Entry]
      BY <2>8, <2>f DEF SeeHead, TypeInv
    <3>6. EdgeType
      BY <2>8, <2>e, <3>1, <3>2 DEF EdgeType, Walking
    <3> QED BY <2>8, <2>c, <2>d, <3>1, <3>2, <3>4, <3>5, <3>6 DEF TypeInv
  <2>9. CASE HeadRead(p)
    <3>1. pc[p] = "head" /\ pc[p] \in Prepending /\ UNCHANGED <<shared, edge, result, returned, before>>
      BY <2>9 DEF HeadRead, Prepending
    <3>2. CASE SeeHead(p, deptbl[slot[p]])
      BY <2>8, <3>1, <3>2
    <3>3. CASE ~ SeeHead(p, deptbl[slot[p]])
      <4>1. pc' = [pc EXCEPT ![p] = "head_cas"] /\ UNCHANGED <<slot, slotval, node>>
        BY <2>9, <3>3 DEF HeadRead
      <4>2. "head_cas" \in Place /\ pc'[p] = "head_cas"
        BY <4>1 DEF Place, Prepending, TypeInv
      <4>3. EdgeType
        BY <2>e, <3>1, <4>2 DEF EdgeType, Walking
      <4> QED BY <2>c, <2>d, <3>1, <4>1, <4>2, <4>3 DEF TypeInv
    <3> QED BY <3>2, <3>3
  <2>10. CASE HeadCas(p)
    <3>1. pc[p] = "head_cas" /\ pc[p] \in Prepending
      BY <2>10 DEF HeadCas, Prepending
    <3>2. CASE deptbl[slot[p]] = Zero
      <4>1. /\ deptbl' = [deptbl EXCEPT ![slot[p]] = HeadSlot(edge[p][1], Value(edge[p][2]))]
            /\ Added(p) /\ UNCHANGED <<bindings, dcounter>>
        BY <2>10, <3>2 DEF HeadCas
      <4>2. HeadSlot(edge[p][1], Value(edge[p][2])) \in Entry
        BY <2>e, <3>1, Entries
      <4>3. SharedType
        BY <4>1, <4>2 DEF SharedType, TypeInv
      <4> QED BY <2>a, <2>b, <2>e, <3>1, <4>1, <4>3
    <3>3. CASE deptbl[slot[p]] # Zero
      BY <2>8, <2>10, <3>1, <3>3 DEF HeadCas
    <3> QED BY <3>2, <3>3
  <2>11. CASE alloc_deptbl_node(p)
    <3>1. pc[p] = "alloc" /\ pc[p] \in Prepending /\ UNCHANGED <<bindings, dcounter, edge, slot, slotval, result, returned, before>>
      BY <2>11 DEF alloc_deptbl_node, Prepending
    <3>2. ListNode(edge[p][2], Invalid) \in Entry /\ After(node[p]) \in Slot
      BY <2>e, <2>f, <3>1, Entries, AfterSlot
    <3>3. deptbl' \in [Slot -> Entry] /\ node' \in [Process -> Slot]
      <4>1. deptbl' = [deptbl EXCEPT ![node[p]] = ListNode(edge[p][2], Invalid)] \/ deptbl' = deptbl
        BY <2>11 DEF alloc_deptbl_node
      <4>2. node' = [node EXCEPT ![p] = After(node[p])] \/ node' = node
        BY <2>11 DEF alloc_deptbl_node
      <4>3. deptbl' \in [Slot -> Entry]
        BY <3>2, <4>1 DEF TypeInv
      <4>4. node' \in [Process -> Slot]
        BY <3>2, <4>2 DEF TypeInv
      <4> QED BY <4>3, <4>4
    <3>4. PICK to \in {"alloc", "link"} : pc' = [pc EXCEPT ![p] = to]
      <4>1. pc = [pc EXCEPT ![p] = "alloc"]
        BY <3>1 DEF TypeInv
      <4> QED BY <2>11, <4>1 DEF alloc_deptbl_node
    <3>5. to \in Place /\ pc'[p] = to
      BY <3>4 DEF Place, Prepending, TypeInv
    <3>6. EdgeType
      BY <2>e, <3>1, <3>4, <3>5 DEF EdgeType, Walking
    <3>7. SharedType
      BY <3>1, <3>3 DEF SharedType, TypeInv
    <3> QED BY <2>c, <3>1, <3>3, <3>4, <3>5, <3>6, <3>7 DEF TypeInv
  <2>12. CASE Link(p)
    <3>1. /\ pc[p] = "link" /\ pc[p] \in Prepending /\ pc' = [pc EXCEPT ![p] = "push"]
          /\ deptbl' = [deptbl EXCEPT ![node[p]].next = slotval[p].next]
          /\ UNCHANGED <<bindings, dcounter, edge, slot, node, slotval, result, returned, before>>
      BY <2>12 DEF Link, Goto, Prepending
    <3>2. deptbl' \in [Slot -> Entry]
      <4>1. \A e \in Entry : [e EXCEPT !.next = slotval[p].next] \in Entry
        BY <2>f DEF Entry
      <4>2. deptbl' = [deptbl EXCEPT ![node[p]] = [deptbl[node[p]] EXCEPT !.next = slotval[p].next]]
        BY <3>1
      <4> QED BY <2>f, <4>1, <4>2 DEF TypeInv
    <3>3. "push" \in Place /\ pc'[p] = "push"
      BY <3>1 DEF Place, Prepending, TypeInv
    <3>4. EdgeType
      BY <2>e, <3>1, <3>3 DEF EdgeType, Walking
    <3>5. SharedType
      BY <3>1, <3>2 DEF SharedType, TypeInv
    <3> QED BY <2>c, <3>1, <3>3, <3>4, <3>5 DEF TypeInv
  <2>13. CASE Push(p)
    <3>1. pc[p] = "push" /\ pc[p] \in Prepending
      BY <2>13 DEF Push, Prepending
    <3>2. CASE deptbl[slot[p]] = slotval[p]
      <4>1. /\ deptbl' = [deptbl EXCEPT ![slot[p]] = HeadSlot(edge[p][1], Pointer(node[p]))]
            /\ Added(p) /\ UNCHANGED <<bindings, dcounter>>
        BY <2>13, <3>2 DEF Push
      <4>2. node[p] \in Nat
        BY <2>f DEF Slot
      <4>3. HeadSlot(edge[p][1], Pointer(node[p])) \in Entry
        BY <2>e, <3>1, <4>2, Entries
      <4>4. SharedType
        BY <4>1, <4>3 DEF SharedType, TypeInv
      <4> QED BY <2>a, <2>b, <2>e, <3>1, <4>1, <4>4
    <3>3. CASE deptbl[slot[p]] # slotval[p]
      <4>1. /\ pc' = [pc EXCEPT ![p] = "link"] /\ slotval' = [slotval EXCEPT ![p] = deptbl[slot[p]]]
            /\ UNCHANGED <<shared, edge, slot, node, result, returned, before>>
        BY <2>13, <3>3 DEF Push
      <4>2. "link" \in Place /\ pc'[p] = "link"
        BY <4>1 DEF Place, Prepending, TypeInv
      <4>3. EdgeType
        BY <2>e, <3>1, <4>1, <4>2 DEF EdgeType, Walking
      <4>4. slotval' \in [Process -> Entry]
        BY <2>f, <4>1 DEF TypeInv
      <4> QED BY <2>c, <2>d, <4>1, <4>2, <4>3, <4>4 DEF TypeInv
    <3> QED BY <3>2, <3>3
  <2>14. CASE GetProbe(p)
    <3>1. pc[p] = "probe" /\ UNCHANGED <<shared, edge, node, result, returned, before>>
      BY <2>14 DEF GetProbe
    <3>2. PICK to \in {"probe", "walk", "got"} : pc' = [pc EXCEPT ![p] = to]
      <4>1. pc = [pc EXCEPT ![p] = "probe"]
        BY <3>1 DEF TypeInv
      <4> QED BY <2>14, <4>1 DEF GetProbe
    <3>3. to \in Place /\ pc'[p] = to
      BY <3>2 DEF Place, Walking, TypeInv
    <3>4. EdgeType
      BY <3>1, <3>2, <3>3 DEF EdgeType, Walking, Binding, Prepending, TypeInv
    <3>5. slot' \in [Process -> Slot] /\ slotval' \in [Process -> Entry]
      BY <2>14, <2>f, AfterSlot DEF GetProbe, TypeInv
    <3> QED BY <2>c, <2>d, <3>1, <3>2, <3>3, <3>4, <3>5 DEF TypeInv
  <2>15. CASE GetWalk(p)
    <3> DEFINE next == slotval[p].next
    <3>1. pc[p] = "walk" /\ UNCHANGED <<shared, edge, slot, node, returned, before>>
      BY <2>15 DEF GetWalk
    <3>2. next[2] \in {"VAL", "NEXT"} /\ next[1] \in Nat /\ (next[2] = "NEXT" => next[1] \in Slot)
      BY <3>1, WalkValid
    <3>3. PICK to \in {"walk", "got"} : pc' = [pc EXCEPT ![p] = to]
      <4>1. pc = [pc EXCEPT ![p] = "walk"]
        BY <3>1 DEF TypeInv
      <4>2. next[1] >= DepSize => next[2] = "VAL"
        BY <3>2, SlotType DEF Slot
      <4> HIDE DEF next
      <4>3. \/ UNCHANGED pc
            \/ /\ pc' = [pc EXCEPT ![p] = IF next[2] = "VAL" THEN "got" ELSE "assertion_failure"]
               /\ next[2] = "VAL" \/ next[1] >= DepSize
        BY <2>15 DEF GetWalk, next
      <4> QED BY <4>1, <4>2, <4>3
    <3>4. to \in Place /\ pc'[p] = to
      BY <3>3 DEF Place, Walking, TypeInv
    <3>5. EdgeType
      BY <3>1, <3>3, <3>4 DEF EdgeType, Walking, Binding, Prepending, TypeInv
    <3>6. PICK x \in Nat : result' = [result EXCEPT ![p] = <<x>> \o @] /\ slotval' \in [Process -> Entry]
      <4>1. next[2] = "NEXT" => deptbl[next[1]] \in Entry /\ deptbl[next[1]].key[1] \in Nat
        BY <3>2 DEF TypeInv, Entry
      <4>2. \/ /\ next[2] = "NEXT"
               /\ slotval' = [slotval EXCEPT ![p] = deptbl[next[1]]]
               /\ result' = [result EXCEPT ![p] = <<deptbl[next[1]].key[1]>> \o @]
            \/ slotval' = slotval /\ result' = [result EXCEPT ![p] = <<next[1]>> \o @]
        BY <2>15 DEF GetWalk
      <4> HIDE DEF next
      <4>3. CASE /\ next[2] = "NEXT"
                 /\ slotval' = [slotval EXCEPT ![p] = deptbl[next[1]]]
                 /\ result' = [result EXCEPT ![p] = <<deptbl[next[1]].key[1]>> \o @]
        <5>1. slotval' \in [Process -> Entry]
          BY <4>1, <4>3 DEF TypeInv
        <5> QED BY <4>1, <4>3, <5>1
      <4>4. CASE slotval' = slotval /\ result' = [result EXCEPT ![p] = <<next[1]>> \o @]
        BY <3>2, <4>4 DEF TypeInv
      <4> QED BY <4>2, <4>3, <4>4
    <3>7. result' \in [Process -> Seq(Nat)]
      <4>1. result[p] \in Seq(Nat)
        BY DEF TypeInv
      <4>2. <<x>> \o result[p] \in Seq(Nat)
        BY <4>1
      <4> QED BY <3>6, <4>2 DEF TypeInv
    <3> QED BY <2>c, <2>d, <3>1, <3>3, <3>4, <3>5, <3>6, <3>7 DEF TypeInv
  <2>16. CASE GetReturn(p)
    BY <2>16, <2>a, <2>d DEF GetReturn, TypeInv
  <2> QED
    BY <1>2, <2>1, <2>2, <2>3, <2>4, <2>5, <2>6, <2>7, <2>9, <2>10, <2>11, <2>12, <2>13, <2>14, <2>15, <2>16
       DEF Step, AddStep, GetStep
<1> QED
  BY <1>1, <1>2, ResetTypeInv, NextCases

-----------------------------------------------------------------------------
(***************************************************************************)
(* What a step does to the two tables: most do nothing to them, the others *)
(* fill one slot.                                                          *)
(***************************************************************************)
Binds(p) ==
  /\ pc[p] = "bind_cas" /\ pc'[p] = "count"
  /\ bindings[slot[p]] = NoBinding
  /\ bindings' = [bindings EXCEPT ![slot[p]] = edge[p]]
  /\ edge'[p] = edge[p] /\ slot'[p] = slot[p]
  /\ UNCHANGED <<dcounter, deptbl, returned>>

NewHead(p) ==
  /\ pc[p] = "head_cas"
  /\ deptbl[slot[p]] = Zero
  /\ deptbl' = [deptbl EXCEPT ![slot[p]] = HeadSlot(edge[p][1], Value(edge[p][2]))]
  /\ Added(p)
  /\ UNCHANGED <<bindings, dcounter>>

NewCell(p) ==
  /\ pc[p] = "alloc" /\ pc'[p] = "link"
  /\ deptbl[node[p]] = Zero
  /\ deptbl' = [deptbl EXCEPT ![node[p]] = ListNode(edge[p][2], Invalid)]
  /\ edge'[p] = edge[p] /\ slot'[p] = slot[p] /\ node'[p] = node[p] /\ slotval'[p] = slotval[p]
  /\ UNCHANGED <<bindings, dcounter, returned>>

Links(p) ==
  /\ pc[p] = "link" /\ pc'[p] = "push"
  /\ deptbl' = [deptbl EXCEPT ![node[p]] = [deptbl[node[p]] EXCEPT !.next = slotval[p].next]]
  /\ edge'[p] = edge[p] /\ slot'[p] = slot[p] /\ node'[p] = node[p] /\ slotval'[p] = slotval[p]
  /\ UNCHANGED <<bindings, dcounter, returned>>

Pushes(p) ==
  /\ pc[p] = "push"
  /\ deptbl[slot[p]] = slotval[p]
  /\ deptbl' = [deptbl EXCEPT ![slot[p]] = HeadSlot(edge[p][1], Pointer(node[p]))]
  /\ Added(p)
  /\ UNCHANGED <<bindings, dcounter>>

(* The steps of add_dep that change neither table *)
Looks(p) ==
  /\ UNCHANGED <<bindings, deptbl, returned>>
  /\ edge'[p] = edge[p]
  /\ \/ BindRead(p) \/ BindFull(p) \/ BindNext(p) \/ BindTry(p) \/ BindCas(p) \/ BindCount(p)
     \/ HeadRead(p) \/ HeadCas(p) \/ alloc_deptbl_node(p) \/ Push(p)

(* The edge was there already. *)
Known(p) ==
  /\ pc[p] \in Binding
  /\ bindings[slot[p]] = edge[p]
  /\ Added(p)
  /\ UNCHANGED shared

Begins(p) == add_dep(p) \/ hh_get_dep(p)

LEMMA StepCases ==
  ASSUME TypeInv, NEW p \in Process, Step(p)
  PROVE  \/ Binds(p) \/ NewHead(p) \/ NewCell(p) \/ Links(p) \/ Pushes(p)
         \/ Looks(p) \/ Known(p) \/ Begins(p) \/ GetStep(p)
<1> USE DEF TypeInv
<1>1. CASE BindRead(p) \/ BindFull(p) \/ BindNext(p) \/ BindTry(p)
  BY <1>1 DEF BindRead, BindFull, BindNext, BindTry, Looks, Known, Goto, shared, Binding
<1>2. CASE BindCas(p)
  <2>1. CASE bindings[slot[p]] = NoBinding /\ bindings[slot[p]] # edge[p]
    BY <1>2, <2>1 DEF BindCas, Binds
  <2>2. CASE bindings[slot[p]] = edge[p]
    <3>1. CASE Added(p) /\ UNCHANGED shared
      BY <1>2, <2>2, <3>1 DEF BindCas, Known, Binding
    <3>2. CASE ~ (Added(p) /\ UNCHANGED shared)
      BY <1>2, <2>2, <3>2 DEF BindCas, Binds
    <3> QED BY <3>1, <3>2
  <2>3. CASE bindings[slot[p]] \notin {NoBinding, edge[p]}
    BY <1>2, <2>3 DEF BindCas, Looks, shared
  <2> QED BY <2>1, <2>2, <2>3
<1>3. CASE BindCount(p)
  BY <1>3 DEF BindCount, Looks
<1>4. CASE HeadRead(p)
  BY <1>4 DEF HeadRead, Looks, shared
<1>5. CASE HeadCas(p)
  BY <1>5 DEF HeadCas, Looks, shared, NewHead
<1>6. CASE alloc_deptbl_node(p)
  BY <1>6 DEF alloc_deptbl_node, Looks, NewCell
<1>7. CASE Link(p)
  BY <1>7 DEF Link, Links, Goto
<1>8. CASE Push(p)
  BY <1>8 DEF Push, Looks, shared, Pushes
<1> QED
  BY <1>1, <1>2, <1>3, <1>4, <1>5, <1>6, <1>7, <1>8 DEF Step, AddStep, Begins

(* A slot that is taken stays so, with the key it has. *)
Grows ==
  /\ \A s \in Slot : bindings[s] # NoBinding => bindings'[s] = bindings[s]
  /\ \A s \in Slot : deptbl[s] # Zero => deptbl'[s] # Zero /\ deptbl'[s].key = deptbl[s].key

(* A cell that gets its `next' does not turn into a free slot: the value 0 *)
(* would be in the list twice.                                             *)
LEMMA LinkNotZero ==
  ASSUME TypeInv, OwnInv, ListInv, NEW p \in Process, pc[p] \in {"link", "push"}
  PROVE  ~ (deptbl[node[p]].key = Zero.key /\ slotval[p].next = Zero.next)
<1> SUFFICES ASSUME deptbl[node[p]].key = Zero.key, slotval[p].next = Zero.next PROVE FALSE
  OBVIOUS
<1>1. PICK n \in [Source -> Nat], v \in [Source -> [Nat -> Nat]], c \in [Source -> [Nat -> Slot]] : Lists(n, v, c)
  BY DEF ListInv
<1> DEFINE k == edge[p][1]
<1>2. k \in Source /\ edge[p][2] \in Nat
  BY EdgePair DEF TypeInv, Prepending
<1>3. edge[p][2] = 0
  <2>1. Value(edge[p][2]) = <<0, "VAL">>
    BY Entries DEF OwnInv
  <2> QED BY <1>2, <2>1 DEF Value
<1>4. PICK i \in 1 .. n[k] : slotval[p].next = NextOf(v, c, k, i)
  BY <1>1 DEF Lists, PushLocal
<1>5. NextOf(v, c, k, i) = <<0, "VAL">>
  BY <1>4, Entries
<1>6. i \in Nat /\ n[k] \in Nat /\ v[k][1] \in Nat /\ c[k][i] \in Nat
  BY <1>2, <1>4 DEF Slot
<1> HIDE DEF k
<1>7. i = 1 /\ v[k][1] = 0
  BY <1>5, <1>6 DEF NextOf, Value, Pointer
<1>8. 1 \in 1 .. n[k]
  BY <1>4, <1>6
<1>9. pc[p] \in Prepending
  BY DEF Prepending
<1>10. \A j \in 1 .. n[k] : v[k][j] # edge[p][2]
  BY <1>1, <1>9 DEF Lists, ListsValues, k
<1> QED
  BY <1>3, <1>7, <1>8, <1>10

LEMMA StepGrows ==
  ASSUME TypeInv, HeadInv, OwnInv, ListInv, NEW p \in Process, Step(p)
  PROVE  Grows
<1>0. slot[p] \in Slot /\ node[p] \in Slot /\ deptbl[slot[p]] \in Entry /\ deptbl[node[p]] \in Entry /\ slotval[p] \in Entry
  BY DEF TypeInv
<1>1. CASE Binds(p)
  BY <1>0, <1>1 DEF Binds, Grows, TypeInv
<1>2. CASE NewHead(p)
  BY <1>0, <1>2, Entries DEF NewHead, Grows, TypeInv
<1>3. CASE NewCell(p)
  BY <1>0, <1>3 DEF NewCell, Grows, TypeInv
<1>4. CASE Links(p)
  <2> DEFINE e == [deptbl[node[p]] EXCEPT !.next = slotval[p].next]
  <2>1. e.key = deptbl[node[p]].key /\ e.next = slotval[p].next
    BY <1>0 DEF Entry
  <2>2. e # Zero
    BY <1>4, <2>1, LinkNotZero DEF Links
  <2>3. \A s \in Slot : deptbl'[s] = IF s = node[p] THEN e ELSE deptbl[s]
    BY <1>4 DEF Links, TypeInv
  <2> HIDE DEF e
  <2> QED BY <1>4, <2>1, <2>2, <2>3 DEF Links, Grows
<1>5. CASE Pushes(p)
  <2> DEFINE e == HeadSlot(edge[p][1], Pointer(node[p]))
  <2>1. edge[p][1] \in Nat /\ node[p] \in Nat
    BY <1>0, <1>5, EdgePair DEF Pushes, TypeInv, Prepending, Slot
  <2>2. e.key = <<edge[p][1], "KEY">> /\ e # Zero
    BY <2>1, Entries
  <2>3. deptbl[slot[p]].key = <<edge[p][1], "KEY">>
    BY <1>5 DEF Pushes, HeadInv, HeadLocal, IsHead
  <2>4. \A s \in Slot : deptbl'[s] = IF s = slot[p] THEN e ELSE deptbl[s]
    BY <1>5 DEF Pushes, TypeInv
  <2> HIDE DEF e
  <2> QED BY <1>5, <2>2, <2>3, <2>4 DEF Pushes, Grows
<1>6. CASE Looks(p) \/ Known(p) \/ Begins(p) \/ GetStep(p)
  <2>1. UNCHANGED <<bindings, deptbl>>
    BY <1>6 DEF Looks, Known, Begins, add_dep, hh_get_dep, GetStep, GetProbe, GetWalk, GetReturn, shared
  <2> QED BY <2>1 DEF Grows
<1> QED
  BY <1>1, <1>2, <1>3, <1>4, <1>5, <1>6, StepCases

-----------------------------------------------------------------------------
(***************************************************************************)
(* deptbl_bindings                                                         *)
(***************************************************************************)
LEMMA BoundKept == ASSUME TypeInv, Grows, NEW e, e # NoBinding, IsBound(e) PROVE IsBound(e)'
BY DEF TypeInv, Grows, IsBound

LEMMA HashSlots ==
  ASSUME TypeInv, NEW p \in Process
  PROVE  /\ pc[p] \in Binding \cup Prepending =>
              HashEdge(edge[p]) \in Slot /\ Passed(HashEdge(edge[p]), slot[p]) \subseteq Slot
         /\ pc[p] \in {"head", "head_cas", "probe"} =>
              HashNode(edge[p][1]) \in Slot /\ Passed(HashNode(edge[p][1]), slot[p]) \subseteq Slot
<1>1. slot[p] \in Slot
  BY DEF TypeInv
<1>2. pc[p] \in Binding \cup Prepending => HashEdge(edge[p]) \in Slot
  BY HashAssumption DEF TypeInv
<1>3. pc[p] \in {"head", "head_cas", "probe"} => HashNode(edge[p][1]) \in Slot
  BY HashAssumption, EdgePair DEF TypeInv, Prepending, Walking
<1> QED
  BY <1>1, <1>2, <1>3, PassedSlots

LEMMA BindLocalKept ==
  ASSUME TypeInv, Grows, NEW q \in Process, LocalsKept(q), BindLocal(q)
  PROVE  BindLocal(q)'
<1>1. pc[q] \in Binding => Passed(HashEdge(edge[q]), slot[q]) \subseteq Slot
  BY HashSlots
<1>2. pc[q] \in Binding =>
        \A r \in Passed(HashEdge(edge[q]), slot[q]) : bindings'[r] # NoBinding /\ bindings'[r] # edge[q]
  BY <1>1 DEF BindLocal, Grows
<1>3. slot[q] \in Slot
  BY DEF TypeInv
<1>4. pc[q] = "bind_taken" => bindings'[slot[q]] # NoBinding /\ bindings'[slot[q]] # edge[q]
  BY <1>3 DEF BindLocal, Grows
<1>5. pc[q] \in Prepending => IsBound(edge[q])'
  BY BoundKept DEF BindLocal, LocalsKept, IsBound
<1> QED
  BY <1>2, <1>4, <1>5 DEF BindLocal, LocalsKept

(* The process of a step that adds an edge, or looks at the tables *)
LEMMA BindLocalStep ==
  ASSUME TypeInv, BindInv, Grows, NEW p \in Process, Step(p)
  PROVE  BindLocal(p)'
<1>0. /\ BindLocal(p) /\ slot[p] \in Slot /\ bindings[slot[p]] \in Edge \cup {NoBinding}
      /\ pc[p] \in Binding \cup Prepending => edge[p] \in Edge
  BY DEF BindInv, TypeInv
<1>a. ASSUME pc'[p] \in {"idle", "dep_table_full", "assertion_failure", "got"} \cup Walking PROVE BindLocal(p)'
  BY <1>a DEF BindLocal, Binding, Prepending, Walking
<1>b. ASSUME Leave(p) PROVE BindLocal(p)'
  BY <1>a, <1>b, LeaveIs
<1>c. ASSUME pc[p] \in Prepending, pc'[p] \in Prepending, edge'[p] = edge[p] PROVE BindLocal(p)'
  <2>1. IsBound(edge[p])' /\ edge[p] # NoBinding
    <3>1. IsBound(edge[p]) /\ edge[p] # NoBinding
      BY <1>0, <1>c DEF BindLocal
    <3> QED BY <1>c, <3>1 DEF TypeInv, Grows, IsBound
  <2>2. pc'[p] \notin Binding /\ pc'[p] # "bind_taken"
    BY <1>c DEF Prepending, Binding
  <2> QED BY <1>c, <2>1, <2>2 DEF BindLocal, IsBound
<1>d. ASSUME pc[p] \in Binding, pc'[p] \in Binding, UNCHANGED bindings, edge'[p] = edge[p], slot'[p] = slot[p],
             pc'[p] = "bind_taken" => bindings[slot[p]] # NoBinding /\ bindings[slot[p]] # edge[p],
             pc'[p] \in {"bind_free", "bind_cas"} => edge[p] # NoBinding
      PROVE  BindLocal(p)'
  <2>1. pc'[p] \notin Prepending
    BY <1>d DEF Prepending, Binding
  <2> QED BY <1>0, <1>d, <2>1 DEF BindLocal
<1>e. ASSUME pc[p] \in Binding, pc'[p] = "bind", UNCHANGED bindings, edge'[p] = edge[p], slot'[p] = After(slot[p]),
             bindings[slot[p]] # NoBinding, bindings[slot[p]] # edge[p]
      PROVE  BindLocal(p)'
  <2>1. \A r \in Passed(HashEdge(edge[p]), After(slot[p])) : bindings[r] # NoBinding /\ bindings[r] # edge[p]
    BY <1>0, <1>e, HashSlots, PassedNext DEF BindLocal
  <2> QED BY <1>e, <2>1 DEF BindLocal, Prepending
<1>1. CASE add_dep(p)
  <2>1. PICK e \in Edge : edge' = [edge EXCEPT ![p] = e] /\ slot' = [slot EXCEPT ![p] = HashEdge(e)]
    BY <1>1 DEF add_dep
  <2>2. pc'[p] = "bind" /\ edge'[p] = e /\ slot'[p] = HashEdge(e)
    BY <1>1, <2>1 DEF add_dep, Goto, TypeInv
  <2>3. Passed(HashEdge(e), HashEdge(e)) = {}
    BY HashAssumption, PassedSlots
  <2> QED BY <2>2, <2>3 DEF BindLocal, Prepending
<1>2. CASE hh_get_dep(p)
  BY <1>2, <1>a DEF hh_get_dep, Goto, TypeInv, Walking
<1>3. CASE GetStep(p)
  <2>1. CASE GetProbe(p)
    BY <2>1, <1>a DEF GetProbe, TypeInv, Walking
  <2>2. CASE GetWalk(p)
    <3>1. pc'[p] \in {"walk", "got", "assertion_failure"}
      BY <2>2 DEF GetWalk, TypeInv
    <3> QED BY <3>1, <1>a DEF Walking
  <2>3. CASE GetReturn(p)
    BY <2>3, <1>b DEF GetReturn
  <2> QED BY <1>3, <2>1, <2>2, <2>3 DEF GetStep
<1>4. CASE BindRead(p)
  <2>1. CASE Added(p)
    BY <1>b, <2>1 DEF Added
  <2>2. CASE ~ Added(p)
    <3>1. /\ bindings[slot[p]] # edge[p] /\ pc[p] = "bind"
          /\ pc'[p] = IF bindings[slot[p]] = NoBinding THEN "bind_free" ELSE "bind_taken"
          /\ UNCHANGED <<bindings, edge, slot>>
      BY <1>4, <2>2 DEF BindRead, Goto, TypeInv, shared
    <3> QED BY <1>d, <3>1 DEF Binding
  <2> QED BY <2>1, <2>2
<1>5. CASE BindFull(p)
  BY <1>5, <1>a DEF BindFull, Goto, TypeInv
<1>6. CASE BindNext(p)
  <2>1. pc[p] = "bind_taken" /\ pc'[p] = "bind" /\ slot'[p] = After(slot[p]) /\ UNCHANGED <<bindings, edge>>
    BY <1>6 DEF BindNext, Goto, TypeInv, shared
  <2> QED BY <1>0, <1>e, <2>1 DEF BindLocal, Binding
<1>7. CASE BindTry(p)
  <2>1. pc[p] = "bind_free" /\ pc'[p] = "bind_cas" /\ UNCHANGED <<bindings, edge, slot>>
    BY <1>7 DEF BindTry, Goto, TypeInv, shared
  <2> QED BY <1>0, <1>d, <2>1 DEF BindLocal, Binding
<1>8. CASE BindCas(p)
  <2>0. edge[p] # NoBinding
    BY <1>0, <1>8 DEF BindCas, BindLocal
  <2>1. CASE bindings[slot[p]] = NoBinding
    <3>1. pc'[p] = "count" /\ edge'[p] = edge[p] /\ bindings'[slot[p]] = edge[p]
      BY <1>0, <1>8, <2>0, <2>1 DEF BindCas, TypeInv
    <3>2. IsBound(edge[p])'
      BY <1>0, <3>1 DEF IsBound
    <3> QED BY <2>0, <3>1, <3>2 DEF BindLocal, Binding, Prepending, IsBound
  <2>2. CASE bindings[slot[p]] = edge[p]
    BY <1>8, <1>b, <2>0, <2>2 DEF BindCas, Added
  <2>3. CASE bindings[slot[p]] \notin {NoBinding, edge[p]}
    <3>1. pc[p] = "bind_cas" /\ pc'[p] = "bind" /\ slot'[p] = After(slot[p]) /\ UNCHANGED <<bindings, edge>>
      BY <1>8, <2>3 DEF BindCas, TypeInv, shared
    <3> QED BY <1>e, <2>3, <3>1 DEF Binding
  <2> QED BY <2>1, <2>2, <2>3
<1>9. CASE BindCount(p)
  <2>1. pc[p] = "count" /\ pc'[p] \in {"head", "assertion_failure"} /\ edge' = edge
    BY <1>9 DEF BindCount, Goto, TypeInv
  <2> QED BY <1>a, <1>c, <2>1 DEF Prepending
<1>10. CASE HeadRead(p) \/ HeadCas(p) \/ alloc_deptbl_node(p) \/ Link(p) \/ Push(p)
  <2>1. CASE Leave(p)
    BY <1>b, <2>1
  <2>2. CASE ~ Leave(p)
    <3>1. pc[p] \in {"head", "head_cas", "alloc", "link", "push"} /\ edge' = edge
      BY <1>10, <2>2 DEF HeadRead, HeadCas, SeeHead, alloc_deptbl_node, Link, Push, Added, Goto
    <3>2. pc'[p] \in {"head", "head_cas", "alloc", "link", "push"}
      BY <1>10, <2>2 DEF HeadRead, HeadCas, SeeHead, alloc_deptbl_node, Link, Push, Added, Goto, TypeInv
    <3> QED BY <1>c, <3>1, <3>2 DEF Prepending
  <2> QED BY <2>1, <2>2
<1> QED
  BY <1>1, <1>2, <1>3, <1>4, <1>5, <1>6, <1>7, <1>8, <1>9, <1>10 DEF Step, AddStep

(* Who takes a slot for an edge has seen every other slot the edge may be in. *)
LEMMA BindsUnique ==
  ASSUME TypeInv, BindInv, NEW p \in Process, pc[p] \in {"bind_free", "bind_cas"}, bindings[slot[p]] = NoBinding
  PROVE  ~ IsBound(edge[p])
<1> SUFFICES ASSUME NEW t \in Slot, bindings[t] = edge[p] PROVE FALSE
  BY DEF IsBound
<1> DEFINE h == HashEdge(edge[p])
<1>1. edge[p] # NoBinding /\ h \in Slot /\ slot[p] \in Slot /\ slot[p] # t
  BY HashSlots DEF BindInv, BindLocal, Binding, TypeInv
<1>2. \A r \in Passed(h, t) : bindings[r] # NoBinding
  BY <1>1 DEF BindInv, BindTableInv
<1>3. t \notin Passed(h, slot[p])
  BY DEF BindInv, BindLocal, Binding
<1> HIDE DEF h
<1> QED
  BY <1>1, <1>2, <1>3, PassedTotal

LEMMA NextBindInv == TypeInv /\ BindInv /\ HeadInv /\ OwnInv /\ ListInv /\ [Next]_vars => BindInv'
<1> SUFFICES ASSUME TypeInv, BindInv, HeadInv, OwnInv, ListInv, [Next]_vars PROVE BindInv'
  OBVIOUS
<1>1. CASE UNCHANGED vars
  BY <1>1 DEF vars, shared, BindInv, BindTableInv, BindLocal, IsBound
<1>2. CASE pyre_reset
  <2>1. BindTableInv'
    BY <1>2 DEF pyre_reset, BindTableInv
  <2>2. \A p \in Process : BindLocal(p)'
    BY <1>2 DEF pyre_reset, BindLocal, Binding, Prepending
  <2> QED BY <2>1, <2>2 DEF BindInv
<1>3. ASSUME NEW p \in Process, Step(p) PROVE BindInv'
  <2>1. Grows /\ (\A q \in Process : q # p => LocalsKept(q))
    BY <1>3, StepGrows, OthersKept
  <2>2. \A q \in Process : BindLocal(q)'
    <3>1. BindLocal(p)'
      BY <1>3, <2>1, BindLocalStep
    <3>2. \A q \in Process : q # p => BindLocal(q)'
      BY <2>1, BindLocalKept DEF BindInv
    <3> QED BY <3>1, <3>2
  <2>a. ASSUME UNCHANGED bindings, returned' \subseteq returned \cup {edge[p]}, edge[p] = NoBinding \/ IsBound(edge[p])
        PROVE  BindTableInv'
    BY <2>a DEF BindInv, BindTableInv, IsBound
  <2>3. BindTableInv'
    <3>1. CASE Binds(p)
      <4> DEFINE e == edge[p]
      <4>1. e # NoBinding /\ e \in Edge /\ slot[p] \in Slot
        BY <3>1 DEF Binds, BindInv, BindLocal, TypeInv, Binding
      <4>2. \A s \in Slot : bindings'[s] = IF s = slot[p] THEN e ELSE bindings[s]
        BY <3>1 DEF Binds, TypeInv
      <4>3. \A t \in Slot : bindings[t] # e
        BY <3>1, BindsUnique DEF Binds, IsBound
      <4>4. \A r \in Passed(HashEdge(e), slot[p]) : bindings[r] # NoBinding
        BY <3>1 DEF Binds, BindInv, BindLocal, Binding
      <4>5. \A s \in Slot : bindings[s] # NoBinding =>
              Passed(HashEdge(bindings[s]), s) \subseteq Slot
        BY HashAssumption, PassedSlots DEF TypeInv
      <4>6. Passed(HashEdge(e), slot[p]) \subseteq Slot
        BY <4>1, HashAssumption, PassedSlots
      <4> HIDE DEF e
      <4>7. \A s, t \in Slot : bindings'[s] = bindings'[t] /\ bindings'[s] # NoBinding => s = t
        BY <4>2, <4>3 DEF BindInv, BindTableInv
      <4>8. ASSUME NEW s \in Slot, bindings'[s] # NoBinding, NEW r \in Passed(HashEdge(bindings'[s]), s)
            PROVE  bindings'[r] # NoBinding
        <5>1. CASE s = slot[p]
          BY <4>1, <4>2, <4>4, <4>6, <4>8, <5>1
        <5>2. CASE s # slot[p]
          <6>1. bindings'[s] = bindings[s] /\ r \in Slot
            BY <4>2, <4>5, <4>8, <5>2
          <6>2. bindings[r] # NoBinding
            BY <4>8, <6>1 DEF BindInv, BindTableInv
          <6> QED BY <4>1, <4>2, <6>1, <6>2
        <5> QED BY <5>1, <5>2
      <4>9. \A x \in returned' : x # NoBinding => IsBound(x)'
        BY <3>1, <2>1 DEF Binds, BindInv, BindTableInv, IsBound, Grows
      <4> QED BY <4>7, <4>8, <4>9 DEF BindTableInv
    <3>2. CASE NewHead(p) \/ Pushes(p)
      BY <2>a, <3>2 DEF NewHead, Pushes, Added, BindInv, BindLocal, Prepending
    <3>3. CASE Known(p)
      BY <2>a, <3>3 DEF Known, Added, shared, IsBound, TypeInv
    <3>4. CASE NewCell(p) \/ Links(p) \/ Looks(p) \/ Begins(p) \/ GetStep(p)
      <4>1. UNCHANGED <<bindings, returned>>
        BY <3>4 DEF NewCell, Links, Looks, Begins, add_dep, hh_get_dep, GetStep, GetProbe, GetWalk, GetReturn, shared
      <4> QED BY <4>1 DEF BindInv, BindTableInv, IsBound
    <3> QED BY <1>3, <3>1, <3>2, <3>3, <3>4, StepCases
  <2> QED BY <2>2, <2>3 DEF BindInv
<1> QED
  BY <1>1, <1>2, <1>3, NextCases

-----------------------------------------------------------------------------
(***************************************************************************)
(* The heads of the lists                                                  *)
(***************************************************************************)
LEMMA HeadLocalKept ==
  ASSUME TypeInv, Grows, NEW q \in Process, LocalsKept(q), HeadLocal(q)
  PROVE  HeadLocal(q)'
<1>1. pc[q] \in {"head", "head_cas", "probe"} =>
        \A r \in Passed(HashNode(edge[q][1]), slot[q]) : deptbl'[r] # Zero /\ ~ IsHead(deptbl'[r], edge[q][1])
  BY HashSlots DEF HeadLocal, Grows, IsHead
<1>2. pc[q] \in {"alloc", "link", "push"} => IsHead(deptbl'[slot[q]], edge[q][1])
  <2>1. slot[q] \in Slot /\ deptbl[slot[q]] \in Entry
    BY DEF TypeInv
  <2>2. pc[q] \in {"alloc", "link", "push"} => edge[q][1] \in Nat
    BY EdgePair DEF TypeInv, Prepending
  <2> QED BY <2>1, <2>2, HeadIs DEF HeadLocal, Grows, IsHead
<1> QED
  BY <1>1, <1>2 DEF HeadLocal, LocalsKept

LEMMA HeadLocalStep ==
  ASSUME TypeInv, HeadInv, Grows, NEW p \in Process, Step(p)
  PROVE  HeadLocal(p)'
<1> DEFINE k == edge[p][1]
<1>0. /\ HeadLocal(p) /\ slot[p] \in Slot /\ deptbl[slot[p]] \in Entry
      /\ pc[p] \in Prepending => edge[p] \in Edge /\ k \in Source /\ k \in Nat
  BY EdgePair DEF HeadInv, TypeInv
<1>a. ASSUME pc'[p] \in {"idle", "dep_table_full", "assertion_failure", "got", "walk", "count"} \cup Binding PROVE HeadLocal(p)'
  BY <1>a DEF HeadLocal, Binding
<1>b. ASSUME Leave(p) PROVE HeadLocal(p)'
  BY <1>a, <1>b, LeaveIs
<1>c. ASSUME NEW x \in Source, pc'[p] \in {"head", "probe"}, edge'[p][1] = x, slot'[p] = HashNode(x) PROVE HeadLocal(p)'
  <2>1. Passed(HashNode(x), HashNode(x)) = {}
    BY HashAssumption, PassedSlots
  <2> QED BY <1>c, <2>1 DEF HeadLocal
<1>d. ASSUME pc[p] \in {"head", "head_cas", "probe"}, pc'[p] \in {"head", "probe"}, UNCHANGED deptbl, edge'[p] = edge[p],
             slot'[p] = After(slot[p]), deptbl[slot[p]] # Zero, ~ IsHead(deptbl[slot[p]], k)
      PROVE  HeadLocal(p)'
  <2>1. \A r \in Passed(HashNode(k), After(slot[p])) : deptbl[r] # Zero /\ ~ IsHead(deptbl[r], k)
    BY <1>0, <1>d, HashSlots, PassedNext DEF HeadLocal
  <2> QED BY <1>d, <2>1 DEF HeadLocal
<1>e. ASSUME pc[p] \in {"head", "head_cas"}, deptbl[slot[p]] # Zero, SeeHead(p, deptbl[slot[p]]), UNCHANGED <<deptbl, edge>>
      PROVE  HeadLocal(p)'
  <2>1. CASE IsHead(deptbl[slot[p]], k)
    <3>1. pc'[p] = "alloc" /\ slotval'[p] = deptbl[slot[p]] /\ slot' = slot
      BY <1>e, <2>1 DEF SeeHead, TypeInv
    <3> QED BY <1>e, <2>1, <3>1 DEF HeadLocal
  <2>2. CASE ~ IsHead(deptbl[slot[p]], k)
    <3>1. pc'[p] = "head" /\ slot'[p] = After(slot[p])
      BY <1>e, <2>2 DEF SeeHead, TypeInv
    <3> QED BY <1>d, <1>e, <2>2, <3>1
  <2> QED BY <2>1, <2>2
<1>f. ASSUME pc[p] \in {"alloc", "link", "push"}, pc'[p] \in {"alloc", "link", "push"},
             edge'[p] = edge[p], slot'[p] = slot[p], slotval'[p] = slotval[p] \/ slotval'[p] = deptbl[slot[p]]
      PROVE  HeadLocal(p)'
  <2>1. k \in Nat /\ IsHead(deptbl[slot[p]], k) /\ IsHead(slotval[p], k)
    BY <1>0, <1>f DEF HeadLocal, Prepending
  <2>2. IsHead(deptbl'[slot[p]], k)
    BY <1>0, <2>1, HeadIs DEF Grows, IsHead
  <2> QED BY <1>f, <2>1, <2>2 DEF HeadLocal
<1>1. CASE add_dep(p)
  BY <1>1, <1>a DEF add_dep, Goto, TypeInv, Binding
<1>2. CASE hh_get_dep(p)
  <2>1. PICK x \in Source : edge' = [edge EXCEPT ![p] = <<x, 0>>] /\ slot' = [slot EXCEPT ![p] = HashNode(x)]
    BY <1>2 DEF hh_get_dep
  <2>2. pc'[p] = "probe" /\ edge'[p][1] = x /\ slot'[p] = HashNode(x)
    BY <1>2, <2>1 DEF hh_get_dep, Goto, TypeInv
  <2> QED BY <1>c, <2>2
<1>3. CASE GetStep(p)
  <2>1. CASE GetProbe(p)
    <3>1. CASE pc'[p] \in {"got", "walk"}
      BY <1>a, <3>1
    <3>2. CASE pc'[p] \notin {"got", "walk"}
      <4>1. /\ deptbl[slot[p]] # Zero /\ ~ IsHead(deptbl[slot[p]], k) /\ pc[p] = "probe" /\ pc' = pc
            /\ slot'[p] = After(slot[p]) /\ UNCHANGED <<deptbl, edge>>
        BY <2>1, <3>2 DEF GetProbe, TypeInv, shared
      <4> QED BY <1>d, <4>1
    <3> QED BY <3>1, <3>2
  <2>2. CASE GetWalk(p)
    <3>1. pc'[p] \in {"walk", "got", "assertion_failure"}
      BY <2>2 DEF GetWalk, TypeInv
    <3> QED BY <3>1, <1>a
  <2>3. CASE GetReturn(p)
    BY <2>3, <1>b DEF GetReturn
  <2> QED BY <1>3, <2>1, <2>2, <2>3 DEF GetStep
<1>4. CASE BindRead(p) \/ BindFull(p) \/ BindNext(p) \/ BindTry(p) \/ BindCas(p)
  <2>1. CASE Leave(p)
    BY <1>b, <2>1
  <2>2. CASE ~ Leave(p)
    <3>1. pc'[p] \in {"bind", "bind_free", "bind_taken", "bind_cas", "dep_table_full", "count"}
      BY <1>4, <2>2 DEF BindRead, BindFull, BindNext, BindTry, BindCas, Added, Goto, TypeInv
    <3> QED BY <1>a, <3>1 DEF Binding
  <2> QED BY <2>1, <2>2
<1>5. CASE BindCount(p)
  <2>1. /\ pc[p] = "count" /\ pc'[p] \in {"head", "assertion_failure"} /\ edge' = edge /\ slot'[p] = HashNode(k)
    BY <1>5 DEF BindCount, Goto, TypeInv
  <2> QED BY <1>0, <1>a, <1>c, <2>1 DEF Prepending
<1>6. CASE HeadRead(p)
  <2>1. CASE deptbl[slot[p]] = Zero
    <3>1. pc[p] = "head" /\ pc'[p] = "head_cas" /\ UNCHANGED <<deptbl, edge, slot>>
      BY <1>6, <2>1 DEF HeadRead, TypeInv, shared
    <3> QED BY <1>0, <3>1 DEF HeadLocal
  <2>2. CASE deptbl[slot[p]] # Zero
    BY <1>6, <1>e, <2>2 DEF HeadRead, shared
  <2> QED BY <2>1, <2>2
<1>7. CASE HeadCas(p)
  <2>1. CASE deptbl[slot[p]] = Zero
    BY <1>7, <1>b, <2>1 DEF HeadCas, Added
  <2>2. CASE deptbl[slot[p]] # Zero
    BY <1>7, <1>e, <2>2 DEF HeadCas, shared
  <2> QED BY <2>1, <2>2
<1>8. CASE alloc_deptbl_node(p)
  BY <1>8, <1>f DEF alloc_deptbl_node, TypeInv
<1>9. CASE Link(p)
  BY <1>9, <1>f DEF Link, Goto, TypeInv
<1>10. CASE Push(p)
  <2>1. CASE deptbl[slot[p]] = slotval[p]
    BY <1>10, <1>b, <2>1 DEF Push, Added
  <2>2. CASE deptbl[slot[p]] # slotval[p]
    BY <1>10, <1>f, <2>2 DEF Push, TypeInv
  <2> QED BY <2>1, <2>2
<1> QED
  BY <1>1, <1>2, <1>3, <1>4, <1>5, <1>6, <1>7, <1>8, <1>9, <1>10 DEF Step, AddStep

(* Who makes a list has seen every other slot its head may be in. *)
LEMMA NewHeadUnique ==
  ASSUME TypeInv, HeadInv, NEW p \in Process, pc[p] \in {"head", "head_cas", "probe"}, deptbl[slot[p]] = Zero
  PROVE  ~ HasHead(edge[p][1])
<1> DEFINE k == edge[p][1]
           h == HashNode(k)
<1> SUFFICES ASSUME NEW t \in Slot, IsHead(deptbl[t], k) PROVE FALSE
  BY DEF HasHead
<1>1. k \in Source /\ k \in Nat
  BY EdgePair DEF TypeInv, Prepending, Walking
<1>2. h \in Slot /\ slot[p] \in Slot /\ deptbl[t] \in Entry
  BY HashSlots DEF TypeInv
<1>3. slot[p] # t
  BY <1>1, <1>2, HeadIs
<1>4. \A r \in Passed(h, t) : deptbl[r] # Zero
  BY <1>1 DEF HeadInv, HeadTableInv
<1>5. t \notin Passed(h, slot[p])
  BY DEF HeadInv, HeadLocal
<1> HIDE DEF h
<1> QED
  BY <1>2, <1>3, <1>4, <1>5, PassedTotal

(* No step but NewHead puts a head where there was none. *)
NoNewHead == \A s \in Slot : deptbl'[s].key = deptbl[s].key \/ deptbl'[s].key[2] = "VAL"

LEMMA OtherSteps ==
  ASSUME TypeInv, HeadInv, NEW p \in Process, Step(p), ~ NewHead(p)
  PROVE  NoNewHead
<1>0. slot[p] \in Slot /\ node[p] \in Slot /\ deptbl[node[p]] \in Entry /\ slotval[p] \in Entry
  BY DEF TypeInv
<1>1. CASE NewCell(p)
  <2>1. edge[p][2] \in Nat
    BY <1>1, EdgePair DEF NewCell, TypeInv, Prepending
  <2>2. ListNode(edge[p][2], Invalid).key = <<edge[p][2], "VAL">>
    BY DEF ListNode
  <2>3. \A s \in Slot : deptbl'[s] = IF s = node[p] THEN ListNode(edge[p][2], Invalid) ELSE deptbl[s]
    BY <1>1 DEF NewCell, TypeInv
  <2> QED BY <2>2, <2>3 DEF NoNewHead
<1>2. CASE Links(p)
  <2> DEFINE e == [deptbl[node[p]] EXCEPT !.next = slotval[p].next]
  <2>1. e.key = deptbl[node[p]].key
    BY <1>0 DEF Entry
  <2>2. \A s \in Slot : deptbl'[s] = IF s = node[p] THEN e ELSE deptbl[s]
    BY <1>2 DEF Links, TypeInv
  <2> HIDE DEF e
  <2> QED BY <2>1, <2>2 DEF NoNewHead
<1>3. CASE Pushes(p)
  <2> DEFINE e == HeadSlot(edge[p][1], Pointer(node[p]))
  <2>1. e.key = <<edge[p][1], "KEY">>
    BY DEF HeadSlot
  <2>2. deptbl[slot[p]].key = <<edge[p][1], "KEY">>
    BY <1>3 DEF Pushes, HeadInv, HeadLocal, IsHead
  <2>3. \A s \in Slot : deptbl'[s] = IF s = slot[p] THEN e ELSE deptbl[s]
    BY <1>3 DEF Pushes, TypeInv
  <2> HIDE DEF e
  <2> QED BY <2>1, <2>2, <2>3 DEF NoNewHead
<1>4. CASE Binds(p) \/ Looks(p) \/ Known(p) \/ Begins(p) \/ GetStep(p)
  <2>1. UNCHANGED deptbl
    BY <1>4 DEF Binds, Looks, Known, Begins, add_dep, hh_get_dep, GetStep, GetProbe, GetWalk, GetReturn, shared
  <2> QED BY <2>1 DEF NoNewHead
<1> QED
  BY <1>1, <1>2, <1>3, <1>4, StepCases

LEMMA HeadsKept ==
  ASSUME NoNewHead, NEW k
  PROVE  \A s \in Slot : IsHead(deptbl'[s], k) => IsHead(deptbl[s], k)
BY DEF NoNewHead, IsHead

LEMMA NextHeadInv == TypeInv /\ HeadInv /\ OwnInv /\ ListInv /\ [Next]_vars => HeadInv'
<1> SUFFICES ASSUME TypeInv, HeadInv, OwnInv, ListInv, [Next]_vars PROVE HeadInv'
  OBVIOUS
<1>1. CASE UNCHANGED vars
  BY <1>1 DEF vars, shared, HeadInv, HeadTableInv, HeadLocal
<1>2. CASE pyre_reset
  <2>1. \A k \in Nat : ~ IsHead(Zero, k)
    BY Entries, HeadIs
  <2>2. \A s \in Slot : deptbl'[s] = Zero
    BY <1>2 DEF pyre_reset
  <2>3. HeadTableInv'
    <3>1. \A s \in Slot : deptbl'[s].key[2] # "KEY"
      BY <2>2 DEF Zero, ListNode
    <3>2. \A k \in Source : \A s \in Slot : ~ IsHead(deptbl'[s], k)
      BY <2>1, <2>2, EdgePair
    <3> QED BY <3>1, <3>2 DEF HeadTableInv
  <2>4. \A p \in Process : HeadLocal(p)'
    BY <1>2 DEF pyre_reset, HeadLocal
  <2> QED BY <2>3, <2>4 DEF HeadInv
<1>3. ASSUME NEW p \in Process, Step(p) PROVE HeadInv'
  <2>1. Grows /\ (\A q \in Process : q # p => LocalsKept(q))
    BY <1>3, StepGrows, OthersKept
  <2>2. \A q \in Process : HeadLocal(q)'
    <3>1. HeadLocal(p)'
      BY <1>3, <2>1, HeadLocalStep
    <3>2. \A q \in Process : q # p => HeadLocal(q)'
      BY <2>1, HeadLocalKept DEF HeadInv
    <3> QED BY <3>1, <3>2
  <2>3. \A k \in Source : \A s \in Slot : Passed(HashNode(k), s) \subseteq Slot
    BY HashAssumption, PassedSlots
  <2>4. CASE NoNewHead
    <3>1. \A s \in Slot : deptbl'[s].key[2] = "KEY" => deptbl'[s].key[1] \in Source
      BY <2>4 DEF NoNewHead, HeadInv, HeadTableInv
    <3>2. \A k \in Source : \A s, t \in Slot : IsHead(deptbl'[s], k) /\ IsHead(deptbl'[t], k) => s = t
      BY <2>4, HeadsKept DEF HeadInv, HeadTableInv
    <3>3. \A k \in Source : \A s \in Slot : IsHead(deptbl'[s], k) =>
            \A r \in Passed(HashNode(k), s) : deptbl'[r] # Zero
      BY <2>1, <2>3, <2>4, HeadsKept DEF HeadInv, HeadTableInv, Grows
    <3> QED BY <2>2, <3>1, <3>2, <3>3 DEF HeadInv, HeadTableInv
  <2>5. CASE NewHead(p)
    <3> DEFINE x == edge[p][1]
               e == HeadSlot(x, Value(edge[p][2]))
    <3>1. x \in Source /\ x \in Nat /\ e.key = <<x, "KEY">> /\ slot[p] \in Slot
      BY <2>5, EdgePair DEF NewHead, TypeInv, Prepending, HeadSlot
    <3>2. \A s \in Slot : deptbl'[s] = IF s = slot[p] THEN e ELSE deptbl[s]
      BY <2>5 DEF NewHead, TypeInv
    <3>3. \A s \in Slot : ~ IsHead(deptbl[s], x)
      BY <2>5, NewHeadUnique DEF NewHead, HasHead
    <3>4. \A r \in Passed(HashNode(x), slot[p]) : deptbl[r] # Zero
      BY <2>5 DEF NewHead, HeadInv, HeadLocal
    <3> HIDE DEF x, e
    <3>5. \A k \in Source : IsHead(e, k) <=> k = x
      BY <3>1 DEF IsHead
    <3>6. \A k \in Source : \A s \in Slot : IsHead(deptbl'[s], k) => IF k = x THEN s = slot[p] ELSE IsHead(deptbl[s], k)
      BY <3>2, <3>3, <3>5
    <3>7. \A s \in Slot : deptbl'[s].key[2] = "KEY" => deptbl'[s].key[1] \in Source
      BY <3>1, <3>2 DEF HeadInv, HeadTableInv
    <3>8. \A k \in Source : \A s, t \in Slot : IsHead(deptbl'[s], k) /\ IsHead(deptbl'[t], k) => s = t
      BY <3>6 DEF HeadInv, HeadTableInv
    <3>9. \A k \in Source : \A s \in Slot : IsHead(deptbl'[s], k) =>
            \A r \in Passed(HashNode(k), s) : deptbl'[r] # Zero
      BY <2>1, <2>3, <3>4, <3>6 DEF HeadInv, HeadTableInv, Grows
    <3> QED BY <2>2, <3>7, <3>8, <3>9 DEF HeadInv, HeadTableInv
  <2> QED BY <1>3, <2>4, <2>5, OtherSteps
<1> QED
  BY <1>1, <1>2, <1>3, NextCases

-----------------------------------------------------------------------------
(***************************************************************************)
(* Edges and cells have one owner.                                         *)
(***************************************************************************)
LEMMA OwnerFrom ==
  ASSUME TypeInv, NEW p \in Process, Step(p)
  PROVE  /\ pc'[p] \in Prepending => Binds(p) \/ (pc[p] \in Prepending /\ edge'[p] = edge[p])
         /\ pc'[p] \in {"link", "push"} =>
              NewCell(p) \/ (pc[p] \in {"link", "push"} /\ node'[p] = node[p] /\ edge'[p] = edge[p])
         /\ pc'[p] = "push" => Links(p)
<1> USE DEF TypeInv
<1>1. CASE Leave(p)
  BY <1>1, LeaveIs DEF Prepending
<1>2. CASE ~ Leave(p)
  <2>1. CASE add_dep(p) \/ hh_get_dep(p)
    BY <2>1 DEF add_dep, hh_get_dep, Goto, Prepending
  <2>2. CASE GetStep(p)
    <3>1. CASE GetProbe(p)
      BY <3>1 DEF GetProbe, Prepending
    <3>2. CASE GetWalk(p)
      <4>1. pc'[p] \in {"walk", "got", "assertion_failure"}
        BY <3>2 DEF GetWalk
      <4> QED BY <4>1 DEF Prepending
    <3> QED BY <1>2, <2>2, <3>1, <3>2 DEF GetStep, GetReturn
  <2>3. CASE BindRead(p) \/ BindFull(p) \/ BindNext(p) \/ BindTry(p)
    <3>1. pc'[p] \in {"bind", "bind_free", "bind_taken", "bind_cas", "dep_table_full"}
      BY <1>2, <2>3 DEF BindRead, BindFull, BindNext, BindTry, Added, Goto
    <3> QED BY <3>1 DEF Prepending
  <2>4. CASE BindCas(p)
    <3>1. pc'[p] = "bind" \/ (pc'[p] = "count" /\ Binds(p))
      BY <1>2, <2>4 DEF BindCas, Added, Binds
    <3> QED BY <3>1 DEF Prepending
  <2>5. CASE BindCount(p)
    <3>1. pc[p] = "count" /\ pc'[p] \in {"head", "assertion_failure"} /\ edge' = edge
      BY <2>5 DEF BindCount, Goto
    <3> QED BY <3>1 DEF Prepending
  <2>6. CASE HeadRead(p) \/ HeadCas(p)
    <3>1. pc[p] \in {"head", "head_cas"} /\ pc'[p] \in {"head", "head_cas", "alloc"} /\ edge' = edge
      BY <1>2, <2>6 DEF HeadRead, HeadCas, SeeHead, Added
    <3> QED BY <3>1 DEF Prepending
  <2>7. CASE alloc_deptbl_node(p)
    <3>1. pc[p] = "alloc" /\ edge' = edge /\ (pc'[p] = "alloc" \/ (pc'[p] = "link" /\ NewCell(p)))
      BY <2>7 DEF alloc_deptbl_node, NewCell
    <3> QED BY <3>1 DEF Prepending
  <2>8. CASE Link(p)
    <3>1. Links(p) /\ edge' = edge
      BY <2>8 DEF Link, Links, Goto
    <3> QED BY <3>1 DEF Prepending, Links
  <2>9. CASE Push(p)
    <3>1. pc[p] = "push" /\ pc'[p] = "link" /\ node' = node /\ edge' = edge
      BY <1>2, <2>9 DEF Push, Added
    <3> QED BY <3>1 DEF Prepending
  <2> QED BY <2>1, <2>2, <2>3, <2>4, <2>5, <2>6, <2>7, <2>8, <2>9 DEF Step, AddStep
<1> QED
  BY <1>1, <1>2

(* No other process writes to the cell of a process. *)
LEMMA CellKept ==
  ASSUME TypeInv, HeadInv, OwnInv, NEW p \in Process, Step(p),
         NEW q \in Process, q # p, pc[q] \in {"link", "push"}
  PROVE  deptbl'[node[q]] = deptbl[node[q]]
<1>0. /\ slot[p] \in Slot /\ node[p] \in Slot /\ node[q] \in Slot
      /\ deptbl[node[q]] # Zero /\ deptbl[node[q]].key = Value(edge[q][2])
  BY DEF TypeInv, OwnInv
<1>1. CASE NewHead(p)
  BY <1>0, <1>1 DEF NewHead, TypeInv
<1>2. CASE NewCell(p)
  BY <1>0, <1>2 DEF NewCell, TypeInv
<1>3. CASE Links(p)
  <2>1. node[p] # node[q]
    BY <1>3 DEF Links, OwnInv
  <2> QED BY <1>0, <1>3, <2>1 DEF Links, TypeInv
<1>4. CASE Pushes(p)
  <2>1. deptbl[slot[p]].key = <<edge[p][1], "KEY">>
    BY <1>4 DEF Pushes, HeadInv, HeadLocal, IsHead
  <2>2. slot[p] # node[q]
    BY <1>0, <2>1 DEF Value
  <2> QED BY <1>0, <1>4, <2>2 DEF Pushes, TypeInv
<1>5. CASE Binds(p) \/ Looks(p) \/ Known(p) \/ Begins(p) \/ GetStep(p)
  BY <1>5 DEF Binds, Looks, Known, Begins, add_dep, hh_get_dep, GetStep, GetProbe, GetWalk, GetReturn, shared
<1> QED
  BY <1>1, <1>2, <1>3, <1>4, <1>5, StepCases

LEMMA NextOwnInv == TypeInv /\ BindInv /\ HeadInv /\ OwnInv /\ ListInv /\ [Next]_vars => OwnInv'
<1> SUFFICES ASSUME TypeInv, BindInv, HeadInv, OwnInv, ListInv, [Next]_vars PROVE OwnInv'
  OBVIOUS
<1>1. CASE UNCHANGED vars
  BY <1>1 DEF vars, shared, OwnInv
<1>2. CASE pyre_reset
  BY <1>2 DEF pyre_reset, OwnInv, Prepending
<1>3. ASSUME NEW p \in Process, Step(p) PROVE OwnInv'
  <2>1. Grows /\ (\A q \in Process : q # p => LocalsKept(q))
    BY <1>3, StepGrows, OthersKept
  <2>2. /\ pc'[p] \in Prepending => Binds(p) \/ (pc[p] \in Prepending /\ edge'[p] = edge[p])
        /\ pc'[p] \in {"link", "push"} =>
             NewCell(p) \/ (pc[p] \in {"link", "push"} /\ node'[p] = node[p] /\ edge'[p] = edge[p])
        /\ pc'[p] = "push" => Links(p)
    BY <1>3, OwnerFrom
  <2>3. \A q \in Process : q # p /\ pc'[q] \in Prepending /\ pc'[p] \in Prepending => edge'[p] # edge'[q]
    <3> SUFFICES ASSUME NEW q \in Process, q # p, pc'[q] \in Prepending, pc'[p] \in Prepending
                 PROVE  edge'[p] # edge'[q]
      OBVIOUS
    <3>1. pc[q] \in Prepending /\ edge'[q] = edge[q]
      BY <2>1 DEF LocalsKept
    <3>2. CASE Binds(p)
      <4>1. ~ IsBound(edge[p])
        BY <3>2, BindsUnique DEF Binds
      <4>2. IsBound(edge[q])
        BY <3>1 DEF BindInv, BindLocal
      <4> QED BY <3>1, <3>2, <4>1, <4>2 DEF Binds
    <3>3. CASE pc[p] \in Prepending /\ edge'[p] = edge[p]
      BY <3>1, <3>3 DEF OwnInv
    <3> QED BY <2>2, <3>2, <3>3
  <2>4. \A q \in Process : q # p /\ pc'[q] \in {"link", "push"} /\ pc'[p] \in {"link", "push"} => node'[p] # node'[q]
    <3> SUFFICES ASSUME NEW q \in Process, q # p, pc'[q] \in {"link", "push"}, pc'[p] \in {"link", "push"}
                 PROVE  node'[p] # node'[q]
      OBVIOUS
    <3>1. pc[q] \in {"link", "push"} /\ node'[q] = node[q]
      BY <2>1 DEF LocalsKept
    <3>2. CASE NewCell(p)
      BY <3>1, <3>2 DEF NewCell, OwnInv
    <3>3. CASE pc[p] \in {"link", "push"} /\ node'[p] = node[p]
      BY <3>1, <3>3 DEF OwnInv
    <3> QED BY <2>2, <3>2, <3>3
  <2>5. \A q \in Process : q # p /\ pc'[q] \in {"link", "push"} =>
          deptbl'[node'[q]] # Zero /\ deptbl'[node'[q]].key = Value(edge'[q][2])
    BY <1>3, <2>1, CellKept DEF LocalsKept, OwnInv
  <2>6. \A q \in Process : q # p /\ pc'[q] = "push" => deptbl'[node'[q]].next = slotval'[q].next
    BY <1>3, <2>1, CellKept DEF LocalsKept, OwnInv
  <2>7. pc'[p] \in {"link", "push"} => deptbl'[node'[p]] # Zero /\ deptbl'[node'[p]].key = Value(edge'[p][2])
    <3>1. node[p] \in Slot
      BY DEF TypeInv
    <3>2. CASE NewCell(p)
      <4> DEFINE e == ListNode(edge[p][2], Invalid)
      <4>1. e.key = Value(edge[p][2]) /\ e.next = Invalid
        BY DEF ListNode, Value
      <4>2. Invalid # Zero.next
        BY DEF Invalid, Pointer, Zero, ListNode, Value
      <4>3. deptbl'[node[p]] = e /\ node'[p] = node[p] /\ edge'[p] = edge[p]
        BY <3>1, <3>2 DEF NewCell, TypeInv
      <4> HIDE DEF e
      <4> QED BY <4>1, <4>2, <4>3
    <3>3. CASE pc[p] \in {"link", "push"} /\ node'[p] = node[p] /\ edge'[p] = edge[p]
      BY <2>1, <3>1, <3>3 DEF OwnInv, Grows
    <3> QED BY <2>2, <3>2, <3>3
  <2>8. pc'[p] = "push" => deptbl'[node'[p]].next = slotval'[p].next
    <3> SUFFICES ASSUME Links(p) PROVE deptbl'[node'[p]].next = slotval'[p].next
      BY <2>2
    <3> DEFINE e == [deptbl[node[p]] EXCEPT !.next = slotval[p].next]
    <3>1. node[p] \in Slot /\ deptbl[node[p]] \in Entry
      BY DEF TypeInv
    <3>2. e.next = slotval[p].next
      BY <3>1 DEF Entry
    <3>3. deptbl'[node[p]] = e
      BY <3>1 DEF Links, TypeInv
    <3> QED BY <3>2, <3>3 DEF Links
  <2>9. \A q, r \in Process : pc'[q] \in Prepending /\ pc'[r] \in Prepending /\ edge'[q] = edge'[r] => q = r
    BY <2>1, <2>3 DEF LocalsKept, OwnInv
  <2>10. \A q, r \in Process : pc'[q] \in {"link", "push"} /\ pc'[r] \in {"link", "push"} /\ node'[q] = node'[r] => q = r
    BY <2>1, <2>4 DEF LocalsKept, OwnInv
  <2> QED BY <2>5, <2>6, <2>7, <2>8, <2>9, <2>10 DEF OwnInv
<1> QED
  BY <1>1, <1>2, <1>3, NextCases

-----------------------------------------------------------------------------
(***************************************************************************)
(* The counters                                                            *)
(***************************************************************************)
SameCount(p) ==
  /\ UNCHANGED <<bindings, dcounter>>
  /\ UNCHANGED deptbl \/ Links(p) \/ Pushes(p)
  /\ pc[p] # "count" /\ pc'[p] # "count"
  /\ pc[p] \in {"head", "head_cas", "alloc"} <=> pc'[p] \in {"head", "head_cas", "alloc"}

LEMMA CountCases ==
  ASSUME TypeInv, BindInv, NEW p \in Process, Step(p)
  PROVE  Binds(p) \/ NewHead(p) \/ NewCell(p) \/ BindCount(p) \/ SameCount(p)
<1> USE DEF TypeInv
<1>1. CASE add_dep(p) \/ hh_get_dep(p)
  BY <1>1 DEF add_dep, hh_get_dep, Goto, shared, SameCount
<1>2. CASE GetStep(p)
  <2>1. UNCHANGED <<bindings, dcounter, deptbl>>
    BY <1>2 DEF GetStep, GetProbe, GetWalk, GetReturn, shared
  <2>2. pc[p] \in {"probe", "walk", "got"}
    BY <1>2 DEF GetStep, GetProbe, GetWalk, GetReturn
  <2>3. pc'[p] \in {"probe", "walk", "got", "idle", "assertion_failure"}
    <3>1. CASE GetProbe(p)
      BY <3>1 DEF GetProbe
    <3>2. CASE GetWalk(p)
      BY <3>2 DEF GetWalk
    <3>3. CASE GetReturn(p)
      BY <3>3 DEF GetReturn, Leave
    <3> QED BY <1>2, <3>1, <3>2, <3>3 DEF GetStep
  <2> QED BY <2>1, <2>2, <2>3 DEF SameCount
<1>3. CASE BindRead(p) \/ BindFull(p) \/ BindNext(p) \/ BindTry(p)
  <2>1. UNCHANGED <<bindings, dcounter, deptbl>> /\ pc[p] \in {"bind", "bind_free", "bind_taken"}
    BY <1>3 DEF BindRead, BindFull, BindNext, BindTry, Goto, shared
  <2>2. pc'[p] \in {"bind", "bind_free", "bind_taken", "bind_cas", "dep_table_full", "idle"}
    BY <1>3 DEF BindRead, BindFull, BindNext, BindTry, Added, Leave, Goto
  <2> QED BY <2>1, <2>2 DEF SameCount
<1>4. CASE BindCas(p)
  <2>1. CASE Binds(p)
    BY <2>1
  <2>2. CASE ~ Binds(p)
    <3>1. UNCHANGED <<bindings, dcounter, deptbl>> /\ pc[p] = "bind_cas" /\ pc'[p] \in {"idle", "bind"}
      BY <1>4, <2>2 DEF BindCas, Binds, shared, Added, Leave
    <3> QED BY <3>1 DEF SameCount
  <2> QED BY <2>1, <2>2
<1>5. CASE HeadRead(p)
  BY <1>5 DEF HeadRead, SeeHead, shared, SameCount
<1>6. CASE HeadCas(p)
  BY <1>6 DEF HeadCas, SeeHead, shared, SameCount, NewHead
<1>7. CASE alloc_deptbl_node(p)
  BY <1>7 DEF alloc_deptbl_node, SameCount, NewCell
<1>8. CASE Link(p)
  BY <1>8 DEF Link, Links, Goto, SameCount
<1>9. CASE Push(p)
  BY <1>9 DEF Push, Pushes, shared, SameCount, Added, Leave
<1> QED
  BY <1>1, <1>2, <1>3, <1>4, <1>5, <1>6, <1>7, <1>8, <1>9 DEF Step, AddStep

LEMMA OneMore ==
  ASSUME NEW S, IsFiniteSet(S), NEW x, x \notin S
  PROVE  /\ IsFiniteSet(S \cup {x}) /\ Cardinality(S) \in Nat
         /\ Cardinality(S \cup {x}) = Cardinality(S) + 1
BY FS_AddElement, FS_CardinalityType

LEMMA OneLess ==
  ASSUME NEW S, IsFiniteSet(S), NEW x \in S
  PROVE  /\ IsFiniteSet(S \ {x}) /\ Cardinality(S) \in Nat
         /\ Cardinality(S \ {x}) = Cardinality(S) - 1
BY FS_RemoveElement, FS_CardinalityType

LEMMA NextCountInv == TypeInv /\ BindInv /\ HeadInv /\ OwnInv /\ ListInv /\ CountInv /\ [Next]_vars => CountInv'
<1> SUFFICES ASSUME TypeInv, BindInv, HeadInv, OwnInv, ListInv, CountInv, [Next]_vars PROVE CountInv'
  OBVIOUS
<1>0. /\ IsFiniteSet(Unplaced) /\ IsFiniteSet(Bound) /\ IsFiniteSet(Used) /\ IsFiniteSet(Counting)
      /\ Cardinality(Used) + Cardinality(Unplaced) = Cardinality(Bound)
      /\ dcounter + Cardinality(Counting) = Cardinality(Bound)
      /\ Cardinality(Unplaced) \in Nat /\ Cardinality(Bound) \in Nat /\ Cardinality(Used) \in Nat
      /\ Cardinality(Counting) \in Nat /\ dcounter \in Nat
  BY SetsFinite DEF CountInv, TypeInv
<1>1. CASE UNCHANGED vars
  BY <1>1 DEF vars, shared, CountInv, Bound, Used, Counting, Unplaced
<1>2. CASE pyre_reset
  <2>1. Bound' = {} /\ Used' = {} /\ Counting' = {} /\ Unplaced' = {} /\ dcounter' = 0
    BY <1>2 DEF pyre_reset, Bound, Used, Counting, Unplaced
  <2> QED BY <2>1, FS_EmptySet DEF CountInv
<1>3. ASSUME NEW p \in Process, Step(p) PROVE CountInv'
  <2>1. Grows /\ (\A q \in Process : q # p => pc'[q] = pc[q]) /\ pc' \in [Process -> Place]
    BY <1>3, StepGrows, OthersKept, NextTypeInv DEF LocalsKept, TypeInv
  <2>2. slot[p] \in Slot /\ node[p] \in Slot
    BY DEF TypeInv
  <2>3. CASE Binds(p)
    <3>1. edge[p] # NoBinding
      BY <2>3 DEF Binds, BindInv, BindLocal
    <3>2. Bound' = Bound \cup {slot[p]} /\ slot[p] \notin Bound
      BY <2>2, <2>3, <3>1 DEF Bound, Binds, TypeInv
    <3>3. Used' = Used
      BY <2>3 DEF Used, Binds
    <3>4. Counting' = Counting \cup {p} /\ p \notin Counting
      BY <2>1, <2>3 DEF Counting, Binds
    <3>5. Unplaced' = Unplaced \cup {p} /\ p \notin Unplaced
      BY <2>1, <2>3 DEF Unplaced, Binds
    <3>6. dcounter' = dcounter
      BY <2>3 DEF Binds
    <3>7. Cardinality(Bound') = Cardinality(Bound) + 1
      BY <1>0, <3>2, OneMore
    <3>8. Cardinality(Counting') = Cardinality(Counting) + 1
      BY <1>0, <3>4, OneMore
    <3>9. Cardinality(Unplaced') = Cardinality(Unplaced) + 1 /\ IsFiniteSet(Unplaced')
      BY <1>0, <3>5, OneMore
    <3> QED BY <1>0, <3>3, <3>6, <3>7, <3>8, <3>9 DEF CountInv
  <2>4. CASE NewHead(p)
    <3>1. pc[p] = "head_cas" /\ pc'[p] = "idle"
      BY <2>4, LeaveIs DEF NewHead, Added
    <3>2. Bound' = Bound /\ dcounter' = dcounter
      BY <2>4 DEF Bound, NewHead
    <3>3. HeadSlot(edge[p][1], Value(edge[p][2])) # Zero
      BY DEF HeadSlot, Zero, ListNode
    <3>4. Used' = Used \cup {slot[p]} /\ slot[p] \notin Used
      BY <2>2, <2>4, <3>3 DEF Used, NewHead, TypeInv
    <3>5. Counting' = Counting
      BY <2>1, <3>1 DEF Counting
    <3>6. Unplaced' = Unplaced \ {p} /\ p \in Unplaced
      BY <2>1, <3>1 DEF Unplaced
    <3>7. Cardinality(Used') = Cardinality(Used) + 1
      BY <1>0, <3>4, OneMore
    <3>8. Cardinality(Unplaced') = Cardinality(Unplaced) - 1 /\ IsFiniteSet(Unplaced')
      BY <1>0, <3>6, OneLess
    <3> QED BY <1>0, <3>2, <3>5, <3>7, <3>8 DEF CountInv
  <2>5. CASE NewCell(p)
    <3>1. pc[p] = "alloc" /\ pc'[p] = "link"
      BY <2>5 DEF NewCell
    <3>2. Bound' = Bound /\ dcounter' = dcounter
      BY <2>5 DEF Bound, NewCell
    <3>3. ListNode(edge[p][2], Invalid) # Zero
      BY DEF ListNode, Zero, Invalid, Value, Pointer
    <3>4. Used' = Used \cup {node[p]} /\ node[p] \notin Used
      BY <2>2, <2>5, <3>3 DEF Used, NewCell, TypeInv
    <3>5. Counting' = Counting
      BY <2>1, <3>1 DEF Counting
    <3>6. Unplaced' = Unplaced \ {p} /\ p \in Unplaced
      BY <2>1, <3>1 DEF Unplaced
    <3>7. Cardinality(Used') = Cardinality(Used) + 1
      BY <1>0, <3>4, OneMore
    <3>8. Cardinality(Unplaced') = Cardinality(Unplaced) - 1 /\ IsFiniteSet(Unplaced')
      BY <1>0, <3>6, OneLess
    <3> QED BY <1>0, <3>2, <3>5, <3>7, <3>8 DEF CountInv
  <2>6. CASE BindCount(p)
    <3>1. /\ pc[p] = "count" /\ dcounter' = dcounter + 1 /\ UNCHANGED <<bindings, deptbl>>
          /\ pc'[p] = IF dcounter <= DepSize THEN "head" ELSE "assertion_failure"
      BY <2>6 DEF BindCount, Goto, TypeInv
    <3>2. pc'[p] = "head"
      BY <3>1, CountSmall, SlotType DEF TypeInv
    <3>3. Bound' = Bound /\ Used' = Used
      BY <3>1 DEF Bound, Used
    <3>4. Counting' = Counting \ {p} /\ p \in Counting
      BY <2>1, <3>1, <3>2 DEF Counting
    <3>5. Unplaced' = Unplaced
      BY <2>1, <3>1, <3>2 DEF Unplaced
    <3>6. Cardinality(Counting') = Cardinality(Counting) - 1
      BY <1>0, <3>4, OneLess
    <3> QED BY <1>0, <3>1, <3>3, <3>5, <3>6 DEF CountInv
  <2>7. CASE SameCount(p)
    <3>1. Bound' = Bound /\ dcounter' = dcounter
      BY <2>7 DEF Bound, SameCount
    <3>2. Used' = Used
      <4>1. CASE UNCHANGED deptbl
        BY <4>1 DEF Used
      <4>2. CASE Links(p)
        <5>1. \A s \in Slot : s # node[p] => deptbl'[s] = deptbl[s]
          BY <4>2 DEF Links, TypeInv
        <5>2. deptbl[node[p]] # Zero
          BY <4>2 DEF Links, OwnInv
        <5> QED BY <2>1, <2>2, <5>1, <5>2 DEF Used, Grows
      <4>3. CASE Pushes(p)
        <5>1. \A s \in Slot : s # slot[p] => deptbl'[s] = deptbl[s]
          BY <4>3 DEF Pushes, TypeInv
        <5>2. IsHead(deptbl[slot[p]], edge[p][1])
          BY <4>3 DEF Pushes, HeadInv, HeadLocal
        <5>3. deptbl[slot[p]] # Zero
          BY <5>2 DEF IsHead, Zero, ListNode
        <5> QED BY <2>1, <2>2, <5>1, <5>3 DEF Used, Grows
      <4> QED BY <2>7, <4>1, <4>2, <4>3 DEF SameCount
    <3>3. Counting' = Counting /\ Unplaced' = Unplaced
      BY <2>1, <2>7 DEF SameCount, Counting, Unplaced
    <3> QED BY <3>1, <3>2, <3>3 DEF CountInv
  <2> QED BY <1>3, <2>3, <2>4, <2>5, <2>6, <2>7, CountCases
<1> QED
  BY <1>1, <1>2, <1>3, NextCases

-----------------------------------------------------------------------------
(***************************************************************************)
(* The lists.  They only grow, and at the end of their order of growth,    *)
(* so what a process has seen of a list stays true while others add to it. *)
(***************************************************************************)
Witness(n, v, c) == n \in [Source -> Nat] /\ v \in [Source -> [Nat -> Nat]] /\ c \in [Source -> [Nat -> Slot]]

Extends(n, v, c, m, w, d) ==
  \A k \in Source : n[k] <= m[k] /\ \A i \in 1 .. n[k] : w[k][i] = v[k][i] /\ d[k][i] = c[k][i]

LEMMA ListInvIs == ListInv <=> \E n, v, c : Witness(n, v, c) /\ Lists(n, v, c)
BY Zenon DEF ListInv, Witness

LEMMA WitnessTypes ==
  ASSUME NEW n, NEW v, NEW c, Witness(n, v, c), NEW k \in Source
  PROVE  n[k] \in Nat /\ \A i \in Nat : v[k][i] \in Nat /\ c[k][i] \in Slot /\ c[k][i] \in Nat
BY DEF Witness, Slot

LEMMA ExtendsSame == ASSUME NEW n, NEW v, NEW c, Witness(n, v, c) PROVE Extends(n, v, c, n, v, c)
BY WitnessTypes DEF Extends

LEMMA ExtendsNext ==
  ASSUME NEW n, NEW v, NEW c, NEW m, NEW w, NEW d, Witness(n, v, c), Extends(n, v, c, m, w, d),
         NEW k \in Source, NEW i \in 1 .. n[k]
  PROVE  NextOf(w, d, k, i) = NextOf(v, c, k, i)
<1>1. n[k] \in Nat
  BY WitnessTypes
<1>2. w[k][i] = v[k][i] /\ d[k][i] = c[k][i]
  BY DEF Extends
<1> QED
  BY <1>1, <1>2 DEF NextOf

LEMMA ExtendsFound ==
  ASSUME NEW n, NEW v, NEW c, NEW m, NEW w, NEW d, Witness(n, v, c), Extends(n, v, c, m, w, d),
         NEW k \in Source, NEW i \in Nat, i <= n[k], NEW j \in Nat, i <= j, NEW S, FoundIn(v, k, i, S)
  PROVE  FoundIn(w, k, j, S)
<1>1. n[k] \in Nat
  BY WitnessTypes
<1>2. \A x \in 1 .. i : x \in 1 .. n[k] /\ x \in 1 .. j
  BY <1>1
<1>3. \A x \in 1 .. i : w[k][x] = v[k][x] /\ x \in 1 .. j
  BY <1>2 DEF Extends
<1> QED
  BY <1>3 DEF FoundIn

(* What a process has seen stays true while the others add edges. *)
LEMMA ListLocalKept ==
  ASSUME TypeInv, NEW n, NEW v, NEW c, NEW m, NEW w, NEW d,
         Witness(n, v, c), Witness(m, w, d), Extends(n, v, c, m, w, d),
         NEW q \in Process, LocalsKept(q), PushLocal(n, v, c, q), ReadLocal(n, v, c, q)
  PROVE  PushLocal(m, w, d, q)' /\ ReadLocal(m, w, d, q)'
<1> DEFINE k == edge[q][1]
           len == Len(result[q])
<1>0. pc[q] \in {"alloc", "link", "push", "probe", "walk", "got"} => k \in Source /\ n[k] \in Nat /\ m[k] \in Nat /\ n[k] <= m[k]
  <2>1. pc[q] \in {"alloc", "link", "push", "probe", "walk", "got"} => k \in Source
    BY EdgePair DEF TypeInv, Prepending, Walking
  <2> QED BY <2>1, WitnessTypes DEF Extends
<1>1. len \in Nat
  BY DEF TypeInv
<1>2. PushLocal(m, w, d, q)'
  <2> SUFFICES ASSUME pc[q] \in {"alloc", "link", "push"}
               PROVE  \E i \in 1 .. m[k] : slotval[q].next = NextOf(w, d, k, i)
    BY DEF PushLocal, LocalsKept
  <2>1. PICK i \in 1 .. n[k] : slotval[q].next = NextOf(v, c, k, i)
    BY DEF PushLocal
  <2>2. i \in 1 .. m[k] /\ NextOf(w, d, k, i) = NextOf(v, c, k, i)
    BY <1>0, ExtendsNext
  <2> QED BY <2>1, <2>2
<1>3. pc[q] = "probe" => FoundIn(w, k, m[k], before[q])
  BY <1>0, ExtendsFound DEF ReadLocal
<1>4. pc[q] = "walk" =>
        \E i \in 1 .. m[k] :
          /\ slotval[q].next = NextOf(w, d, k, i)
          /\ i + len <= m[k]
          /\ \A r \in 1 .. len : result[q][r] = w[k][i + r]
          /\ FoundIn(w, k, i + len, before[q])
  <2> SUFFICES ASSUME pc[q] = "walk"
               PROVE  \E i \in 1 .. m[k] :
                        /\ slotval[q].next = NextOf(w, d, k, i)
                        /\ i + len <= m[k]
                        /\ \A r \in 1 .. len : result[q][r] = w[k][i + r]
                        /\ FoundIn(w, k, i + len, before[q])
    OBVIOUS
  <2>1. PICK i \in 1 .. n[k] :
          /\ slotval[q].next = NextOf(v, c, k, i)
          /\ i + len <= n[k]
          /\ \A r \in 1 .. len : result[q][r] = v[k][i + r]
          /\ FoundIn(v, k, i + len, before[q])
    BY DEF ReadLocal
  <2>2. i \in 1 .. m[k] /\ NextOf(w, d, k, i) = NextOf(v, c, k, i)
    BY <1>0, ExtendsNext
  <2> HIDE DEF k, len
  <2>3. \A r \in 1 .. len : i + r \in 1 .. n[k]
    BY <1>0, <1>1, <2>1
  <2>4. \A r \in 1 .. len : w[k][i + r] = v[k][i + r]
    BY <1>0, <2>3 DEF Extends
  <2>5. i + len \in Nat /\ i + len <= n[k] /\ i + len <= m[k]
    BY <1>0, <1>1, <2>1
  <2>6. FoundIn(w, k, i + len, before[q])
    BY <1>0, <2>1, <2>5, ExtendsFound
  <2> QED BY <2>1, <2>2, <2>4, <2>5, <2>6
<1>5. pc[q] = "got" =>
        /\ len <= m[k]
        /\ \A r \in 1 .. len : result[q][r] = w[k][r]
        /\ FoundIn(w, k, len, before[q])
  <2> SUFFICES ASSUME pc[q] = "got"
               PROVE  /\ len <= m[k]
                      /\ \A r \in 1 .. len : result[q][r] = w[k][r]
                      /\ FoundIn(w, k, len, before[q])
    OBVIOUS
  <2>1. /\ len <= n[k]
        /\ \A r \in 1 .. len : result[q][r] = v[k][r]
        /\ FoundIn(v, k, len, before[q])
    BY DEF ReadLocal
  <2> HIDE DEF k, len
  <2>2. \A r \in 1 .. len : w[k][r] = v[k][r]
    BY <1>0, <1>1, <2>1 DEF Extends
  <2>3. FoundIn(w, k, len, before[q])
    BY <1>0, <1>1, <2>1, ExtendsFound
  <2> QED BY <1>0, <1>1, <2>1, <2>2, <2>3
<1>6. pc[q] \notin {"walk", "got"} => result[q] = <<>>
  BY DEF ReadLocal
<1>7. ReadLocal(m, w, d, q)'
  BY <1>3, <1>4, <1>5, <1>6 DEF ReadLocal, LocalsKept
<1> QED
  BY <1>2, <1>7

LEMMA ListLocalLeave ==
  ASSUME TypeInv, NEW p \in Process, Leave(p), NEW n, NEW v, NEW c
  PROVE  PushLocal(n, v, c, p)' /\ ReadLocal(n, v, c, p)'
<1>1. pc'[p] = "idle" /\ result'[p] = <<>>
  BY DEF Leave, TypeInv
<1> QED
  BY <1>1 DEF PushLocal, ReadLocal

(* The head of a list is where its last value is, or leads to it. *)
LEMMA HeadNext ==
  ASSUME TypeInv, NEW n, NEW v, NEW c, Witness(n, v, c), Lists(n, v, c),
         NEW k \in Source, NEW s \in Slot, IsHead(deptbl[s], k)
  PROVE  n[k] \in 1 .. n[k] /\ deptbl[s].next = NextOf(v, c, k, n[k])
<1>1. n[k] \in Nat /\ n[k] > 0
  BY WitnessTypes DEF Lists, ListsShape, HasHead
<1> QED
  BY <1>1 DEF Lists, ListsShape

LEMMA AddLocalStep ==
  ASSUME TypeInv, HeadInv, NEW n, NEW v, NEW c, Witness(n, v, c), Lists(n, v, c),
         NEW p \in Process, AddStep(p)
  PROVE  PushLocal(n, v, c, p)' /\ ReadLocal(n, v, c, p)'
<1> DEFINE k == edge[p][1]
<1>0. /\ PushLocal(n, v, c, p) /\ ReadLocal(n, v, c, p) /\ slot[p] \in Slot
      /\ pc[p] \in Prepending => k \in Source
  BY EdgePair DEF Lists, TypeInv
<1>a. ASSUME Leave(p) PROVE PushLocal(n, v, c, p)' /\ ReadLocal(n, v, c, p)'
  BY <1>a, ListLocalLeave
<1>b. ASSUME pc[p] \in Binding \cup Prepending,
             pc'[p] \in Binding \cup {"dep_table_full", "assertion_failure", "count", "head", "head_cas"}, result' = result
      PROVE  PushLocal(n, v, c, p)' /\ ReadLocal(n, v, c, p)'
  <2>1. pc[p] \notin {"walk", "got"} /\ pc'[p] \notin {"alloc", "link", "push", "probe", "walk", "got"}
    BY <1>b DEF Binding, Prepending
  <2> QED BY <1>0, <1>b, <2>1 DEF PushLocal, ReadLocal
<1>c. ASSUME pc[p] \in Prepending, pc'[p] \in {"alloc", "link", "push"}, edge' = edge, result' = result,
             \E i \in 1 .. n[k] : slotval'[p].next = NextOf(v, c, k, i)
      PROVE  PushLocal(n, v, c, p)' /\ ReadLocal(n, v, c, p)'
  <2>1. pc[p] \notin {"walk", "got"}
    BY <1>c DEF Prepending
  <2>2. PushLocal(n, v, c, p)'
    BY <1>c DEF PushLocal
  <2>3. ReadLocal(n, v, c, p)'
    BY <1>0, <1>c, <2>1 DEF ReadLocal
  <2> QED BY <2>2, <2>3
<1>d. ASSUME pc[p] \in Prepending, IsHead(deptbl[slot[p]], k), pc'[p] \in {"alloc", "link"}, edge' = edge, result' = result,
             slotval'[p] = deptbl[slot[p]]
      PROVE  PushLocal(n, v, c, p)' /\ ReadLocal(n, v, c, p)'
  BY <1>0, <1>c, <1>d, HeadNext
<1>e. ASSUME pc[p] \in {"head", "head_cas"}, SeeHead(p, deptbl[slot[p]]), edge' = edge, result' = result
      PROVE  PushLocal(n, v, c, p)' /\ ReadLocal(n, v, c, p)'
  <2>1. CASE IsHead(deptbl[slot[p]], k)
    <3>1. pc'[p] = "alloc" /\ slotval'[p] = deptbl[slot[p]]
      BY <1>e, <2>1 DEF SeeHead, TypeInv
    <3> QED BY <1>d, <1>e, <2>1, <3>1 DEF Prepending
  <2>2. CASE ~ IsHead(deptbl[slot[p]], k)
    BY <1>b, <1>e, <2>2 DEF SeeHead, TypeInv, Prepending
  <2> QED BY <2>1, <2>2
<1>1. CASE BindRead(p) \/ BindFull(p) \/ BindNext(p) \/ BindTry(p) \/ BindCas(p)
  <2>1. CASE Leave(p)
    BY <1>a, <2>1
  <2>2. CASE ~ Leave(p)
    <3>1. pc'[p] \in {"bind", "bind_free", "bind_taken", "bind_cas", "dep_table_full", "count"} /\ result' = result
      BY <1>1, <2>2 DEF BindRead, BindFull, BindNext, BindTry, BindCas, Added, Goto, TypeInv
    <3>2. pc[p] \in Binding
      BY <1>1 DEF BindRead, BindFull, BindNext, BindTry, BindCas, Goto, Binding
    <3> QED BY <1>b, <3>1, <3>2 DEF Binding
  <2> QED BY <2>1, <2>2
<1>2. CASE BindCount(p)
  <2>1. pc[p] = "count" /\ pc'[p] \in {"head", "assertion_failure"} /\ result' = result
    BY <1>2 DEF BindCount, Goto, TypeInv
  <2> QED BY <1>b, <2>1 DEF Prepending
<1>3. CASE HeadRead(p)
  <2>1. pc[p] = "head" /\ result' = result /\ edge' = edge
    BY <1>3 DEF HeadRead
  <2>2. CASE deptbl[slot[p]] = Zero
    BY <1>3, <1>b, <2>1, <2>2 DEF HeadRead, TypeInv, Prepending
  <2>3. CASE deptbl[slot[p]] # Zero
    BY <1>3, <1>e, <2>1, <2>3 DEF HeadRead
  <2> QED BY <2>2, <2>3
<1>4. CASE HeadCas(p)
  <2>1. CASE deptbl[slot[p]] = Zero
    BY <1>4, <1>a, <2>1 DEF HeadCas, Added
  <2>2. CASE deptbl[slot[p]] # Zero
    BY <1>4, <1>e, <2>2 DEF HeadCas
  <2> QED BY <2>1, <2>2
<1>5. CASE alloc_deptbl_node(p) \/ Link(p)
  <2>1. pc[p] \in {"alloc", "link"} /\ pc'[p] \in {"alloc", "link", "push"} /\ UNCHANGED <<edge, result, slotval>>
    BY <1>5 DEF alloc_deptbl_node, Link, Goto, TypeInv
  <2> QED BY <1>0, <1>c, <2>1 DEF Prepending, PushLocal
<1>6. CASE Push(p)
  <2>1. CASE deptbl[slot[p]] = slotval[p]
    BY <1>6, <1>a, <2>1 DEF Push, Added
  <2>2. CASE deptbl[slot[p]] # slotval[p]
    <3>1. pc[p] = "push" /\ pc'[p] = "link" /\ UNCHANGED <<edge, result>> /\ slotval'[p] = deptbl[slot[p]]
      BY <1>6, <2>2 DEF Push, TypeInv
    <3>2. IsHead(deptbl[slot[p]], k)
      BY <3>1 DEF HeadInv, HeadLocal
    <3> QED BY <1>d, <3>1, <3>2 DEF Prepending
  <2> QED BY <2>1, <2>2
<1> QED
  BY <1>1, <1>2, <1>3, <1>4, <1>5, <1>6 DEF AddStep

(* What was settled when a reader begins is in the list. *)
LEMMA SettledFound ==
  ASSUME TypeInv, BindInv, NEW n, NEW v, NEW c, Lists(n, v, c), NEW k \in Source
  PROVE  FoundIn(v, k, n[k], Settled(k))
<1> SUFFICES ASSUME NEW x \in Settled(k)
             PROVE  <<k, x>> \in Edge /\ (<<k, x>> = NoBinding \/ \E i \in 1 .. n[k] : v[k][i] = x)
  BY DEF FoundIn
<1>1. PICK e \in returned : x = e[2] /\ e[1] = k /\ \A p \in Process : edge[p] = e => pc[p] \notin Prepending
  BY DEF Settled
<1>2. e \in Edge /\ e = <<k, x>>
  BY <1>1, EdgePair DEF TypeInv
<1>3. e # NoBinding => IsBound(e)
  BY <1>1 DEF BindInv, BindTableInv
<1>4. e # NoBinding => \E i \in 1 .. n[e[1]] : v[e[1]][i] = e[2]
  BY <1>1, <1>2, <1>3 DEF Lists, ListsValues
<1> QED
  BY <1>1, <1>2, <1>4

LEMMA ReadLocalStep ==
  ASSUME TypeInv, BindInv, HeadInv, NEW n, NEW v, NEW c, Witness(n, v, c), Lists(n, v, c),
         NEW p \in Process, Begins(p) \/ GetStep(p)
  PROVE  PushLocal(n, v, c, p)' /\ ReadLocal(n, v, c, p)'
<1> DEFINE k == edge[p][1]
           len == Len(result[p])
<1>0. /\ ReadLocal(n, v, c, p) /\ slot[p] \in Slot /\ result[p] \in Seq(Nat) /\ len \in Nat
      /\ pc[p] \in Walking => k \in Source /\ k \in Nat /\ n[k] \in Nat
  BY EdgePair, WitnessTypes DEF Lists, TypeInv
<1>1. CASE add_dep(p)
  <2>1. pc[p] = "idle" /\ pc'[p] = "bind" /\ result' = result
    BY <1>1 DEF add_dep, Goto, TypeInv
  <2> QED BY <1>0, <2>1 DEF PushLocal, ReadLocal
<1>2. CASE hh_get_dep(p)
  <2>1. PICK x \in Source : edge' = [edge EXCEPT ![p] = <<x, 0>>] /\ before' = [before EXCEPT ![p] = Settled(x)]
    BY <1>2 DEF hh_get_dep
  <2>2. pc[p] = "idle" /\ pc'[p] = "probe" /\ edge'[p][1] = x /\ before'[p] = Settled(x) /\ result' = result
    BY <1>2, <2>1 DEF hh_get_dep, Goto, TypeInv
  <2>3. FoundIn(v, x, n[x], Settled(x))
    BY SettledFound
  <2> QED BY <1>0, <2>2, <2>3 DEF PushLocal, ReadLocal
<1>3. CASE GetProbe(p)
  <2>1. pc[p] = "probe" /\ UNCHANGED <<edge, result, before>> /\ result[p] = <<>> /\ len = 0
    BY <1>0, <1>3 DEF GetProbe, ReadLocal
  <2>2. k \in Source /\ n[k] \in Nat /\ FoundIn(v, k, n[k], before[p])
    BY <1>0, <2>1 DEF Walking, ReadLocal
  <2>3. CASE deptbl[slot[p]] = Zero
    <3>1. ~ IsHead(deptbl[slot[p]], k)
      BY <2>3 DEF IsHead, Zero, ListNode
    <3>2. pc'[p] = "got"
      BY <1>3, <2>3, <3>1 DEF GetProbe, TypeInv
    <3>3. n[k] = 0
      BY <2>1, <2>2, <2>3, NewHeadUnique DEF Lists, ListsShape
    <3> HIDE DEF k
    <3>4. FoundIn(v, k, 0, before[p])
      BY <2>2, <3>3
    <3> QED BY <2>1, <3>2, <3>3, <3>4 DEF PushLocal, ReadLocal, k
  <2>4. CASE IsHead(deptbl[slot[p]], k)
    <3>1. deptbl[slot[p]] # Zero
      BY <2>4 DEF IsHead, Zero, ListNode
    <3>2. pc'[p] = "walk" /\ slotval'[p] = deptbl[slot[p]]
      BY <1>3, <2>4, <3>1 DEF GetProbe, TypeInv
    <3>3. n[k] \in 1 .. n[k] /\ slotval'[p].next = NextOf(v, c, k, n[k])
      BY <1>0, <2>2, <2>4, <3>2, HeadNext
    <3> HIDE DEF k
    <3>4. n[k] + 0 = n[k]
      BY <2>2
    <3> QED BY <2>1, <2>2, <3>2, <3>3, <3>4 DEF PushLocal, ReadLocal, k
  <2>5. CASE deptbl[slot[p]] # Zero /\ ~ IsHead(deptbl[slot[p]], k)
    <3>1. pc'[p] = "probe"
      BY <1>3, <2>1, <2>5 DEF GetProbe
    <3> QED BY <2>1, <2>2, <3>1 DEF PushLocal, ReadLocal
  <2> QED BY <2>3, <2>4, <2>5
<1>4. CASE GetWalk(p)
  <2>1. pc[p] = "walk" /\ UNCHANGED <<edge, before>> /\ k \in Source /\ n[k] \in Nat
    BY <1>0, <1>4 DEF GetWalk, Walking
  <2>2. PICK i \in 1 .. n[k] :
          /\ slotval[p].next = NextOf(v, c, k, i)
          /\ i + len <= n[k]
          /\ \A r \in 1 .. len : result[p][r] = v[k][i + r]
          /\ FoundIn(v, k, i + len, before[p])
    BY <1>0, <2>1 DEF ReadLocal
  <2>3. i \in Nat /\ i > 0 /\ c[k][i] \in Slot /\ c[k][i] \in Nat /\ v[k][i] \in Nat /\ v[k][1] \in Nat
    BY <2>1, <2>2, WitnessTypes
  <2>a. ASSUME NEW x \in Nat, result' = [result EXCEPT ![p] = <<x>> \o @]
        PROVE  /\ Len(result'[p]) = len + 1 /\ result'[p][1] = x
               /\ \A r \in 1 .. len : result'[p][r + 1] = result[p][r]
    <3>1. result'[p] = <<x>> \o result[p]
      BY <2>a DEF TypeInv
    <3>2. Len(<<x>> \o result[p]) = len + 1 /\ (<<x>> \o result[p])[1] = x
      BY <1>0
    <3>3. \A r \in 1 .. len : (<<x>> \o result[p])[r + 1] = result[p][r]
      BY <1>0
    <3> QED BY <3>1, <3>2, <3>3
  <2> DEFINE next == slotval[p].next
  <2>4. CASE i = 1
    <3>1. next = <<v[k][1], "VAL">>
      BY <2>2, <2>4 DEF NextOf, Value
    <3>2. next[2] = "VAL" /\ next[1] = v[k][1]
      BY <3>1
    <3> HIDE DEF next
    <3>3. pc'[p] = "got" /\ result' = [result EXCEPT ![p] = <<v[k][1]>> \o @]
      BY <1>4, <3>2 DEF GetWalk, TypeInv, next
    <3>4. /\ Len(result'[p]) = len + 1 /\ result'[p][1] = v[k][1]
          /\ \A r \in 1 .. len : result'[p][r + 1] = result[p][r]
      BY <2>3, <2>a, <3>3
    <3> HIDE DEF k, len
    <3>5. len + 1 <= n[k] /\ FoundIn(v, k, len + 1, before[p])
      <4>1. i + len = len + 1
        BY <1>0, <2>4
      <4> QED BY <2>2, <4>1
    <3>6. \A r \in 1 .. len + 1 : result'[p][r] = v[k][r]
      <4> SUFFICES ASSUME NEW r \in 1 .. len + 1, r # 1 PROVE result'[p][r] = v[k][r]
        BY <3>4
      <4>1. r - 1 \in 1 .. len /\ (r - 1) + 1 = r /\ i + (r - 1) = r
        BY <1>0, <2>4
      <4>2. result'[p][(r - 1) + 1] = result[p][r - 1] /\ result[p][r - 1] = v[k][i + (r - 1)]
        BY <2>2, <3>4, <4>1
      <4> QED BY <4>1, <4>2
    <3> QED BY <2>1, <3>3, <3>4, <3>5, <3>6 DEF PushLocal, ReadLocal, k
  <2>5. CASE i # 1
    <3>1. next = <<c[k][i], "NEXT">>
      BY <2>2, <2>5 DEF NextOf, Pointer
    <3>2. next[2] = "NEXT" /\ next[1] = c[k][i] /\ next[1] < DepSize
      BY <2>3, <3>1, SlotType DEF Slot
    <3>3. i \in 2 .. n[k] /\ i - 1 \in 1 .. n[k]
      BY <2>1, <2>2, <2>3, <2>5
    <3>4. deptbl[c[k][i]].key = <<v[k][i], "VAL">> /\ deptbl[c[k][i]].next = NextOf(v, c, k, i - 1)
      BY <2>1, <3>3 DEF Lists, ListsShape, Value
    <3> HIDE DEF next
    <3>5. ~ (next[2] = "VAL" \/ next[1] >= DepSize)
      BY <2>3, <3>2, SlotType DEF Slot
    <3>6. /\ pc' = pc /\ slotval' = [slotval EXCEPT ![p] = deptbl[next[1]]]
          /\ result' = [result EXCEPT ![p] = <<deptbl[next[1]].key[1]>> \o @]
      BY <1>4, <3>5 DEF GetWalk, next
    <3>7. slotval'[p].next = NextOf(v, c, k, i - 1) /\ result' = [result EXCEPT ![p] = <<v[k][i]>> \o @]
      <4>1. slotval'[p] = deptbl[c[k][i]]
        BY <3>2, <3>6 DEF TypeInv
      <4>2. deptbl[c[k][i]].key[1] = v[k][i]
        <5>1. PICK x : x = deptbl[c[k][i]].key
          OBVIOUS
        <5>2. x = <<v[k][i], "VAL">>
          BY <3>4, <5>1
        <5>3. x[1] = v[k][i]
          BY <5>2
        <5> QED BY <5>1, <5>3
      <4>3. result' = [result EXCEPT ![p] = <<deptbl[c[k][i]].key[1]>> \o result[p]]
        BY <3>2, <3>6
      <4> QED BY <3>4, <4>1, <4>2, <4>3
    <3>8. /\ Len(result'[p]) = len + 1 /\ result'[p][1] = v[k][i]
          /\ \A r \in 1 .. len : result'[p][r + 1] = result[p][r]
      BY <2>3, <2>a, <3>7
    <3> HIDE DEF k, len
    <3>9. (i - 1) + (len + 1) <= n[k] /\ FoundIn(v, k, (i - 1) + (len + 1), before[p])
      <4>1. i + len = (i - 1) + (len + 1)
        BY <1>0, <2>3
      <4> QED BY <2>2, <4>1
    <3>10. \A r \in 1 .. len + 1 : result'[p][r] = v[k][(i - 1) + r]
      <4> SUFFICES ASSUME NEW r \in 1 .. len + 1 PROVE result'[p][r] = v[k][(i - 1) + r]
        OBVIOUS
      <4>1. CASE r = 1
        <5>1. (i - 1) + r = i
          BY <2>3, <4>1
        <5> QED BY <3>8, <4>1, <5>1
      <4>2. CASE r # 1
        <5>1. r - 1 \in 1 .. len /\ (r - 1) + 1 = r /\ i + (r - 1) = (i - 1) + r
          BY <1>0, <2>3, <4>2
        <5>2. result'[p][(r - 1) + 1] = result[p][r - 1] /\ result[p][r - 1] = v[k][i + (r - 1)]
          BY <2>2, <3>8, <5>1
        <5> QED BY <5>1, <5>2
      <4> QED BY <4>1, <4>2
    <3>11. \E j \in 1 .. n[k] :
             /\ slotval'[p].next = NextOf(v, c, k, j)
             /\ j + (len + 1) <= n[k]
             /\ \A r \in 1 .. len + 1 : result'[p][r] = v[k][j + r]
             /\ FoundIn(v, k, j + (len + 1), before[p])
      BY <3>3, <3>7, <3>9, <3>10
    <3> QED BY <2>1, <3>6, <3>8, <3>11 DEF PushLocal, ReadLocal, k
  <2> QED BY <2>4, <2>5
<1>5. CASE GetReturn(p)
  BY <1>5, ListLocalLeave DEF GetReturn
<1> QED
  BY <1>1, <1>2, <1>3, <1>4, <1>5 DEF Begins, GetStep

(* Who prepends an edge does so until the edge is in its list. *)
LEMMA PrependingKept ==
  ASSUME TypeInv, CountInv, NEW p \in Process, Step(p), pc[p] \in Prepending
  PROVE  NewHead(p) \/ Pushes(p) \/ (pc'[p] \in Prepending /\ edge'[p] = edge[p])
<1> USE DEF TypeInv
<1>1. CASE BindCount(p)
  <2>1. dcounter <= DepSize
    BY <1>1, CountSmall, SlotType DEF BindCount, Goto
  <2> QED BY <1>1, <2>1 DEF BindCount, Goto, Prepending
<1>2. CASE HeadRead(p)
  <2>1. pc'[p] \in {"head", "head_cas", "alloc"} /\ edge' = edge
    BY <1>2 DEF HeadRead, SeeHead
  <2> QED BY <2>1 DEF Prepending
<1>3. CASE HeadCas(p)
  <2>1. NewHead(p) \/ (pc'[p] \in {"head", "alloc"} /\ edge' = edge)
    BY <1>3 DEF HeadCas, SeeHead, NewHead
  <2> QED BY <2>1 DEF Prepending
<1>4. CASE alloc_deptbl_node(p) \/ Link(p)
  <2>1. pc'[p] \in {"alloc", "link", "push"} /\ edge' = edge
    BY <1>4 DEF alloc_deptbl_node, Link, Goto
  <2> QED BY <2>1 DEF Prepending
<1>5. CASE Push(p)
  <2>1. Pushes(p) \/ (pc'[p] = "link" /\ edge' = edge)
    BY <1>5 DEF Push, Pushes
  <2> QED BY <2>1 DEF Prepending
<1>6. pc[p] \notin {"idle", "bind", "bind_free", "bind_taken", "bind_cas", "probe", "walk", "got"}
  BY DEF Prepending
<1> QED
  BY <1>1, <1>2, <1>3, <1>4, <1>5, <1>6 DEF Step, AddStep, add_dep, hh_get_dep, GetStep, GetProbe, GetWalk, GetReturn,
     BindRead, BindFull, BindNext, BindTry, BindCas, Goto

LEMMA BoundFrom ==
  ASSUME TypeInv, NEW p \in Process, Step(p), NEW e, IsBound(e)'
  PROVE  IsBound(e) \/ (Binds(p) /\ e = edge[p])
<1>1. CASE Binds(p)
  <2>1. \A s \in Slot : bindings'[s] = IF s = slot[p] THEN edge[p] ELSE bindings[s]
    BY <1>1 DEF Binds, TypeInv
  <2> QED BY <1>1, <2>1 DEF IsBound
<1>2. CASE ~ Binds(p)
  <2>1. UNCHANGED bindings
    BY <1>2, StepCases DEF NewHead, NewCell, Links, Pushes, Looks, Known, Begins, add_dep, hh_get_dep,
       GetStep, GetProbe, GetWalk, GetReturn, shared
  <2> QED BY <2>1 DEF IsBound
<1> QED
  BY <1>1, <1>2

LEMMA ValuesKept ==
  ASSUME TypeInv, BindInv, CountInv, Grows, NEW n, NEW v, ListsValues(n, v),
         NEW p \in Process, Step(p), ~ NewHead(p), ~ Pushes(p)
  PROVE  ListsValues(n, v)'
<1>0. \A q \in Process : q # p => LocalsKept(q)
  BY OthersKept
<1>1. \A k \in Source : \A i, j \in 1 .. n[k] : v[k][i] = v[k][j] => i = j
  BY DEF ListsValues
<1>2. \A k \in Source : \A i \in 1 .. n[k] : <<k, v[k][i]>> # NoBinding /\ IsBound(<<k, v[k][i]>>)'
  <2> SUFFICES ASSUME NEW k \in Source, NEW i \in 1 .. n[k]
               PROVE  <<k, v[k][i]>> # NoBinding /\ IsBound(<<k, v[k][i]>>)'
    OBVIOUS
  <2>1. <<k, v[k][i]>> # NoBinding /\ IsBound(<<k, v[k][i]>>)
    BY DEF ListsValues
  <2> QED BY <2>1 DEF TypeInv, Grows, IsBound
<1>3. ASSUME NEW q \in Process, pc'[q] \in Prepending, NEW i \in 1 .. n[edge'[q][1]]
      PROVE  v[edge'[q][1]][i] # edge'[q][2]
  <2>1. CASE pc[q] \in Prepending /\ edge'[q] = edge[q]
    BY <1>3, <2>1 DEF ListsValues
  <2>2. CASE q = p /\ Binds(p)
    <3>1. edge'[p] = edge[p] /\ edge[p] = <<edge[p][1], edge[p][2]>> /\ edge[p][1] \in Source
      BY <2>2, EdgePair DEF Binds, TypeInv, Binding
    <3>2. ~ IsBound(edge[p])
      BY <2>2, BindsUnique DEF Binds
    <3>3. IsBound(<<edge[p][1], v[edge[p][1]][i]>>)
      BY <1>3, <2>2, <3>1 DEF ListsValues
    <3> QED BY <2>2, <3>1, <3>2, <3>3
  <2> QED BY <1>0, <1>3, <2>1, <2>2, OwnerFrom DEF LocalsKept
<1>4. ASSUME NEW e \in Edge, e # NoBinding, IsBound(e)'
      PROVE  \/ \E q \in Process : pc'[q] \in Prepending /\ edge'[q] = e
             \/ \E i \in 1 .. n[e[1]] : v[e[1]][i] = e[2]
  <2>1. CASE Binds(p) /\ e = edge[p]
    BY <2>1 DEF Binds, Prepending
  <2>2. CASE IsBound(e)
    <3>1. CASE \E i \in 1 .. n[e[1]] : v[e[1]][i] = e[2]
      BY <3>1
    <3>2. CASE \E q \in Process : pc[q] \in Prepending /\ edge[q] = e
      <4>1. PICK q \in Process : pc[q] \in Prepending /\ edge[q] = e
        BY <3>2
      <4>2. pc'[q] \in Prepending /\ edge'[q] = e
        BY <1>0, <4>1, PrependingKept DEF LocalsKept
      <4> QED BY <4>2
    <3> QED BY <1>4, <2>2, <3>1, <3>2 DEF ListsValues
  <2> QED BY <1>4, <2>1, <2>2, BoundFrom
<1> QED
  BY <1>1, <1>2, <1>3, <1>4 DEF ListsValues, IsBound

Appended(n, v, m, w, k, x) ==
  /\ m[k] = n[k] + 1 /\ w[k][m[k]] = x
  /\ \A y \in Source : y # k => m[y] = n[y]
  /\ \A y \in Source : \A i \in 1 .. n[y] : w[y][i] = v[y][i]

(* An edge that is put at the end of its list *)
LEMMA ValuesAppended ==
  ASSUME TypeInv, BindInv, OwnInv, NEW n, NEW v, NEW m, NEW w, n \in [Source -> Nat], ListsValues(n, v),
         NEW p \in Process, Step(p), NewHead(p) \/ Pushes(p),
         Appended(n, v, m, w, edge[p][1], edge[p][2])
  PROVE  ListsValues(m, w)'
<1> DEFINE k == edge[p][1]
           x == edge[p][2]
<1>0. \A q \in Process : q # p => LocalsKept(q)
  BY OthersKept
<1>1. /\ pc[p] \in Prepending /\ pc'[p] = "idle" /\ UNCHANGED bindings
      /\ edge[p] \in Edge /\ k \in Source /\ edge[p] = <<k, x>> /\ edge[p] # NoBinding /\ IsBound(edge[p])
  <2>1. pc[p] \in Prepending /\ UNCHANGED bindings /\ Leave(p)
    BY DEF NewHead, Pushes, Prepending, Added
  <2>2. edge[p] \in Edge
    BY <2>1 DEF TypeInv
  <2>3. edge[p] # NoBinding /\ IsBound(edge[p])
    BY <2>1 DEF BindInv, BindLocal
  <2> QED BY <2>1, <2>2, <2>3, LeaveIs, EdgePair
<1>2. \A y \in Source : n[y] \in Nat /\ m[y] \in Nat /\ n[y] <= m[y] /\ \A i \in 1 .. n[y] : w[y][i] = v[y][i] /\ i \in 1 .. m[y]
  BY <1>1 DEF Appended
<1>3. m[k] \in 1 .. m[k] /\ w[k][m[k]] = x
  BY <1>1, <1>2 DEF Appended
<1>4. \A y \in Source : \A i \in 1 .. m[y] : i \in 1 .. n[y] \/ (y = k /\ i = m[k])
  BY <1>1, <1>2 DEF Appended
<1>5. \A i \in 1 .. n[k] : v[k][i] # x
  BY <1>1 DEF ListsValues
<1> HIDE DEF k, x
<1>6. \A y \in Source : \A i, j \in 1 .. m[y] : w[y][i] = w[y][j] => i = j
  <2> SUFFICES ASSUME NEW y \in Source, NEW i \in 1 .. m[y], NEW j \in 1 .. m[y], w[y][i] = w[y][j] PROVE i = j
    OBVIOUS
  <2>1. CASE i \in 1 .. n[y] /\ j \in 1 .. n[y]
    <3>1. v[y][i] = v[y][j]
      BY <1>2, <2>1
    <3> QED BY <2>1, <3>1 DEF ListsValues
  <2>2. CASE i \notin 1 .. n[y] \/ j \notin 1 .. n[y]
    BY <1>2, <1>3, <1>4, <1>5, <2>2
  <2> QED BY <2>1, <2>2
<1>7. ASSUME NEW y \in Source, NEW i \in 1 .. m[y] PROVE <<y, w[y][i]>> # NoBinding /\ IsBound(<<y, w[y][i]>>)
  <2>1. CASE i \in 1 .. n[y]
    <3>1. w[y][i] = v[y][i]
      BY <1>2, <2>1
    <3> QED BY <2>1, <3>1 DEF ListsValues
  <2>2. CASE i \notin 1 .. n[y]
    <3>1. <<y, w[y][i]>> = edge[p]
      BY <1>1, <1>3, <1>4, <2>2
    <3> QED BY <1>1, <3>1
  <2> QED BY <2>1, <2>2
<1>8. ASSUME NEW q \in Process, pc'[q] \in Prepending, NEW i \in 1 .. m[edge'[q][1]]
      PROVE  w[edge'[q][1]][i] # edge'[q][2]
  <2> DEFINE y == edge[q][1]
  <2>1. q # p /\ pc[q] \in Prepending /\ edge'[q] = edge[q]
    BY <1>0, <1>1, <1>8 DEF LocalsKept, Prepending
  <2>2. y \in Source /\ edge[q] = <<y, edge[q][2]>> /\ i \in 1 .. m[y]
    BY <1>8, <2>1, EdgePair DEF TypeInv
  <2>3. CASE i \in 1 .. n[y]
    <3>1. v[y][i] # edge[q][2]
      BY <2>1, <2>3 DEF ListsValues
    <3> QED BY <1>2, <2>1, <2>2, <2>3, <3>1
  <2>4. CASE i \notin 1 .. n[y]
    <3>1. y = k /\ w[y][i] = x
      BY <1>3, <1>4, <2>2, <2>4
    <3>2. edge[q] # edge[p]
      BY <1>1, <2>1 DEF OwnInv
    <3> HIDE DEF y
    <3>3. x # edge[q][2]
      BY <1>1, <2>2, <3>1, <3>2
    <3> QED BY <2>1, <3>1, <3>3 DEF y
  <2> QED BY <2>3, <2>4
<1>9. ASSUME NEW e \in Edge, e # NoBinding, IsBound(e)
      PROVE  \/ \E q \in Process : pc'[q] \in Prepending /\ edge'[q] = e
             \/ \E i \in 1 .. m[e[1]] : w[e[1]][i] = e[2]
  <2>1. CASE \E i \in 1 .. n[e[1]] : v[e[1]][i] = e[2]
    <3>1. PICK i \in 1 .. n[e[1]] : v[e[1]][i] = e[2]
      BY <2>1
    <3>2. i \in 1 .. m[e[1]] /\ w[e[1]][i] = e[2]
      BY <1>2, <3>1, EdgePair
    <3> QED BY <3>2
  <2>2. CASE \E q \in Process : pc[q] \in Prepending /\ edge[q] = e
    <3>1. PICK q \in Process : pc[q] \in Prepending /\ edge[q] = e
      BY <2>2
    <3>2. CASE q = p
      <4>1. e[1] = k /\ e[2] = x
        BY <3>1, <3>2 DEF k, x
      <4> QED BY <1>3, <4>1
    <3>3. CASE q # p
      BY <1>0, <3>1, <3>3 DEF LocalsKept
    <3> QED BY <3>2, <3>3
  <2> QED BY <1>9, <2>1, <2>2 DEF ListsValues
<1>10. \A e : IsBound(e)' <=> IsBound(e)
  BY <1>1 DEF IsBound
<1>11. \A y \in Source : \A i \in 1 .. m[y] : <<y, w[y][i]>> # NoBinding /\ IsBound(<<y, w[y][i]>>)'
  <2> SUFFICES ASSUME NEW y \in Source, NEW i \in 1 .. m[y] PROVE <<y, w[y][i]>> # NoBinding /\ IsBound(<<y, w[y][i]>>)'
    OBVIOUS
  <2> QED BY <1>1, <1>7 DEF IsBound
<1>12. \A e \in Edge : e # NoBinding /\ IsBound(e)' =>
         \/ \E q \in Process : pc'[q] \in Prepending /\ edge'[q] = e
         \/ \E i \in 1 .. m[e[1]] : w[e[1]][i] = e[2]
  BY <1>9, <1>10
<1> QED
  BY <1>6, <1>8, <1>11, <1>12 DEF ListsValues

(* A cell of a list does not look like a free slot, or the value 0 were    *)
(* in the list twice.                                                      *)
LEMMA CellNotZero ==
  ASSUME TypeInv, NEW n, NEW v, NEW c, Witness(n, v, c), Lists(n, v, c), NEW k \in Source, NEW i \in 2 .. n[k]
  PROVE  c[k][i] \in Slot /\ deptbl[c[k][i]] # Zero /\ deptbl[c[k][i]].key[2] = "VAL"
<1>1. n[k] \in Nat /\ i \in Nat /\ c[k][i] \in Slot /\ v[k][i] \in Nat /\ v[k][1] \in Nat /\ c[k][i - 1] \in Nat
  BY WitnessTypes
<1>2. deptbl[c[k][i]].key = Value(v[k][i]) /\ deptbl[c[k][i]].next = NextOf(v, c, k, i - 1)
  BY DEF Lists, ListsShape
<1>3. ASSUME deptbl[c[k][i]] = Zero PROVE FALSE
  <2>1. Value(v[k][i]) = <<0, "VAL">> /\ NextOf(v, c, k, i - 1) = <<0, "VAL">>
    BY <1>2, <1>3, Entries
  <2>2. v[k][i] = 0
    BY <1>1, <2>1 DEF Value
  <2>3. i - 1 = 1 /\ v[k][1] = 0
    BY <1>1, <2>1 DEF NextOf, Value, Pointer
  <2>4. 1 \in 1 .. n[k] /\ i \in 1 .. n[k] /\ i # 1
    BY <1>1
  <2> QED BY <2>2, <2>3, <2>4 DEF Lists, ListsValues
<1> QED
  BY <1>1, <1>2, <1>3 DEF Value

LEMMA CellsUntouched ==
  ASSUME TypeInv, HeadInv, NEW n, NEW v, NEW c, Witness(n, v, c), Lists(n, v, c),
         NEW p \in Process, Step(p), NEW k \in Source, NEW i \in 2 .. n[k]
  PROVE  /\ deptbl'[c[k][i]] = deptbl[c[k][i]]
         /\ \A q \in Process : pc'[q] \in {"link", "push"} => c[k][i] # node'[q]
<1>0. /\ c[k][i] \in Slot /\ deptbl[c[k][i]] # Zero /\ deptbl[c[k][i]].key[2] = "VAL"
      /\ slot[p] \in Slot /\ node[p] \in Slot
      /\ \A q \in Process : pc[q] \in {"link", "push"} => c[k][i] # node[q]
  <2>1. c[k][i] \in Slot /\ deptbl[c[k][i]] # Zero /\ deptbl[c[k][i]].key[2] = "VAL"
    BY CellNotZero
  <2>2. \A q \in Process : pc[q] \in {"link", "push"} => c[k][i] # node[q]
    BY DEF Lists, ListsShape
  <2> QED BY <2>1, <2>2 DEF TypeInv
<1>1. deptbl'[c[k][i]] = deptbl[c[k][i]]
  <2>1. CASE NewHead(p)
    BY <1>0, <2>1 DEF NewHead, TypeInv
  <2>2. CASE NewCell(p)
    BY <1>0, <2>2 DEF NewCell, TypeInv
  <2>3. CASE Links(p)
    BY <1>0, <2>3 DEF Links, TypeInv
  <2>4. CASE Pushes(p)
    <3>1. deptbl[slot[p]].key = <<edge[p][1], "KEY">>
      BY <2>4 DEF Pushes, HeadInv, HeadLocal, IsHead
    <3>2. slot[p] # c[k][i]
      BY <1>0, <3>1
    <3> QED BY <1>0, <2>4, <3>2 DEF Pushes, TypeInv
  <2>5. CASE Binds(p) \/ Looks(p) \/ Known(p) \/ Begins(p) \/ GetStep(p)
    BY <2>5 DEF Binds, Looks, Known, Begins, add_dep, hh_get_dep, GetStep, GetProbe, GetWalk, GetReturn, shared
  <2> QED BY <2>1, <2>2, <2>3, <2>4, <2>5, StepCases
<1>2. ASSUME NEW q \in Process, pc'[q] \in {"link", "push"} PROVE c[k][i] # node'[q]
  <2>1. CASE pc[q] \in {"link", "push"} /\ node'[q] = node[q]
    BY <1>0, <2>1
  <2>2. CASE q = p /\ NewCell(p)
    BY <1>0, <2>2 DEF NewCell
  <2> QED BY <1>2, <2>1, <2>2, OwnerFrom, OthersKept DEF LocalsKept
<1> QED
  BY <1>1, <1>2

(* Only a push writes to a slot that is a head. *)
LEMMA HeadsUntouched ==
  ASSUME TypeInv, HeadInv, OwnInv, NEW p \in Process, Step(p), NEW s \in Slot, NEW k \in Source, IsHead(deptbl'[s], k),
         s # slot[p] \/ (~ NewHead(p) /\ ~ Pushes(p))
  PROVE  deptbl'[s] = deptbl[s]
<1>0. slot[p] \in Slot /\ node[p] \in Slot /\ deptbl[node[p]] \in Entry
  BY DEF TypeInv
<1>1. CASE NewHead(p) \/ Pushes(p)
  BY <1>0, <1>1 DEF NewHead, Pushes, TypeInv
<1>2. CASE NewCell(p)
  <2>1. \A t \in Slot : deptbl'[t] = IF t = node[p] THEN ListNode(edge[p][2], Invalid) ELSE deptbl[t]
    BY <1>2 DEF NewCell, TypeInv
  <2>2. ~ IsHead(ListNode(edge[p][2], Invalid), k)
    BY DEF IsHead, ListNode
  <2> QED BY <2>1, <2>2
<1>3. CASE Links(p)
  <2> DEFINE e == [deptbl[node[p]] EXCEPT !.next = slotval[p].next]
  <2>1. \A t \in Slot : deptbl'[t] = IF t = node[p] THEN e ELSE deptbl[t]
    BY <1>3 DEF Links, TypeInv
  <2>2. e.key = deptbl[node[p]].key
    BY <1>0 DEF Entry
  <2>3. deptbl[node[p]].key = <<edge[p][2], "VAL">>
    BY <1>3 DEF Links, OwnInv, Value
  <2> HIDE DEF e
  <2>4. ~ IsHead(e, k)
    BY <2>2, <2>3 DEF IsHead
  <2> QED BY <2>1, <2>4
<1>4. CASE Binds(p) \/ Looks(p) \/ Known(p) \/ Begins(p) \/ GetStep(p)
  BY <1>4 DEF Binds, Looks, Known, Begins, add_dep, hh_get_dep, GetStep, GetProbe, GetWalk, GetReturn, shared
<1> QED
  BY <1>1, <1>2, <1>3, <1>4, StepCases

LEMMA HeadsStay ==
  ASSUME TypeInv, Grows, NEW k \in Source, HasHead(k)
  PROVE  HasHead(k)'
<1>1. PICK s \in Slot : IsHead(deptbl[s], k)
  BY DEF HasHead
<1>2. deptbl[s] # Zero
  BY <1>1 DEF IsHead, Zero, ListNode
<1>3. IsHead(deptbl'[s], k)
  BY <1>1, <1>2 DEF Grows, IsHead
<1> QED
  BY <1>3 DEF HasHead

LEMMA ShapeKept ==
  ASSUME TypeInv, HeadInv, OwnInv, Grows, NEW n, NEW v, NEW c, Witness(n, v, c), Lists(n, v, c),
         NEW p \in Process, Step(p), ~ NewHead(p), ~ Pushes(p)
  PROVE  ListsShape(n, v, c)'
<1>1. \A k \in Source : HasHead(k)' <=> HasHead(k)
  BY HeadsStay, HeadsKept, OtherSteps DEF HasHead
<1>2. \A k \in Source : n[k] > 0 <=> HasHead(k)'
  BY <1>1 DEF Lists, ListsShape
<1>3. ASSUME NEW k \in Source, NEW s \in Slot, IsHead(deptbl'[s], k)
      PROVE  deptbl'[s].next = NextOf(v, c, k, n[k])
  <2>1. deptbl'[s] = deptbl[s]
    BY <1>3, HeadsUntouched
  <2> QED BY <1>3, <2>1 DEF Lists, ListsShape
<1>4. \A k \in Source : \A i \in 2 .. n[k] :
        deptbl'[c[k][i]].key = Value(v[k][i]) /\ deptbl'[c[k][i]].next = NextOf(v, c, k, i - 1)
  BY CellsUntouched DEF Lists, ListsShape
<1>5. \A k \in Source : \A i \in 2 .. n[k] : \A q \in Process : pc'[q] \in {"link", "push"} => c[k][i] # node'[q]
  BY CellsUntouched
<1> QED
  BY <1>2, <1>3, <1>4, <1>5 DEF ListsShape

(* The new edge is in the head, or in the cell the head leads to. *)
LEMMA ShapeAppended ==
  ASSUME TypeInv, HeadInv, OwnInv, Grows, NEW n, NEW v, NEW c, Witness(n, v, c), Lists(n, v, c),
         NEW p \in Process, Step(p), NewHead(p) \/ Pushes(p),
         NEW m, NEW w, NEW d, Witness(m, w, d), Extends(n, v, c, m, w, d),
         Appended(n, v, m, w, edge[p][1], edge[p][2]),
         m[edge[p][1]] # 1 => d[edge[p][1]][m[edge[p][1]]] = node[p]
  PROVE  ListsShape(m, w, d)'
<1> DEFINE k == edge[p][1]
           x == edge[p][2]
<1>0. /\ pc[p] \in Prepending /\ pc'[p] = "idle" /\ k \in Source /\ k \in Nat /\ x \in Nat
      /\ slot[p] \in Slot /\ node[p] \in Slot
  <2>1. pc[p] \in Prepending /\ Leave(p)
    BY DEF NewHead, Pushes, Prepending, Added
  <2> QED BY <2>1, LeaveIs, EdgePair DEF TypeInv
<1>1. /\ n[k] \in Nat /\ m[k] = n[k] + 1 /\ w[k][m[k]] = x
      /\ \A y \in Source : n[y] \in Nat /\ m[y] \in Nat /\ (y # k => m[y] = n[y])
  BY <1>0, WitnessTypes DEF Appended
<1>2. \A q \in Process : pc'[q] \in {"link", "push"} => q # p /\ pc[q] \in {"link", "push"} /\ node'[q] = node[q]
  BY <1>0, OthersKept DEF LocalsKept
<1>3. /\ IsHead(deptbl'[slot[p]], k)
      /\ \A s \in Slot : s # slot[p] => deptbl'[s] = deptbl[s]
      /\ \A s \in Slot : s # slot[p] => ~ IsHead(deptbl[s], k)
      /\ deptbl'[slot[p]].next = NextOf(w, d, k, m[k])
      /\ m[k] # 1 => deptbl[node[p]].key = Value(x) /\ deptbl[node[p]].next = NextOf(v, c, k, n[k]) /\ node[p] # slot[p]
  <2>1. CASE NewHead(p)
    <3>1. \A s \in Slot : deptbl'[s] = IF s = slot[p] THEN HeadSlot(k, Value(x)) ELSE deptbl[s]
      BY <2>1 DEF NewHead, TypeInv
    <3>2. ~ HasHead(k)
      BY <2>1, NewHeadUnique DEF NewHead
    <3>3. n[k] = 0 /\ m[k] = 1
      BY <1>0, <1>1, <3>2 DEF Lists, ListsShape
    <3> HIDE DEF k, x
    <3>4. HeadSlot(k, Value(x)).key = <<k, "KEY">> /\ HeadSlot(k, Value(x)).next = Value(x)
      BY DEF HeadSlot
    <3>5. NextOf(w, d, k, m[k]) = Value(x)
      BY <1>1, <3>3 DEF NextOf
    <3> QED BY <1>0, <3>1, <3>2, <3>3, <3>4, <3>5 DEF IsHead, HasHead
  <2>2. CASE Pushes(p)
    <3> DEFINE e == HeadSlot(k, Pointer(node[p]))
    <3>1. \A s \in Slot : deptbl'[s] = IF s = slot[p] THEN e ELSE deptbl[s]
      BY <2>2 DEF Pushes, TypeInv
    <3>2. IsHead(deptbl[slot[p]], k) /\ pc[p] = "push" /\ deptbl[slot[p]] = slotval[p]
      BY <2>2 DEF Pushes, HeadInv, HeadLocal
    <3>3. \A s \in Slot : s # slot[p] => ~ IsHead(deptbl[s], k)
      BY <1>0, <3>2 DEF HeadInv, HeadTableInv
    <3>4. n[k] \in 1 .. n[k] /\ deptbl[slot[p]].next = NextOf(v, c, k, n[k])
      BY <1>0, <3>2, HeadNext
    <3>5. deptbl[node[p]].key = Value(x) /\ deptbl[node[p]].next = slotval[p].next
      BY <3>2 DEF OwnInv
    <3> HIDE DEF k, x, e
    <3>6. m[k] # 1
      BY <1>1, <3>4
    <3>7. NextOf(w, d, k, m[k]) = Pointer(node[p])
      BY <3>6 DEF NextOf, k
    <3>8. e.key = <<k, "KEY">> /\ e.next = Pointer(node[p])
      BY DEF e, HeadSlot
    <3>9. node[p] # slot[p]
      BY <3>2, <3>5 DEF IsHead, Value
    <3> QED BY <1>0, <3>1, <3>2, <3>3, <3>4, <3>5, <3>7, <3>8, <3>9 DEF IsHead
  <2> QED BY <2>1, <2>2
<1>4. \A y \in Source : y # k => \A s \in Slot : IsHead(deptbl'[s], y) <=> IsHead(deptbl[s], y)
  <2> SUFFICES ASSUME NEW y \in Source, y # k, NEW s \in Slot PROVE IsHead(deptbl'[s], y) <=> IsHead(deptbl[s], y)
    OBVIOUS
  <2>1. CASE s # slot[p]
    BY <1>3, <2>1
  <2>2. CASE s = slot[p]
    <3>1. ~ IsHead(deptbl'[slot[p]], y)
      BY <1>3, EdgePair, <1>0 DEF IsHead
    <3>2. ~ IsHead(deptbl[slot[p]], y)
      <4>1. deptbl[slot[p]] = Zero \/ IsHead(deptbl[slot[p]], k)
        BY DEF NewHead, Pushes, HeadInv, HeadLocal
      <4> QED BY <1>0, <4>1, EdgePair DEF IsHead, Zero, ListNode
    <3> QED BY <2>2, <3>1, <3>2
  <2> QED BY <2>1, <2>2
<1> HIDE DEF k, x
<1>5. \A y \in Source : m[y] > 0 <=> HasHead(y)'
  <2> SUFFICES ASSUME NEW y \in Source PROVE m[y] > 0 <=> HasHead(y)'
    OBVIOUS
  <2>1. CASE y = k
    <3>1. m[k] > 0
      BY <1>1
    <3> QED BY <1>0, <1>3, <2>1, <3>1 DEF HasHead
  <2>2. CASE y # k
    <3>1. HasHead(y)' <=> HasHead(y)
      BY <1>4, <2>2 DEF HasHead
    <3>2. m[y] = n[y]
      BY <1>1, <2>2
    <3> QED BY <3>1, <3>2 DEF Lists, ListsShape
  <2> QED BY <2>1, <2>2
<1>6. ASSUME NEW y \in Source, NEW s \in Slot, IsHead(deptbl'[s], y)
      PROVE  deptbl'[s].next = NextOf(w, d, y, m[y])
  <2>1. CASE y = k
    <3>1. s = slot[p]
      BY <1>3, <1>6, <2>1
    <3> QED BY <1>3, <2>1, <3>1
  <2>2. CASE y # k
    <3>1. IsHead(deptbl[s], y)
      BY <1>4, <1>6, <2>2
    <3>2. n[y] \in 1 .. n[y] /\ deptbl[s].next = NextOf(v, c, y, n[y])
      BY <3>1, HeadNext
    <3>3. s # slot[p]
      BY <1>0, <1>3, <1>6, <2>2 DEF IsHead
    <3>4. NextOf(w, d, y, n[y]) = NextOf(v, c, y, n[y])
      BY <3>2, ExtendsNext
    <3> QED BY <1>1, <1>3, <2>2, <3>2, <3>3, <3>4
  <2> QED BY <2>1, <2>2
<1>7. ASSUME NEW y \in Source, NEW i \in 2 .. m[y]
      PROVE  /\ deptbl'[d[y][i]].key = Value(w[y][i]) /\ deptbl'[d[y][i]].next = NextOf(w, d, y, i - 1)
             /\ \A q \in Process : pc'[q] \in {"link", "push"} => d[y][i] # node'[q]
  <2>0. i \in Nat /\ n[y] \in Nat
    BY <1>1
  <2>1. CASE i \in 2 .. n[y]
    <3>1. i \in 1 .. n[y] /\ i - 1 \in 1 .. n[y]
      BY <2>0, <2>1
    <3>2. w[y][i] = v[y][i] /\ d[y][i] = c[y][i]
      BY <3>1 DEF Extends
    <3>3. NextOf(w, d, y, i - 1) = NextOf(v, c, y, i - 1)
      BY <3>1, ExtendsNext
    <3>4. /\ deptbl'[c[y][i]] = deptbl[c[y][i]]
          /\ \A q \in Process : pc'[q] \in {"link", "push"} => c[y][i] # node'[q]
      BY <2>1, CellsUntouched
    <3>5. deptbl[c[y][i]].key = Value(v[y][i]) /\ deptbl[c[y][i]].next = NextOf(v, c, y, i - 1)
      BY <2>1 DEF Lists, ListsShape
    <3> QED BY <3>2, <3>3, <3>4, <3>5
  <2>2. CASE i \notin 2 .. n[y]
    <3>1. y = k /\ i = m[k] /\ m[k] # 1 /\ i - 1 = n[k] /\ n[k] \in 1 .. n[k]
      BY <1>1, <2>0, <1>7, <2>2
    <3>2. d[y][i] = node[p] /\ w[y][i] = x
      BY <1>1, <3>1 DEF k
    <3>3. deptbl'[node[p]] = deptbl[node[p]]
      BY <1>0, <1>3, <3>1
    <3>4. NextOf(w, d, k, n[k]) = NextOf(v, c, k, n[k])
      BY <1>0, <3>1, ExtendsNext
    <3>5. \A q \in Process : pc'[q] \in {"link", "push"} => node[p] # node'[q]
      <4>1. m[k] # 1 => pc[p] = "push"
        <5>1. CASE NewHead(p)
          <6>1. ~ HasHead(k)
            BY <5>1, NewHeadUnique DEF NewHead, k
          <6> QED BY <1>0, <1>1, <6>1 DEF Lists, ListsShape
        <5>2. CASE Pushes(p)
          BY <5>2 DEF Pushes
        <5> QED BY <5>1, <5>2
      <4> QED BY <1>2, <3>1, <4>1 DEF OwnInv
    <3> QED BY <1>3, <3>1, <3>2, <3>3, <3>4, <3>5
  <2> QED BY <2>1, <2>2
<1> QED
  BY <1>5, <1>6, <1>7 DEF ListsShape

(* A table that is empty *)
Empty ==
  /\ \A s \in Slot : bindings[s] = NoBinding /\ deptbl[s] = Zero
  /\ \A p \in Process : pc[p] = "idle" /\ result[p] = <<>>

LEMMA EmptyLists == Empty => ListInv
<1> SUFFICES ASSUME Empty PROVE ListInv
  OBVIOUS
<1>1. PICK n \in [Source -> Nat], v \in [Source -> [Nat -> Nat]], c \in [Source -> [Nat -> Slot]] :
        \A k \in Source : n[k] = 0
  <2> DEFINE n0 == [k \in Source |-> 0]
             v0 == [k \in Source |-> [i \in Nat |-> 0]]
  <2>1. n0 \in [Source -> Nat] /\ v0 \in [Source -> [Nat -> Nat]] /\ v0 \in [Source -> [Nat -> Slot]]
    BY SlotType
  <2>2. \A k \in Source : n0[k] = 0
    OBVIOUS
  <2> HIDE DEF n0, v0
  <2> QED BY <2>1, <2>2
<1>2. \A k \in Source : ~ HasHead(k)
  BY DEF Empty, HasHead, IsHead, Zero, ListNode
<1>3. \A e : e # NoBinding => ~ IsBound(e)
  BY DEF Empty, IsBound
<1>4. ListsShape(n, v, c)
  <2>1. \A k \in Source : \A s \in Slot : ~ IsHead(deptbl[s], k)
    BY <1>2 DEF HasHead
  <2> QED BY <1>1, <1>2, <2>1 DEF ListsShape
<1>5. ListsValues(n, v)
  <2>1. \A p \in Process : pc[p] \notin Prepending
    BY DEF Empty, Prepending
  <2> QED BY <1>1, <1>3, <2>1 DEF ListsValues
<1>6. \A p \in Process : PushLocal(n, v, c, p) /\ ReadLocal(n, v, c, p)
  BY DEF Empty, PushLocal, ReadLocal
<1> QED
  BY <1>4, <1>5, <1>6 DEF ListInv, Lists

LEMMA NextListInv == TypeInv /\ BindInv /\ HeadInv /\ OwnInv /\ ListInv /\ CountInv /\ [Next]_vars => ListInv'
<1> SUFFICES ASSUME TypeInv, BindInv, HeadInv, OwnInv, ListInv, CountInv, [Next]_vars PROVE ListInv'
  OBVIOUS
<1>0. PICK n, v, c : Witness(n, v, c) /\ Lists(n, v, c)
  BY ListInvIs
<1>a. ASSUME NEW m, NEW w, NEW d, Witness(m, w, d), Lists(m, w, d)' PROVE ListInv'
  BY <1>a DEF ListInv, Witness
<1>1. CASE UNCHANGED vars
  <2>1. Lists(n, v, c)'
    <3>1. ListsShape(n, v, c)'
      BY <1>0, <1>1 DEF vars, shared, Lists, ListsShape, HasHead
    <3>2. \A e : IsBound(e)' <=> IsBound(e)
      BY <1>1 DEF vars, shared, IsBound
    <3>3. UNCHANGED <<pc, edge, slotval, result, before>>
      BY <1>1 DEF vars
    <3>4. ListsValues(n, v)'
      BY <1>0, <3>2, <3>3 DEF Lists, ListsValues
    <3>5. \A q \in Process : PushLocal(n, v, c, q)' /\ ReadLocal(n, v, c, q)'
      BY <1>0, <3>3 DEF Lists, PushLocal, ReadLocal
    <3> QED BY <3>1, <3>4, <3>5 DEF Lists
  <2> QED BY <1>0, <1>a, <2>1
<1>2. CASE pyre_reset
  <2>1. Empty'
    <3>1. \A p \in Process : pc[p] = "idle" /\ result[p] = <<>>
      BY <1>0, <1>2 DEF pyre_reset, Lists, ReadLocal
    <3> QED BY <1>2, <3>1 DEF pyre_reset, Empty
  <2> QED BY <2>1, EmptyLists, PTL
<1>3. ASSUME NEW p \in Process, Step(p) PROVE ListInv'
  <2>1. Grows /\ (\A q \in Process : q # p => LocalsKept(q))
    BY <1>3, StepGrows, OthersKept
  <2>2. ListsValues(n, v) /\ \A q \in Process : PushLocal(n, v, c, q) /\ ReadLocal(n, v, c, q)
    BY <1>0 DEF Lists
  <2>3. CASE ~ NewHead(p) /\ ~ Pushes(p)
    <3>1. ListsShape(n, v, c)'
      BY <1>0, <1>3, <2>1, <2>3, ShapeKept
    <3>2. ListsValues(n, v)'
      BY <1>3, <2>1, <2>2, <2>3, ValuesKept
    <3>3. \A q \in Process : q # p => PushLocal(n, v, c, q)' /\ ReadLocal(n, v, c, q)'
      BY <1>0, <2>1, <2>2, ExtendsSame, ListLocalKept
    <3>4. PushLocal(n, v, c, p)' /\ ReadLocal(n, v, c, p)'
      BY <1>0, <1>3, AddLocalStep, ReadLocalStep DEF Step, Begins
    <3>5. Lists(n, v, c)'
      BY <3>1, <3>2, <3>3, <3>4 DEF Lists
    <3> QED BY <1>0, <1>a, <3>5
  <2>4. CASE NewHead(p) \/ Pushes(p)
    <3> DEFINE k == edge[p][1]
               x == edge[p][2]
    <3>1. Leave(p) /\ k \in Source /\ x \in Nat /\ node[p] \in Slot /\ n[k] \in Nat
      <4>1. pc[p] \in Prepending /\ Leave(p)
        BY <2>4 DEF NewHead, Pushes, Prepending, Added
      <4>2. k \in Source /\ x \in Nat
        BY <4>1, EdgePair DEF TypeInv
      <4> QED BY <1>0, <4>1, <4>2, WitnessTypes DEF TypeInv
    <3>2. PICK m, w, d : /\ m = [n EXCEPT ![k] = n[k] + 1]
                         /\ w = [v EXCEPT ![k] = [v[k] EXCEPT ![n[k] + 1] = x]]
                         /\ d = [c EXCEPT ![k] = [c[k] EXCEPT ![n[k] + 1] = node[p]]]
      OBVIOUS
    <3> HIDE DEF k, x
    <3>3. Witness(m, w, d)
      <4>1. m \in [Source -> Nat]
        BY <1>0, <3>1, <3>2 DEF Witness
      <4>2. v[k] \in [Nat -> Nat] /\ c[k] \in [Nat -> Slot]
        BY <1>0, <3>1 DEF Witness
      <4>3. [v[k] EXCEPT ![n[k] + 1] = x] \in [Nat -> Nat] /\ [c[k] EXCEPT ![n[k] + 1] = node[p]] \in [Nat -> Slot]
        BY <3>1, <4>2
      <4>4. w \in [Source -> [Nat -> Nat]] /\ d \in [Source -> [Nat -> Slot]]
        BY <1>0, <3>2, <4>3 DEF Witness
      <4> QED BY <4>1, <4>4 DEF Witness
    <3>4. m[k] = n[k] + 1 /\ w[k][m[k]] = x /\ d[k][m[k]] = node[p]
      BY <1>0, <3>1, <3>2 DEF Witness
    <3>5. \A y \in Source : y # k => m[y] = n[y] /\ w[y] = v[y] /\ d[y] = c[y]
      BY <1>0, <3>2 DEF Witness
    <3>6. \A i \in 1 .. n[k] : w[k][i] = v[k][i] /\ d[k][i] = c[k][i]
      BY <1>0, <3>1, <3>2 DEF Witness
    <3>7. \A y \in Source : n[y] \in Nat
      BY <1>0, WitnessTypes
    <3>8. Extends(n, v, c, m, w, d)
      BY <3>4, <3>5, <3>6, <3>7 DEF Extends
    <3>9. Appended(n, v, m, w, k, x)
      BY <3>4, <3>5, <3>6 DEF Appended
    <3>10. ListsShape(m, w, d)'
      BY <1>0, <1>3, <2>1, <2>4, <3>3, <3>4, <3>8, <3>9, ShapeAppended DEF k, x
    <3>11. ListsValues(m, w)'
      <4>1. n \in [Source -> Nat]
        BY <1>0 DEF Witness
      <4> QED BY <1>3, <2>2, <2>4, <3>9, <4>1, ValuesAppended DEF k, x
    <3>12. \A q \in Process : q # p => PushLocal(m, w, d, q)' /\ ReadLocal(m, w, d, q)'
      BY <1>0, <2>1, <2>2, <3>3, <3>8, ListLocalKept
    <3>13. PushLocal(m, w, d, p)' /\ ReadLocal(m, w, d, p)'
      BY <3>1, ListLocalLeave
    <3>14. Lists(m, w, d)'
      BY <3>10, <3>11, <3>12, <3>13 DEF Lists
    <3> QED BY <1>a, <3>3, <3>14
  <2> QED BY <2>3, <2>4
<1> QED
  BY <1>1, <1>2, <1>3, NextCases

-----------------------------------------------------------------------------
(***************************************************************************)
(* The theorems                                                            *)
(***************************************************************************)
LEMMA InitInv == Init => Inv
<1> SUFFICES ASSUME Init PROVE Inv
  OBVIOUS
<1>1. Empty /\ dcounter = 0 /\ returned = {}
  BY DEF Init, Empty
<1>2. BindInv
  BY <1>1 DEF Empty, BindInv, BindTableInv, BindLocal, Binding, Prepending
<1>3. HeadInv
  <2>1. \A s \in Slot : deptbl[s].key[2] # "KEY"
    BY <1>1 DEF Empty, Zero, ListNode
  <2>2. \A k \in Source : \A s \in Slot : ~ IsHead(deptbl[s], k)
    BY <2>1 DEF IsHead
  <2>3. HeadTableInv
    BY <2>1, <2>2 DEF HeadTableInv
  <2>4. \A p \in Process : HeadLocal(p)
    BY <1>1 DEF Empty, HeadLocal
  <2> QED BY <2>3, <2>4 DEF HeadInv
<1>4. OwnInv
  BY <1>1 DEF Empty, OwnInv, Prepending
<1>5. CountInv
  <2>1. Bound = {} /\ Used = {} /\ Counting = {} /\ Unplaced = {}
    BY <1>1 DEF Empty, Bound, Used, Counting, Unplaced
  <2> QED BY <1>1, <2>1, FS_EmptySet DEF CountInv
<1> QED
  BY <1>1, <1>2, <1>3, <1>4, <1>5, EmptyLists, InitTypeInv DEF Inv

LEMMA NextInv == Inv /\ [Next]_vars => Inv'
BY NextTypeInv, NextBindInv, NextHeadInv, NextOwnInv, NextListInv, NextCountInv DEF Inv

LEMMA Invariant == Spec => []Inv
BY InitInv, NextInv, PTL DEF Spec

(***************************************************************************)
(* A source node has one list, however many processes add its first edges  *)
(* at once.                                                                *)
(***************************************************************************)
THEOREM OneListPerNode == Spec => []OneList
<1>1. Inv => OneList
  <2> SUFFICES ASSUME Inv, NEW s \in Slot, NEW t \in Slot, deptbl[s].key[2] = "KEY", deptbl[s].key = deptbl[t].key
               PROVE  s = t
    BY DEF OneList
  <2> DEFINE k == deptbl[s].key[1]
  <2>1. k \in Source /\ k \in Nat /\ deptbl[s] \in Entry /\ deptbl[t] \in Entry
    BY EdgePair DEF Inv, HeadInv, HeadTableInv, TypeInv
  <2>2. IsHead(deptbl[s], k)
    BY <2>1, HeadIs
  <2>3. IsHead(deptbl[t], k)
    BY <2>2 DEF IsHead
  <2> HIDE DEF k
  <2> QED BY <2>1, <2>2, <2>3 DEF Inv, HeadInv, HeadTableInv
<1> QED
  BY <1>1, Invariant, PTL

(***************************************************************************)
(* Every edge takes exactly one slot of deptbl once its add_dep has placed *)
(* it: alloc_deptbl_node, which probes without a limit, has a slot to find *)
(* as long as add_binding has found one.                                   *)
(***************************************************************************)
THEOREM SlotsMatchEdges == Spec => []OneSlotPerEdge
<1>1. Inv => OneSlotPerEdge
  BY DEF Inv, CountInv, Used, Bound, Unplaced, OneSlotPerEdge
<1> QED
  BY <1>1, Invariant, PTL

(***************************************************************************)
(* hh_get_dep, with any number of processes adding edges meanwhile,        *)
(* returns no value twice, no value that was not added, and every edge     *)
(* whose add_dep was over when it was called.  The edge from 0 to 0, whose *)
(* bit pattern is that of a free slot of deptbl_bindings, is not one that  *)
(* is added.                                                               *)
(***************************************************************************)
THEOREM ReadersSeeTheGraph == ASSUME NoBinding \notin Edge PROVE Spec => []ReadsGraph
<1>1. Inv => ReadsGraph
  <2> SUFFICES ASSUME Inv, NEW p \in Process, pc[p] = "got"
               PROVE  /\ IsInjective(result[p])
                      /\ before[p] \subseteq Range(result[p])
                      /\ \A x \in Range(result[p]) : \E s \in Slot : bindings[s] = <<edge[p][1], x>>
    BY DEF ReadsGraph
  <2> DEFINE k == edge[p][1]
             len == Len(result[p])
  <2>1. PICK n, v, c : Witness(n, v, c) /\ Lists(n, v, c)
    BY ListInvIs DEF Inv
  <2>2. /\ k \in Source /\ n[k] \in Nat /\ result[p] \in Seq(Nat)
        /\ len \in Nat /\ DOMAIN result[p] = 1 .. len
    BY <2>1, WitnessTypes DEF Inv, TypeInv
  <2>3. /\ len <= n[k]
        /\ \A r \in 1 .. len : result[p][r] = v[k][r]
        /\ FoundIn(v, k, len, before[p])
    BY <2>1 DEF Lists, ReadLocal
  <2>4. /\ \A i, j \in 1 .. n[k] : v[k][i] = v[k][j] => i = j
        /\ \A i \in 1 .. n[k] : IsBound(<<k, v[k][i]>>)
    BY <2>1, <2>2 DEF Lists, ListsValues
  <2> HIDE DEF k, len
  <2>5. \A r \in 1 .. len : r \in 1 .. n[k]
    BY <2>2, <2>3
  <2>6. IsInjective(result[p])
    BY <2>2, <2>3, <2>4, <2>5 DEF IsInjective
  <2>7. before[p] \subseteq Range(result[p])
    <3>1. \A x \in before[p] : \E i \in 1 .. len : v[k][i] = x
      BY <2>3 DEF FoundIn
    <3> QED BY <2>2, <2>3, <3>1 DEF Range
  <2>8. \A x \in Range(result[p]) : \E s \in Slot : bindings[s] = <<k, x>>
    <3> SUFFICES ASSUME NEW r \in 1 .. len PROVE \E s \in Slot : bindings[s] = <<k, result[p][r]>>
      BY <2>2 DEF Range
    <3>1. IsBound(<<k, v[k][r]>>) /\ result[p][r] = v[k][r]
      BY <2>3, <2>4, <2>5
    <3> QED BY <3>1 DEF IsBound
  <2> QED BY <2>6, <2>7, <2>8 DEF k
<1> QED
  BY <1>1, Invariant, PTL

(***************************************************************************)
(* No assertion of the table fails: size <= dep_size when an edge is       *)
(* counted, next.num < dep_size when a list is read.                       *)
(***************************************************************************)
THEOREM AssertionsHold == Spec => [](\A p \in Process : pc[p] # "assertion_failure")
<1>1. Inv => \A p \in Process : pc[p] # "assertion_failure"
  BY DEF Inv, TypeInv, Place, Binding, Prepending, Walking
<1> QED
  BY <1>1, Invariant, PTL

-----------------------------------------------------------------------------
(***************************************************************************)
(* Saving                                                                  *)
(***************************************************************************)

(* Who has taken a slot of deptbl_bindings returns, or is still prepending. *)
ReturnInv ==
  \A s \in Slot : bindings[s] # NoBinding =>
    bindings[s] \in returned \/ \E p \in Process : pc[p] \in Prepending /\ edge[p] = bindings[s]

LEMMA InitReturnInv == Init => ReturnInv
BY DEF Init, ReturnInv

(* What a step does to who is prepending *)
LEMMA StepPrepending ==
  ASSUME TypeInv, TypeInv', NEW p \in Process, Step(p)
  PROVE  /\ returned \subseteq returned'
         /\ pc[p] \in Prepending => \/ pc'[p] \in Prepending /\ edge'[p] = edge[p]
                                    \/ edge[p] \in returned'
<1>0. pc'[p] \in Place
  BY DEF TypeInv
<1> USE DEF Prepending
<1>1. CASE Binds(p)
  BY <1>1 DEF Binds
<1>2. CASE NewHead(p) \/ Pushes(p) \/ Known(p)
  BY <1>2 DEF NewHead, Pushes, Known, Added
<1>3. CASE NewCell(p) \/ Links(p)
  BY <1>3 DEF NewCell, Links
<1>4. CASE Looks(p)
  <2>1. CASE BindRead(p) \/ BindFull(p) \/ BindNext(p) \/ BindTry(p)
    BY <1>4, <2>1 DEF Looks, BindRead, BindFull, BindNext, BindTry, Goto
  <2>2. CASE BindCas(p)
    BY <1>4, <2>2 DEF Looks, BindCas
  <2>3. CASE BindCount(p)
    BY <1>0, <1>4, <2>3 DEF Looks, BindCount, Goto, TypeInv, Place, Binding, Walking
  <2>4. CASE HeadRead(p)
    BY <1>4, <2>4 DEF Looks, HeadRead, SeeHead, TypeInv
  <2>5. CASE HeadCas(p)
    BY <1>4, <2>5 DEF Looks, HeadCas, SeeHead, Added, TypeInv
  <2>6. CASE alloc_deptbl_node(p)
    BY <1>4, <2>6 DEF Looks, alloc_deptbl_node, TypeInv
  <2>7. CASE Push(p)
    BY <1>4, <2>7 DEF Looks, Push, Added, TypeInv
  <2> QED
    BY <1>4, <2>1, <2>2, <2>3, <2>4, <2>5, <2>6, <2>7 DEF Looks
<1>5. CASE Begins(p)
  BY <1>5 DEF Begins, add_dep, hh_get_dep, Goto
<1>6. CASE GetStep(p)
  BY <1>6 DEF GetStep, GetProbe, GetWalk, GetReturn
<1> QED
  BY <1>1, <1>2, <1>3, <1>4, <1>5, <1>6, StepCases

LEMMA NextReturnInv == Inv /\ Inv' /\ ReturnInv /\ [Next]_vars => ReturnInv'
<1> SUFFICES ASSUME Inv, Inv', ReturnInv, [Next]_vars PROVE ReturnInv'
  OBVIOUS
<1>0. TypeInv /\ TypeInv'
  BY DEF Inv
<1>1. CASE UNCHANGED vars
  BY <1>1 DEF ReturnInv, vars, shared
<1>2. CASE pyre_reset
  BY <1>2 DEF pyre_reset, ReturnInv
<1>3. CASE \E p \in Process : Step(p)
  <2>1. PICK p \in Process : Step(p)
    BY <1>3
  <2>2. \A q \in Process : q # p => pc'[q] = pc[q] /\ edge'[q] = edge[q]
    BY <1>0, <2>1, OthersKept DEF LocalsKept
  <2>3. /\ returned \subseteq returned'
        /\ pc[p] \in Prepending => \/ pc'[p] \in Prepending /\ edge'[p] = edge[p]
                                   \/ edge[p] \in returned'
    BY <1>0, <2>1, StepPrepending
  <2>4. ASSUME NEW s \in Slot, bindings'[s] = bindings[s], bindings[s] # NoBinding
        PROVE  bindings'[s] \in returned' \/ \E q \in Process : pc'[q] \in Prepending /\ edge'[q] = bindings'[s]
    BY <2>2, <2>3, <2>4 DEF ReturnInv
  <2>5. CASE Binds(p)
    <3>1. \A s \in Slot : s # slot[p] => bindings'[s] = bindings[s]
      BY <1>0, <2>5 DEF Binds, TypeInv
    <3>2. bindings'[slot[p]] = edge'[p] /\ pc'[p] \in Prepending
      BY <1>0, <2>5 DEF Binds, TypeInv, Prepending
    <3> QED
      BY <2>4, <3>1, <3>2 DEF ReturnInv
  <2>6. CASE ~ Binds(p)
    <3>1. bindings' = bindings
      BY <1>0, <2>1, <2>6, StepCases
      DEF NewHead, NewCell, Links, Pushes, Looks, Known, Begins, add_dep, hh_get_dep, GetStep, GetProbe,
          GetWalk, GetReturn, shared
    <3> QED
      BY <2>4, <3>1 DEF ReturnInv
  <2> QED
    BY <2>5, <2>6
<1> QED
  BY <1>1, <1>2, <1>3, NextCases

LEMMA ReturnInvariant == Spec => []ReturnInv
BY InitReturnInv, NextReturnInv, Invariant, PTL DEF Spec

(* Induction on numbers, for sets *)
Less == {p \in Nat \X Nat : p[1] < p[2]}

LEMMA LessWellFounded == IsWellFoundedOn(Less, Nat)
BY NatLessThanWellFounded DEF OpToRel, Less

LEMMA Induction ==
  ASSUME NEW S, 0 \in S, \A n \in Nat : n \in S => n + 1 \in S
  PROVE  Nat \subseteq S
<1> DEFINE T == Nat \ S
<1> SUFFICES ASSUME T # {} PROVE FALSE
  OBVIOUS
<1>1. T \subseteq Nat /\ T # {}
  OBVIOUS
<1> HIDE DEF T
<1>2. PICK x \in T : \A y \in T : ~ (<<y, x>> \in Less)
  BY <1>1, LessWellFounded, WFMin
<1>3. \A y \in T : ~ (y < x)
  BY <1>1, <1>2 DEF Less
<1>4. x \in Nat /\ x # 0 /\ x \notin S
  BY <1>1 DEF T
<1>5. x - 1 \in Nat /\ x - 1 < x /\ (x - 1) + 1 = x
  BY <1>4
<1>6. x - 1 \in S
  BY <1>3, <1>5 DEF T
<1> QED
  BY <1>4, <1>5, <1>6

(* The greatest element of a set of numbers *)
LEMMA MaxIs ==
  ASSUME NEW N \in Nat, NEW s \in SUBSET (1 .. N), s # {}
  PROVE  Max(s) \in s /\ \A y \in s : Max(s) >= y
<1> DEFINE S == {n \in Nat : \A t \in SUBSET (1 .. n) : t # {} => \E x \in t : \A y \in t : x >= y}
<1>1. 0 \in S
  <2>1. 1 .. 0 = {}
    OBVIOUS
  <2> QED
    BY <2>1
<1>2. ASSUME NEW n \in Nat, n \in S PROVE n + 1 \in S
  <2> SUFFICES ASSUME NEW t \in SUBSET (1 .. n + 1), t # {} PROVE \E x \in t : \A y \in t : x >= y
    OBVIOUS
  <2>1. CASE n + 1 \in t
    BY <2>1
  <2>2. CASE n + 1 \notin t
    <3>1. t \in SUBSET (1 .. n)
      BY <2>2
    <3> QED
      BY <1>2, <3>1
  <2> QED
    BY <2>1, <2>2
<1> HIDE DEF S
<1>3. N \in S
  BY <1>1, <1>2, Induction
<1>4. \E x \in s : \A y \in s : x >= y
  BY <1>3 DEF S
<1> QED
  BY <1>4 DEF Max

LEMMA MaxOfInterval ==
  ASSUME NEW N \in Nat, N > 0
  PROVE  /\ Max(1 .. N) = N /\ (1 .. N) \ {N} = 1 .. N - 1
         /\ \A s \in SUBSET (1 .. N) : N \in s => Max(s) = N
<1>1. ASSUME NEW s \in SUBSET (1 .. N), N \in s PROVE Max(s) = N
  <2>1. Max(s) \in s /\ Max(s) >= N
    BY <1>1, MaxIs
  <2>2. Max(s) \in 1 .. N
    BY <2>1
  <2> QED
    BY <2>1, <2>2
<1> QED
  BY <1>1

(***************************************************************************)
(* The rows of the file after the slots before i                           *)
(***************************************************************************)
IsRows(g, rows, N) == g[0] = rows /\ \A i \in 1 .. N : g[i] = SaveSlot(g[i - 1], i - 1)

(* FoldLeft takes the slots in their order. *)
IsFold(f, rows, N) ==
  \A s \in SUBSET (1 .. N) : f[s] = IF s = {} THEN rows ELSE SaveSlot(f[s \ {Max(s)}], Max(s) - 1)

LEMMA FoldExists ==
  ASSUME NEW rows, NEW N \in Nat
  PROVE  \E f : IsFold(f, rows, N)
<1> DEFINE S == {n \in Nat : \E f : IsFold(f, rows, n)}
<1>1. 0 \in S
  <2> DEFINE f == [s \in {{}} |-> rows]
  <2>1. IsFold(f, rows, 0)
    BY DEF IsFold
  <2> HIDE DEF f
  <2> QED
    BY <2>1
<1>2. ASSUME NEW n \in Nat, n \in S PROVE n + 1 \in S
  <2>1. PICK f : IsFold(f, rows, n)
    BY <1>2
  <2> DEFINE h == [s \in SUBSET (1 .. n + 1) |->
                     IF n + 1 \in s THEN SaveSlot(f[s \ {n + 1}], (n + 1) - 1) ELSE f[s]]
  <2>2. \A s \in SUBSET (1 .. n) : h[s] = f[s]
    <3> SUFFICES ASSUME NEW s \in SUBSET (1 .. n) PROVE h[s] = f[s]
      OBVIOUS
    <3>1. s \in SUBSET (1 .. n + 1) /\ n + 1 \notin s
      OBVIOUS
    <3> QED
      BY <3>1
  <2>3. \A s \in SUBSET (1 .. n + 1) : n + 1 \in s => h[s] = SaveSlot(f[s \ {n + 1}], (n + 1) - 1)
    OBVIOUS
  <2> HIDE DEF h
  <2>4. ASSUME NEW s \in SUBSET (1 .. n + 1)
        PROVE  h[s] = IF s = {} THEN rows ELSE SaveSlot(h[s \ {Max(s)}], Max(s) - 1)
    <3>1. CASE n + 1 \in s
      <4>1. Max(s) = n + 1
        <5>1. n + 1 \in Nat /\ n + 1 > 0
          OBVIOUS
        <5> QED
          BY <3>1, <5>1, MaxOfInterval
      <4>2. s \ {n + 1} \in SUBSET (1 .. n)
        OBVIOUS
      <4> QED
        BY <2>2, <2>3, <3>1, <4>1, <4>2
    <3>2. CASE n + 1 \notin s
      <4>0. s \in SUBSET (1 .. n)
        BY <3>2
      <4>1. s \in SUBSET (1 .. n) /\ s \ {Max(s)} \in SUBSET (1 .. n)
        BY <4>0
      <4> QED
        BY <2>1, <2>2, <4>1 DEF IsFold
    <3> QED
      BY <3>1, <3>2
  <2>5. IsFold(h, rows, n + 1)
    BY <2>4 DEF IsFold
  <2> QED
    BY <2>5
<1> HIDE DEF S
<1>3. N \in S
  BY <1>1, <1>2, Induction
<1> QED
  BY <1>3 DEF S

LEMMA HelperIs ==
  ASSUME NEW rows
  PROVE  \E g : IsRows(g, rows, DepSize) /\ hh_update_dep_table_helper(rows) = g[DepSize]
<1>0. DepSize \in Nat
  BY SlotType
<1> DEFINE D == 1 .. DepSize
           q == [i \in 1 .. DepSize |-> i - 1]
           Eq(f) == f = [s \in SUBSET D |-> IF s = {} THEN rows ELSE SaveSlot(f[s \ {Max(s)}], q[Max(s)])]
           iter == CHOOSE f : Eq(f)
<1>1. hh_update_dep_table_helper(rows) = iter[D]
  BY DEF hh_update_dep_table_helper, FoldLeft, MapThenFoldSet
<1>2. \E f : Eq(f)
  <2>1. PICK f : IsFold(f, rows, DepSize)
    BY <1>0, FoldExists
  <2> DEFINE h == [s \in SUBSET D |-> f[s]]
  <2>2. ASSUME NEW s \in SUBSET D PROVE h[s] = IF s = {} THEN rows ELSE SaveSlot(h[s \ {Max(s)}], q[Max(s)])
    <3>1. s # {} => Max(s) \in D
      BY <1>0, MaxIs
    <3>2. s # {} => q[Max(s)] = Max(s) - 1
      BY <3>1
    <3>3. h[s] = f[s] /\ h[s \ {Max(s)}] = f[s \ {Max(s)}]
      OBVIOUS
    <3> HIDE DEF h, q
    <3> QED
      BY <2>1, <3>2, <3>3 DEF IsFold
  <2>3. h = [s \in SUBSET D |-> h[s]]
    OBVIOUS
  <2> HIDE DEF h, D, q
  <2>4. Eq(h)
    BY <2>2, <2>3
  <2> QED
    BY <2>4
<1>3. Eq(iter)
  <2> HIDE DEF Eq
  <2> QED
    BY <1>2
<1> HIDE DEF iter
<1> DEFINE g == [i \in 0 .. DepSize |-> iter[1 .. i]]
<1>4. g[0] = rows
  <2>1. g[0] = iter[1 .. 0] /\ 1 .. 0 = {}
    BY <1>0
  <2> QED
    BY <1>3, <2>1
<1>5. ASSUME NEW i \in 1 .. DepSize PROVE g[i] = SaveSlot(g[i - 1], i - 1)
  <2>1. i \in Nat /\ i > 0 /\ i \in D /\ i - 1 \in 0 .. DepSize /\ i \in 0 .. DepSize
    BY <1>0
  <2>2. /\ Max(1 .. i) = i /\ (1 .. i) \ {i} = 1 .. i - 1
        /\ 1 .. i # {} /\ 1 .. i \in SUBSET D
    <3>1. Max(1 .. i) = i /\ (1 .. i) \ {i} = 1 .. i - 1
      BY <2>1, MaxOfInterval
    <3>2. 1 .. i # {} /\ 1 .. i \in SUBSET D
      BY <1>0, <2>1
    <3> QED
      BY <3>1, <3>2
  <2>3. q[i] = i - 1
    OBVIOUS
  <2>4. g[i] = iter[1 .. i] /\ g[i - 1] = iter[1 .. i - 1]
    BY <2>1
  <2> HIDE DEF g, q
  <2>5. iter[1 .. i] = SaveSlot(iter[1 .. i - 1], q[i])
    BY <1>3, <2>2
  <2> QED
    BY <2>3, <2>4, <2>5
<1>6. g[DepSize] = iter[D]
  BY <1>0
<1> HIDE DEF g
<1>7. IsRows(g, rows, DepSize)
  BY <1>4, <1>5 DEF IsRows
<1> QED
  BY <1>1, <1>6, <1>7

(***************************************************************************)
(* The values of a list                                                    *)
(***************************************************************************)
Rest(f, n, t) ==
  LET next == deptbl[t].next IN
  IF next[2] = "VAL" THEN <<next[1]>>
  ELSE IF n = 0 \/ next[1] >= DepSize THEN <<>>
  ELSE <<deptbl[next[1]].key[1]>> \o f[n - 1][next[1]]

IsWalk(f, N) == \A n \in 0 .. N : f[n] = [t \in Slot |-> Rest(f, n, t)]

(* The rest of a list depends on the shorter rests only. *)
LEMMA RestLocal ==
  ASSUME NEW f, NEW h, NEW n \in Nat, NEW t, n # 0 => h[n - 1] = f[n - 1]
  PROVE  Rest(h, n, t) = Rest(f, n, t)
<1>1. CASE n = 0
  BY <1>1 DEF Rest
<1>2. CASE n # 0
  BY <1>2 DEF Rest
<1> QED
  BY <1>1, <1>2

LEMMA WalkExists ==
  ASSUME NEW N \in Nat
  PROVE  \E f : IsWalk(f, N)
<1> DEFINE S == {n \in Nat : \E f : IsWalk(f, n)}
<1>1. 0 \in S
  <2> DEFINE f == [n \in 0 .. 0 |-> [t \in Slot |-> Rest(<<>>, 0, t)]]
  <2>1. f[0] = [t \in Slot |-> Rest(<<>>, 0, t)]
    OBVIOUS
  <2> HIDE DEF f
  <2>2. \A t \in Slot : Rest(f, 0, t) = Rest(<<>>, 0, t)
    BY RestLocal
  <2>3. f[0] = [t \in Slot |-> Rest(f, 0, t)]
    BY <2>1, <2>2
  <2>4. IsWalk(f, 0)
    BY <2>3 DEF IsWalk
  <2> QED
    BY <2>4
<1>2. ASSUME NEW n \in Nat, n \in S PROVE n + 1 \in S
  <2>1. PICK f : IsWalk(f, n)
    BY <1>2
  <2> DEFINE h == [m \in 0 .. n + 1 |-> IF m = n + 1 THEN [t \in Slot |-> Rest(f, n + 1, t)] ELSE f[m]]
  <2>2. \A m \in 0 .. n : h[m] = f[m]
    OBVIOUS
  <2>3. h[n + 1] = [t \in Slot |-> Rest(f, n + 1, t)]
    OBVIOUS
  <2> HIDE DEF h
  <2>4. ASSUME NEW m \in 0 .. n + 1 PROVE h[m] = [t \in Slot |-> Rest(h, m, t)]
    <3>1. m # 0 => m - 1 \in 0 .. n
      OBVIOUS
    <3>2. \A t \in Slot : Rest(h, m, t) = Rest(f, m, t)
      BY <2>2, <3>1, RestLocal
    <3>3. h[m] = [t \in Slot |-> Rest(f, m, t)]
      <4>1. CASE m = n + 1
        BY <2>3, <4>1
      <4>2. CASE m # n + 1
        <5>1. m \in 0 .. n
          BY <4>2
        <5> QED
          BY <2>1, <2>2, <5>1 DEF IsWalk
      <4> QED
        BY <4>1, <4>2
    <3> QED
      BY <3>2, <3>3
  <2>5. IsWalk(h, n + 1)
    BY <2>4 DEF IsWalk
  <2> QED
    BY <2>5
<1> HIDE DEF S
<1>3. N \in S
  BY <1>1, <1>2, Induction
<1> QED
  BY <1>3 DEF S

LEMMA ValuesIs == \E f : IsWalk(f, DepSize) /\ \A s \in Slot : Values(s) = f[DepSize][s]
<1>0. DepSize \in Nat
  BY SlotType
<1> DEFINE Eq(f) == f = [n \in 0 .. DepSize |-> [t \in Slot |-> Rest(f, n, t)]]
           from == CHOOSE f : Eq(f)
<1>1. ASSUME NEW s \in Slot PROVE Values(s) = from[DepSize][s]
  BY DEF Values, Rest
<1>2. \E f : Eq(f)
  <2>1. PICK f : IsWalk(f, DepSize)
    BY <1>0, WalkExists
  <2> DEFINE h == [n \in 0 .. DepSize |-> f[n]]
  <2>2. ASSUME NEW n \in 0 .. DepSize PROVE h[n] = [t \in Slot |-> Rest(h, n, t)]
    <3>1. n # 0 => n - 1 \in 0 .. DepSize
      BY <1>0
    <3>2. n # 0 => h[n - 1] = f[n - 1]
      BY <3>1
    <3>3. h[n] = f[n]
      OBVIOUS
    <3> HIDE DEF h
    <3>4. \A t \in Slot : Rest(h, n, t) = Rest(f, n, t)
      BY <1>0, <3>2, RestLocal
    <3> QED
      BY <2>1, <3>3, <3>4 DEF IsWalk
  <2>3. h = [n \in 0 .. DepSize |-> h[n]]
    OBVIOUS
  <2> HIDE DEF h
  <2>4. Eq(h)
    BY <2>2, <2>3
  <2> QED
    BY <2>4
<1>3. Eq(from)
  <2> HIDE DEF Eq
  <2> QED
    BY <1>2
<1> HIDE DEF from
<1>4. IsWalk(from, DepSize)
  BY <1>3 DEF IsWalk
<1> QED
  BY <1>1, <1>4

(* A list is no longer than the table of edges. *)
LEMMA ListFits ==
  ASSUME TypeInv, NEW n, NEW v, NEW c, Witness(n, v, c), Lists(n, v, c), NEW k \in Source
  PROVE  n[k] <= DepSize
<1>0. n[k] \in Nat
  BY WitnessTypes
<1> DEFINE f == [i \in 1 .. n[k] |-> CHOOSE s \in Slot : bindings[s] = <<k, v[k][i]>>]
<1>1. ASSUME NEW i \in 1 .. n[k] PROVE f[i] \in Slot /\ bindings[f[i]] = <<k, v[k][i]>>
  <2>1. \E s \in Slot : bindings[s] = <<k, v[k][i]>>
    BY DEF Lists, ListsValues, IsBound
  <2> QED
    BY <2>1
<1>2. f \in [1 .. n[k] -> Slot]
  BY <1>1
<1>3. \A i, j \in 1 .. n[k] : v[k][i] = v[k][j] => i = j
  BY DEF Lists, ListsValues
<1> HIDE DEF f
<1>4. \A i, j \in 1 .. n[k] : f[i] = f[j] => i = j
  <2> SUFFICES ASSUME NEW i \in 1 .. n[k], NEW j \in 1 .. n[k], f[i] = f[j] PROVE i = j
    OBVIOUS
  <2>1. <<k, v[k][i]>> = <<k, v[k][j]>>
    BY <1>1
  <2>2. v[k][i] = v[k][j]
    BY <2>1
  <2> QED
    BY <1>3, <2>2
<1>5. f \in Injection(1 .. n[k], Slot)
  BY <1>2, <1>4 DEF Injection, IsInjective
<1>6. Cardinality(1 .. n[k]) <= DepSize
  BY <1>5, SlotsFinite, FS_Injection
<1>7. Cardinality(1 .. n[k]) = n[k]
  <2>1. 1 \in Int /\ n[k] \in Int
    BY <1>0
  <2>2. Cardinality(1 .. n[k]) = IF 1 > n[k] THEN 0 ELSE n[k] - 1 + 1
    BY <2>1, FS_Interval
  <2> QED
    BY <1>0, <2>2
<1> QED
  BY <1>6, <1>7

(* The values of a list, the youngest first *)
Backwards(v, k, i) == [j \in 1 .. i |-> v[k][i - j + 1]]

(* A value before a list *)
LEMMA OneBefore ==
  ASSUME NEW x \in Nat, NEW r \in Seq(Nat), NEW n \in Nat, Len(r) = n
  PROVE  <<x>> \o r \in Seq(Nat) /\ Len(<<x>> \o r) = n + 1
<1>1. <<x>> \in Seq(Nat) /\ Len(<<x>>) = 1
  OBVIOUS
<1>2. PICK y : y = <<x>>
  OBVIOUS
<1>3. y \o r \in Seq(Nat) /\ Len(y \o r) = Len(y) + Len(r)
  BY <1>1, <1>2
<1> QED
  BY <1>1, <1>2, <1>3

LEMMA WalkIs ==
  ASSUME TypeInv, NEW n, NEW v, NEW c, Witness(n, v, c), Lists(n, v, c), NEW k \in Source,
         NEW f, IsWalk(f, DepSize),
         NEW i \in 1 .. n[k], NEW m \in 0 .. DepSize, m >= i - 1,
         NEW t \in Slot, deptbl[t].next = NextOf(v, c, k, i)
  PROVE  f[m][t] = Backwards(v, k, i)
<1>0. n[k] \in Nat /\ DepSize \in Nat /\ (\A j \in Nat : v[k][j] \in Nat /\ c[k][j] \in Slot)
  BY WitnessTypes, SlotType
<1> DEFINE P(j) == \A m1 \in 0 .. DepSize, t1 \in Slot :
                     m1 >= j - 1 /\ deptbl[t1].next = NextOf(v, c, k, j) => f[m1][t1] = Backwards(v, k, j)
           S == {j \in Nat : j + 1 <= n[k] => P(j + 1)}
<1>1. ASSUME NEW m1 \in 0 .. DepSize, NEW t1 \in Slot PROVE f[m1][t1] = Rest(f, m1, t1)
  BY DEF IsWalk
<1>n. ASSUME NEW j \in Nat
      PROVE  /\ j = 1 => NextOf(v, c, k, j)[2] = "VAL" /\ NextOf(v, c, k, j)[1] = v[k][1]
             /\ j # 1 => NextOf(v, c, k, j)[2] = "NEXT" /\ NextOf(v, c, k, j)[1] = c[k][j]
  <2>1. CASE j = 1
    BY <2>1 DEF NextOf, Value
  <2>2. CASE j # 1
    BY <2>2 DEF NextOf, Pointer
  <2> QED
    BY <2>1, <2>2
<1>2. 0 \in S
  <2> SUFFICES ASSUME NEW m1 \in 0 .. DepSize, NEW t1 \in Slot, deptbl[t1].next = NextOf(v, c, k, 1)
               PROVE  f[m1][t1] = Backwards(v, k, 1)
    OBVIOUS
  <2>1. deptbl[t1].next[2] = "VAL" /\ deptbl[t1].next[1] = v[k][1]
    BY <1>n
  <2>2. f[m1][t1] = <<v[k][1]>>
    BY <1>1, <2>1 DEF Rest
  <2>3. Backwards(v, k, 1) = <<v[k][1]>>
    BY DEF Backwards
  <2> QED
    BY <2>2, <2>3
<1>3. ASSUME NEW j \in Nat, j \in S PROVE j + 1 \in S
  <2> SUFFICES ASSUME (j + 1) + 1 <= n[k], NEW m1 \in 0 .. DepSize, NEW t1 \in Slot,
                      m1 >= (j + 1) + 1 - 1, deptbl[t1].next = NextOf(v, c, k, (j + 1) + 1)
               PROVE  f[m1][t1] = Backwards(v, k, (j + 1) + 1)
    OBVIOUS
  <2> DEFINE a == j + 1
             b == (j + 1) + 1
             d == c[k][b]
  <2>0. /\ a \in Nat /\ b \in Nat /\ b = a + 1 /\ b # 1 /\ a + 1 <= n[k] /\ m1 # 0 /\ m1 - 1 \in 0 .. DepSize
        /\ m1 - 1 >= a - 1 /\ b \in 2 .. n[k] /\ b - 1 = a
    BY <1>0
  <2>1. P(a)
    BY <1>0, <1>3, <2>0
  <2>2. d \in Slot /\ d < DepSize /\ ~ (d >= DepSize)
    BY <1>0, <2>0 DEF Slot
  <2>3. deptbl[t1].next[2] = "NEXT" /\ deptbl[t1].next[1] = d
    BY <1>n, <2>0
  <2>4. deptbl[d].key = Value(v[k][b]) /\ deptbl[d].next = NextOf(v, c, k, a)
    BY <2>0 DEF Lists, ListsShape
  <2>5. deptbl[d].key[1] = v[k][b]
    BY <2>4 DEF Value
  <2>6. f[m1 - 1][d] = Backwards(v, k, a)
    BY <2>0, <2>1, <2>2, <2>4
  <2> HIDE DEF a, b, d
  <2>7. f[m1][t1] = <<v[k][b]>> \o Backwards(v, k, a)
    BY <1>1, <2>0, <2>2, <2>3, <2>5, <2>6 DEF Rest
  <2>8. <<v[k][b]>> \o Backwards(v, k, a) = Backwards(v, k, b)
    <3>1. Backwards(v, k, a) \in Seq(Nat) /\ Len(Backwards(v, k, a)) = a
      <4>1. \A j1 \in 1 .. a : a - j1 + 1 \in Nat /\ v[k][a - j1 + 1] \in Nat
        BY <1>0, <2>0
      <4> QED
        BY <2>0, <4>1 DEF Backwards
    <3>2. <<v[k][b]>> \in Seq(Nat) /\ Len(<<v[k][b]>>) = 1
      BY <1>0, <2>0
    <3>3. Backwards(v, k, b) \in Seq(Nat) /\ Len(Backwards(v, k, b)) = b
      BY <1>0, <2>0 DEF Backwards
    <3> DEFINE l == <<v[k][b]>> \o Backwards(v, k, a)
    <3>4. l \in Seq(Nat) /\ Len(l) = b
      <4>1. v[k][b] \in Nat
        BY <1>0, <2>0
      <4> QED
        BY <2>0, <3>1, <4>1, OneBefore
    <3>5. ASSUME NEW x \in 1 .. b PROVE l[x] = Backwards(v, k, b)[x]
      <4>1. CASE x = 1
        <5>1. l[1] = v[k][b]
          BY <3>1, <3>2
        <5>2. Backwards(v, k, b)[1] = v[k][b]
          BY <2>0 DEF Backwards
        <5> QED
          BY <4>1, <5>1, <5>2
      <4>2. CASE x # 1
        <5>1. x - 1 \in 1 .. a /\ a - (x - 1) + 1 = b - x + 1
          BY <2>0, <4>2
        <5>2. l[x] = Backwards(v, k, a)[x - 1]
          BY <2>0, <3>1, <3>2, <4>2
        <5> QED
          BY <5>1, <5>2 DEF Backwards
      <4> QED
        BY <4>1, <4>2
    <3> HIDE DEF l
    <3>6. l = Backwards(v, k, b)
      BY <3>3, <3>4, <3>5
    <3> QED
      BY <3>6 DEF l
  <2> QED
    BY <2>7, <2>8 DEF b
<1> HIDE DEF S
<1>4. i - 1 \in Nat /\ (i - 1) + 1 = i /\ i <= n[k]
  BY <1>0
<1>5. i - 1 \in S
  BY <1>2, <1>3, <1>4, Induction
<1>6. P(i)
  BY <1>4, <1>5 DEF S
<1> QED
  BY <1>6

LEMMA BackwardsType ==
  ASSUME NEW n, NEW v, NEW c, Witness(n, v, c), NEW k \in Source
  PROVE  /\ Backwards(v, k, n[k]) \in Seq(Nat)
         /\ Len(Backwards(v, k, n[k])) = n[k]
         /\ \A j \in 1 .. n[k] : Backwards(v, k, n[k])[j] = v[k][n[k] - j + 1]
<1>1. n[k] \in Nat /\ \A j \in Nat : v[k][j] \in Nat
  BY WitnessTypes
<1>2. \A j \in 1 .. n[k] : n[k] - j + 1 \in Nat /\ v[k][n[k] - j + 1] \in Nat
  BY <1>1
<1>3. Backwards(v, k, n[k]) \in Seq(Nat) /\ Len(Backwards(v, k, n[k])) = n[k]
  <2> DEFINE l == n[k]
  <2>1. l \in Nat /\ \A j \in 1 .. l : v[k][l - j + 1] \in Nat
    BY <1>1, <1>2
  <2> HIDE DEF l
  <2>2. Backwards(v, k, l) \in Seq(Nat) /\ Len(Backwards(v, k, l)) = l
    BY <2>1 DEF Backwards
  <2> QED
    BY <2>2 DEF l
<1>4. \A j \in 1 .. n[k] : Backwards(v, k, n[k])[j] = v[k][n[k] - j + 1]
  BY <1>1 DEF Backwards
<1> QED
  BY <1>3, <1>4

LEMMA HeadValues ==
  ASSUME TypeInv, NEW n, NEW v, NEW c, Witness(n, v, c), Lists(n, v, c),
         NEW k \in Source, NEW s \in Slot, IsHead(deptbl[s], k)
  PROVE  Values(s) = Backwards(v, k, n[k])
<1>1. PICK f : IsWalk(f, DepSize) /\ \A t \in Slot : Values(t) = f[DepSize][t]
  BY ValuesIs
<1>2. n[k] \in Nat /\ n[k] > 0 /\ n[k] <= DepSize /\ DepSize \in Nat
  BY WitnessTypes, ListFits, SlotType DEF Lists, ListsShape, HasHead
<1>3. deptbl[s].next = NextOf(v, c, k, n[k])
  BY DEF Lists, ListsShape
<1>4. n[k] \in 1 .. n[k] /\ DepSize \in 0 .. DepSize /\ DepSize >= n[k] - 1
  BY <1>2
<1>5. f[DepSize][s] = Backwards(v, k, n[k])
  BY <1>1, <1>3, <1>4, WalkIs
<1> QED
  BY <1>1, <1>5

(* The row of k in the file: hh_save_dep_table_sqlite finds the one list. *)
LEMMA SavedRow ==
  ASSUME TypeInv, HeadInv, NEW n, NEW v, NEW c, Witness(n, v, c), Lists(n, v, c), NEW k \in Source
  PROVE  hh_save_dep_table_sqlite[k] = Backwards(v, k, n[k])
<1> DEFINE empty == [x \in Source |-> <<>>]
           W(x) == Backwards(v, x, n[x])
           Seen(i, x) == \E s \in Slot : s < i /\ IsHead(deptbl[s], x)
<1>1. PICK g : IsRows(g, empty, DepSize) /\ hh_save_dep_table_sqlite = g[DepSize]
  BY HelperIs DEF hh_save_dep_table_sqlite
<1> DEFINE Good(i) == g[i] = [x \in Source |-> IF Seen(i, x) THEN W(x) ELSE <<>>]
           S == {i \in Nat : i <= DepSize => Good(i)}
<1>0. DepSize \in Nat /\ \A s \in Slot : s \in Nat
  BY SlotType DEF Slot
<1>2. 0 \in S
  <2>1. ASSUME NEW x \in Source PROVE ~ Seen(0, x)
    BY <1>0
  <2>2. g[0] = empty
    BY <1>1 DEF IsRows
  <2> HIDE DEF Seen
  <2> QED
    BY <2>1, <2>2
<1>3. ASSUME NEW i \in Nat, i \in S PROVE i + 1 \in S
  <2> SUFFICES ASSUME i + 1 <= DepSize PROVE Good(i + 1)
    OBVIOUS
  <2>1. i \in Slot /\ i + 1 \in 1 .. DepSize /\ (i + 1) - 1 = i /\ i <= DepSize
    BY <1>0 DEF Slot
  <2>2. Good(i)
    BY <1>3, <2>1
  <2>3. g[i + 1] = SaveSlot(g[i], i)
    BY <1>1, <2>1 DEF IsRows
  <2>4. ASSUME NEW x \in Source PROVE Seen(i + 1, x) <=> Seen(i, x) \/ IsHead(deptbl[i], x)
    <3>1. \A s \in Slot : s < i + 1 <=> s < i \/ s = i
      BY <1>0
    <3> QED
      BY <2>1, <3>1
  <2>5. deptbl[i] \in Entry
    BY <2>1 DEF TypeInv
  <2>6. CASE deptbl[i].key[2] # "KEY"
    <3>1. \A x \in Source : ~ IsHead(deptbl[i], x)
      BY <2>5, <2>6, HeadIs, EdgePair
    <3>2. g[i + 1] = g[i]
      BY <2>3, <2>6 DEF SaveSlot
    <3>3. \A x \in Source : Seen(i + 1, x) <=> Seen(i, x)
      BY <2>4, <3>1
    <3> HIDE DEF Seen, W
    <3> QED
      BY <2>2, <3>2, <3>3
  <2>7. CASE deptbl[i].key[2] = "KEY"
    <3> DEFINE h == deptbl[i].key[1]
    <3>1. h \in Source /\ h \in Nat
      BY <2>1, <2>7, EdgePair DEF HeadInv, HeadTableInv
    <3>2. \A x \in Source : IsHead(deptbl[i], x) <=> x = h
      BY <2>5, <2>7, <3>1, HeadIs, EdgePair
    <3>3. ~ Seen(i, h)
      <4> SUFFICES ASSUME NEW s \in Slot, s < i, IsHead(deptbl[s], h) PROVE FALSE
        OBVIOUS
      <4>1. s = i
        BY <2>1, <3>1, <3>2 DEF HeadInv, HeadTableInv
      <4> QED
        BY <1>0, <4>1
    <3>4. g[i + 1] = [g[i] EXCEPT ![h] = Values(i) \o @]
      BY <2>3, <2>7 DEF SaveSlot
    <3> HIDE DEF h
    <3>5. Values(i) = W(h) /\ W(h) \in Seq(Nat)
      BY <2>1, <3>1, <3>2, HeadValues, BackwardsType
    <3>6. \A x \in Source : Seen(i + 1, x) <=> Seen(i, x) \/ x = h
      BY <2>4, <3>2
    <3> HIDE DEF Seen, W
    <3>7. g[i][h] = <<>> /\ W(h) \o <<>> = W(h)
      BY <2>2, <3>1, <3>3, <3>5
    <3> QED
      BY <2>2, <3>1, <3>3, <3>4, <3>5, <3>6, <3>7
  <2> QED
    BY <2>6, <2>7
<1> HIDE DEF S
<1>4. DepSize \in S
  BY <1>0, <1>2, <1>3, Induction
<1>5. Good(DepSize)
  BY <1>0, <1>4 DEF S
<1>6. Seen(DepSize, k) <=> HasHead(k)
  BY <1>0 DEF HasHead, Slot
<1>7. HasHead(k) <=> n[k] > 0
  BY DEF Lists, ListsShape
<1>8. n[k] \in Nat
  BY WitnessTypes
<1>9. n[k] = 0 => W(k) = <<>>
  BY BackwardsType DEF Backwards
<1>10. g[DepSize][k] = IF HasHead(k) THEN W(k) ELSE <<>>
  <2> HIDE DEF W, Seen
  <2> QED
    BY <1>5, <1>6
<1> QED
  BY <1>1, <1>7, <1>8, <1>9, <1>10

(***************************************************************************)
(* What hh_save_dep_table_sqlite writes while no process is adding edges   *)
(* is the graph: every edge that add_dep has returned for, each once,      *)
(* whatever the races in which the lists were built.  As for readers, the  *)
(* edge from 0 to 0 is not one that is added.                              *)
(***************************************************************************)
THEOREM SavedFileIsTheGraph == ASSUME NoBinding \notin Edge PROVE Spec => []SavedIsGraph
<1>1. Inv /\ ReturnInv => SavedIsGraph
  <2> SUFFICES ASSUME Inv, ReturnInv, \A p \in Process : pc[p] \in {"idle"} \cup Raised, NEW k \in Source
               PROVE  LET row == hh_get_dep_sqlite(hh_save_dep_table_sqlite, k)
                      IN  IsInjective(row) /\ Range(row) = {e[2] : e \in {f \in returned : f[1] = k}}
    BY DEF SavedIsGraph
  <2>1. PICK n, v, c : Witness(n, v, c) /\ Lists(n, v, c)
    BY ListInvIs DEF Inv
  <2> DEFINE W == Backwards(v, k, n[k])
             row == Reverse(W)
  <2>2. hh_get_dep_sqlite(hh_save_dep_table_sqlite, k) = row
    BY <2>1, SavedRow DEF hh_get_dep_sqlite, Inv
  <2>3. n[k] \in Nat /\ Len(W) = n[k] /\ \A j \in 1 .. n[k] : W[j] = v[k][n[k] - j + 1]
    BY <2>1, WitnessTypes, BackwardsType
  <2> HIDE DEF W
  <2>4. DOMAIN row = 1 .. n[k] /\ \A j \in 1 .. n[k] : row[j] = v[k][j]
    <3>1. ASSUME NEW j \in 1 .. n[k] PROVE (n[k] - j) + 1 \in 1 .. n[k] /\ n[k] - ((n[k] - j) + 1) + 1 = j
      BY <2>3
    <3> QED
      BY <2>3, <3>1 DEF Reverse
  <2> HIDE DEF row
  <2>5. /\ \A i, j \in 1 .. n[k] : v[k][i] = v[k][j] => i = j
        /\ \A i \in 1 .. n[k] : <<k, v[k][i]>> # NoBinding /\ IsBound(<<k, v[k][i]>>)
    BY <2>1 DEF Lists, ListsValues
  <2>6. \A p \in Process : pc[p] \notin Prepending
    BY DEF Prepending, Raised
  <2>7. IsInjective(row)
    BY <2>4, <2>5 DEF IsInjective
  <2>8. ASSUME NEW j \in 1 .. n[k] PROVE <<k, v[k][j]>> \in returned
    BY <2>5, <2>6 DEF ReturnInv, IsBound
  <2>9. ASSUME NEW e \in returned, e[1] = k PROVE \E j \in 1 .. n[k] : v[k][j] = e[2]
    <3>1. e \in Edge /\ e # NoBinding
      BY DEF Inv, TypeInv
    <3>2. IsBound(e)
      BY <3>1 DEF Inv, BindInv, BindTableInv
    <3> QED
      BY <2>1, <2>6, <2>9, <3>1, <3>2 DEF Lists, ListsValues
  <2>10. Range(row) = {v[k][j] : j \in 1 .. n[k]}
    BY <2>4 DEF Range
  <2>11. {v[k][j] : j \in 1 .. n[k]} = {e[2] : e \in {f \in returned : f[1] = k}}
    <3>1. ASSUME NEW j \in 1 .. n[k] PROVE \E e \in {f \in returned : f[1] = k} : v[k][j] = e[2]
      <4> DEFINE e == <<k, v[k][j]>>
      <4>1. e \in returned /\ e[1] = k /\ e[2] = v[k][j]
        BY <2>8
      <4> QED
        BY <4>1
    <3>2. ASSUME NEW e \in {f \in returned : f[1] = k} PROVE \E j \in 1 .. n[k] : v[k][j] = e[2]
      BY <2>9
    <3> QED
      BY <3>1, <3>2
  <2> QED
    BY <2>2, <2>7, <2>10, <2>11
<1> QED
  BY <1>1, Invariant, ReturnInvariant, PTL

=============================================================================

------------------------- MODULE ModuleTrackerProofs -------------------------
(***************************************************************************)
(* Proofs about ModuleTracker: for any tree of sources, any build          *)
(* definition, any modules and packages, any number of changes and failed  *)
(* builds.                                                                 *)
(*                                                                         *)
(* The folds of the tracker are first turned into sequences of their       *)
(* intermediate results, so that induction on numbers applies to them.     *)
(* What a batch of events does to one module is ModuleInv, an invariant of *)
(* these sequences.  What the server knows between two steps is Inv: the   *)
(* build map, the tracker and the environments are right about every       *)
(* source that is not dirty, where a source is dirty when watchman has yet *)
(* to report it, or an event of it is deferred or under way.               *)
(***************************************************************************)
EXTENDS ModuleTracker, WellFoundedInduction, FiniteSetTheorems, TLAPS

-----------------------------------------------------------------------------
(* Induction on numbers, for sets *)
Less == {p \in Nat \X Nat : p[1] < p[2]}

LEMMA LessWellFounded == IsWellFoundedOn(Less, Nat)
BY NatLessThanWellFounded DEF OpToRel, Less

LEMMA Induction ==
  ASSUME NEW S, 0 \in S, \A n \in Nat : n \in S => n + 1 \in S
  PROVE  Nat \subseteq S
<1> DEFINE T == Nat \ S
<1> SUFFICES ASSUME T # {} PROVE FALSE
  OBVIOUS
<1>1. T \subseteq Nat /\ T # {}
  OBVIOUS
<1> HIDE DEF T
<1>2. PICK x \in T : \A y \in T : ~ (<<y, x>> \in Less)
  BY <1>1, LessWellFounded, WFMin
<1>3. \A y \in T : ~ (y < x)
  BY <1>1, <1>2 DEF Less
<1>4. x \in Nat /\ x # 0 /\ x \notin S
  BY <1>1 DEF T
<1>5. x - 1 \in Nat /\ x - 1 < x /\ (x - 1) + 1 = x
  BY <1>4
<1>6. x - 1 \in S
  BY <1>3, <1>5 DEF T
<1> QED
  BY <1>4, <1>5, <1>6

(* The greatest element of a set of numbers *)
LEMMA MaxIs ==
  ASSUME NEW N \in Nat, NEW s \in SUBSET (1 .. N), s # {}
  PROVE  Max(s) \in s /\ \A y \in s : Max(s) >= y
<1> DEFINE S == {n \in Nat : \A t \in SUBSET (1 .. n) : t # {} => \E x \in t : \A y \in t : x >= y}
<1>1. 0 \in S
  <2>1. 1 .. 0 = {}
    OBVIOUS
  <2> QED
    BY <2>1
<1>2. ASSUME NEW n \in Nat, n \in S PROVE n + 1 \in S
  <2> SUFFICES ASSUME NEW t \in SUBSET (1 .. n + 1), t # {} PROVE \E x \in t : \A y \in t : x >= y
    OBVIOUS
  <2>1. CASE n + 1 \in t
    BY <2>1
  <2>2. CASE n + 1 \notin t
    <3>1. t \in SUBSET (1 .. n)
      BY <2>2
    <3> QED
      BY <1>2, <3>1
  <2> QED
    BY <2>1, <2>2
<1> HIDE DEF S
<1>3. N \in S
  BY <1>1, <1>2, Induction
<1>4. \E x \in s : \A y \in s : x >= y
  BY <1>3 DEF S
<1> QED
  BY <1>4 DEF Max

LEMMA MaxOfInterval ==
  ASSUME NEW N \in Nat, N > 0
  PROVE  /\ Max(1 .. N) = N /\ (1 .. N) \ {N} = 1 .. N - 1
         /\ \A s \in SUBSET (1 .. N) : N \in s => Max(s) = N
<1>1. ASSUME NEW s \in SUBSET (1 .. N), N \in s PROVE Max(s) = N
  <2>1. Max(s) \in s /\ Max(s) >= N
    BY <1>1, MaxIs
  <2>2. Max(s) \in 1 .. N
    BY <2>1
  <2> QED
    BY <2>1, <2>2
<1> QED
  BY <1>1

(***************************************************************************)
(* The four folds of the tracker, as the sequences of their intermediate   *)
(* results                                                                 *)
(***************************************************************************)
Keep(sofar, a, S) == IF a \in S THEN Append(sofar, a) ELSE sofar

IsSorting(g, S, N) == g[0] = <<>> /\ \A j \in 1 .. N : g[j] = Keep(g[j - 1], ArtifactOrder[j], S)

IsSortingFold(f, S, N) ==
  \A s \in SUBSET (1 .. N) : f[s] = IF s = {} THEN <<>> ELSE Keep(f[s \ {Max(s)}], ArtifactOrder[Max(s)], S)

(* Sorted: each place of ArtifactOrder adds its artifact or nothing. *)
LEMMA SortingFoldExists ==
  ASSUME NEW S, NEW N \in Nat
  PROVE  \E f : IsSortingFold(f, S, N)
<1> DEFINE I == {n \in Nat : \E f : IsSortingFold(f, S, n)}
<1>1. 0 \in I
  <2> DEFINE f == [s \in {{}} |-> <<>>]
  <2>1. IsSortingFold(f, S, 0)
    BY DEF IsSortingFold
  <2> HIDE DEF f
  <2> QED
    BY <2>1
<1>2. ASSUME NEW n \in Nat, n \in I PROVE n + 1 \in I
  <2>1. PICK f : IsSortingFold(f, S, n)
    BY <1>2
  <2> DEFINE h == [s \in SUBSET (1 .. n + 1) |-> IF n + 1 \in s THEN Keep(f[s \ {n + 1}], ArtifactOrder[n + 1], S) ELSE f[s]]
  <2>2. \A s \in SUBSET (1 .. n) : h[s] = f[s]
    <3> SUFFICES ASSUME NEW s \in SUBSET (1 .. n) PROVE h[s] = f[s]
      OBVIOUS
    <3>1. s \in SUBSET (1 .. n + 1) /\ n + 1 \notin s
      OBVIOUS
    <3> QED
      BY <3>1
  <2>3. \A s \in SUBSET (1 .. n + 1) : n + 1 \in s => h[s] = Keep(f[s \ {n + 1}], ArtifactOrder[n + 1], S)
    OBVIOUS
  <2> HIDE DEF h
  <2>4. ASSUME NEW s \in SUBSET (1 .. n + 1)
        PROVE  h[s] = IF s = {} THEN <<>> ELSE Keep(h[s \ {Max(s)}], ArtifactOrder[Max(s)], S)
    <3>1. CASE n + 1 \in s
      <4>1. Max(s) = n + 1
        <5>1. n + 1 \in Nat /\ n + 1 > 0
          OBVIOUS
        <5> QED
          BY <3>1, <5>1, MaxOfInterval
      <4>2. s \ {n + 1} \in SUBSET (1 .. n)
        OBVIOUS
      <4> QED
        BY <2>2, <2>3, <3>1, <4>1, <4>2
    <3>2. CASE n + 1 \notin s
      <4>0. s \in SUBSET (1 .. n)
        BY <3>2
      <4>1. s \in SUBSET (1 .. n) /\ s \ {Max(s)} \in SUBSET (1 .. n)
        BY <4>0
      <4> QED
        BY <2>1, <2>2, <4>1 DEF IsSortingFold
    <3> QED
      BY <3>1, <3>2
  <2>5. IsSortingFold(h, S, n + 1)
    BY <2>4 DEF IsSortingFold
  <2> QED
    BY <2>5
<1> HIDE DEF I
<1>3. N \in I
  BY <1>1, <1>2, Induction
<1> QED
  BY <1>3 DEF I

LEMMA SortedIs ==
  ASSUME NEW S, ArtifactOrder \in Seq(Artifacts)
  PROVE  \E g : IsSorting(g, S, Len(ArtifactOrder)) /\ Sorted(S) = g[Len(ArtifactOrder)]
<1> DEFINE N == Len(ArtifactOrder)
<1>0. N \in Nat
  OBVIOUS
<1> HIDE DEF N
<1> DEFINE D == 1 .. N
           Eq(f) == f = [s \in SUBSET D |-> IF s = {} THEN <<>> ELSE Keep(f[s \ {Max(s)}], ArtifactOrder[Max(s)], S)]
           iter == CHOOSE f : Eq(f)
<1>1. Sorted(S) = iter[D]
  <2>1. DOMAIN ArtifactOrder = D
    BY DEF N
  <2> QED
    BY <2>1 DEF Sorted, Keep, FoldLeft, MapThenFoldSet
<1>2. \E f : Eq(f)
  <2>1. PICK f : IsSortingFold(f, S, N)
    BY <1>0, SortingFoldExists
  <2> DEFINE h == [s \in SUBSET D |-> f[s]]
  <2>2. ASSUME NEW s \in SUBSET D PROVE h[s] = IF s = {} THEN <<>> ELSE Keep(h[s \ {Max(s)}], ArtifactOrder[Max(s)], S)
    <3>1. s # {} => Max(s) \in D
      BY <1>0, MaxIs
    <3>2. h[s] = f[s] /\ h[s \ {Max(s)}] = f[s \ {Max(s)}]
      OBVIOUS
    <3> HIDE DEF h
    <3> QED
      BY <2>1, <3>1, <3>2 DEF IsSortingFold
  <2>3. h = [s \in SUBSET D |-> h[s]]
    OBVIOUS
  <2> HIDE DEF h, D
  <2>4. Eq(h)
    BY <2>2, <2>3
  <2> QED
    BY <2>4
<1>3. Eq(iter)
  <2> HIDE DEF Eq
  <2> QED
    BY <1>2
<1> HIDE DEF iter
<1> DEFINE g == [j \in 0 .. N |-> iter[1 .. j]]
<1>4. g[0] = <<>>
  <2>1. g[0] = iter[1 .. 0] /\ 1 .. 0 = {}
    BY <1>0
  <2> QED
    BY <1>3, <2>1
<1>5. ASSUME NEW j \in 1 .. N PROVE g[j] = Keep(g[j - 1], ArtifactOrder[j], S)
  <2>1. j \in Nat /\ j > 0 /\ j \in D /\ j - 1 \in 0 .. N /\ j \in 0 .. N
    BY <1>0
  <2>2. /\ Max(1 .. j) = j /\ (1 .. j) \ {j} = 1 .. j - 1
        /\ 1 .. j # {} /\ 1 .. j \in SUBSET D
    <3>1. Max(1 .. j) = j /\ (1 .. j) \ {j} = 1 .. j - 1
      BY <2>1, MaxOfInterval
    <3>2. j \in 1 .. j /\ \A x \in 1 .. j : x \in 1 .. N
      BY <1>0, <2>1
    <3>3. 1 .. j # {} /\ 1 .. j \in SUBSET D
      BY <3>2
    <3> QED
      BY <3>1, <3>3
  <2>3. g[j] = iter[1 .. j] /\ g[j - 1] = iter[1 .. j - 1]
    BY <2>1
  <2> HIDE DEF g
  <2>4. iter[1 .. j] = Keep(iter[1 .. j - 1], ArtifactOrder[j], S)
    BY <1>3, <2>2
  <2> QED
    BY <2>3, <2>4
<1>6. g[N] = iter[D]
  BY <1>0
<1> HIDE DEF g
<1>7. IsSorting(g, S, N)
  BY <1>4, <1>5 DEF IsSorting
<1> QED
  BY <1>1, <1>6, <1>7 DEF N

IsInserting(g, seq, N) == g[0] = <<>> /\ \A j \in 1 .. N : g[j] = insert_module_path(seq[j], g[j - 1])

IsInsertingFold(f, seq, N) ==
  \A s \in SUBSET (1 .. N) : f[s] = IF s = {} THEN <<>> ELSE insert_module_path(seq[Max(s)], f[s \ {Max(s)}])

Present(q) == Sorted({a \in Artifacts : Qualifier(a) = q /\ Exists(a)})

(* PathsOf: the files of a module, inserted one by one. *)
LEMMA InsertingFoldExists ==
  ASSUME NEW seq, NEW N \in Nat
  PROVE  \E f : IsInsertingFold(f, seq, N)
<1> DEFINE S == {n \in Nat : \E f : IsInsertingFold(f, seq, n)}
<1>1. 0 \in S
  <2> DEFINE f == [s \in {{}} |-> <<>>]
  <2>1. IsInsertingFold(f, seq, 0)
    BY DEF IsInsertingFold
  <2> HIDE DEF f
  <2> QED
    BY <2>1
<1>2. ASSUME NEW n \in Nat, n \in S PROVE n + 1 \in S
  <2>1. PICK f : IsInsertingFold(f, seq, n)
    BY <1>2
  <2> DEFINE h == [s \in SUBSET (1 .. n + 1) |-> IF n + 1 \in s THEN insert_module_path(seq[n + 1], f[s \ {n + 1}]) ELSE f[s]]
  <2>2. \A s \in SUBSET (1 .. n) : h[s] = f[s]
    <3> SUFFICES ASSUME NEW s \in SUBSET (1 .. n) PROVE h[s] = f[s]
      OBVIOUS
    <3>1. s \in SUBSET (1 .. n + 1) /\ n + 1 \notin s
      OBVIOUS
    <3> QED
      BY <3>1
  <2>3. \A s \in SUBSET (1 .. n + 1) : n + 1 \in s => h[s] = insert_module_path(seq[n + 1], f[s \ {n + 1}])
    OBVIOUS
  <2> HIDE DEF h
  <2>4. ASSUME NEW s \in SUBSET (1 .. n + 1)
        PROVE  h[s] = IF s = {} THEN <<>> ELSE insert_module_path(seq[Max(s)], h[s \ {Max(s)}])
    <3>1. CASE n + 1 \in s
      <4>1. Max(s) = n + 1
        <5>1. n + 1 \in Nat /\ n + 1 > 0
          OBVIOUS
        <5> QED
          BY <3>1, <5>1, MaxOfInterval
      <4>2. s \ {n + 1} \in SUBSET (1 .. n)
        OBVIOUS
      <4> QED
        BY <2>2, <2>3, <3>1, <4>1, <4>2
    <3>2. CASE n + 1 \notin s
      <4>0. s \in SUBSET (1 .. n)
        BY <3>2
      <4>1. s \in SUBSET (1 .. n) /\ s \ {Max(s)} \in SUBSET (1 .. n)
        BY <4>0
      <4> QED
        BY <2>1, <2>2, <4>1 DEF IsInsertingFold
    <3> QED
      BY <3>1, <3>2
  <2>5. IsInsertingFold(h, seq, n + 1)
    BY <2>4 DEF IsInsertingFold
  <2> QED
    BY <2>5
<1> HIDE DEF S
<1>3. N \in S
  BY <1>1, <1>2, Induction
<1> QED
  BY <1>3 DEF S

LEMMA PathsOfIs ==
  ASSUME NEW q, Present(q) \in Seq(Artifacts)
  PROVE  \E g : IsInserting(g, Present(q), Len(Present(q))) /\ PathsOf(q) = g[Len(Present(q))]
<1> DEFINE N == Len(Present(q))
<1>0. N \in Nat
  OBVIOUS
<1> HIDE DEF N
<1> DEFINE D == 1 .. N
           Eq(f) == f = [s \in SUBSET D |-> IF s = {} THEN <<>> ELSE insert_module_path(Present(q)[Max(s)], f[s \ {Max(s)}])]
           iter == CHOOSE f : Eq(f)
<1>1. PathsOf(q) = iter[D]
  <2>1. DOMAIN Present(q) = D
    BY DEF N
  <2> QED
    BY <2>1 DEF PathsOf, Present, FoldLeft, MapThenFoldSet
<1>2. \E f : Eq(f)
  <2>1. PICK f : IsInsertingFold(f, Present(q), N)
    BY <1>0, InsertingFoldExists
  <2> DEFINE h == [s \in SUBSET D |-> f[s]]
  <2>2. ASSUME NEW s \in SUBSET D PROVE h[s] = IF s = {} THEN <<>> ELSE insert_module_path(Present(q)[Max(s)], h[s \ {Max(s)}])
    <3>1. s # {} => Max(s) \in D
      BY <1>0, MaxIs
    <3>2. h[s] = f[s] /\ h[s \ {Max(s)}] = f[s \ {Max(s)}]
      OBVIOUS
    <3> HIDE DEF h
    <3> QED
      BY <2>1, <3>1, <3>2 DEF IsInsertingFold
  <2>3. h = [s \in SUBSET D |-> h[s]]
    OBVIOUS
  <2> HIDE DEF h, D
  <2>4. Eq(h)
    BY <2>2, <2>3
  <2> QED
    BY <2>4
<1>3. Eq(iter)
  <2> HIDE DEF Eq
  <2> QED
    BY <1>2
<1> HIDE DEF iter
<1> DEFINE g == [j \in 0 .. N |-> iter[1 .. j]]
<1>4. g[0] = <<>>
  <2>1. g[0] = iter[1 .. 0] /\ 1 .. 0 = {}
    BY <1>0
  <2> QED
    BY <1>3, <2>1
<1>5. ASSUME NEW j \in 1 .. N PROVE g[j] = insert_module_path(Present(q)[j], g[j - 1])
  <2>1. j \in Nat /\ j > 0 /\ j \in D /\ j - 1 \in 0 .. N /\ j \in 0 .. N
    BY <1>0
  <2>2. /\ Max(1 .. j) = j /\ (1 .. j) \ {j} = 1 .. j - 1
        /\ 1 .. j # {} /\ 1 .. j \in SUBSET D
    <3>1. Max(1 .. j) = j /\ (1 .. j) \ {j} = 1 .. j - 1
      BY <2>1, MaxOfInterval
    <3>2. j \in 1 .. j /\ \A x \in 1 .. j : x \in 1 .. N
      BY <1>0, <2>1
    <3>3. 1 .. j # {} /\ 1 .. j \in SUBSET D
      BY <3>2
    <3> QED
      BY <3>1, <3>3
  <2>3. g[j] = iter[1 .. j] /\ g[j - 1] = iter[1 .. j - 1]
    BY <2>1
  <2> HIDE DEF g
  <2>4. iter[1 .. j] = insert_module_path(Present(q)[j], iter[1 .. j - 1])
    BY <1>3, <2>2
  <2> QED
    BY <2>3, <2>4
<1>6. g[N] = iter[D]
  BY <1>0
<1> HIDE DEF g
<1>7. IsInserting(g, Present(q), N)
  BY <1>4, <1>5 DEF IsInserting
<1> QED
  BY <1>1, <1>6, <1>7 DEF N

IsProcessing(g, start, seq, N) ==
  g[0] = start /\ \A j \in 1 .. N : g[j] = process_module_path_update(g[j - 1], seq[j])

IsProcessingFold(f, start, seq, N) ==
  \A s \in SUBSET (1 .. N) :
    f[s] = IF s = {} THEN start ELSE process_module_path_update(f[s \ {Max(s)}], seq[Max(s)])

BeforeBatch == [paths |-> explicit, flags |-> checked, updates |-> [q \in Qualifiers |-> None]]

(* update_module_paths: the events of the batch, one by one. *)
LEMMA ProcessingFoldExists ==
  ASSUME NEW start, NEW seq, NEW N \in Nat
  PROVE  \E f : IsProcessingFold(f, start, seq, N)
<1> DEFINE S == {n \in Nat : \E f : IsProcessingFold(f, start, seq, n)}
<1>1. 0 \in S
  <2> DEFINE f == [s \in {{}} |-> start]
  <2>1. IsProcessingFold(f, start, seq, 0)
    BY DEF IsProcessingFold
  <2> HIDE DEF f
  <2> QED
    BY <2>1
<1>2. ASSUME NEW n \in Nat, n \in S PROVE n + 1 \in S
  <2>1. PICK f : IsProcessingFold(f, start, seq, n)
    BY <1>2
  <2> DEFINE h == [s \in SUBSET (1 .. n + 1) |-> IF n + 1 \in s THEN process_module_path_update(f[s \ {n + 1}], seq[n + 1]) ELSE f[s]]
  <2>2. \A s \in SUBSET (1 .. n) : h[s] = f[s]
    <3> SUFFICES ASSUME NEW s \in SUBSET (1 .. n) PROVE h[s] = f[s]
      OBVIOUS
    <3>1. s \in SUBSET (1 .. n + 1) /\ n + 1 \notin s
      OBVIOUS
    <3> QED
      BY <3>1
  <2>3. \A s \in SUBSET (1 .. n + 1) : n + 1 \in s => h[s] = process_module_path_update(f[s \ {n + 1}], seq[n + 1])
    OBVIOUS
  <2> HIDE DEF h
  <2>4. ASSUME NEW s \in SUBSET (1 .. n + 1)
        PROVE  h[s] = IF s = {} THEN start ELSE process_module_path_update(h[s \ {Max(s)}], seq[Max(s)])
    <3>1. CASE n + 1 \in s
      <4>1. Max(s) = n + 1
        <5>1. n + 1 \in Nat /\ n + 1 > 0
          OBVIOUS
        <5> QED
          BY <3>1, <5>1, MaxOfInterval
      <4>2. s \ {n + 1} \in SUBSET (1 .. n)
        OBVIOUS
      <4> QED
        BY <2>2, <2>3, <3>1, <4>1, <4>2
    <3>2. CASE n + 1 \notin s
      <4>0. s \in SUBSET (1 .. n)
        BY <3>2
      <4>1. s \in SUBSET (1 .. n) /\ s \ {Max(s)} \in SUBSET (1 .. n)
        BY <4>0
      <4> QED
        BY <2>1, <2>2, <4>1 DEF IsProcessingFold
    <3> QED
      BY <3>1, <3>2
  <2>5. IsProcessingFold(h, start, seq, n + 1)
    BY <2>4 DEF IsProcessingFold
  <2> QED
    BY <2>5
<1> HIDE DEF S
<1>3. N \in S
  BY <1>1, <1>2, Induction
<1> QED
  BY <1>3 DEF S

LEMMA UpdateIs ==
  ASSUME NEW T, dedup_and_sort \in Seq(T)
  PROVE  \E g : IsProcessing(g, BeforeBatch, dedup_and_sort, Len(dedup_and_sort)) /\ update_module_paths = g[Len(dedup_and_sort)]
<1> DEFINE N == Len(dedup_and_sort)
<1>0. N \in Nat
  OBVIOUS
<1> HIDE DEF N
<1> DEFINE D == 1 .. N
           Eq(f) == f = [s \in SUBSET D |-> IF s = {} THEN BeforeBatch ELSE process_module_path_update(f[s \ {Max(s)}], dedup_and_sort[Max(s)])]
           iter == CHOOSE f : Eq(f)
<1>1. update_module_paths = iter[D]
  <2>1. DOMAIN dedup_and_sort = D
    BY DEF N
  <2> QED
    BY <2>1 DEF update_module_paths, BeforeBatch, FoldLeft, MapThenFoldSet
<1>2. \E f : Eq(f)
  <2>1. PICK f : IsProcessingFold(f, BeforeBatch, dedup_and_sort, N)
    BY <1>0, ProcessingFoldExists
  <2> DEFINE h == [s \in SUBSET D |-> f[s]]
  <2>2. ASSUME NEW s \in SUBSET D PROVE h[s] = IF s = {} THEN BeforeBatch ELSE process_module_path_update(h[s \ {Max(s)}], dedup_and_sort[Max(s)])
    <3>1. s # {} => Max(s) \in D
      BY <1>0, MaxIs
    <3>2. h[s] = f[s] /\ h[s \ {Max(s)}] = f[s \ {Max(s)}]
      OBVIOUS
    <3> HIDE DEF h
    <3> QED
      BY <2>1, <3>1, <3>2 DEF IsProcessingFold
  <2>3. h = [s \in SUBSET D |-> h[s]]
    OBVIOUS
  <2> HIDE DEF h, D
  <2>4. Eq(h)
    BY <2>2, <2>3
  <2> QED
    BY <2>4
<1>3. Eq(iter)
  <2> HIDE DEF Eq
  <2> QED
    BY <1>2
<1> HIDE DEF iter
<1> DEFINE g == [j \in 0 .. N |-> iter[1 .. j]]
<1>4. g[0] = BeforeBatch
  <2>1. g[0] = iter[1 .. 0] /\ 1 .. 0 = {}
    BY <1>0
  <2> QED
    BY <1>3, <2>1
<1>5. ASSUME NEW j \in 1 .. N PROVE g[j] = process_module_path_update(g[j - 1], dedup_and_sort[j])
  <2>1. j \in Nat /\ j > 0 /\ j \in D /\ j - 1 \in 0 .. N /\ j \in 0 .. N
    BY <1>0
  <2>2. /\ Max(1 .. j) = j /\ (1 .. j) \ {j} = 1 .. j - 1
        /\ 1 .. j # {} /\ 1 .. j \in SUBSET D
    <3>1. Max(1 .. j) = j /\ (1 .. j) \ {j} = 1 .. j - 1
      BY <2>1, MaxOfInterval
    <3>2. j \in 1 .. j /\ \A x \in 1 .. j : x \in 1 .. N
      BY <1>0, <2>1
    <3>3. 1 .. j # {} /\ 1 .. j \in SUBSET D
      BY <3>2
    <3> QED
      BY <3>1, <3>3
  <2>3. g[j] = iter[1 .. j] /\ g[j - 1] = iter[1 .. j - 1]
    BY <2>1
  <2> HIDE DEF g
  <2>4. iter[1 .. j] = process_module_path_update(iter[1 .. j - 1], dedup_and_sort[j])
    BY <1>3, <2>2
  <2> QED
    BY <2>3, <2>4
<1>6. g[N] = iter[D]
  BY <1>0
<1> HIDE DEF g
<1>7. IsProcessing(g, BeforeBatch, dedup_and_sort, N)
  BY <1>4, <1>5 DEF IsProcessing
<1> QED
  BY <1>1, <1>6, <1>7 DEF N

IsReplacing(g, start, seq, N) == g[0] = start /\ \A j \in 1 .. N : g[j] = ImplicitAfter(g[j - 1], seq[j])

IsReplacingFold(f, start, seq, N) ==
  \A s \in SUBSET (1 .. N) : f[s] = IF s = {} THEN start ELSE ImplicitAfter(f[s \ {Max(s)}], seq[Max(s)])

(* update_children: the events of the batch, one by one. *)
LEMMA ReplacingFoldExists ==
  ASSUME NEW start, NEW seq, NEW N \in Nat
  PROVE  \E f : IsReplacingFold(f, start, seq, N)
<1> DEFINE S == {n \in Nat : \E f : IsReplacingFold(f, start, seq, n)}
<1>1. 0 \in S
  <2> DEFINE f == [s \in {{}} |-> start]
  <2>1. IsReplacingFold(f, start, seq, 0)
    BY DEF IsReplacingFold
  <2> HIDE DEF f
  <2> QED
    BY <2>1
<1>2. ASSUME NEW n \in Nat, n \in S PROVE n + 1 \in S
  <2>1. PICK f : IsReplacingFold(f, start, seq, n)
    BY <1>2
  <2> DEFINE h == [s \in SUBSET (1 .. n + 1) |-> IF n + 1 \in s THEN ImplicitAfter(f[s \ {n + 1}], seq[n + 1]) ELSE f[s]]
  <2>2. \A s \in SUBSET (1 .. n) : h[s] = f[s]
    <3> SUFFICES ASSUME NEW s \in SUBSET (1 .. n) PROVE h[s] = f[s]
      OBVIOUS
    <3>1. s \in SUBSET (1 .. n + 1) /\ n + 1 \notin s
      OBVIOUS
    <3> QED
      BY <3>1
  <2>3. \A s \in SUBSET (1 .. n + 1) : n + 1 \in s => h[s] = ImplicitAfter(f[s \ {n + 1}], seq[n + 1])
    OBVIOUS
  <2> HIDE DEF h
  <2>4. ASSUME NEW s \in SUBSET (1 .. n + 1)
        PROVE  h[s] = IF s = {} THEN start ELSE ImplicitAfter(h[s \ {Max(s)}], seq[Max(s)])
    <3>1. CASE n + 1 \in s
      <4>1. Max(s) = n + 1
        <5>1. n + 1 \in Nat /\ n + 1 > 0
          OBVIOUS
        <5> QED
          BY <3>1, <5>1, MaxOfInterval
      <4>2. s \ {n + 1} \in SUBSET (1 .. n)
        OBVIOUS
      <4> QED
        BY <2>2, <2>3, <3>1, <4>1, <4>2
    <3>2. CASE n + 1 \notin s
      <4>0. s \in SUBSET (1 .. n)
        BY <3>2
      <4>1. s \in SUBSET (1 .. n) /\ s \ {Max(s)} \in SUBSET (1 .. n)
        BY <4>0
      <4> QED
        BY <2>1, <2>2, <4>1 DEF IsReplacingFold
    <3> QED
      BY <3>1, <3>2
  <2>5. IsReplacingFold(h, start, seq, n + 1)
    BY <2>4 DEF IsReplacingFold
  <2> QED
    BY <2>5
<1> HIDE DEF S
<1>3. N \in S
  BY <1>1, <1>2, Induction
<1> QED
  BY <1>3 DEF S

LEMMA ChildrenAre ==
  ASSUME NEW T, dedup_and_sort \in Seq(T)
  PROVE  \E g : IsReplacing(g, implicit, dedup_and_sort, Len(dedup_and_sort)) /\ update_children = g[Len(dedup_and_sort)]
<1> DEFINE N == Len(dedup_and_sort)
<1>0. N \in Nat
  OBVIOUS
<1> HIDE DEF N
<1> DEFINE D == 1 .. N
           Eq(f) == f = [s \in SUBSET D |-> IF s = {} THEN implicit ELSE ImplicitAfter(f[s \ {Max(s)}], dedup_and_sort[Max(s)])]
           iter == CHOOSE f : Eq(f)
<1>1. update_children = iter[D]
  <2>1. DOMAIN dedup_and_sort = D
    BY DEF N
  <2> QED
    BY <2>1 DEF update_children, FoldLeft, MapThenFoldSet
<1>2. \E f : Eq(f)
  <2>1. PICK f : IsReplacingFold(f, implicit, dedup_and_sort, N)
    BY <1>0, ReplacingFoldExists
  <2> DEFINE h == [s \in SUBSET D |-> f[s]]
  <2>2. ASSUME NEW s \in SUBSET D PROVE h[s] = IF s = {} THEN implicit ELSE ImplicitAfter(h[s \ {Max(s)}], dedup_and_sort[Max(s)])
    <3>1. s # {} => Max(s) \in D
      BY <1>0, MaxIs
    <3>2. h[s] = f[s] /\ h[s \ {Max(s)}] = f[s \ {Max(s)}]
      OBVIOUS
    <3> HIDE DEF h
    <3> QED
      BY <2>1, <3>1, <3>2 DEF IsReplacingFold
  <2>3. h = [s \in SUBSET D |-> h[s]]
    OBVIOUS
  <2> HIDE DEF h, D
  <2>4. Eq(h)
    BY <2>2, <2>3
  <2> QED
    BY <2>4
<1>3. Eq(iter)
  <2> HIDE DEF Eq
  <2> QED
    BY <1>2
<1> HIDE DEF iter
<1> DEFINE g == [j \in 0 .. N |-> iter[1 .. j]]
<1>4. g[0] = implicit
  <2>1. g[0] = iter[1 .. 0] /\ 1 .. 0 = {}
    BY <1>0
  <2> QED
    BY <1>3, <2>1
<1>5. ASSUME NEW j \in 1 .. N PROVE g[j] = ImplicitAfter(g[j - 1], dedup_and_sort[j])
  <2>1. j \in Nat /\ j > 0 /\ j \in D /\ j - 1 \in 0 .. N /\ j \in 0 .. N
    BY <1>0
  <2>2. /\ Max(1 .. j) = j /\ (1 .. j) \ {j} = 1 .. j - 1
        /\ 1 .. j # {} /\ 1 .. j \in SUBSET D
    <3>1. Max(1 .. j) = j /\ (1 .. j) \ {j} = 1 .. j - 1
      BY <2>1, MaxOfInterval
    <3>2. j \in 1 .. j /\ \A x \in 1 .. j : x \in 1 .. N
      BY <1>0, <2>1
    <3>3. 1 .. j # {} /\ 1 .. j \in SUBSET D
      BY <3>2
    <3> QED
      BY <3>1, <3>3
  <2>3. g[j] = iter[1 .. j] /\ g[j - 1] = iter[1 .. j - 1]
    BY <2>1
  <2> HIDE DEF g
  <2>4. iter[1 .. j] = ImplicitAfter(iter[1 .. j - 1], dedup_and_sort[j])
    BY <1>3, <2>2
  <2> QED
    BY <2>3, <2>4
<1>6. g[N] = iter[D]
  BY <1>0
<1> HIDE DEF g
<1>7. IsReplacing(g, implicit, dedup_and_sort, N)
  BY <1>4, <1>5 DEF IsReplacing
<1> QED
  BY <1>1, <1>6, <1>7 DEF N

(***************************************************************************)
(* The paths of a module: in the order of their priority                   *)
(***************************************************************************)
Ordered(p, q) ==
  /\ p \in Seq(Artifacts)
  /\ \A n \in 1 .. Len(p) : Qualifier(p[n]) = q
  /\ \A m, n \in 1 .. Len(p) : m < n => Priority(p[m]) < Priority(p[n])

LEMMA RangeIs ==
  ASSUME NEW T, NEW p \in Seq(T)
  PROVE  /\ \A x : x \in Range(p) <=> \E n \in 1 .. Len(p) : p[n] = x
         /\ p = <<>> <=> Range(p) = {}
<1>1. DOMAIN p = 1 .. Len(p) /\ Len(p) \in Nat
  OBVIOUS
<1>2. \A x : x \in Range(p) <=> \E n \in 1 .. Len(p) : p[n] = x
  BY <1>1 DEF Range
<1>3. p # <<>> => 1 \in 1 .. Len(p)
  BY <1>1
<1>4. p = <<>> => 1 .. Len(p) = {}
  OBVIOUS
<1> QED
  BY <1>2, <1>3, <1>4

(* The least number of a set *)
LEMMA LeastExists ==
  ASSUME NEW S, S \subseteq Nat, S # {}
  PROVE  \E x \in S : \A y \in S : x <= y
<1>1. PICK x \in S : \A y \in S : ~ (<<y, x>> \in Less)
  BY LessWellFounded, WFMin
<1>2. \A y \in S : ~ (y < x)
  BY <1>1 DEF Less
<1>3. \A y \in S : x <= y
  <2> SUFFICES ASSUME NEW y \in S PROVE x <= y
    OBVIOUS
  <2>1. x \in Nat /\ y \in Nat /\ ~ (y < x)
    BY <1>2
  <2> QED
    BY <2>1
<1> QED
  BY <1>3

IsPlace(n, a, p) ==
  /\ n \in 1 .. Len(p) + 1
  /\ \A m \in 1 .. n - 1 : Priority(p[m]) < Priority(a)
  /\ n <= Len(p) => Priority(p[n]) >= Priority(a)

(* Place is the place its definition describes: there is one. *)
LEMMA PlaceIs ==
  ASSUME NEW q, NEW p, Ordered(p, q), NEW a \in Artifacts
  PROVE  IsPlace(Place(a, p), a, p)
<1> DEFINE N == Len(p)
           S == {n \in 1 .. N + 1 : n <= N => Priority(p[n]) >= Priority(a)}
<1>1. N \in Nat /\ p \in Seq(Artifacts)
  BY DEF Ordered
<1> HIDE DEF N
<1>2. N + 1 \in S
  BY <1>1
<1>3. S \subseteq Nat
  BY <1>1
<1>4. PICK n \in S : \A y \in S : n <= y
  BY <1>2, <1>3, LeastExists
<1>5. ASSUME NEW m \in 1 .. n - 1 PROVE Priority(p[m]) < Priority(a)
  <2>1. m \in 1 .. N + 1 /\ m \in 1 .. N /\ ~ (n <= m)
    BY <1>1
  <2>2. m \notin S
    BY <1>4, <2>1
  <2>3. ~ (Priority(p[m]) >= Priority(a))
    BY <2>1, <2>2
  <2>4. p[m] \in Artifacts
    BY <1>1, <2>1 DEF N
  <2>5. Priority(p[m]) \in Nat /\ Priority(a) \in Nat
    BY <2>4, PriorityAssumption
  <2> QED
    BY <2>3, <2>5
<1>6. IsPlace(n, a, p)
  BY <1>5 DEF IsPlace, N
<1>7. \E k \in 1 .. Len(p) + 1 : IsPlace(k, a, p)
  BY <1>6 DEF IsPlace
<1>8. Place(a, p) = CHOOSE k \in 1 .. Len(p) + 1 : IsPlace(k, a, p)
  BY DEF Place, IsPlace
<1> QED
  BY <1>7, <1>8

(* Among the paths of a module the priority names the path. *)
LEMMA SamePriority ==
  ASSUME NEW q, NEW p, Ordered(p, q), NEW n \in 1 .. Len(p),
         NEW a \in Artifacts, Qualifier(a) = q, Priority(p[n]) = Priority(a)
  PROVE  p[n] = a
<1>1. p[n] \in Artifacts /\ Qualifier(p[n]) = q
  BY DEF Ordered
<1> QED
  BY <1>1, PriorityAssumption

LEMMA PrioritiesAre ==
  ASSUME NEW q, NEW p, Ordered(p, q)
  PROVE  /\ Len(p) \in Nat
         /\ \A n \in 1 .. Len(p) : p[n] \in Artifacts /\ Priority(p[n]) \in Nat
<1>1. p \in Seq(Artifacts)
  BY DEF Ordered
<1>2. Len(p) \in Nat /\ \A n \in 1 .. Len(p) : p[n] \in Artifacts
  BY <1>1
<1> QED
  BY <1>2, PriorityAssumption

(* A path that is in the list is at its place. *)
LEMMA PlaceInside ==
  ASSUME NEW q, NEW p, Ordered(p, q), NEW k \in 1 .. Len(p)
  PROVE  Place(p[k], p) = k
<1> DEFINE a == p[k]
           n == Place(a, p)
           N == Len(p)
<1>1. N \in Nat /\ a \in Artifacts
  BY PrioritiesAre
<1>2. IsPlace(n, a, p)
  BY <1>1, PlaceIs
<1>3. \A i \in 1 .. N : Priority(p[i]) \in Nat
  BY PrioritiesAre
<1>4. \A i, j \in 1 .. N : i < j => Priority(p[i]) < Priority(p[j])
  BY DEF Ordered
<1> HIDE DEF n
<1>5. n \in 1 .. N + 1 /\ (\A m \in 1 .. n - 1 : Priority(p[m]) < Priority(a)) /\ (n <= N => Priority(p[n]) >= Priority(a))
  BY <1>2 DEF IsPlace
<1> HIDE DEF N
<1>6. k \in 1 .. N
  BY DEF N
<1>7. ~ (k < n)
  <2> SUFFICES ASSUME k < n PROVE FALSE
    OBVIOUS
  <2>1. k \in 1 .. n - 1
    BY <1>1, <1>5, <1>6
  <2>2. Priority(p[k]) < Priority(p[k]) /\ Priority(p[k]) \in Nat
    BY <1>3, <1>5, <1>6, <2>1
  <2> QED
    BY <2>2
<1>8. ~ (n < k)
  <2> SUFFICES ASSUME n < k PROVE FALSE
    OBVIOUS
  <2>1. n \in 1 .. N
    BY <1>1, <1>5, <1>6
  <2>2. Priority(p[n]) < Priority(p[k])
    BY <1>4, <1>6, <2>1
  <2>3. n <= N
    BY <1>1, <2>1
  <2>4. Priority(p[n]) >= Priority(p[k])
    BY <1>5, <2>3
  <2>5. Priority(p[n]) \in Nat /\ Priority(p[k]) \in Nat
    BY <1>3, <1>6, <2>1
  <2> QED
    BY <2>2, <2>4, <2>5
<1>9. n = k
  BY <1>1, <1>5, <1>6, <1>7, <1>8
<1> QED
  BY <1>9 DEF n

(* InsertAt moves what is at the place and after it by one. *)
LEMMA InsertAtIs ==
  ASSUME NEW T, NEW p \in Seq(T), NEW a \in T, NEW i \in 1 .. Len(p) + 1
  PROVE  /\ InsertAt(p, i, a) \in Seq(T)
         /\ Len(InsertAt(p, i, a)) = Len(p) + 1
         /\ \A m \in 1 .. Len(p) + 1 :
              InsertAt(p, i, a)[m] = IF m < i THEN p[m] ELSE IF m = i THEN a ELSE p[m - 1]
<1> DEFINE N == Len(p)
           x == SubSeq(p, 1, i - 1)
           y == SubSeq(p, i, N)
           z == x \o <<a>>
<1>1. N \in Nat
  OBVIOUS
<1>2. x \in Seq(T) /\ Len(x) = i - 1 /\ \A m \in 1 .. i - 1 : x[m] = p[m]
  BY <1>1
<1>3. y \in Seq(T) /\ Len(y) = N - i + 1 /\ \A m \in 1 .. N - i + 1 : y[m] = p[i + m - 1]
  BY <1>1
<1>4. InsertAt(p, i, a) = z \o y
  BY DEF InsertAt
<1> HIDE DEF x, y
<1>5. z \in Seq(T) /\ Len(z) = i /\ z[i] = a /\ \A m \in 1 .. i - 1 : z[m] = p[m]
  BY <1>1, <1>2
<1> HIDE DEF z, N
<1>6. z \o y \in Seq(T) /\ Len(z \o y) = N + 1
  <2>0. z \in Seq(T) /\ y \in Seq(T)
    BY <1>3, <1>5
  <2>1. z \o y \in Seq(T) /\ Len(z \o y) = Len(z) + Len(y)
    BY <2>0
  <2>2. i \in 1 .. N + 1
    BY DEF N
  <2>3. i + (N - i + 1) = N + 1
    BY <1>1, <2>2
  <2> QED
    BY <1>3, <1>5, <2>1, <2>3
<1>7. ASSUME NEW m \in 1 .. N + 1
      PROVE  (z \o y)[m] = IF m < i THEN p[m] ELSE IF m = i THEN a ELSE p[m - 1]
  <2>0. i \in 1 .. N + 1
    BY DEF N
  <2>1. CASE m < i
    <3>1. m \in 1 .. i - 1 /\ m \in 1 .. Len(z)
      BY <1>1, <1>5, <2>0, <2>1
    <3>2. (z \o y)[m] = z[m]
      BY <1>3, <1>5, <3>1
    <3> QED
      BY <1>5, <2>1, <3>1, <3>2
  <2>2. CASE m = i
    <3>1. m \in 1 .. Len(z)
      BY <1>1, <1>5, <2>0, <2>2
    <3>2. (z \o y)[m] = z[m]
      BY <1>3, <1>5, <3>1
    <3>3. ~ (m < i)
      BY <1>1, <2>0, <2>2
    <3> QED
      BY <1>5, <2>2, <3>2, <3>3
  <2>3. CASE m > i
    <3>1. m - i \in 1 .. N - i + 1 /\ m \in Len(z) + 1 .. Len(z) + Len(y)
      BY <1>1, <1>3, <1>5, <2>0, <2>3
    <3>2. (z \o y)[m] = y[m - Len(z)]
      BY <1>3, <1>5, <3>1
    <3>3. y[m - i] = p[i + (m - i) - 1] /\ i + (m - i) - 1 = m - 1 /\ ~ (m < i) /\ m # i
      BY <1>1, <1>3, <2>0, <2>3, <3>1
    <3> QED
      BY <1>5, <3>2, <3>3
  <2>4. m < i \/ m = i \/ m > i
    BY <1>1, <2>0
  <2> QED
    BY <2>1, <2>2, <2>3, <2>4
<1> QED
  BY <1>4, <1>6, <1>7 DEF N

(* RemoveAt moves what is after the place back by one. *)
LEMMA RemoveAtIs ==
  ASSUME NEW T, NEW p \in Seq(T), NEW i \in 1 .. Len(p)
  PROVE  /\ RemoveAt(p, i) \in Seq(T)
         /\ Len(RemoveAt(p, i)) = Len(p) - 1
         /\ \A m \in 1 .. Len(p) - 1 : RemoveAt(p, i)[m] = IF m < i THEN p[m] ELSE p[m + 1]
<1> DEFINE N == Len(p)
           x == SubSeq(p, 1, i - 1)
           y == SubSeq(p, i + 1, N)
<1>1. N \in Nat
  OBVIOUS
<1>2. x \in Seq(T) /\ Len(x) = i - 1 /\ \A m \in 1 .. i - 1 : x[m] = p[m]
  BY <1>1
<1>3. y \in Seq(T) /\ Len(y) = N - i /\ \A m \in 1 .. N - i : y[m] = p[i + m]
  <2>1. Len(y) = N - i
    BY <1>1
  <2>2. \A m \in 1 .. N - i : y[m] = p[(i + 1) + m - 1] /\ (i + 1) + m - 1 = i + m
    BY <1>1
  <2>3. y \in Seq(T)
    BY <1>1
  <2> HIDE DEF y
  <2> QED
    BY <2>1, <2>2, <2>3
<1>4. RemoveAt(p, i) = x \o y
  BY DEF RemoveAt
<1> HIDE DEF x, y, N
<1>5. i \in 1 .. N
  BY DEF N
<1>6. x \o y \in Seq(T) /\ Len(x \o y) = N - 1
  <2>0. x \in Seq(T) /\ y \in Seq(T)
    BY <1>2, <1>3
  <2>1. x \o y \in Seq(T) /\ Len(x \o y) = Len(x) + Len(y)
    BY <2>0
  <2>2. (i - 1) + (N - i) = N - 1
    BY <1>1, <1>5
  <2> QED
    BY <1>2, <1>3, <2>1, <2>2
<1>7. ASSUME NEW m \in 1 .. N - 1 PROVE (x \o y)[m] = IF m < i THEN p[m] ELSE p[m + 1]
  <2>1. CASE m < i
    <3>1. m \in 1 .. i - 1 /\ m \in 1 .. Len(x)
      BY <1>1, <1>2, <1>5, <2>1
    <3>2. (x \o y)[m] = x[m]
      BY <1>2, <1>3, <3>1
    <3> QED
      BY <1>2, <2>1, <3>1, <3>2
  <2>2. CASE ~ (m < i)
    <3>1. m - (i - 1) \in 1 .. N - i /\ m \in Len(x) + 1 .. Len(x) + Len(y)
      BY <1>1, <1>2, <1>3, <1>5, <2>2
    <3>2. (x \o y)[m] = y[m - Len(x)]
      BY <1>2, <1>3, <3>1
    <3>3. y[m - (i - 1)] = p[i + (m - (i - 1))] /\ i + (m - (i - 1)) = m + 1
      BY <1>1, <1>3, <1>5, <3>1
    <3> QED
      BY <1>2, <2>2, <3>2, <3>3
  <2> QED
    BY <2>1, <2>2
<1> QED
  BY <1>4, <1>6, <1>7 DEF N

(* insert_module_path adds the path and keeps the order. *)
LEMMA InsertIs ==
  ASSUME NEW q, NEW p, Ordered(p, q), NEW a \in Artifacts, Qualifier(a) = q
  PROVE  Ordered(insert_module_path(a, p), q) /\ Range(insert_module_path(a, p)) = Range(p) \cup {a}
<1>0. CASE a \in Range(p)
  BY <1>0 DEF insert_module_path
<1>1. CASE a \notin Range(p)
  <2> DEFINE i == Place(a, p)
             new == InsertAt(p, i, a)
             N == Len(p)
  <2>0. insert_module_path(a, p) = new
    BY <1>1 DEF insert_module_path
  <2>1. IsPlace(i, a, p)
    BY PlaceIs
  <2>2. N \in Nat /\ p \in Seq(Artifacts)
    BY DEF Ordered
  <2> HIDE DEF i
  <2>3. i \in 1 .. N + 1 /\ (\A m \in 1 .. i - 1 : Priority(p[m]) < Priority(a)) /\ (i <= N => Priority(p[i]) >= Priority(a))
    BY <2>1 DEF IsPlace
  <2>4. new \in Seq(Artifacts) /\ Len(new) = N + 1
    BY <2>2, <2>3, InsertAtIs
  <2>5. \A m \in 1 .. N + 1 : new[m] = IF m < i THEN p[m] ELSE IF m = i THEN a ELSE p[m - 1]
    BY <2>2, <2>3, InsertAtIs
  <2>6. (\A k \in 1 .. N : Priority(p[k]) \in Nat) /\ Priority(a) \in Nat
    BY PrioritiesAre, PriorityAssumption
  <2>7. \A k \in 1 .. N : p[k] # a /\ Qualifier(p[k]) = q /\ Priority(p[k]) # Priority(a)
    <3>1. \A k \in 1 .. N : p[k] # a
      BY <1>1, <2>2, RangeIs
    <3>2. \A k \in 1 .. N : Priority(p[k]) = Priority(a) => p[k] = a
      BY SamePriority
    <3> QED
      BY <3>1, <3>2 DEF Ordered
  <2>8. \A m, n \in 1 .. N : m < n => Priority(p[m]) < Priority(p[n])
    BY DEF Ordered
  <2>r. \A x : x \in Range(p) <=> \E n \in 1 .. N : p[n] = x
    BY <2>2, RangeIs
  <2>s. \A x : x \in Range(new) <=> \E n \in 1 .. N + 1 : new[n] = x
    BY <2>4, RangeIs
  <2> HIDE DEF new, N
  <2>9. ASSUME NEW k \in 1 .. N, ~ (k < i) PROVE Priority(a) < Priority(p[k])
    <3>1. i \in 1 .. N /\ i <= N
      BY <2>2, <2>3, <2>9
    <3>2. Priority(a) < Priority(p[i])
      BY <2>3, <2>6, <2>7, <3>1
    <3>3. CASE k = i
      BY <3>2, <3>3
    <3>4. CASE i < k
      <4>1. Priority(p[i]) < Priority(p[k])
        BY <2>8, <3>1, <3>4
      <4>2. Priority(p[i]) \in Nat /\ Priority(p[k]) \in Nat
        BY <2>6, <3>1
      <4> QED
        BY <2>6, <3>2, <4>1, <4>2
    <3>5. k = i \/ i < k
      BY <2>2, <2>3, <2>9
    <3> QED
      BY <3>3, <3>4, <3>5
  <2>10. ASSUME NEW n \in 1 .. N + 1 PROVE Qualifier(new[n]) = q
    <3>1. n < i => n \in 1 .. N
      BY <2>2, <2>3
    <3>2. ~ (n < i) /\ n # i => n - 1 \in 1 .. N
      BY <2>2, <2>3
    <3> QED
      BY <2>5, <2>7, <3>1, <3>2
  <2>11. ASSUME NEW m \in 1 .. N + 1, NEW n \in 1 .. N + 1, m < n PROVE Priority(new[m]) < Priority(new[n])
    <3>1. CASE n < i
      <4>1. m < i /\ m \in 1 .. N /\ n \in 1 .. N
        BY <2>2, <2>3, <2>11, <3>1
      <4>2. new[m] = p[m] /\ new[n] = p[n]
        BY <2>5, <3>1, <4>1
      <4> QED
        BY <2>8, <2>11, <4>1, <4>2
    <3>2. CASE n = i
      <4>1. m < i /\ m \in 1 .. i - 1 /\ ~ (n < i)
        BY <2>2, <2>3, <2>11, <3>2
      <4>2. new[m] = p[m] /\ new[n] = a
        BY <2>5, <3>2, <4>1
      <4> QED
        BY <2>3, <4>1, <4>2
    <3>3. CASE i < n
      <4>1. ~ (n < i) /\ n # i /\ n - 1 \in 1 .. N /\ ~ (n - 1 < i)
        BY <2>2, <2>3, <3>3
      <4>2. new[n] = p[n - 1]
        BY <2>5, <4>1
      <4>3. Priority(a) < Priority(p[n - 1])
        BY <2>9, <4>1
      <4>4. CASE m < i
        <5>1. m \in 1 .. N /\ m < n - 1
          BY <2>2, <2>3, <3>3, <4>1, <4>4
        <5>2. new[m] = p[m]
          BY <2>5, <4>4
        <5> QED
          BY <2>8, <4>1, <4>2, <5>1, <5>2
      <4>5. CASE m = i
        <5>1. new[m] = a
          BY <2>2, <2>3, <2>5, <4>5
        <5> QED
          BY <4>2, <4>3, <5>1
      <4>6. CASE i < m
        <5>1. m - 1 \in 1 .. N /\ m - 1 < n - 1 /\ ~ (m < i) /\ m # i
          BY <2>2, <2>3, <2>11, <4>6
        <5>2. new[m] = p[m - 1]
          BY <2>5, <5>1
        <5> QED
          BY <2>8, <4>1, <4>2, <5>1, <5>2
      <4>7. m < i \/ m = i \/ i < m
        BY <2>2, <2>3
      <4> QED
        BY <4>4, <4>5, <4>6, <4>7
    <3>4. n < i \/ n = i \/ i < n
      BY <2>2, <2>3
    <3> QED
      BY <3>1, <3>2, <3>3, <3>4
  <2>12. Ordered(new, q)
    BY <2>4, <2>10, <2>11 DEF Ordered
  <2>13. ASSUME NEW x \in Range(new) PROVE x \in Range(p) \cup {a}
    <3>1. PICK n \in 1 .. N + 1 : new[n] = x
      BY <2>s
    <3>2. n < i => n \in 1 .. N
      BY <2>2, <2>3
    <3>3. ~ (n < i) /\ n # i => n - 1 \in 1 .. N
      BY <2>2, <2>3
    <3> QED
      BY <2>5, <2>r, <3>1, <3>2, <3>3
  <2>14. a \in Range(new)
    <3>1. i \in 1 .. N + 1 /\ ~ (i < i)
      BY <2>2, <2>3
    <3> QED
      BY <2>5, <2>s, <3>1
  <2>15. ASSUME NEW x \in Range(p) PROVE x \in Range(new)
    <3>1. PICK n \in 1 .. N : p[n] = x
      BY <2>r
    <3>2. CASE n < i
      <4>1. n \in 1 .. N + 1
        BY <2>2
      <4> QED
        BY <2>5, <2>s, <3>1, <3>2, <4>1
    <3>3. CASE ~ (n < i)
      <4>1. n + 1 \in 1 .. N + 1 /\ ~ (n + 1 < i) /\ n + 1 # i /\ (n + 1) - 1 = n
        BY <2>2, <2>3, <3>3
      <4>2. new[n + 1] = p[(n + 1) - 1]
        BY <2>5, <4>1
      <4> QED
        BY <2>s, <3>1, <4>1, <4>2
    <3> QED
      BY <3>2, <3>3
  <2>16. Range(new) = Range(p) \cup {a}
    BY <2>13, <2>14, <2>15
  <2> QED
    BY <2>0, <2>12, <2>16
<1> QED
  BY <1>0, <1>1

(* remove_module_path takes the path out and keeps the order. *)
LEMMA RemoveIs ==
  ASSUME NEW q, NEW p, Ordered(p, q), NEW a
  PROVE  Ordered(remove_module_path(a, p), q) /\ Range(remove_module_path(a, p)) = Range(p) \ {a}
<1>0. CASE a \notin Range(p)
  BY <1>0 DEF remove_module_path
<1>1. CASE a \in Range(p)
  <2> DEFINE N == Len(p)
  <2>1. N \in Nat /\ p \in Seq(Artifacts)
    BY DEF Ordered
  <2>r. \A x : x \in Range(p) <=> \E n \in 1 .. N : p[n] = x
    BY <2>1, RangeIs
  <2>2. PICK i \in 1 .. N : p[i] = a
    BY <1>1, <2>r
  <2> DEFINE new == RemoveAt(p, i)
  <2>3. Place(a, p) = i
    BY <2>2, PlaceInside
  <2>0. remove_module_path(a, p) = new
    BY <1>1, <2>3 DEF remove_module_path
  <2>4. new \in Seq(Artifacts) /\ Len(new) = N - 1
    BY <2>1, RemoveAtIs
  <2>5. \A m \in 1 .. N - 1 : new[m] = IF m < i THEN p[m] ELSE p[m + 1]
    BY <2>1, RemoveAtIs
  <2>6. \A k \in 1 .. N : Priority(p[k]) \in Nat /\ Qualifier(p[k]) = q
    BY PrioritiesAre DEF Ordered
  <2>8. \A m, n \in 1 .. N : m < n => Priority(p[m]) < Priority(p[n])
    BY DEF Ordered
  <2>s. \A x : x \in Range(new) <=> \E n \in 1 .. N - 1 : new[n] = x
    BY <2>4, RangeIs
  <2> HIDE DEF new, N
  <2>7. \A k \in 1 .. N : p[k] = a => k = i
    <3> SUFFICES ASSUME NEW k \in 1 .. N, p[k] = a, k # i PROVE FALSE
      OBVIOUS
    <3>1. k < i \/ i < k
      BY <2>1
    <3>2. Priority(a) < Priority(a) /\ Priority(a) \in Nat
      BY <2>2, <2>6, <2>8, <3>1
    <3> QED
      BY <3>2
  <2>10. ASSUME NEW n \in 1 .. N - 1
         PROVE  \E k \in 1 .. N : new[n] = p[k] /\ k # i /\ k = IF n < i THEN n ELSE n + 1
    <3>1. n \in 1 .. N /\ n + 1 \in 1 .. N
      BY <2>1
    <3>2. (n < i => n # i) /\ (~ (n < i) => n + 1 # i)
      BY <2>1
    <3> QED
      BY <2>5, <3>1, <3>2
  <2>11. ASSUME NEW m \in 1 .. N - 1, NEW n \in 1 .. N - 1, m < n PROVE Priority(new[m]) < Priority(new[n])
    <3>1. PICK k \in 1 .. N : new[m] = p[k] /\ k = IF m < i THEN m ELSE m + 1
      BY <2>10
    <3>2. PICK l \in 1 .. N : new[n] = p[l] /\ l = IF n < i THEN n ELSE n + 1
      BY <2>10
    <3>3. k < l
      BY <2>1, <2>11, <3>1, <3>2
    <3> QED
      BY <2>8, <3>1, <3>2, <3>3
  <2>12. Ordered(new, q)
    BY <2>4, <2>6, <2>10, <2>11 DEF Ordered
  <2>13. ASSUME NEW x \in Range(new) PROVE x \in Range(p) \ {a}
    BY <2>7, <2>10, <2>13, <2>r, <2>s
  <2>15. ASSUME NEW x \in Range(p), x # a PROVE x \in Range(new)
    <3>1. PICK n \in 1 .. N : p[n] = x
      BY <2>r
    <3>0. n # i
      BY <2>2, <2>15, <3>1
    <3>2. CASE n < i
      <4>1. n \in 1 .. N - 1
        BY <2>1, <3>2
      <4> QED
        BY <2>5, <2>s, <3>1, <3>2, <4>1
    <3>3. CASE ~ (n < i)
      <4>1. n - 1 \in 1 .. N - 1 /\ ~ (n - 1 < i) /\ (n - 1) + 1 = n
        BY <2>1, <3>0, <3>3
      <4>2. new[n - 1] = p[(n - 1) + 1]
        BY <2>5, <4>1
      <4> QED
        BY <2>s, <3>1, <4>1, <4>2
    <3> QED
      BY <3>2, <3>3
  <2>16. Range(new) = Range(p) \ {a}
    BY <2>13, <2>15
  <2> QED
    BY <2>0, <2>12, <2>16
<1> QED
  BY <1>0, <1>1

(* The path that a module is read from: the one that comes before all others *)
LEMMA HeadIs ==
  ASSUME NEW q, NEW p, Ordered(p, q), p # <<>>
  PROVE  /\ Head(p) \in Range(p) /\ Head(p) \in Artifacts /\ Qualifier(Head(p)) = q
         /\ \A x \in Range(p) : Priority(Head(p)) <= Priority(x)
<1>1. p \in Seq(Artifacts) /\ Len(p) \in Nat /\ 1 \in 1 .. Len(p) /\ Head(p) = p[1]
  BY DEF Ordered
<1>2. Head(p) \in Range(p)
  BY <1>1, RangeIs
<1>3. Head(p) \in Artifacts /\ Qualifier(Head(p)) = q
  BY <1>1 DEF Ordered
<1>4. ASSUME NEW x \in Range(p) PROVE Priority(Head(p)) <= Priority(x)
  <2>1. PICK n \in 1 .. Len(p) : p[n] = x
    BY <1>1, RangeIs
  <2>2. n = 1 \/ 1 < n
    BY <1>1
  <2>3. Priority(p[1]) \in Nat /\ Priority(p[n]) \in Nat
    BY <1>1, PrioritiesAre
  <2>4. 1 < n => Priority(p[1]) < Priority(p[n])
    BY <1>1 DEF Ordered
  <2> QED
    BY <1>1, <2>1, <2>2, <2>3, <2>4
<1> QED
  BY <1>2, <1>3, <1>4

(* A path that is in a list and before whatever is in another, and in it, is *)
(* the head of both.                                                         *)
LEMMA SameHead ==
  ASSUME NEW q, NEW p, Ordered(p, q), p # <<>>, NEW r, Ordered(r, q), r # <<>>,
         Head(p) \in Range(r), Head(r) \in Range(p)
  PROVE  Head(p) = Head(r)
<1>1. Head(p) \in Artifacts /\ Head(r) \in Artifacts /\ Qualifier(Head(p)) = Qualifier(Head(r))
  BY HeadIs
<1>2. Priority(Head(p)) <= Priority(Head(r))
  BY HeadIs
<1>3. Priority(Head(r)) <= Priority(Head(p))
  BY HeadIs
<1>4. Priority(Head(p)) \in Nat /\ Priority(Head(r)) \in Nat
  BY <1>1, PriorityAssumption
<1>5. Priority(Head(r)) = Priority(Head(p))
  BY <1>2, <1>3, <1>4
<1> QED
  BY <1>1, <1>5, PriorityAssumption

(* After a common prefix, the next path of an ordered list is not before   *)
(* the one of a list that has all its paths.                               *)
LEMMA LaterInTheOther ==
  ASSUME NEW q, NEW p, Ordered(p, q), NEW r, Ordered(r, q), Range(p) \subseteq Range(r),
         NEW n \in Nat, n < Len(p), n <= Len(r), \A m \in 1 .. n : p[m] = r[m]
  PROVE  n + 1 <= Len(r) /\ Priority(r[n + 1]) <= Priority(p[n + 1])
<1> DEFINE N == Len(p)
           M == Len(r)
<1>1. N \in Nat /\ M \in Nat /\ p \in Seq(Artifacts) /\ r \in Seq(Artifacts)
  BY DEF Ordered
<1>2. /\ \A k \in 1 .. N : Priority(p[k]) \in Nat
      /\ \A k \in 1 .. M : Priority(r[k]) \in Nat
  BY PrioritiesAre
<1>3. /\ \A i, j \in 1 .. N : i < j => Priority(p[i]) < Priority(p[j])
      /\ \A i, j \in 1 .. M : i < j => Priority(r[i]) < Priority(r[j])
  BY DEF Ordered
<1>4. n < N /\ n <= M
  OBVIOUS
<1>r. \A x : x \in Range(p) <=> \E k \in 1 .. N : p[k] = x
  BY <1>1, RangeIs
<1>s. \A x : x \in Range(r) <=> \E k \in 1 .. M : r[k] = x
  BY <1>1, RangeIs
<1> HIDE DEF N, M
<1>5. n + 1 \in 1 .. N
  BY <1>1, <1>4
<1>6. PICK k \in 1 .. M : r[k] = p[n + 1]
  BY <1>5, <1>r, <1>s
<1>7. ~ (k <= n)
  <2> SUFFICES ASSUME k <= n PROVE FALSE
    OBVIOUS
  <2>1. k \in 1 .. n /\ k \in 1 .. N /\ k < n + 1
    BY <1>1, <1>4
  <2>2. p[k] = p[n + 1] /\ Priority(p[k]) < Priority(p[n + 1])
    BY <1>3, <1>5, <1>6, <2>1
  <2>3. Priority(p[k]) \in Nat
    BY <1>2, <2>1
  <2> QED
    BY <2>2, <2>3
<1>8. n + 1 \in 1 .. M /\ n + 1 <= M /\ (n + 1 = k \/ n + 1 < k)
  BY <1>1, <1>7
<1>9. Priority(r[n + 1]) <= Priority(r[k])
  <2>1. Priority(r[n + 1]) \in Nat /\ Priority(r[k]) \in Nat
    BY <1>2, <1>8
  <2>2. n + 1 < k => Priority(r[n + 1]) < Priority(r[k])
    BY <1>3, <1>8
  <2> QED
    BY <1>8, <2>1, <2>2
<1> QED
  BY <1>6, <1>8, <1>9 DEF M

(* The set of the paths determines the list. *)
LEMMA OneOrder ==
  ASSUME NEW q, NEW p, Ordered(p, q), NEW r, Ordered(r, q), Range(p) = Range(r)
  PROVE  p = r
<1>0. p \in Seq(Artifacts) /\ r \in Seq(Artifacts) /\ Len(p) \in Nat /\ Len(r) \in Nat
  BY DEF Ordered
<1> DEFINE Agree(n) == \A m \in 1 .. n : p[m] = r[m]
           S == {n \in Nat : (n <= Len(p) \/ n <= Len(r)) => n <= Len(p) /\ n <= Len(r) /\ Agree(n)}
<1>1. 0 \in S
  BY <1>0
<1>2. ASSUME NEW n \in Nat, n \in S PROVE n + 1 \in S
  <2> SUFFICES ASSUME n + 1 <= Len(p) \/ n + 1 <= Len(r)
               PROVE  n + 1 <= Len(p) /\ n + 1 <= Len(r) /\ Agree(n + 1)
    OBVIOUS
  <2>1. n <= Len(p) /\ n <= Len(r) /\ Agree(n)
    BY <1>0, <1>2
  <2>2. n + 1 <= Len(p) => n + 1 <= Len(r) /\ Priority(r[n + 1]) <= Priority(p[n + 1])
    <3> SUFFICES ASSUME n + 1 <= Len(p) PROVE n + 1 <= Len(r) /\ Priority(r[n + 1]) <= Priority(p[n + 1])
      OBVIOUS
    <3>1. n < Len(p) /\ Range(p) \subseteq Range(r)
      BY <1>0
    <3> QED
      BY <2>1, <3>1, LaterInTheOther
  <2>3. n + 1 <= Len(r) => n + 1 <= Len(p) /\ Priority(p[n + 1]) <= Priority(r[n + 1])
    <3> SUFFICES ASSUME n + 1 <= Len(r) PROVE n + 1 <= Len(p) /\ Priority(p[n + 1]) <= Priority(r[n + 1])
      OBVIOUS
    <3>1. n < Len(r) /\ Range(r) \subseteq Range(p) /\ \A m \in 1 .. n : r[m] = p[m]
      BY <1>0, <2>1
    <3> QED
      BY <2>1, <3>1, LaterInTheOther
  <2>4. n + 1 \in 1 .. Len(p) /\ n + 1 \in 1 .. Len(r)
    BY <1>0, <2>2, <2>3
  <2>5. Priority(p[n + 1]) \in Nat /\ Priority(r[n + 1]) \in Nat
    BY <2>4, PrioritiesAre
  <2>6. Priority(p[n + 1]) = Priority(r[n + 1])
    BY <1>0, <2>2, <2>3, <2>4, <2>5
  <2>7. r[n + 1] \in Artifacts /\ Qualifier(r[n + 1]) = q
    BY <2>4, PrioritiesAre DEF Ordered
  <2>8. p[n + 1] = r[n + 1]
    BY <2>4, <2>6, <2>7, SamePriority
  <2>9. \A m \in 1 .. n + 1 : m \in 1 .. n \/ m = n + 1
    OBVIOUS
  <2> QED
    BY <1>0, <2>1, <2>4, <2>8, <2>9
<1> HIDE DEF S
<1>3. Len(p) \in S /\ Len(r) \in S
  BY <1>0, <1>1, <1>2, Induction
<1>4. Len(p) = Len(r) /\ Agree(Len(p))
  BY <1>0, <1>3 DEF S
<1>5. DOMAIN p = 1 .. Len(p) /\ DOMAIN r = 1 .. Len(r)
  BY <1>0
<1>6. p = [m \in 1 .. Len(p) |-> p[m]] /\ r = [m \in 1 .. Len(r) |-> r[m]]
  BY <1>0
<1> QED
  BY <1>4, <1>6

(* The range of a list after Append. *)
LEMMA AppendIs ==
  ASSUME NEW T, NEW s \in Seq(T), NEW a \in T
  PROVE  Append(s, a) \in Seq(T) /\ Range(Append(s, a)) = Range(s) \cup {a}
<1> DEFINE t == Append(s, a)
           N == Len(s)
<1>1. N \in Nat /\ t \in Seq(T) /\ Len(t) = N + 1 /\ t[N + 1] = a /\ \A n \in 1 .. N : t[n] = s[n]
  OBVIOUS
<1>r. \A x : x \in Range(s) <=> \E n \in 1 .. N : s[n] = x
  BY RangeIs
<1>s. \A x : x \in Range(t) <=> \E n \in 1 .. N + 1 : t[n] = x
  BY <1>1, RangeIs
<1> HIDE DEF t, N
<1>2. \A n : n \in 1 .. N + 1 <=> n \in 1 .. N \/ n = N + 1
  BY <1>1
<1>3. Range(t) = Range(s) \cup {a}
  BY <1>1, <1>2, <1>r, <1>s
<1> QED
  BY <1>1, <1>3 DEF t

(* Sorted lists the artifacts of the set and no others. *)
LEMMA SortedRange ==
  ASSUME NEW S
  PROVE  Sorted(S) \in Seq(Artifacts) /\ Range(Sorted(S)) = S \cap Artifacts
<1> DEFINE N == Len(ArtifactOrder)
<1>1. ArtifactOrder \in Seq(Artifacts) /\ N \in Nat /\ \A n \in 1 .. N : ArtifactOrder[n] \in Artifacts
  <2>1. ArtifactOrder \in Seq(Artifacts)
    BY ArtifactsAssumption
  <2> QED
    BY <2>1
<1>2. \A x : x \in Artifacts <=> \E n \in 1 .. N : ArtifactOrder[n] = x
  BY <1>1, RangeIs DEF Artifacts
<1>3. PICK g : IsSorting(g, S, N) /\ Sorted(S) = g[N]
  BY <1>1, SortedIs
<1> HIDE DEF N
<1> DEFINE Good(j) == /\ g[j] \in Seq(Artifacts)
                      /\ \A x : x \in Range(g[j]) <=> x \in S /\ \E i \in 1 .. j : ArtifactOrder[i] = x
           I == {j \in Nat : j <= N => Good(j)}
<1>4. 0 \in I
  <2>1. g[0] = <<>> /\ <<>> \in Seq(Artifacts)
    BY <1>3 DEF IsSorting
  <2>2. Range(<<>>) = {} /\ 1 .. 0 = {}
    BY RangeIs, <2>1
  <2> QED
    BY <2>1, <2>2
<1>5. ASSUME NEW j \in Nat, j \in I PROVE j + 1 \in I
  <2> SUFFICES ASSUME j + 1 <= N PROVE Good(j + 1)
    OBVIOUS
  <2>1. Good(j) /\ j + 1 \in 1 .. N /\ (j + 1) - 1 = j
    BY <1>1, <1>5
  <2> DEFINE a == ArtifactOrder[j + 1]
  <2>2. g[j + 1] = Keep(g[j], a, S)
    BY <1>3, <2>1 DEF IsSorting
  <2>3. a \in Artifacts
    BY <1>1, <2>1
  <2>4. \A i : i \in 1 .. j + 1 <=> i \in 1 .. j \/ i = j + 1
    OBVIOUS
  <2> HIDE DEF a
  <2>5. CASE a \in S
    <3>1. g[j + 1] = Append(g[j], a)
      BY <2>2, <2>5 DEF Keep
    <3>2. g[j + 1] \in Seq(Artifacts) /\ Range(g[j + 1]) = Range(g[j]) \cup {a}
      BY <2>1, <2>3, <3>1, AppendIs
    <3> QED
      BY <2>1, <2>4, <2>5, <3>2 DEF a
  <2>6. CASE a \notin S
    <3>1. g[j + 1] = g[j]
      BY <2>2, <2>6 DEF Keep
    <3> QED
      BY <2>1, <2>4, <2>6, <3>1 DEF a
  <2> QED
    BY <2>5, <2>6
<1> HIDE DEF I
<1>6. N \in I
  BY <1>1, <1>4, <1>5, Induction
<1>7. Good(N)
  BY <1>1, <1>6 DEF I
<1> QED
  BY <1>2, <1>3, <1>7

LEMMA EmptyOrdered == ASSUME NEW q PROVE Ordered(<<>>, q) /\ Range(<<>>) = {}
<1>1. <<>> \in Seq(Artifacts) /\ Len(<<>>) = 0
  OBVIOUS
<1>2. Range(<<>>) = {}
  BY <1>1, RangeIs
<1> QED
  BY <1>1, <1>2 DEF Ordered

(* A new server lists the files that exist, each once, by priority. *)
LEMMA PathsOfAre ==
  ASSUME NEW q
  PROVE  /\ Ordered(PathsOf(q), q)
         /\ Range(PathsOf(q)) = {a \in Artifacts : Qualifier(a) = q /\ Exists(a)}
<1> DEFINE s == Present(q)
           N == Len(s)
<1>1. s \in Seq(Artifacts) /\ Range(s) = {a \in Artifacts : Qualifier(a) = q /\ Exists(a)}
  BY SortedRange DEF Present
<1>2. N \in Nat
  BY <1>1
<1>3. \A x : x \in Range(s) <=> \E n \in 1 .. N : s[n] = x
  BY <1>1, RangeIs
<1>4. PICK g : IsInserting(g, s, N) /\ PathsOf(q) = g[N]
  BY <1>1, PathsOfIs
<1> HIDE DEF s, N
<1> DEFINE Good(j) == Ordered(g[j], q) /\ \A x : x \in Range(g[j]) <=> \E i \in 1 .. j : s[i] = x
           I == {j \in Nat : j <= N => Good(j)}
<1>5. 0 \in I
  <2>1. g[0] = <<>>
    BY <1>4 DEF IsInserting
  <2> QED
    BY <2>1, EmptyOrdered
<1>6. ASSUME NEW j \in Nat, j \in I PROVE j + 1 \in I
  <2> SUFFICES ASSUME j + 1 <= N PROVE Good(j + 1)
    OBVIOUS
  <2>1. Good(j) /\ j + 1 \in 1 .. N /\ (j + 1) - 1 = j
    BY <1>2, <1>6
  <2>2. g[j + 1] = insert_module_path(s[j + 1], g[j])
    BY <1>4, <2>1 DEF IsInserting
  <2>3. s[j + 1] \in Artifacts /\ Qualifier(s[j + 1]) = q
    BY <1>1, <1>3, <2>1
  <2>4. Ordered(g[j + 1], q) /\ Range(g[j + 1]) = Range(g[j]) \cup {s[j + 1]}
    BY <2>1, <2>2, <2>3, InsertIs
  <2>5. \A i : i \in 1 .. j + 1 <=> i \in 1 .. j \/ i = j + 1
    OBVIOUS
  <2> QED
    BY <2>1, <2>4, <2>5
<1> HIDE DEF I
<1>7. N \in I
  BY <1>2, <1>5, <1>6, Induction
<1>8. Good(N)
  BY <1>2, <1>7 DEF I
<1>9. \A x : x \in Range(PathsOf(q)) <=> x \in Range(s)
  BY <1>3, <1>4, <1>8
<1> QED
  BY <1>1, <1>4, <1>8, <1>9

(***************************************************************************)
(* A batch of artifact events: what is created, then what is deleted       *)
(***************************************************************************)
EventKinds == {"CreatedOrChanged", "Deleted"}

(* The paths of the first j events of a kind *)
Done(seq, j, kind) == {seq[i].path : i \in {k \in 1 .. j : seq[k].kind = kind}}

IsBatch(seq, C, D) ==
  /\ seq \in Seq([kind : EventKinds, path : Artifacts])
  /\ \A i, j \in 1 .. Len(seq) : i < j /\ seq[j].kind = "CreatedOrChanged" => seq[i].kind = "CreatedOrChanged"
  /\ Done(seq, Len(seq), "CreatedOrChanged") = C
  /\ Done(seq, Len(seq), "Deleted") = D

Created == {a \in Artifacts : Event("CreatedOrChanged", a) \in ArtifactEvents}
Removed == {a \in Artifacts : Event("Deleted", a) \in ArtifactEvents}
EventsTyped == ArtifactEvents \subseteq [kind : EventKinds, path : Artifacts]

(* The events of one kind. *)
LEMMA BatchIs ==
  ASSUME EventsTyped, NEW kind \in EventKinds
  PROVE  /\ Batch(kind) \in Seq([kind : EventKinds, path : Artifacts])
         /\ \A n \in 1 .. Len(Batch(kind)) : Batch(kind)[n].kind = kind
         /\ \A a : (\E n \in 1 .. Len(Batch(kind)) : Batch(kind)[n].path = a)
                     <=> a \in Artifacts /\ Event(kind, a) \in ArtifactEvents
<1> DEFINE P == {e.path : e \in {x \in ArtifactEvents : x.kind = kind}}
           s == Sorted(P)
           N == Len(s)
           b == [n \in 1 .. N |-> Event(kind, s[n])]
<1>1. s \in Seq(Artifacts) /\ Range(s) = P \cap Artifacts
  BY SortedRange
<1>2. N \in Nat /\ DOMAIN s = 1 .. N /\ \A n \in 1 .. N : s[n] \in Artifacts
  <2>1. s \in Seq(Artifacts)
    BY <1>1
  <2> HIDE DEF s
  <2> QED
    BY <2>1
<1>3. Batch(kind) = b
  BY <1>2 DEF Batch
<1>4. \A a : a \in P <=> Event(kind, a) \in ArtifactEvents
  <2>1. ASSUME NEW a, a \in P PROVE Event(kind, a) \in ArtifactEvents
    <3>1. PICK e \in ArtifactEvents : e.kind = kind /\ e.path = a
      BY <2>1
    <3>2. e = Event(kind, a)
      BY <3>1 DEF EventsTyped, Event
    <3> QED
      BY <3>2
  <2>2. ASSUME NEW a, Event(kind, a) \in ArtifactEvents PROVE a \in P
    <3>1. Event(kind, a).kind = kind /\ Event(kind, a).path = a
      BY DEF Event
    <3> QED
      BY <2>2, <3>1
  <2> QED
    BY <2>1, <2>2
<1>5. \A x : x \in Range(s) <=> \E n \in 1 .. N : s[n] = x
  BY <1>1, RangeIs
<1> HIDE DEF s, N, P
<1>6. b \in Seq([kind : EventKinds, path : Artifacts]) /\ Len(b) = N
  <2>1. \A n \in 1 .. N : Event(kind, s[n]) \in [kind : EventKinds, path : Artifacts]
    BY <1>2 DEF Event
  <2> QED
    BY <1>2, <2>1
<1>7. \A n \in 1 .. N : b[n].kind = kind /\ b[n].path = s[n]
  BY DEF Event
<1> HIDE DEF b
<1>8. ASSUME NEW a
      PROVE  (\E n \in 1 .. N : b[n].path = a) <=> a \in Artifacts /\ Event(kind, a) \in ArtifactEvents
  BY <1>1, <1>4, <1>5, <1>7
<1> QED
  BY <1>3, <1>6, <1>7, <1>8

(* The batch has the artifact events, the created ones before the deleted  *)
(* ones.                                                                   *)
LEMMA DedupIs ==
  ASSUME EventsTyped
  PROVE  IsBatch(dedup_and_sort, Created, Removed)
<1> DEFINE T == [kind : EventKinds, path : Artifacts]
           b == Batch("CreatedOrChanged")
           d == Batch("Deleted")
           s == b \o d
           N == Len(b)
           M == Len(d)
<1>1. b \in Seq(T) /\ d \in Seq(T)
  BY BatchIs DEF EventKinds
<1>2. N \in Nat /\ M \in Nat /\ s \in Seq(T) /\ Len(s) = N + M
  BY <1>1
<1>3. \A n \in 1 .. N : s[n] = b[n]
  BY <1>1
<1>4. \A n \in 1 .. M : s[N + n] = d[n]
  BY <1>1
<1>5. \A n \in 1 .. N : b[n].kind = "CreatedOrChanged"
  BY BatchIs DEF EventKinds
<1>6. \A n \in 1 .. M : d[n].kind = "Deleted"
  BY BatchIs DEF EventKinds
<1>7. \A a : (\E n \in 1 .. N : b[n].path = a) <=> a \in Created
  BY BatchIs DEF EventKinds, Created
<1>8. \A a : (\E n \in 1 .. M : d[n].path = a) <=> a \in Removed
  BY BatchIs DEF EventKinds, Removed
<1>9. dedup_and_sort = s
  BY DEF dedup_and_sort
<1> HIDE DEF T, b, d, s, N, M
<1>10. \A n \in 1 .. N + M : n \in 1 .. N \/ (n - N \in 1 .. M /\ n = N + (n - N))
  BY <1>2
<1>11. \A n \in 1 .. N + M : s[n].kind = "CreatedOrChanged" <=> n \in 1 .. N
  <2> SUFFICES ASSUME NEW n \in 1 .. N + M PROVE s[n].kind = "CreatedOrChanged" <=> n \in 1 .. N
    OBVIOUS
  <2>1. CASE n \in 1 .. N
    BY <1>3, <1>5, <2>1
  <2>2. CASE n \notin 1 .. N
    <3>1. n - N \in 1 .. M /\ n = N + (n - N)
      BY <1>10, <2>2
    <3>2. s[n] = d[n - N]
      BY <1>4, <3>1
    <3>3. s[n].kind = "Deleted"
      BY <1>6, <3>1, <3>2
    <3> QED
      BY <2>2, <3>3
  <2> QED
    BY <2>1, <2>2
<1>12. \A n \in 1 .. N + M : s[n].kind = "Deleted" <=> n \notin 1 .. N
  <2> SUFFICES ASSUME NEW n \in 1 .. N + M PROVE s[n].kind = "Deleted" <=> n \notin 1 .. N
    OBVIOUS
  <2>1. CASE n \in 1 .. N
    <3>1. s[n].kind = "CreatedOrChanged"
      BY <1>11, <2>1
    <3> QED
      BY <2>1, <3>1
  <2>2. CASE n \notin 1 .. N
    <3>1. n - N \in 1 .. M /\ n = N + (n - N)
      BY <1>10, <2>2
    <3>2. s[n] = d[n - N]
      BY <1>4, <3>1
    <3> QED
      BY <1>6, <2>2, <3>1, <3>2
  <2> QED
    BY <2>1, <2>2
<1>13. ASSUME NEW i \in 1 .. N + M, NEW j \in 1 .. N + M, i < j, s[j].kind = "CreatedOrChanged"
       PROVE  s[i].kind = "CreatedOrChanged"
  <2>1. j \in 1 .. N
    BY <1>11, <1>13
  <2>2. i \in 1 .. N
    BY <1>2, <1>13, <2>1
  <2> QED
    BY <1>11, <2>2
<1>14. Done(s, N + M, "CreatedOrChanged") = Created
  <2>1. ASSUME NEW a \in Done(s, N + M, "CreatedOrChanged") PROVE a \in Created
    <3>1. PICK n \in 1 .. N + M : s[n].kind = "CreatedOrChanged" /\ s[n].path = a
      BY DEF Done
    <3>2. n \in 1 .. N
      BY <1>11, <3>1
    <3> QED
      BY <1>3, <1>7, <3>1, <3>2
  <2>2. ASSUME NEW a \in Created PROVE a \in Done(s, N + M, "CreatedOrChanged")
    <3>1. PICK n \in 1 .. N : b[n].path = a
      BY <1>7
    <3>2. n \in 1 .. N + M
      BY <1>2
    <3>3. s[n].path = a /\ s[n].kind = "CreatedOrChanged"
      BY <1>3, <1>11, <3>1, <3>2
    <3> QED
      BY <3>2, <3>3 DEF Done
  <2> QED
    BY <2>1, <2>2
<1>15. Done(s, N + M, "Deleted") = Removed
  <2>1. ASSUME NEW a \in Done(s, N + M, "Deleted") PROVE a \in Removed
    <3>1. PICK n \in 1 .. N + M : s[n].kind = "Deleted" /\ s[n].path = a
      BY DEF Done
    <3>2. n \notin 1 .. N
      BY <1>12, <3>1
    <3>3. n - N \in 1 .. M /\ n = N + (n - N)
      BY <1>10, <3>2
    <3>4. d[n - N].path = a
      BY <1>4, <3>1, <3>3
    <3> QED
      BY <1>8, <3>3, <3>4
  <2>2. ASSUME NEW a \in Removed PROVE a \in Done(s, N + M, "Deleted")
    <3>1. PICK n \in 1 .. M : d[n].path = a
      BY <1>8
    <3>2. N + n \in 1 .. N + M /\ N + n \notin 1 .. N
      BY <1>2
    <3>3. s[N + n].path = a /\ s[N + n].kind = "Deleted"
      BY <1>4, <1>12, <3>1, <3>2
    <3> QED
      BY <3>2, <3>3 DEF Done
  <2> QED
    BY <2>1, <2>2
<1> QED
  BY <1>2, <1>9, <1>13, <1>14, <1>15 DEF IsBatch, T

(* What merge_updates makes of two updates, as far as a batch needs it. *)
LEMMA MergeIs ==
  ASSUME NEW x, NEW y
  PROVE  /\ \A u : merge(u, None) = u
         /\ \A k \in {"New", "Changed", "Delete"} :
              /\ merge(None, Update(k, y)) = Update(k, y)
              /\ merge(IllegalState, Update(k, y)) = IllegalState
         /\ merge(Update("New", x), Update("Changed", y)) = Update("New", y)
         /\ merge(Update("Changed", x), Update("Changed", y)) = Update("Changed", y)
         /\ merge(Update("Changed", x), Update("Delete", y)) = Update("Delete", y)
         /\ merge(Update("New", x), Update("Delete", y)) = IllegalState
<1>1. \A k \in {"New", "Changed", "Delete"} : \A z :
        /\ Update(k, z) # None /\ Update(k, z) # IllegalState
        /\ Update(k, z).kind = k /\ Update(k, z).path = z
  <2> SUFFICES ASSUME NEW k \in {"New", "Changed", "Delete"}, NEW z
               PROVE  /\ Update(k, z) # None /\ Update(k, z) # IllegalState
                      /\ Update(k, z).kind = k /\ Update(k, z).path = z
    OBVIOUS
  <2>1. Update(k, z).kind = k /\ Update(k, z).path = z
    BY DEF Update
  <2>2. None.kind = "None" /\ IllegalState.kind = "Illegal"
    BY DEF None, IllegalState
  <2>3. k # "None" /\ k # "Illegal"
    OBVIOUS
  <2> QED
    BY <2>1, <2>2, <2>3
<1>2. None # IllegalState /\ None.kind = "None" /\ IllegalState.kind = "Illegal"
  <2>1. None.kind = "None" /\ IllegalState.kind = "Illegal"
    BY DEF None, IllegalState
  <2> QED
    BY <2>1
<1>3. ASSUME NEW u PROVE merge(u, None) = u
  BY <1>2 DEF merge
<1>4. ASSUME NEW k \in {"New", "Changed", "Delete"}
      PROVE  /\ merge(None, Update(k, y)) = Update(k, y)
             /\ merge(IllegalState, Update(k, y)) = IllegalState
  <2> DEFINE w == Update(k, y)
  <2>1. w # None
    BY <1>1
  <2> HIDE DEF w
  <2>2. merge(None, w) = w
    BY <1>2, <2>1 DEF merge
  <2>3. merge(IllegalState, w) = IllegalState
    BY <1>2, <2>1 DEF merge
  <2> QED
    BY <2>2, <2>3 DEF w
<1>5. ASSUME NEW b \in {"New", "Changed"}, NEW k \in {"Changed", "Delete"}
      PROVE  merge(Update(b, x), Update(k, y))
               = CASE k = "Changed" /\ b = "Changed" -> Update(k, y)
                   [] k = "Changed" /\ b = "New" -> Update("New", y)
                   [] k = "Delete" /\ b = "Changed" -> Update(k, y)
                   [] OTHER -> IllegalState
  <2>1. /\ Update(b, x) # None /\ Update(b, x) # IllegalState /\ Update(k, y) # None
        /\ Update(b, x).kind = b /\ Update(k, y).kind = k /\ Update(k, y).path = y
    BY <1>1
  <2> DEFINE v == Update(b, x)
             w == Update(k, y)
  <2> HIDE DEF v, w
  <2>2. v # None /\ v # IllegalState /\ w # None /\ v.kind = b /\ w.kind = k /\ w.path = y
    BY <2>1 DEF v, w
  <2>3. merge(v, w) = CASE k = "Changed" /\ b = "Changed" -> w
                        [] k = "Changed" /\ b = "New" -> Update("New", y)
                        [] k = "Delete" /\ b = "Changed" -> w
                        [] OTHER -> IllegalState
    BY <2>2 DEF merge
  <2> QED
    BY <2>3 DEF v, w
<1> QED
  BY <1>3, <1>4, <1>5

(***************************************************************************)
(* What the events of a batch have done to one module: C are its paths     *)
(* that were created or changed, D those that were deleted                 *)
(***************************************************************************)
PathSet(p) == IF p = NULL THEN {} ELSE Range(p)
IsPaths(p, q) == p = NULL \/ Ordered(p, q)

Illegal(u, C, D) == u = IllegalState /\ C \cap D # {}
Same(p0, p, u, C, D) ==
  /\ u = None
  /\ PathSet(p) = {} <=> PathSet(p0) = {}
  /\ PathSet(p) # {} => Head(p) = Head(p0) /\ Head(p) \notin D /\ (Head(p) \in C => Outdated(Head(p)))
New(p0, p, u) == u = Update("New", Head(p)) /\ PathSet(p) # {} /\ p0 = NULL
Changed(p, u) == u = Update("Changed", Head(p)) /\ PathSet(p) # {}
Deleted(p, u, D) == u = Update("Delete", NULL) /\ PathSet(p) = {} /\ D # {}

ModuleInv(q, p0, p, u, C, D) ==
  /\ IsPaths(p0, q) /\ IsPaths(p, q)
  /\ p = NULL => p0 = NULL
  /\ PathSet(p) = (PathSet(p0) \cup C) \ D
  /\ Illegal(u, C, D) \/ Same(p0, p, u, C, D) \/ New(p0, p, u) \/ Changed(p, u) \/ Deleted(p, u, D)

LEMMA PathSetIs ==
  ASSUME NEW p, NEW q, Ordered(p, q)
  PROVE  p # NULL /\ PathSet(p) = Range(p) /\ (p = <<>> <=> Range(p) = {})
<1>1. p \in Seq(Artifacts)
  BY DEF Ordered
<1>2. p # NULL
  BY <1>1, ArtifactsAssumption
<1> QED
  BY <1>1, <1>2, RangeIs DEF PathSet

(* A list of one path. *)
LEMMA OnePath ==
  ASSUME NEW q, NEW a \in Artifacts, Qualifier(a) = q
  PROVE  Ordered(<<a>>, q) /\ Range(<<a>>) = {a} /\ Head(<<a>>) = a
<1>1. <<a>> \in Seq(Artifacts) /\ Len(<<a>>) = 1 /\ <<a>>[1] = a /\ Head(<<a>>) = a
  OBVIOUS
<1>2. \A n : n \in 1 .. 1 <=> n = 1
  OBVIOUS
<1> DEFINE s == <<a>>
<1>3. Range(s) = {a}
  <2>1. s \in Seq(Artifacts) /\ Len(s) = 1 /\ s[1] = a
    BY <1>1
  <2> HIDE DEF s
  <2>2. \A x : x \in Range(s) <=> \E n \in 1 .. 1 : s[n] = x
    BY <2>1, RangeIs
  <2> QED
    BY <1>2, <2>1, <2>2
<1>4. \A m, n \in 1 .. 1 : ~ (m < n)
  OBVIOUS
<1> QED
  BY <1>1, <1>2, <1>3, <1>4 DEF Ordered

(* An event that a path was created or changed keeps ModuleInv.  k are the *)
(* fields kept so far: a path that the module had before the batch has the *)
(* one it had.                                                             *)
LEMMA CreateStep ==
  ASSUME NEW q, NEW p0, NEW p, NEW u, NEW C, ModuleInv(q, p0, p, u, C, {}),
         NEW a \in Artifacts, Qualifier(a) = q,
         NEW k, k = [x \in Artifacts |-> k[x]], a \in PathSet(p0) => k[a] = checked[a]
  PROVE  ModuleInv(q, p0, ProcessNewOrChanged(p, k, a).paths,
                   merge(u, ProcessNewOrChanged(p, k, a).update), C \cup {a}, {})
<1> DEFINE r == ProcessNewOrChanged(p, k, a)
           n == r.paths
           v == merge(u, r.update)
<1>0. /\ IsPaths(p0, q) /\ IsPaths(p, q) /\ (p = NULL => p0 = NULL)
      /\ PathSet(p) = PathSet(p0) \cup C
      /\ Same(p0, p, u, C, {}) \/ New(p0, p, u) \/ Changed(p, u)
  BY DEF ModuleInv, Illegal, Deleted
<1>1. CASE p = NULL
  <2>1. r = [paths |-> <<a>>, flags |-> [k EXCEPT ![a] = should_type_check(a)], update |-> Update("New", a)]
    BY <1>1 DEF ProcessNewOrChanged
  <2>2. n = <<a>> /\ r.update = Update("New", a)
    BY <2>1
  <2>3. PathSet(p) = {} /\ p0 = NULL /\ u = None
    BY <1>0, <1>1 DEF PathSet, Same, New, Changed
  <2> HIDE DEF r
  <2>4. v = Update("New", a)
    BY <2>2, <2>3, MergeIs
  <2>5. Ordered(n, q) /\ PathSet(n) = {a} /\ Head(n) = a /\ n # NULL
    BY <2>2, OnePath, PathSetIs
  <2>6. PathSet(p0) \cup C = {}
    BY <1>0, <2>3
  <2>7. New(p0, n, v)
    BY <2>3, <2>4, <2>5 DEF New
  <2>8. PathSet(n) = (PathSet(p0) \cup (C \cup {a})) \ {}
    BY <2>5, <2>6
  <2> QED
    BY <1>0, <2>5, <2>7, <2>8 DEF ModuleInv, IsPaths, r
<1>2. CASE p # NULL
  <2> DEFINE new == insert_module_path(a, p)
             kept == insert_should_type_check(a, p, k)
  <2>1. Ordered(p, q) /\ PathSet(p) = Range(p) /\ (p = <<>> <=> Range(p) = {})
    BY <1>0, <1>2, PathSetIs DEF IsPaths
  <2>2. Ordered(new, q) /\ Range(new) = Range(p) \cup {a}
    BY <2>1, InsertIs
  <2>3. new # NULL /\ PathSet(new) = Range(new) /\ new # <<>>
    BY <2>2, PathSetIs
  <2>4. r = [paths |-> new, flags |-> kept,
             update |-> IF Head(new) = a /\ kept[a] = should_type_check(a) THEN Update("Changed", a) ELSE None]
    BY <1>2 DEF ProcessNewOrChanged
  <2>5. n = new /\ r.update = IF Head(new) = a /\ kept[a] = should_type_check(a) THEN Update("Changed", a) ELSE None
    BY <2>4
  <2>k. kept[a] # should_type_check(a) => a \in Range(p) /\ kept[a] = k[a] /\ new = p
    BY DEF insert_should_type_check, insert_module_path
  <2> HIDE DEF r, new, kept
  <2>6. PathSet(new) = (PathSet(p0) \cup (C \cup {a})) \ {} /\ PathSet(new) # {}
    BY <1>0, <2>1, <2>2, <2>3
  <2>7. CASE Head(new) = a /\ kept[a] = should_type_check(a)
    <3>1. r.update = Update("Changed", a)
      BY <2>5, <2>7
    <3>2. u = None \/ (u = Update("New", Head(p)) /\ p0 = NULL) \/ u = Update("Changed", Head(p))
      BY <1>0 DEF Same, New, Changed
    <3>3. v = Update("Changed", a) \/ (v = Update("New", a) /\ p0 = NULL)
      BY <3>1, <3>2, MergeIs
    <3> HIDE DEF v
    <3>4. Changed(new, v) \/ New(p0, new, v)
      BY <2>6, <2>7, <3>3 DEF Changed, New
    <3> QED
      BY <1>0, <2>2, <2>3, <2>5, <2>6, <3>4 DEF ModuleInv, IsPaths, r, v
  <2>8. CASE ~ (Head(new) = a /\ kept[a] = should_type_check(a))
    <3>0. r.update = None
      BY <2>5, <2>8
    <3>1. v = u
      BY <3>0, MergeIs
    <3>2. Head(new) \in Range(new)
      BY <2>2, <2>3, HeadIs
    <3>3. Head(new) \in Range(p) /\ p # <<>>
      BY <2>1, <2>2, <2>8, <2>k, <3>2
    <3>4. Head(p) \in Range(new)
      BY <2>1, <2>2, <3>3, HeadIs
    <3>5. Head(new) = Head(p)
      BY <2>1, <2>2, <2>3, <3>3, <3>4, SameHead
    <3> HIDE DEF v
    <3>6. Same(p0, new, v, C \cup {a}, {}) \/ New(p0, new, v) \/ Changed(new, v)
      <4>1. CASE Same(p0, p, u, C, {})
        <5>1. /\ PathSet(p) # {} /\ PathSet(p0) # {} /\ Head(p) = Head(p0) /\ u = None
              /\ Head(p) \in C => Outdated(Head(p))
          BY <2>1, <3>3, <4>1 DEF Same
        <5>2. p0 # NULL /\ Head(p0) \in PathSet(p0)
          <6>1. p0 # NULL
            BY <5>1 DEF PathSet
          <6>2. Ordered(p0, q)
            BY <1>0, <6>1 DEF IsPaths
          <6>3. PathSet(p0) = Range(p0) /\ p0 # <<>>
            BY <5>1, <6>2, PathSetIs
          <6> QED
            BY <6>1, <6>2, <6>3, HeadIs
        <5>3. ASSUME Head(new) = a PROVE Outdated(a)
          <6>1. kept[a] # should_type_check(a) /\ kept[a] = k[a]
            BY <2>8, <2>k, <5>3
          <6>2. a \in PathSet(p0)
            BY <3>5, <5>1, <5>2, <5>3
          <6> QED
            BY <6>1, <6>2 DEF Outdated
        <5>4. Same(p0, new, v, C \cup {a}, {})
          BY <2>6, <3>1, <3>5, <5>1, <5>3 DEF Same
        <5> QED
          BY <5>4
      <4>2. CASE New(p0, p, u)
        BY <2>6, <3>1, <3>5, <4>2 DEF New
      <4>3. CASE Changed(p, u)
        BY <2>6, <3>1, <3>5, <4>3 DEF Changed
      <4> QED
        BY <1>0, <4>1, <4>2, <4>3
    <3> QED
      BY <1>0, <2>2, <2>3, <2>5, <2>6, <3>6 DEF ModuleInv, IsPaths, r, v
  <2> QED
    BY <2>7, <2>8
<1> QED
  BY <1>1, <1>2

(* An event that a path was deleted keeps ModuleInv: no more are created. *)
LEMMA RemoveStep ==
  ASSUME NEW q, NEW p0, NEW p, NEW u, NEW C, NEW D, ModuleInv(q, p0, p, u, C, D),
         NEW a \in Artifacts, Qualifier(a) = q
  PROVE  ModuleInv(q, p0, ProcessRemove(p, a).paths,
                   merge(u, ProcessRemove(p, a).update), C, D \cup {a})
<1> DEFINE r == ProcessRemove(p, a)
           n == r.paths
           v == merge(u, r.update)
           E == D \cup {a}
<1>0. /\ IsPaths(p0, q) /\ IsPaths(p, q) /\ (p = NULL => p0 = NULL)
      /\ PathSet(p) = (PathSet(p0) \cup C) \ D
      /\ Illegal(u, C, D) \/ Same(p0, p, u, C, D) \/ New(p0, p, u) \/ Changed(p, u) \/ Deleted(p, u, D)
  BY DEF ModuleInv
<1>e. E # {} /\ (C \cap D # {} => C \cap E # {})
  OBVIOUS
<1>1. CASE p = NULL \/ p = <<>>
  <2>1. r = [paths |-> p, update |-> None]
    BY <1>1 DEF ProcessRemove
  <2>2. n = p /\ r.update = None
    BY <2>1
  <2> HIDE DEF r
  <2>3. v = u
    BY <2>2, MergeIs
  <2>4. PathSet(p) = {}
    BY <1>0, <1>1, EmptyOrdered, PathSetIs DEF PathSet
  <2>5. PathSet(p) = (PathSet(p0) \cup C) \ E
    BY <1>0, <2>4
  <2> HIDE DEF v, n
  <2>6. Illegal(v, C, E) \/ Same(p0, p, v, C, E) \/ Deleted(p, v, E)
    BY <1>0, <1>e, <2>3, <2>4 DEF Illegal, Same, New, Changed, Deleted
  <2> QED
    BY <1>0, <2>2, <2>5, <2>6 DEF ModuleInv, n, r, v
<1>2. CASE p # NULL /\ p # <<>>
  <2> DEFINE new == remove_module_path(a, p)
  <2>1. Ordered(p, q) /\ PathSet(p) = Range(p) /\ Range(p) # {}
    BY <1>0, <1>2, PathSetIs DEF IsPaths
  <2>2. Ordered(new, q) /\ Range(new) = Range(p) \ {a}
    BY <2>1, RemoveIs
  <2>3. new # NULL /\ PathSet(new) = Range(new) /\ (new = <<>> <=> Range(new) = {})
    BY <2>2, PathSetIs
  <2> DEFINE w == CASE new = <<>> -> Update("Delete", NULL)
                    [] new # <<>> /\ Head(new) = Head(p) -> None
                    [] OTHER -> Update("Changed", Head(new))
  <2>4. r = [paths |-> new, update |-> w]
    BY <1>2 DEF ProcessRemove
  <2>5. n = new /\ r.update = w
    BY <2>4
  <2> HIDE DEF r, new
  <2>6. PathSet(new) = (PathSet(p0) \cup C) \ E
    BY <1>0, <2>1, <2>2, <2>3
  <2>n. Illegal(u, C, D) \/ Same(p0, p, u, C, D) \/ New(p0, p, u) \/ Changed(p, u)
    BY <1>0, <2>1 DEF Deleted
  <2>7. Illegal(v, C, E) \/ Same(p0, new, v, C, E) \/ New(p0, new, v) \/ Changed(new, v) \/ Deleted(new, v, E)
    <3>1. CASE new = <<>>
      <4>1. r.update = Update("Delete", NULL)
        BY <2>5, <3>1
      <4>2. PathSet(new) = {}
        BY <2>3, <3>1
      <4>3. CASE Illegal(u, C, D)
        <5>1. v = IllegalState
          BY <4>1, <4>3, MergeIs DEF Illegal
        <5> QED
          BY <1>e, <4>3, <5>1 DEF Illegal
      <4>4. CASE u = None \/ Changed(p, u)
        <5>1. v = Update("Delete", NULL)
          BY <4>1, <4>4, MergeIs DEF Changed
        <5> QED
          BY <1>e, <4>2, <5>1 DEF Deleted
      <4>5. CASE New(p0, p, u)
        <5>1. v = IllegalState
          BY <4>1, <4>5, MergeIs DEF New
        <5>2. PathSet(p0) = {} /\ PathSet(p) # {}
          BY <4>5 DEF New, PathSet
        <5>3. C \cap E # {}
          BY <1>0, <2>6, <4>2, <5>2
        <5> QED
          BY <5>1, <5>3 DEF Illegal
      <4> QED
        BY <2>n, <4>3, <4>4, <4>5 DEF Same
    <3>2. CASE new # <<>> /\ Head(new) = Head(p)
      <4>1. r.update = None
        BY <2>5, <3>2
      <4>2. v = u
        BY <4>1, MergeIs
      <4> HIDE DEF v
      <4>3. PathSet(new) # {} /\ Head(new) # a
        BY <2>2, <2>3, <3>2, HeadIs
      <4>4. CASE Illegal(u, C, D)
        BY <1>e, <4>2, <4>4 DEF Illegal
      <4>5. CASE Same(p0, p, u, C, D)
        <5>1. /\ PathSet(p0) # {} /\ Head(p) = Head(p0) /\ Head(p) \notin D /\ u = None
              /\ Head(p) \in C => Outdated(Head(p))
          BY <2>1, <4>5 DEF Same
        <5>2. Head(new) \notin E
          BY <3>2, <4>3, <5>1
        <5> HIDE DEF E
        <5>3. Same(p0, new, v, C, E)
          BY <3>2, <4>2, <4>3, <5>1, <5>2 DEF Same
        <5> QED
          BY <5>3
      <4>6. CASE New(p0, p, u)
        BY <3>2, <4>2, <4>3, <4>6 DEF New
      <4>7. CASE Changed(p, u)
        BY <3>2, <4>2, <4>3, <4>7 DEF Changed
      <4> QED
        BY <2>n, <4>4, <4>5, <4>6, <4>7
    <3>3. CASE new # <<>> /\ Head(new) # Head(p)
      <4>1. r.update = Update("Changed", Head(new))
        BY <2>5, <3>3
      <4>2. PathSet(new) # {}
        BY <2>3, <3>3
      <4>3. CASE Illegal(u, C, D)
        <5>1. v = IllegalState
          BY <4>1, <4>3, MergeIs DEF Illegal
        <5> QED
          BY <1>e, <4>3, <5>1 DEF Illegal
      <4>4. CASE u = None \/ Changed(p, u)
        <5>1. v = Update("Changed", Head(new))
          BY <4>1, <4>4, MergeIs DEF Changed
        <5> QED
          BY <4>2, <5>1 DEF Changed
      <4>5. CASE New(p0, p, u)
        <5>1. v = Update("New", Head(new))
          BY <4>1, <4>5, MergeIs DEF New
        <5> QED
          BY <4>2, <4>5, <5>1 DEF New
      <4> QED
        BY <2>n, <4>3, <4>4, <4>5 DEF Same
    <3> QED
      BY <3>1, <3>2, <3>3
  <2> HIDE DEF E, v
  <2> QED
    BY <1>0, <2>2, <2>3, <2>5, <2>6, <2>7 DEF ModuleInv, IsPaths, r, v, E
<1> QED
  BY <1>1, <1>2

(* One more event is done. *)
LEMMA DoneStep ==
  ASSUME NEW C, NEW D, NEW seq, IsBatch(seq, C, D), NEW j \in Nat, j + 1 <= Len(seq)
  PROVE  LET e == seq[j + 1]
         IN /\ e \in [kind : EventKinds, path : Artifacts]
            /\ \A k : Done(seq, j + 1, k) = Done(seq, j, k) \cup {a \in {e.path} : e.kind = k}
            /\ e.kind = "CreatedOrChanged" => Done(seq, j, "Deleted") = {}
<1> DEFINE e == seq[j + 1]
           N == Len(seq)
<1>1. seq \in Seq([kind : EventKinds, path : Artifacts])
  BY DEF IsBatch
<1>2. N \in Nat /\ j + 1 \in 1 .. N
  BY <1>1
<1>3. e \in [kind : EventKinds, path : Artifacts]
  <2> DEFINE T == [kind : EventKinds, path : Artifacts]
  <2>1. seq \in Seq(T)
    BY <1>1
  <2> HIDE DEF T
  <2>2. e \in T
    BY <1>2, <2>1
  <2> QED
    BY <2>2 DEF T
<1>4. \A i, k \in 1 .. N : i < k /\ seq[k].kind = "CreatedOrChanged" => seq[i].kind = "CreatedOrChanged"
  BY DEF IsBatch
<1> HIDE DEF N
<1>5. \A i : i \in 1 .. j + 1 <=> i \in 1 .. j \/ i = j + 1
  OBVIOUS
<1>6. ASSUME NEW k PROVE Done(seq, j + 1, k) = Done(seq, j, k) \cup {a \in {e.path} : e.kind = k}
  <2>1. ASSUME NEW a PROVE a \in Done(seq, j + 1, k) <=> a \in Done(seq, j, k) \/ (a = e.path /\ e.kind = k)
    <3>1. a \in Done(seq, j + 1, k) <=> \E i \in 1 .. j + 1 : seq[i].kind = k /\ seq[i].path = a
      BY DEF Done
    <3>2. a \in Done(seq, j, k) <=> \E i \in 1 .. j : seq[i].kind = k /\ seq[i].path = a
      BY DEF Done
    <3> QED
      BY <1>5, <3>1, <3>2
  <2> QED
    BY <2>1
<1>7. ASSUME e.kind = "CreatedOrChanged", NEW a \in Done(seq, j, "Deleted") PROVE FALSE
  <2>1. PICK i \in 1 .. j : seq[i].kind = "Deleted"
    BY <1>7 DEF Done
  <2>2. i \in 1 .. N /\ i < j + 1
    BY <1>2
  <2>3. seq[i].kind = "CreatedOrChanged"
    BY <1>2, <1>4, <1>7, <2>2
  <2> QED
    BY <2>1, <2>3
<1> QED
  BY <1>3, <1>6, <1>7

Of(S, q) == {a \in S : Qualifier(a) = q}
In(S, q) == {a \in S : Parent(a) = q}

BatchInv(st, C, D) ==
  /\ st.paths = [q \in Qualifiers |-> st.paths[q]]
  /\ st.updates = [q \in Qualifiers |-> st.updates[q]]
  /\ st.flags = [a \in Artifacts |-> IF a \in C /\ a \notin PathSet(explicit[Qualifier(a)])
                                    THEN should_type_check(a) ELSE checked[a]]
  /\ \A q \in Qualifiers : ModuleInv(q, explicit[q], st.paths[q], st.updates[q], Of(C, q), Of(D, q))

(* process_module_path_update disturbs the module of its event only. *)
LEMMA BatchStep ==
  ASSUME NEW st, NEW C, NEW D, BatchInv(st, C, D), NEW e \in [kind : EventKinds, path : Artifacts],
         e.kind = "CreatedOrChanged" => D = {}
  PROVE  BatchInv(process_module_path_update(st, e),
                  C \cup {a \in {e.path} : e.kind = "CreatedOrChanged"},
                  D \cup {a \in {e.path} : e.kind = "Deleted"})
<1> DEFINE a == e.path
           z == Qualifier(a)
           p == st.paths
           u == st.updates
           k == st.flags
           r == IF e.kind = "Deleted" THEN ProcessRemove(p[z], a) ELSE ProcessNewOrChanged(p[z], k, a)
           new == process_module_path_update(st, e)
           C2 == C \cup {x \in {a} : e.kind = "CreatedOrChanged"}
           D2 == D \cup {x \in {a} : e.kind = "Deleted"}
<1>1. a \in Artifacts /\ z \in Qualifiers /\ e.kind \in EventKinds
  BY DEF Qualifiers
<1>2. new = [paths |-> [p EXCEPT ![z] = r.paths], flags |-> IF e.kind = "Deleted" THEN k ELSE r.flags,
             updates |-> [u EXCEPT ![z] = merge(u[z], r.update)]]
  BY DEF process_module_path_update
<1>3. /\ new.paths = [p EXCEPT ![z] = r.paths] /\ new.updates = [u EXCEPT ![z] = merge(u[z], r.update)]
      /\ new.flags = IF e.kind = "Deleted" THEN k ELSE r.flags
  BY <1>2
<1>4. p = [q \in Qualifiers |-> p[q]] /\ u = [q \in Qualifiers |-> u[q]]
  BY DEF BatchInv
<1>5. \A q \in Qualifiers : ModuleInv(q, explicit[q], p[q], u[q], Of(C, q), Of(D, q))
  BY DEF BatchInv
<1>k. k = [x \in Artifacts |-> IF x \in C /\ x \notin PathSet(explicit[Qualifier(x)])
                               THEN should_type_check(x) ELSE checked[x]]
  BY DEF BatchInv
<1> HIDE DEF p, u, k, r, new, z, a
<1>l. /\ k = [x \in Artifacts |-> k[x]]
      /\ \A x \in Artifacts : k[x] = IF x \in C /\ x \notin PathSet(explicit[Qualifier(x)])
                                     THEN should_type_check(x) ELSE checked[x]
  BY <1>k
<1>6. /\ new.paths = [q \in Qualifiers |-> IF q = z THEN r.paths ELSE p[q]]
      /\ new.updates = [q \in Qualifiers |-> IF q = z THEN merge(u[z], r.update) ELSE u[q]]
  BY <1>1, <1>3, <1>4
<1>f. new.flags = [x \in Artifacts |-> IF x \in C2 /\ x \notin PathSet(explicit[Qualifier(x)])
                                       THEN should_type_check(x) ELSE checked[x]]
  <2>1. CASE e.kind = "Deleted"
    <3>1. new.flags = k /\ C2 = C
      BY <1>3, <2>1
    <3> QED
      BY <1>k, <3>1
  <2>2. CASE e.kind = "CreatedOrChanged"
    <3>0. new.flags = r.flags /\ r = ProcessNewOrChanged(p[z], k, a) /\ C2 = C \cup {a} /\ D = {}
      BY <1>3, <2>2 DEF r, a
    <3>1. PathSet(p[z]) = PathSet(explicit[z]) \cup Of(C, z) /\ IsPaths(p[z], z)
      BY <1>1, <1>5, <3>0 DEF ModuleInv, Of
    <3>2. r.flags = IF a \in PathSet(p[z]) THEN k ELSE [k EXCEPT ![a] = should_type_check(a)]
      <4>1. CASE p[z] = NULL
        <5>1. r.flags = [k EXCEPT ![a] = should_type_check(a)]
          BY <3>0, <4>1 DEF ProcessNewOrChanged
        <5> QED
          BY <4>1, <5>1 DEF PathSet
      <4>2. CASE p[z] # NULL
        <5>1. r.flags = insert_should_type_check(a, p[z], k)
          BY <3>0, <4>2 DEF ProcessNewOrChanged
        <5> QED
          BY <4>2, <5>1 DEF PathSet, insert_should_type_check
      <4> QED
        BY <4>1, <4>2
    <3>3. a \in PathSet(p[z]) <=> a \in PathSet(explicit[Qualifier(a)]) \/ a \in C
      BY <3>1 DEF Of, z
    <3>4. r.flags = [x \in Artifacts |-> r.flags[x]]
      BY <1>l, <3>2
    <3>5. ASSUME NEW x \in Artifacts
          PROVE  r.flags[x] = IF x \in C2 /\ x \notin PathSet(explicit[Qualifier(x)])
                              THEN should_type_check(x) ELSE checked[x]
      <4>1. CASE x = a
        <5>1. CASE a \in PathSet(p[z])
          BY <1>1, <1>l, <3>0, <3>2, <3>3, <4>1, <5>1
        <5>2. CASE a \notin PathSet(p[z])
          <6>1. r.flags[a] = should_type_check(a)
            BY <1>1, <1>l, <3>2, <5>2
          <6> QED
            BY <3>0, <3>3, <4>1, <5>2, <6>1
        <5> QED
          BY <5>1, <5>2
      <4>2. CASE x # a
        <5>1. r.flags[x] = k[x] /\ (x \in C2 <=> x \in C)
          BY <1>l, <3>0, <3>2, <4>2
        <5> QED
          BY <1>l, <5>1
      <4> QED
        BY <4>1, <4>2
    <3> HIDE DEF C2
    <3> QED
      BY <3>0, <3>4, <3>5
  <2> QED
    BY <1>1, <2>1, <2>2 DEF EventKinds
<1>7. ASSUME NEW q \in Qualifiers
      PROVE  ModuleInv(q, explicit[q], new.paths[q], new.updates[q], Of(C2, q), Of(D2, q))
  <2>1. CASE q # z
    <3>1. Of(C2, q) = Of(C, q) /\ Of(D2, q) = Of(D, q)
      BY <2>1 DEF Of, z
    <3>2. new.paths[q] = p[q] /\ new.updates[q] = u[q]
      BY <1>6, <2>1
    <3> QED
      BY <1>5, <3>1, <3>2
  <2>2. CASE q = z
    <3>1. new.paths[q] = r.paths /\ new.updates[q] = merge(u[q], r.update)
      BY <1>6, <2>2
    <3>2. ModuleInv(q, explicit[q], p[q], u[q], Of(C, q), Of(D, q)) /\ Qualifier(a) = q
      BY <1>5, <2>2 DEF z
    <3>3. CASE e.kind = "Deleted"
      <4>1. r = ProcessRemove(p[q], a)
        BY <2>2, <3>3 DEF r
      <4>2. Of(C2, q) = Of(C, q) /\ Of(D2, q) = Of(D, q) \cup {a}
        BY <3>2, <3>3 DEF Of
      <4> QED
        <5>1. ModuleInv(q, explicit[q], ProcessRemove(p[q], a).paths,
                        merge(u[q], ProcessRemove(p[q], a).update), Of(C, q), Of(D, q) \cup {a})
          BY <1>1, <3>2, RemoveStep
        <5> QED
          BY <3>1, <4>1, <4>2, <5>1
    <3>4. CASE e.kind = "CreatedOrChanged"
      <4>1. r = ProcessNewOrChanged(p[q], k, a)
        BY <2>2, <3>4 DEF r
      <4>2. Of(C2, q) = Of(C, q) \cup {a} /\ Of(D2, q) = {} /\ Of(D, q) = {}
        BY <3>2, <3>4 DEF Of
      <4> QED
        <5>1. ModuleInv(q, explicit[q], p[q], u[q], Of(C, q), {})
          BY <3>2, <4>2
        <5>k. a \in PathSet(explicit[q]) => k[a] = checked[a]
          BY <1>1, <1>l, <3>2
        <5>2. ModuleInv(q, explicit[q], ProcessNewOrChanged(p[q], k, a).paths,
                        merge(u[q], ProcessNewOrChanged(p[q], k, a).update), Of(C, q) \cup {a}, {})
          BY <1>1, <1>l, <3>2, <5>1, <5>k, CreateStep
        <5> QED
          BY <3>1, <4>1, <4>2, <5>2
    <3> QED
      BY <1>1, <3>3, <3>4 DEF EventKinds
  <2> QED
    BY <2>1, <2>2
<1>8. BatchInv(new, C2, D2)
  BY <1>6, <1>7, <1>f DEF BatchInv
<1> QED
  BY <1>8 DEF new, a

(* The whole batch: what ExplicitModules.update_module_paths returns. *)
LEMMA AfterBatch ==
  ASSUME EventsTyped, explicit = [q \in Qualifiers |-> explicit[q]], checked = [a \in Artifacts |-> checked[a]],
         \A q \in Qualifiers : IsPaths(explicit[q], q)
  PROVE  BatchInv(update_module_paths, Created, Removed)
<1> DEFINE seq == dedup_and_sort
           N == Len(seq)
<1>1. IsBatch(seq, Created, Removed)
  BY DedupIs
<1>2. seq \in Seq([kind : EventKinds, path : Artifacts])
  BY <1>1 DEF IsBatch
<1>3. N \in Nat
  BY <1>2
<1>4. PICK g : IsProcessing(g, BeforeBatch, seq, N) /\ update_module_paths = g[N]
  BY <1>2, UpdateIs
<1> HIDE DEF seq
<1> DEFINE Good(j) == BatchInv(g[j], Done(seq, j, "CreatedOrChanged"), Done(seq, j, "Deleted"))
           I == {j \in Nat : j <= N => Good(j)}
<1>5. 0 \in I
  <2>1. g[0] = BeforeBatch
    BY <1>4 DEF IsProcessing
  <2>2. g[0].paths = explicit /\ g[0].flags = checked /\ g[0].updates = [q \in Qualifiers |-> None]
    BY <2>1 DEF BeforeBatch
  <2>3. \A k : Done(seq, 0, k) = {}
    BY DEF Done
  <2>4. ASSUME NEW q \in Qualifiers PROVE ModuleInv(q, explicit[q], explicit[q], None, {}, {})
    <3>1. PathSet(explicit[q]) = (PathSet(explicit[q]) \cup {}) \ {}
      OBVIOUS
    <3>2. Same(explicit[q], explicit[q], None, {}, {})
      BY DEF Same
    <3> QED
      BY <3>1, <3>2 DEF ModuleInv
  <2>5. \A q \in Qualifiers : Of({}, q) = {} /\ g[0].updates[q] = None
    BY <2>2 DEF Of
  <2>6. BatchInv(g[0], {}, {})
    BY <2>2, <2>4, <2>5 DEF BatchInv
  <2> QED
    BY <2>3, <2>6
<1>6. ASSUME NEW j \in Nat, j \in I PROVE j + 1 \in I
  <2> SUFFICES ASSUME j + 1 <= N PROVE Good(j + 1)
    OBVIOUS
  <2>1. Good(j) /\ j + 1 \in 1 .. N /\ (j + 1) - 1 = j
    BY <1>3, <1>6
  <2> DEFINE e == seq[j + 1]
  <2>2. /\ e \in [kind : EventKinds, path : Artifacts]
        /\ \A k : Done(seq, j + 1, k) = Done(seq, j, k) \cup {a \in {e.path} : e.kind = k}
        /\ e.kind = "CreatedOrChanged" => Done(seq, j, "Deleted") = {}
    BY <1>1, DoneStep
  <2>3. g[j + 1] = process_module_path_update(g[j], e)
    BY <1>4, <2>1 DEF IsProcessing
  <2> HIDE DEF e
  <2> QED
    BY <2>1, <2>2, <2>3, BatchStep
<1> HIDE DEF I
<1>7. N \in I
  BY <1>3, <1>5, <1>6, Induction
<1>8. Good(N)
  BY <1>3, <1>7 DEF I
<1> QED
  BY <1>1, <1>4, <1>8 DEF IsBatch

ChildrenInv(ch, C, D) ==
  /\ ch = [q \in Qualifiers |-> ch[q]]
  /\ \A q \in Qualifiers : ch[q] = (implicit[q] \cup In(C, q)) \ In(D, q)

(* An event adds a child to its package or takes one out. *)
LEMMA ChildrenStep ==
  ASSUME NEW ch, NEW C, NEW D, ChildrenInv(ch, C, D), NEW e \in [kind : EventKinds, path : Artifacts],
         e.kind = "CreatedOrChanged" => D = {}, NULL \notin Qualifiers
  PROVE  ChildrenInv(ImplicitAfter(ch, e),
                     C \cup {a \in {e.path} : e.kind = "CreatedOrChanged"},
                     D \cup {a \in {e.path} : e.kind = "Deleted"})
<1> DEFINE a == e.path
           z == Parent(a)
           s == IF e.kind = "Deleted" THEN ch[z] \ {a} ELSE ch[z] \cup {a}
           new == ImplicitAfter(ch, e)
           C2 == C \cup {x \in {a} : e.kind = "CreatedOrChanged"}
           D2 == D \cup {x \in {a} : e.kind = "Deleted"}
<1>1. a \in Artifacts /\ (z # NULL => z \in Qualifiers) /\ e.kind \in EventKinds
  BY DEF Qualifiers
<1>2. new = IF z = NULL THEN ch ELSE [ch EXCEPT ![z] = s]
  BY DEF ImplicitAfter
<1>3. ch = [q \in Qualifiers |-> ch[q]] /\ \A q \in Qualifiers : ch[q] = (implicit[q] \cup In(C, q)) \ In(D, q)
  BY DEF ChildrenInv
<1> HIDE DEF s, new, z, a
<1>4. new = [q \in Qualifiers |-> IF q = z THEN s ELSE ch[q]]
  <2>1. CASE z = NULL
    <3>1. z \notin Qualifiers
      BY <2>1
    <3>2. \A q \in Qualifiers : q # z
      BY <3>1
    <3>3. new = ch
      BY <1>2, <2>1
    <3> QED
      BY <1>3, <3>2, <3>3
  <2>2. CASE z # NULL
    BY <1>1, <1>2, <1>3, <2>2
  <2> QED
    BY <2>1, <2>2
<1>5. ASSUME NEW q \in Qualifiers PROVE new[q] = (implicit[q] \cup In(C2, q)) \ In(D2, q)
  <2>0. ch[q] = (implicit[q] \cup In(C, q)) \ In(D, q)
    BY <1>3
  <2>1. CASE q # z
    <3>1. In(C2, q) = In(C, q) /\ In(D2, q) = In(D, q)
      BY <2>1 DEF In, z
    <3> QED
      BY <1>4, <2>0, <2>1, <3>1
  <2>2. CASE q = z
    <3>1. new[q] = s /\ Parent(a) = q
      BY <1>4, <2>2 DEF z
    <3>2. CASE e.kind = "Deleted"
      <4>1. s = ch[q] \ {a}
        BY <2>2, <3>2 DEF s
      <4>2. In(C2, q) = In(C, q) /\ In(D2, q) = In(D, q) \cup {a}
        BY <3>1, <3>2 DEF In
      <4> QED
        BY <2>0, <3>1, <4>1, <4>2
    <3>3. CASE e.kind = "CreatedOrChanged"
      <4>1. s = ch[q] \cup {a}
        BY <2>2, <3>3 DEF s
      <4>2. In(C2, q) = In(C, q) \cup {a} /\ In(D2, q) = {} /\ In(D, q) = {}
        BY <3>1, <3>3 DEF In
      <4> QED
        BY <2>0, <3>1, <4>1, <4>2
    <3> QED
      BY <1>1, <3>2, <3>3 DEF EventKinds
  <2> QED
    BY <2>1, <2>2
<1>6. ChildrenInv(new, C2, D2)
  <2>1. new = [q \in Qualifiers |-> new[q]]
    BY <1>4
  <2> QED
    BY <1>5, <2>1 DEF ChildrenInv
<1> QED
  BY <1>6 DEF new, a

LEMMA QualifierNotNull == NULL \notin Qualifiers
BY ArtifactsAssumption DEF Qualifiers

(* The whole batch: what ImplicitModules.update_module_paths returns. *)
LEMMA AfterChildren ==
  ASSUME EventsTyped, implicit = [q \in Qualifiers |-> implicit[q]]
  PROVE  ChildrenInv(update_children, Created, Removed)
<1> DEFINE seq == dedup_and_sort
           N == Len(seq)
<1>1. IsBatch(seq, Created, Removed)
  BY DedupIs
<1>2. seq \in Seq([kind : EventKinds, path : Artifacts])
  BY <1>1 DEF IsBatch
<1>3. N \in Nat
  BY <1>2
<1>4. PICK g : IsReplacing(g, implicit, seq, N) /\ update_children = g[N]
  BY <1>2, ChildrenAre
<1> HIDE DEF seq
<1> DEFINE Good(j) == ChildrenInv(g[j], Done(seq, j, "CreatedOrChanged"), Done(seq, j, "Deleted"))
           I == {j \in Nat : j <= N => Good(j)}
<1>5. 0 \in I
  <2>1. g[0] = implicit
    BY <1>4 DEF IsReplacing
  <2>2. \A k : Done(seq, 0, k) = {}
    BY DEF Done
  <2>3. \A q : In({}, q) = {}
    BY DEF In
  <2>4. ChildrenInv(implicit, {}, {})
    BY <2>3 DEF ChildrenInv
  <2> QED
    BY <2>1, <2>2, <2>4
<1>6. ASSUME NEW j \in Nat, j \in I PROVE j + 1 \in I
  <2> SUFFICES ASSUME j + 1 <= N PROVE Good(j + 1)
    OBVIOUS
  <2>1. Good(j) /\ j + 1 \in 1 .. N /\ (j + 1) - 1 = j
    BY <1>3, <1>6
  <2> DEFINE e == seq[j + 1]
  <2>2. /\ e \in [kind : EventKinds, path : Artifacts]
        /\ \A k : Done(seq, j + 1, k) = Done(seq, j, k) \cup {a \in {e.path} : e.kind = k}
        /\ e.kind = "CreatedOrChanged" => Done(seq, j, "Deleted") = {}
    BY <1>1, DoneStep
  <2>3. g[j + 1] = ImplicitAfter(g[j], e)
    BY <1>4, <2>1 DEF IsReplacing
  <2> HIDE DEF e
  <2> QED
    BY <2>1, <2>2, <2>3, ChildrenStep, QualifierNotNull
<1> HIDE DEF I
<1>7. N \in I
  BY <1>3, <1>5, <1>6, Induction
<1>8. Good(N)
  BY <1>3, <1>7 DEF I
<1> QED
  BY <1>1, <1>4, <1>8 DEF IsBatch

(***************************************************************************)
(* The inductive invariant.  dirty are the sources that the tracker may be *)
(* wrong about: those that watchman has yet to report, and those of the    *)
(* events that are deferred or under way.                                  *)
(***************************************************************************)
SourceEvents == [kind : EventKinds, path : Sources]
Reported(E) == {e.path : e \in E}

TypeInv ==
  /\ disk \in [Sources -> Contents]
  /\ pending \subseteq Sources
  /\ events \subseteq SourceEvents /\ current \subseteq SourceEvents /\ deferred \subseteq SourceEvents

(* What was reported and has not changed since was reported as it is. *)
EventsTrue(E) == \A s \in Reported(E) \ pending : create_source_path_event(s) \in E

(* The last build saw the disk as it is now, up to dirty sources and contents. *)
BuiltFrom(d, bm, dirty) ==
  /\ d \in [Sources -> Contents]
  /\ bm = construct_build_map(d)
  /\ \A s \in Sources \ dirty : d[s] = Absent <=> disk[s] = Absent
  /\ TARGETS \notin dirty => d[TARGETS] = disk[TARGETS]
BuildInv(bm, dirty) == \E d : BuiltFrom(d, bm, dirty)

(* The tracker has the linked artifacts and no others. *)
Tracked(a) == a \in PathSet(explicit[Qualifier(a)]) /\ (Parent(a) # NULL => a \in implicit[Parent(a)])
Untracked(a) == a \notin PathSet(explicit[Qualifier(a)]) /\ (Parent(a) # NULL => a \notin implicit[Parent(a)])
TrackerTyped ==
  /\ explicit = [q \in Qualifiers |-> explicit[q]]
  /\ checked = [a \in Artifacts |-> checked[a]]
  /\ implicit = [q \in Qualifiers |-> implicit[q]]
  /\ \A q \in Qualifiers : IsPaths(explicit[q], q) /\ \A a \in implicit[q] : a \in Artifacts /\ Parent(a) = q
TrackInv(bm, dirty) ==
  /\ TrackerTyped
  /\ \A a \in Artifacts \ mixed :
       /\ a \notin DOMAIN bm => Untracked(a)
       /\ a \in DOMAIN bm /\ bm[a] \notin dirty => Tracked(a)

(* The environments have what a lookup finds, with its field, and with its *)
(* content if the field is that of the source that is linked.              *)
Fields(l) == l = [path |-> l.path, checked |-> l.path \in Artifacts /\ checked[l.path], content |-> l.content]
HoldsContent(l, bm, dirty) ==
  l.path \in Artifacts \ mixed /\ l.path \in DOMAIN bm /\ bm[l.path] \notin dirty /\ checked[l.path] = Internal(bm[l.path])
    => l.content = disk[bm[l.path]]
Holds(q, l, bm, dirty) ==
  /\ Fields(l) /\ l.path = look_up_qualifier(explicit, implicit, q)
  /\ l.path \notin Artifacts => l.content = Absent
  /\ HoldsContent(l, bm, dirty)
LoadInv(bm, dirty) ==
  /\ loaded = [q \in Qualifiers |-> loaded[q]]
  /\ \A q \in Qualifiers : Holds(q, loaded[q], bm, dirty)

Steady(E) ==
  /\ EventsTrue(E)
  /\ BuildInv(build_map, pending \cup Reported(E))
  /\ TrackInv(build_map, pending \cup Reported(E))
  /\ LoadInv(build_map, pending \cup Reported(E))

(* Between the build and the update: bm is the build map of before. *)
BuiltOver(bm) ==
  /\ DOMAIN bm \subseteq Artifacts /\ \A a \in DOMAIN bm : bm[a] \in Sources
  /\ rebuilt = difference(bm, build_map)
  /\ TrackInv(bm, pending \cup Reported(events))
  /\ LoadInv(bm, pending \cup Reported(events))
Updating ==
  /\ deferred = {} /\ EventsTrue(events) /\ BuildInv(build_map, pending)
  /\ \E bm : BuiltOver(bm)

Inv ==
  /\ TypeInv
  /\ status \in {"idle", "building", "updating", "stopped", "illegal"}
  /\ status = "idle" => Steady(deferred)
  /\ status = "building" => events = deferred \cup current /\ Steady(events)
  /\ status = "updating" => Updating
  /\ status = "illegal" => mixed # {}

(***************************************************************************)
(* A build map                                                             *)
(***************************************************************************)
LEMMA BuildMapIs ==
  ASSUME NEW d \in [Sources -> Contents]
  PROVE  LET bm == construct_build_map(d)
             t == Targets(d[TARGETS])
         IN /\ bm = [a \in DOMAIN bm |-> bm[a]] /\ DOMAIN bm \subseteq Artifacts
            /\ \A a \in DOMAIN bm : bm[a] \in Sources /\ d[bm[a]] # Absent
            /\ \A a : a \in DOMAIN bm <=> a \in DOMAIN t /\ d[t[a]] # Absent
            /\ \A a \in DOMAIN bm : bm[a] = t[a]
            /\ \A a \in DOMAIN t : t[a] \in Sources
<1> DEFINE t == Targets(d[TARGETS])
           bm == construct_build_map(d)
<1>1. d[TARGETS] \in Contents
  BY SourcesAssumption
<1>2. t \in [DOMAIN t -> Sources] /\ DOMAIN t \subseteq Artifacts
  BY <1>1, SourcesAssumption
<1>3. bm = [a \in {x \in DOMAIN t : d[t[x]] # Absent} |-> t[a]]
  BY DEF construct_build_map
<1> HIDE DEF t, bm
<1>4. DOMAIN bm = {x \in DOMAIN t : d[t[x]] # Absent} /\ \A a \in DOMAIN bm : bm[a] = t[a]
  BY <1>3
<1>5. bm = [a \in DOMAIN bm |-> bm[a]]
  BY <1>3
<1> QED
  BY <1>2, <1>4, <1>5 DEF t, bm

(* Nothing dirty: the build map is the one of a new server. *)
LEMMA CleanBuild ==
  ASSUME TypeInv, BuildInv(build_map, {})
  PROVE  build_map = construct_build_map(disk)
<1>1. PICK d : BuiltFrom(d, build_map, {})
  BY DEF BuildInv
<1> DEFINE t == Targets(disk[TARGETS])
<1>2. d[TARGETS] = disk[TARGETS] /\ d \in [Sources -> Contents] /\ build_map = construct_build_map(d)
  BY <1>1 DEF BuiltFrom
<1>3. \A s \in Sources : d[s] = Absent <=> disk[s] = Absent
  BY <1>1 DEF BuiltFrom
<1>4. \A a \in DOMAIN t : t[a] \in Sources
  BY <1>2, BuildMapIs
<1>5. construct_build_map(d) = [a \in {x \in DOMAIN t : d[t[x]] # Absent} |-> t[a]]
  BY <1>2 DEF construct_build_map
<1>6. construct_build_map(disk) = [a \in {x \in DOMAIN t : disk[t[x]] # Absent} |-> t[a]]
  BY DEF construct_build_map
<1>7. {x \in DOMAIN t : d[t[x]] # Absent} = {x \in DOMAIN t : disk[t[x]] # Absent}
  BY <1>3, <1>4
<1> QED
  BY <1>2, <1>5, <1>6, <1>7

(* What is linked and not dirty exists. *)
LEMMA LinkedExists ==
  ASSUME NEW bm, NEW dirty, BuildInv(bm, dirty)
  PROVE  /\ DOMAIN bm \subseteq Artifacts
         /\ \A a \in DOMAIN bm : bm[a] \in Sources /\ (bm[a] \notin dirty => disk[bm[a]] # Absent)
<1>1. PICK d : BuiltFrom(d, bm, dirty)
  BY DEF BuildInv
<1>2. d \in [Sources -> Contents] /\ bm = construct_build_map(d)
  BY <1>1 DEF BuiltFrom
<1>3. DOMAIN bm \subseteq Artifacts /\ \A a \in DOMAIN bm : bm[a] \in Sources /\ d[bm[a]] # Absent
  BY <1>2, BuildMapIs
<1>4. \A s \in Sources \ dirty : d[s] = Absent <=> disk[s] = Absent
  BY <1>1 DEF BuiltFrom
<1> QED
  BY <1>3, <1>4

(***************************************************************************)
(* look_up_qualifier                                                       *)
(***************************************************************************)
LEMMA LookUpIs ==
  ASSUME NEW paths, NEW children, NEW q, IsPaths(paths[q], q)
  PROVE  LET l == look_up_qualifier(paths, children, q)
             p == paths[q]
         IN /\ PathSet(p) # {} => l = Head(p) /\ l \in PathSet(p) /\ l \in Artifacts /\ Qualifier(l) = q
            /\ PathSet(p) = {} => l \notin Artifacts /\ l = IF children[q] # {} THEN "implicit" ELSE "not found"
<1> DEFINE p == paths[q]
           l == look_up_qualifier(paths, children, q)
<1>1. PathSet(p) = {} <=> p \in {NULL, <<>>}
  <2>1. CASE p = NULL
    BY <2>1 DEF PathSet
  <2>2. CASE Ordered(p, q)
    BY <2>2, PathSetIs
  <2> QED
    BY <2>1, <2>2 DEF IsPaths
<1>2. CASE PathSet(p) # {}
  <2>1. l = Head(p)
    BY <1>1, <1>2 DEF look_up_qualifier
  <2>2. Ordered(p, q) /\ p # <<>> /\ PathSet(p) = Range(p)
    BY <1>1, <1>2, PathSetIs DEF IsPaths
  <2>3. Head(p) \in Range(p) /\ Head(p) \in Artifacts /\ Qualifier(Head(p)) = q
    BY <2>2, HeadIs
  <2> QED
    BY <1>2, <2>1, <2>2, <2>3
<1>3. CASE PathSet(p) = {}
  <2>1. l = IF children[q] # {} THEN "implicit" ELSE "not found"
    BY <1>1, <1>3 DEF look_up_qualifier
  <2> QED
    BY <1>3, <2>1, ArtifactsAssumption
<1> QED
  BY <1>2, <1>3

LEMMA QualifiersAre ==
  ASSUME NEW a \in Artifacts
  PROVE  Qualifier(a) \in Qualifiers /\ (Parent(a) # NULL => Parent(a) \in Qualifiers)
BY DEF Qualifiers

(* What Load gives. *)
LEMMA LoadHolds ==
  ASSUME NEW l, NEW flags
  PROVE  LET x == Load(l, flags)
         IN /\ x.path = l
            /\ x = [path |-> x.path, checked |-> x.path \in Artifacts /\ flags[x.path], content |-> x.content]
            /\ l \notin Artifacts => x.content = Absent
            /\ l \in Artifacts /\ l \in DOMAIN build_map => x.content = disk[build_map[l]]
<1> DEFINE x == Load(l, flags)
           f == l \in Artifacts /\ flags[l]
           c == IF l \in Artifacts THEN ContentOf(l) ELSE Absent
<1>1. x = [path |-> l, checked |-> f, content |-> c]
  BY DEF Load
<1> HIDE DEF x
<1>2. x.path = l /\ x.content = c
  BY <1>1
<1>3. x = [path |-> x.path, checked |-> x.path \in Artifacts /\ flags[x.path], content |-> x.content]
  BY <1>1, <1>2
<1> QED
  BY <1>2, <1>3 DEF ContentOf, x

(* A new server. *)
LEMMA InitInv == Init => Inv
<1> SUFFICES ASSUME Init PROVE Inv
  OBVIOUS
<1>0. Reported({}) = {}
  BY DEF Reported
<1>1. TypeInv
  BY DEF Init, TypeInv, Contents
<1>2. EventsTrue({})
  BY <1>0 DEF EventsTrue
<1>3. BuiltFrom(disk, build_map, {})
  BY <1>1 DEF Init, BuiltFrom, TypeInv
<1>4. BuildInv(build_map, {})
  BY <1>3 DEF BuildInv
<1>5. DOMAIN build_map \subseteq Artifacts /\ \A a \in DOMAIN build_map : build_map[a] \in Sources /\ disk[build_map[a]] # Absent
  BY <1>4, LinkedExists
<1>6. \A a \in Artifacts : Exists(a) <=> a \in DOMAIN build_map
  BY <1>5 DEF Exists, ContentOf
<1>7. ASSUME NEW q \in Qualifiers
      PROVE  IsPaths(explicit[q], q) /\ PathSet(explicit[q]) = {a \in Artifacts : Qualifier(a) = q /\ Exists(a)}
  <2>1. explicit[q] = IF PathsOf(q) = <<>> THEN NULL ELSE PathsOf(q)
    BY DEF Init
  <2>2. Ordered(PathsOf(q), q) /\ Range(PathsOf(q)) = {a \in Artifacts : Qualifier(a) = q /\ Exists(a)}
    BY PathsOfAre
  <2>3. PathSet(PathsOf(q)) = Range(PathsOf(q)) /\ (PathsOf(q) = <<>> => Range(PathsOf(q)) = {})
    BY <2>2, PathSetIs
  <2>4. PathSet(NULL) = {} /\ IsPaths(NULL, q)
    BY DEF PathSet, IsPaths
  <2>5. IsPaths(PathsOf(q), q)
    BY <2>2 DEF IsPaths
  <2>6. CASE PathsOf(q) = <<>>
    <3>1. explicit[q] = NULL
      BY <2>1, <2>6
    <3> QED
      BY <2>2, <2>3, <2>4, <2>6, <3>1
  <2>7. CASE PathsOf(q) # <<>>
    <3>1. explicit[q] = PathsOf(q)
      BY <2>1, <2>7
    <3> QED
      BY <2>2, <2>3, <2>5, <3>1
  <2> QED
    BY <2>6, <2>7
<1>8. \A q \in Qualifiers : implicit[q] = {a \in Artifacts : Parent(a) = q /\ Exists(a)}
  BY DEF Init, ChildrenOf
<1>9. /\ explicit = [q \in Qualifiers |-> explicit[q]] /\ implicit = [q \in Qualifiers |-> implicit[q]]
      /\ checked = [a \in Artifacts |-> checked[a]]
  BY DEF Init
<1>10. TrackerTyped
  BY <1>7, <1>8, <1>9 DEF TrackerTyped
<1>11. ASSUME NEW a \in Artifacts
       PROVE  (a \notin DOMAIN build_map => Untracked(a)) /\ (a \in DOMAIN build_map => Tracked(a))
  BY <1>6, <1>7, <1>8, QualifiersAre DEF Tracked, Untracked
<1>12. TrackInv(build_map, {})
  BY <1>10, <1>11 DEF TrackInv
<1>13. loaded = [q \in Qualifiers |-> loaded[q]]
  BY DEF Init
<1>14. ASSUME NEW q \in Qualifiers PROVE Holds(q, loaded[q], build_map, {})
  <2> DEFINE l == look_up_qualifier(explicit, implicit, q)
  <2>1. loaded[q] = Load(l, checked)
    BY DEF Init
  <2> HIDE DEF l
  <2>2. PICK x : x = Load(l, checked)
    OBVIOUS
  <2>3. /\ x.path = l /\ Fields(x) /\ (l \notin Artifacts => x.content = Absent)
        /\ l \in Artifacts /\ l \in DOMAIN build_map => x.content = disk[build_map[l]]
    BY <2>2, LoadHolds DEF Fields
  <2> QED
    BY <2>1, <2>2, <2>3 DEF Holds, HoldsContent, l
<1>15. LoadInv(build_map, {})
  BY <1>13, <1>14 DEF LoadInv
<1>16. deferred = {} /\ pending = {} /\ status = "idle"
  BY DEF Init
<1>17. Steady(deferred)
  BY <1>0, <1>2, <1>4, <1>12, <1>15, <1>16 DEF Steady
<1> QED
  BY <1>1, <1>16, <1>17 DEF Inv

(***************************************************************************)
(* A change of a file makes a source dirty.                                *)
(***************************************************************************)
FileChanged(s, v) ==
  /\ s \in Sources /\ v \in Contents /\ TypeInv
  /\ disk' = [disk EXCEPT ![s] = v]
  /\ pending' = pending \cup {s}

LEMMA DirtyBuild ==
  ASSUME NEW s, NEW v, FileChanged(s, v), NEW bm, NEW dirty, BuildInv(bm, dirty)
  PROVE  BuildInv(bm, dirty \cup {s})'
<1>1. PICK d : BuiltFrom(d, bm, dirty)
  BY DEF BuildInv
<1>2. disk \in [Sources -> Contents] /\ s \in Sources /\ disk' = [disk EXCEPT ![s] = v]
  BY DEF FileChanged, TypeInv
<1>3. \A x \in Sources : x # s => disk'[x] = disk[x]
  BY <1>2
<1>4. BuiltFrom(d, bm, dirty \cup {s})'
  BY <1>1, <1>3, SourcesAssumption DEF BuiltFrom
<1> QED
  BY <1>4 DEF BuildInv

LEMMA DirtyEvents ==
  ASSUME NEW s, NEW v, FileChanged(s, v), NEW E, EventsTrue(E)
  PROVE  EventsTrue(E)'
<1>1. disk \in [Sources -> Contents] /\ s \in Sources /\ disk' = [disk EXCEPT ![s] = v] /\ pending' = pending \cup {s}
  BY DEF FileChanged, TypeInv
<1>2. \A x \in Sources : x # s => disk'[x] = disk[x]
  BY <1>1
<1> SUFFICES ASSUME NEW x \in Reported(E) \ pending' PROVE create_source_path_event(x)' \in E
  BY DEF EventsTrue, Reported
<1>3. x # s /\ x \in Reported(E) \ pending
  BY <1>1
<1>4. create_source_path_event(x) \in E
  BY <1>3 DEF EventsTrue
<1>5. disk'[x] = disk[x]
  BY <1>1, <1>3
<1>6. create_source_path_event(x)' = create_source_path_event(x)
  BY <1>5 DEF create_source_path_event, Event
<1> QED
  BY <1>4, <1>6

LEMMA DirtyTrack ==
  ASSUME NEW s, UNCHANGED tracker, NEW bm, NEW dirty, TrackInv(bm, dirty)
  PROVE  TrackInv(bm, dirty \cup {s})'
<1>1. explicit' = explicit /\ checked' = checked /\ implicit' = implicit /\ mixed' = mixed
  BY DEF tracker
<1>2. TrackerTyped'
  BY <1>1 DEF TrackInv, TrackerTyped
<1>3. \A a : (Tracked(a)' <=> Tracked(a)) /\ (Untracked(a)' <=> Untracked(a))
  BY <1>1 DEF Tracked, Untracked
<1> QED
  BY <1>1, <1>2, <1>3 DEF TrackInv

LEMMA DirtyLoad ==
  ASSUME NEW s, NEW v, FileChanged(s, v), UNCHANGED tracker, NEW bm, NEW dirty, LoadInv(bm, dirty),
         \A a \in DOMAIN bm : bm[a] \in Sources
  PROVE  LoadInv(bm, dirty \cup {s})'
<1>1. explicit' = explicit /\ checked' = checked /\ implicit' = implicit /\ mixed' = mixed /\ loaded' = loaded
  BY DEF tracker
<1>2. disk \in [Sources -> Contents] /\ s \in Sources /\ disk' = [disk EXCEPT ![s] = v]
  BY DEF FileChanged, TypeInv
<1>3. \A x \in Sources : x # s => disk'[x] = disk[x]
  BY <1>2
<1>4. ASSUME NEW q \in Qualifiers PROVE Holds(q, loaded[q], bm, dirty \cup {s})'
  <2>1. Holds(q, loaded[q], bm, dirty)
    BY DEF LoadInv
  <2> DEFINE l == loaded[q]
  <2>2. loaded'[q] = l
    BY <1>1
  <2>3. look_up_qualifier(explicit, implicit, q)' = look_up_qualifier(explicit, implicit, q)
    BY <1>1 DEF look_up_qualifier
  <2>4. l.path \in DOMAIN bm /\ bm[l.path] \notin dirty \cup {s} => disk'[bm[l.path]] = disk[bm[l.path]]
    BY <1>3
  <2> QED
    BY <1>1, <2>1, <2>2, <2>3, <2>4 DEF Holds, Fields, HoldsContent
<1>5. loaded' = [q \in Qualifiers |-> loaded'[q]]
  BY <1>1 DEF LoadInv
<1> QED
  BY <1>4, <1>5 DEF LoadInv

(* A change of the file system. *)
LEMMA ChangeFileInv == ASSUME Inv, ChangeFile PROVE Inv'
<1>1. PICK s \in Sources : \E v \in Versions \cup {Absent} :
        v # disk[s] /\ disk' = [disk EXCEPT ![s] = v] /\ pending' = pending \cup {s}
  BY DEF ChangeFile
<1>2. PICK v \in Versions \cup {Absent} : disk' = [disk EXCEPT ![s] = v] /\ pending' = pending \cup {s}
  BY <1>1
<1>3. /\ UNCHANGED <<status, events, current, deferred, build_map, rebuilt>> /\ UNCHANGED tracker
  BY DEF ChangeFile
<1>4. TypeInv
  BY DEF Inv
<1>5. FileChanged(s, v)
  BY <1>2, <1>4 DEF FileChanged, Contents
<1>6. TypeInv'
  BY <1>2, <1>3, <1>4 DEF TypeInv, Contents
<1>7. ASSUME NEW E, Steady(E) PROVE Steady(E)'
  <2>1. PICK dirty : dirty = pending \cup Reported(E)
    OBVIOUS
  <2>2. PICK bm : bm = build_map
    OBVIOUS
  <2>3. BuildInv(bm, dirty) /\ TrackInv(bm, dirty) /\ LoadInv(bm, dirty) /\ EventsTrue(E)
    BY <1>7, <2>1, <2>2 DEF Steady
  <2>4. \A a \in DOMAIN bm : bm[a] \in Sources
    BY <2>3, LinkedExists
  <2>5. EventsTrue(E)' /\ BuildInv(bm, dirty \cup {s})'
    BY <1>5, <2>3, DirtyEvents, DirtyBuild
  <2>6. TrackInv(bm, dirty \cup {s})' /\ LoadInv(bm, dirty \cup {s})'
    BY <1>3, <1>5, <2>3, <2>4, DirtyTrack, DirtyLoad
  <2>7. pending' \cup Reported(E) = dirty \cup {s} /\ build_map' = bm
    BY <1>2, <1>3, <2>1, <2>2
  <2> QED
    BY <2>5, <2>6, <2>7 DEF Steady
<1>8. CASE status = "idle"
  <2>1. PICK E : E = deferred
    OBVIOUS
  <2>2. Steady(E) /\ deferred' = E
    BY <1>3, <1>8, <2>1 DEF Inv
  <2>3. Steady(E)'
    BY <1>7, <2>2
  <2>4. Steady(deferred)'
    BY <2>2, <2>3 DEF Steady
  <2> QED
    BY <1>3, <1>6, <1>8, <2>4 DEF Inv
<1>9. CASE status = "building"
  <2>1. PICK E : E = events
    OBVIOUS
  <2>2. Steady(E) /\ events' = E /\ events' = deferred' \cup current'
    BY <1>3, <1>9, <2>1 DEF Inv
  <2>3. Steady(E)'
    BY <1>7, <2>2
  <2>4. Steady(events)'
    BY <2>2, <2>3 DEF Steady
  <2> QED
    BY <1>3, <1>6, <1>9, <2>2, <2>4 DEF Inv
<1>10. CASE status = "updating"
  <2>0. Updating
    BY <1>10 DEF Inv
  <2>1. PICK obm : BuiltOver(obm)
    BY <2>0 DEF Updating
  <2>2. PICK bm : bm = build_map
    OBVIOUS
  <2>3. PICK E : E = events
    OBVIOUS
  <2>4. PICK dirty : dirty = pending \cup Reported(E)
    OBVIOUS
  <2>5. PICK old : old = pending
    OBVIOUS
  <2>6. /\ DOMAIN obm \subseteq Artifacts /\ (\A a \in DOMAIN obm : obm[a] \in Sources)
        /\ rebuilt = difference(obm, bm)
        /\ TrackInv(obm, dirty) /\ LoadInv(obm, dirty) /\ EventsTrue(E) /\ BuildInv(bm, old)
    BY <2>0, <2>1, <2>2, <2>3, <2>4, <2>5 DEF Updating, BuiltOver
  <2>8. EventsTrue(E)' /\ BuildInv(bm, old \cup {s})'
    BY <1>5, <2>6, DirtyEvents, DirtyBuild
  <2>9. TrackInv(obm, dirty \cup {s})' /\ LoadInv(obm, dirty \cup {s})'
    BY <1>3, <1>5, <2>6, DirtyTrack, DirtyLoad
  <2>10. /\ pending' \cup Reported(E) = dirty \cup {s} /\ pending' = old \cup {s}
         /\ build_map' = bm /\ events' = E /\ deferred' = {} /\ rebuilt' = difference(obm, bm)
    BY <1>2, <1>3, <2>0, <2>2, <2>3, <2>4, <2>5, <2>6 DEF Updating
  <2>11. BuiltOver(obm)'
    BY <2>6, <2>9, <2>10 DEF BuiltOver
  <2>12. (EventsTrue(events) /\ BuildInv(build_map, pending))'
    BY <2>8, <2>10
  <2>13. Updating'
    BY <2>10, <2>11, <2>12 DEF Updating
  <2> QED
    BY <1>3, <1>6, <1>10, <2>13 DEF Inv
<1>11. status \in {"idle", "building", "updating"}
  BY DEF Inv, ChangeFile
<1> QED
  BY <1>8, <1>9, <1>10, <1>11

(* Steady(E) is about the disk, the build map, the tracker and the pending *)
(* paths.                                                                  *)
LEMMA SteadyKept ==
  ASSUME NEW E, Steady(E), UNCHANGED <<disk, build_map, explicit, checked, implicit, loaded, mixed>>, pending' = pending
  PROVE  Steady(E)'
BY DEF Steady, EventsTrue, create_source_path_event, Event, BuildInv, BuiltFrom, TrackInv, TrackerTyped, Tracked,
       Untracked, LoadInv, Holds, Fields, HoldsContent, look_up_qualifier, Reported

(* What watchman reported is dirty for its event now. *)
LEMMA ReceiveUpdateInv == ASSUME Inv, ReceiveUpdate PROVE Inv'
<1>1. PICK paths \in SUBSET pending \ {{}} :
        /\ pending' = pending \ paths
        /\ IF paths \cap CriticalFiles # {}
           THEN status' = "stopped" /\ UNCHANGED <<events, current>>
           ELSE /\ status' = "building"
                /\ current' = {create_source_path_event(s) : s \in paths}
                /\ events' = deferred \cup current'
  BY DEF ReceiveUpdate
<1>2. status = "idle" /\ UNCHANGED <<disk, deferred, build_map, rebuilt, tracker>>
  BY DEF ReceiveUpdate
<1>3. TypeInv /\ Steady(deferred)
  BY <1>2 DEF Inv
<1>4. CASE status' = "stopped"
  <2>1. events' = events /\ current' = current
    BY <1>1, <1>4
  <2>2. TypeInv'
    BY <1>1, <1>2, <1>3, <2>1 DEF TypeInv
  <2> QED
    BY <1>4, <2>2 DEF Inv
<1>5. CASE status' # "stopped"
  <2>1. status' = "building" /\ current' = {create_source_path_event(s) : s \in paths} /\ events' = deferred \cup current'
    BY <1>1, <1>5
  <2>2. paths \subseteq Sources
    BY <1>3 DEF TypeInv
  <2>3. \A s \in Sources : create_source_path_event(s) \in SourceEvents /\ create_source_path_event(s).path = s
    BY DEF create_source_path_event, Event, SourceEvents, EventKinds
  <2>4. current' \subseteq SourceEvents
    BY <2>1, <2>2, <2>3
  <2>5. TypeInv'
    BY <1>1, <1>2, <1>3, <2>1, <2>4 DEF TypeInv
  <2>6. PICK C : C = {create_source_path_event(s) : s \in paths}
    OBVIOUS
  <2>7. PICK E : E = deferred
    OBVIOUS
  <2>8. Reported(C) = paths
    BY <2>2, <2>3, <2>6 DEF Reported
  <2>9. Reported(E \cup C) = Reported(E) \cup paths
    BY <2>8 DEF Reported
  <2>10. events' = E \cup C /\ current' = C /\ deferred' = E
    BY <1>2, <2>1, <2>6, <2>7
  <2>11. PICK dirty : dirty = pending \cup Reported(E)
    OBVIOUS
  <2>12. pending' \cup Reported(E \cup C) = dirty
    BY <1>1, <2>9, <2>11
  <2>13. \A s : create_source_path_event(s)' = create_source_path_event(s)
    BY <1>2 DEF create_source_path_event, Event
  <2>14. EventsTrue(E \cup C)'
    <3>1. EventsTrue(E)
      BY <1>3, <2>7 DEF Steady
    <3>2. ASSUME NEW s \in Reported(E \cup C) \ pending' PROVE create_source_path_event(s) \in E \cup C
      <4>1. CASE s \in paths
        BY <2>6, <4>1
      <4>2. CASE s \notin paths
        <5>1. s \in Reported(E) \ pending
          BY <1>1, <2>9, <4>2
        <5> QED
          BY <3>1, <5>1 DEF EventsTrue
      <4> QED
        BY <4>1, <4>2
    <3> QED
      BY <2>13, <3>2 DEF EventsTrue, Reported
  <2>15. PICK bm : bm = build_map
    OBVIOUS
  <2>16. BuildInv(bm, dirty) /\ TrackInv(bm, dirty) /\ LoadInv(bm, dirty)
    BY <1>3, <2>7, <2>11, <2>15 DEF Steady
  <2>17. explicit' = explicit /\ checked' = checked /\ implicit' = implicit /\ mixed' = mixed /\ loaded' = loaded /\ disk' = disk /\ build_map' = bm
    BY <1>2, <2>15 DEF tracker
  <2>18. BuildInv(bm, dirty)' /\ TrackInv(bm, dirty)' /\ LoadInv(bm, dirty)'
    BY <2>16, <2>17 DEF BuildInv, BuiltFrom, TrackInv, TrackerTyped, Tracked, Untracked, LoadInv, Holds, Fields, HoldsContent, look_up_qualifier
  <2>19. Steady(events)'
    BY <2>10, <2>12, <2>14, <2>17, <2>18 DEF Steady
  <2> QED
    BY <2>1, <2>5, <2>10, <2>19 DEF Inv
<1> QED
  BY <1>4, <1>5

(* A server that stopped. *)
LEMMA StoppedInv == ASSUME Inv, LinkTreeError PROVE Inv'
<1>1. status' = "stopped" /\ UNCHANGED <<disk, pending, events, current, deferred>>
  BY DEF LinkTreeError
<1>2. TypeInv'
  BY <1>1 DEF Inv, TypeInv
<1> QED
  BY <1>1, <1>2 DEF Inv

(* A failed build defers the events: what is dirty stays dirty. *)
LEMMA BuckErrorInv == ASSUME Inv, BuckError PROVE Inv'
<1>1. /\ status = "building" /\ deferred' = deferred \cup current /\ status' = "idle"
      /\ UNCHANGED <<disk, pending, events, current, build_map, rebuilt, tracker>>
  BY DEF BuckError
<1>2. TypeInv /\ events = deferred \cup current /\ Steady(events)
  BY <1>1 DEF Inv
<1>3. TypeInv'
  BY <1>1, <1>2 DEF TypeInv
<1>4. PICK E : E = events
  OBVIOUS
<1>5. deferred' = E /\ Steady(E)
  BY <1>1, <1>2, <1>4
<1>6. Steady(E)'
  BY <1>1, <1>5, SteadyKept DEF tracker
<1>7. Steady(deferred)'
  BY <1>5, <1>6 DEF Steady
<1> QED
  BY <1>1, <1>3, <1>7 DEF Inv

(***************************************************************************)
(* The build: afterwards only what has changed since the request is dirty  *)
(* for the build map, and the tracker is behind by the rebuilt artifacts   *)
(* and the events.                                                         *)
(***************************************************************************)
LEMMA SkipRebuildInv == ASSUME Inv, SkipRebuild PROVE Inv'
<1>1. /\ status = "building" /\ ~ NeedsBuild /\ status' = "updating" /\ rebuilt' = {} /\ deferred' = {}
      /\ UNCHANGED <<disk, pending, events, current, build_map, tracker>>
  BY DEF SkipRebuild
<1>2. TypeInv /\ Steady(events)
  BY <1>1 DEF Inv
<1>3. TypeInv'
  BY <1>1, <1>2 DEF TypeInv
<1>4. PICK d : BuiltFrom(d, build_map, pending \cup Reported(events))
  BY <1>2 DEF Steady, BuildInv
<1>5. /\ d \in [Sources -> Contents] /\ build_map = construct_build_map(d)
      /\ \A s \in Sources \ (pending \cup Reported(events)) : d[s] = Absent <=> disk[s] = Absent
      /\ TARGETS \notin pending \cup Reported(events) => d[TARGETS] = disk[TARGETS]
  BY <1>4 DEF BuiltFrom
<1>6. \A a \in DOMAIN build_map : build_map[a] \in Sources /\ d[build_map[a]] # Absent
  BY <1>5, BuildMapIs
<1>7. TARGETS \notin Reported(events) /\ \A e \in events : e.kind # "Deleted" /\ lookup_artifact(build_map, e.path) # {}
  BY <1>1 DEF NeedsBuild, Reported
<1>8. ASSUME NEW s \in Reported(events) PROVE d[s] # Absent
  <2>1. PICK a \in DOMAIN build_map : build_map[a] = s
    BY <1>7 DEF Reported, lookup_artifact
  <2> QED
    BY <1>6, <2>1
<1>9. ASSUME NEW s \in Reported(events) \ pending PROVE disk[s] # Absent
  <2>1. create_source_path_event(s) \in events
    BY <1>2 DEF Steady, EventsTrue
  <2>2. create_source_path_event(s).kind # "Deleted"
    BY <1>7, <2>1
  <2> QED
    BY <2>2 DEF create_source_path_event, Event
<1>10. BuiltFrom(d, build_map, pending)
  <2>1. \A s \in Sources \ pending : d[s] = Absent <=> disk[s] = Absent
    BY <1>5, <1>8, <1>9
  <2> QED
    BY <1>5, <1>7, <2>1 DEF BuiltFrom
<1>11. PICK E : E = events
  OBVIOUS
<1>12. Steady(E)'
  BY <1>1, <1>2, <1>11, SteadyKept DEF tracker
<1>13. PICK bm : bm = build_map
  OBVIOUS
<1>14. build_map' = bm /\ events' = E /\ deferred' = {} /\ rebuilt' = {}
  BY <1>1, <1>11, <1>13
<1>15. difference(bm, bm) = {}
  BY DEF difference
<1>16. DOMAIN bm \subseteq Artifacts /\ \A a \in DOMAIN bm : bm[a] \in Sources
  BY <1>5, <1>6, <1>13, BuildMapIs
<1>17. BuiltOver(bm)'
  BY <1>12, <1>14, <1>15, <1>16 DEF Steady, BuiltOver
<1>18. BuiltFrom(d, build_map, pending)'
  BY <1>1, <1>10 DEF BuiltFrom
<1>19. (EventsTrue(events) /\ BuildInv(build_map, pending))'
  BY <1>12, <1>14, <1>18 DEF Steady, BuildInv
<1>20. Updating'
  BY <1>14, <1>17, <1>19 DEF Updating
<1> QED
  BY <1>1, <1>3, <1>20 DEF Inv

LEMMA RebuildInv == ASSUME Inv, Rebuild PROVE Inv'
<1>1. /\ status = "building" /\ status' = "updating" /\ deferred' = {}
      /\ build_map' = construct_build_map(disk) /\ rebuilt' = difference(build_map, build_map')
      /\ UNCHANGED <<disk, pending, events, current, tracker>>
  BY DEF Rebuild
<1>2. TypeInv /\ Steady(events)
  BY <1>1 DEF Inv
<1>3. TypeInv'
  BY <1>1, <1>2 DEF TypeInv
<1>4. PICK E : E = events
  OBVIOUS
<1>5. PICK obm : obm = build_map
  OBVIOUS
<1>6. PICK dirty : dirty = pending \cup Reported(E)
  OBVIOUS
<1>7. EventsTrue(E) /\ BuildInv(obm, dirty) /\ TrackInv(obm, dirty) /\ LoadInv(obm, dirty)
  BY <1>2, <1>4, <1>5, <1>6 DEF Steady
<1>8. DOMAIN obm \subseteq Artifacts /\ \A a \in DOMAIN obm : obm[a] \in Sources
  BY <1>7, LinkedExists
<1>9. explicit' = explicit /\ checked' = checked /\ implicit' = implicit /\ mixed' = mixed /\ loaded' = loaded /\ disk' = disk /\ pending' = pending
  BY <1>1 DEF tracker
<1>10. TrackInv(obm, dirty)' /\ LoadInv(obm, dirty)' /\ EventsTrue(E)'
  BY <1>7, <1>9 DEF TrackInv, TrackerTyped, Tracked, Untracked, LoadInv, Holds, Fields, HoldsContent, look_up_qualifier,
                    EventsTrue, create_source_path_event, Event, Reported
<1>11. events' = E /\ pending' \cup Reported(E) = dirty /\ rebuilt' = difference(obm, build_map')
  BY <1>1, <1>4, <1>5, <1>6
<1>12. BuiltOver(obm)'
  BY <1>8, <1>10, <1>11 DEF BuiltOver
<1>13. PICK d : d = disk
  OBVIOUS
<1>14. BuiltFrom(d, build_map, pending)'
  BY <1>1, <1>2, <1>13 DEF BuiltFrom, TypeInv
<1>15. (EventsTrue(events) /\ BuildInv(build_map, pending))'
  BY <1>10, <1>11, <1>14 DEF BuildInv
<1>16. Updating'
  BY <1>1, <1>12, <1>15 DEF Updating
<1> QED
  BY <1>1, <1>3, <1>16 DEF Inv

(***************************************************************************)
(* UpdateModules: the events of the batch                                  *)
(***************************************************************************)
BatchOver(bm) == TypeInv /\ EventsTrue(events) /\ BuildInv(build_map, pending) /\ BuiltOver(bm)

(* The artifact events of a batch: the differences of the build maps, and  *)
(* the events.                                                             *)
LEMMA EventIs ==
  ASSUME NEW bm, BatchOver(bm), NEW a, NEW k
  PROVE  Event(k, a) \in ArtifactEvents
           <=> \/ k = "Deleted" /\ a \in DOMAIN bm \ DOMAIN build_map
               \/ k = "CreatedOrChanged" /\ a \in DOMAIN build_map /\ (a \notin DOMAIN bm \/ bm[a] # build_map[a])
               \/ a \in DOMAIN build_map /\ Event(k, build_map[a]) \in events
<1>0. rebuilt = difference(bm, build_map) /\ events \subseteq SourceEvents
  BY DEF BatchOver, BuiltOver, TypeInv
<1>1. \A j, b : Event(k, a) = Event(j, b) <=> k = j /\ a = b
  <2> SUFFICES ASSUME NEW j, NEW b PROVE Event(k, a) = Event(j, b) <=> k = j /\ a = b
    OBVIOUS
  <2>1. Event(k, a).kind = k /\ Event(k, a).path = a /\ Event(j, b).kind = j /\ Event(j, b).path = b
    BY DEF Event
  <2> QED
    BY <2>1
<1>2. Event(k, a) \in rebuilt
        <=> \/ k = "Deleted" /\ a \in DOMAIN bm \ DOMAIN build_map
            \/ k = "CreatedOrChanged" /\ a \in DOMAIN build_map /\ (a \notin DOMAIN bm \/ bm[a] # build_map[a])
  <2>1. Event(k, a) \in difference(bm, build_map)
          <=> \/ \E b \in DOMAIN bm \ DOMAIN build_map : Event(k, a) = Event("Deleted", b)
              \/ \E b \in DOMAIN build_map : (b \notin DOMAIN bm \/ bm[b] # build_map[b]) /\ Event(k, a) = Event("CreatedOrChanged", b)
    BY DEF difference
  <2> QED
    BY <1>0, <1>1, <2>1
<1>3. \A e \in events : e = Event(e.kind, e.path)
  BY <1>0 DEF SourceEvents, Event
<1>4. ASSUME NEW e \in events PROVE Event(k, a) \in {Event(e.kind, b) : b \in lookup_artifact(build_map, e.path)}
        <=> k = e.kind /\ a \in DOMAIN build_map /\ build_map[a] = e.path
  BY <1>1 DEF lookup_artifact
<1>5. (\E e \in events : k = e.kind /\ a \in DOMAIN build_map /\ build_map[a] = e.path)
        <=> a \in DOMAIN build_map /\ Event(k, build_map[a]) \in events
  <2>1. Event(k, build_map[a]).kind = k /\ Event(k, build_map[a]).path = build_map[a]
    BY DEF Event
  <2> QED
    BY <1>3, <2>1
<1>6. Event(k, a) \in UNION {{Event(e.kind, b) : b \in lookup_artifact(build_map, e.path)} : e \in events}
        <=> a \in DOMAIN build_map /\ Event(k, build_map[a]) \in events
  BY <1>4, <1>5
<1> QED
  BY <1>2, <1>6 DEF ArtifactEvents

LEMMA ArtifactEventsTyped == ASSUME NEW bm, BatchOver(bm) PROVE EventsTyped
<1>0. rebuilt = difference(bm, build_map) /\ events \subseteq SourceEvents /\ DOMAIN bm \subseteq Artifacts
  BY DEF BatchOver, BuiltOver, TypeInv
<1>1. DOMAIN build_map \subseteq Artifacts
  BY LinkedExists DEF BatchOver
<1>2. \A k \in EventKinds : \A a \in Artifacts : Event(k, a) \in [kind : EventKinds, path : Artifacts]
  BY DEF Event
<1>3. rebuilt \subseteq [kind : EventKinds, path : Artifacts]
  BY <1>0, <1>1, <1>2 DEF difference, EventKinds
<1>4. \A e \in events : e.kind \in EventKinds
  BY <1>0 DEF SourceEvents
<1>5. \A e \in events : \A a \in lookup_artifact(build_map, e.path) : Event(e.kind, a) \in [kind : EventKinds, path : Artifacts]
  BY <1>1, <1>2, <1>4 DEF lookup_artifact
<1>6. ArtifactEvents \subseteq [kind : EventKinds, path : Artifacts]
  BY <1>3, <1>5 DEF ArtifactEvents
<1> QED
  BY <1>6 DEF EventsTyped

(* What the artifact events say *)
BatchFacts(bm) ==
  /\ Created \subseteq DOMAIN build_map
  /\ \A a \in Removed \cap DOMAIN build_map : build_map[a] \notin pending => a \in Created
  /\ \A a \in Artifacts \ (Created \cup Removed) :
       /\ a \notin DOMAIN build_map => a \notin DOMAIN bm
       /\ a \in DOMAIN build_map => /\ a \in DOMAIN bm /\ bm[a] = build_map[a]
                                    /\ build_map[a] \notin Reported(events)

LEMMA BatchSays == ASSUME NEW bm, BatchOver(bm) PROVE BatchFacts(bm)
<1>0. events \subseteq SourceEvents /\ EventsTrue(events) /\ BuildInv(build_map, pending)
  BY DEF BatchOver, TypeInv
<1>1. Created \subseteq DOMAIN build_map
  <2> SUFFICES ASSUME NEW a \in Created PROVE a \in DOMAIN build_map
    OBVIOUS
  <2>1. Event("CreatedOrChanged", a) \in ArtifactEvents
    BY DEF Created
  <2> QED
    BY <2>1, EventIs
<1>2. ASSUME NEW a \in Removed \cap DOMAIN build_map, build_map[a] \notin pending PROVE a \in Created
  <2> DEFINE s == build_map[a]
  <2>1. Event("Deleted", a) \in ArtifactEvents /\ a \in Artifacts
    BY DEF Removed
  <2>2. Event("Deleted", s) \in events
    BY <1>2, <2>1, EventIs
  <2>3. Event("Deleted", s).path = s
    BY DEF Event
  <2>4. s \in Reported(events) \ pending
    BY <1>2, <2>2, <2>3 DEF Reported
  <2>5. create_source_path_event(s) \in events
    BY <1>0, <2>4 DEF EventsTrue
  <2>6. disk[s] # Absent
    BY <1>0, <1>2, LinkedExists
  <2>7. create_source_path_event(s) = Event("CreatedOrChanged", s)
    BY <2>6 DEF create_source_path_event
  <2>8. Event("CreatedOrChanged", a) \in ArtifactEvents
    BY <1>2, <2>5, <2>7, EventIs
  <2> QED
    BY <2>1, <2>8 DEF Created
<1>3. ASSUME NEW a \in Artifacts \ (Created \cup Removed), a \notin DOMAIN build_map PROVE a \notin DOMAIN bm
  <2>1. Event("Deleted", a) \notin ArtifactEvents
    BY DEF Removed
  <2> QED
    BY <1>3, <2>1, EventIs
<1>4. ASSUME NEW a \in Artifacts \ (Created \cup Removed), a \in DOMAIN build_map
      PROVE  a \in DOMAIN bm /\ bm[a] = build_map[a] /\ build_map[a] \notin Reported(events)
  <2>1. Event("Deleted", a) \notin ArtifactEvents /\ Event("CreatedOrChanged", a) \notin ArtifactEvents
    BY DEF Removed, Created
  <2>2. a \in DOMAIN bm /\ bm[a] = build_map[a]
    BY <1>4, <2>1, EventIs
  <2>3. Event("Deleted", build_map[a]) \notin events /\ Event("CreatedOrChanged", build_map[a]) \notin events
    BY <1>4, <2>1, EventIs
  <2>4. ASSUME build_map[a] \in Reported(events) PROVE FALSE
    <3>1. PICK e \in events : e.path = build_map[a]
      BY <2>4 DEF Reported
    <3>2. e = Event(e.kind, build_map[a]) /\ e.kind \in EventKinds
      BY <1>0, <3>1 DEF SourceEvents, Event
    <3> QED
      BY <2>3, <3>1, <3>2 DEF EventKinds
  <2> QED
    BY <2>2, <2>4
<1> QED
  BY <1>1, <1>2, <1>3, <1>4 DEF BatchFacts

(* The artifacts of mixed batches *)
LEMMA MixedIs ==
  ASSUME NEW bm, BatchOver(bm), UpdateModules
  PROVE  /\ Created \cap Removed \subseteq mixed'
         /\ \A a \in Artifacts \ (Created \cup Removed) : a \in mixed => a \in mixed'
<1> DEFINE Kinds(a) == {e.kind : e \in {x \in ArtifactEvents : x.path = a}}
           touched == {e.path : e \in ArtifactEvents}
<1>1. mixed' = (mixed \ touched) \cup {a \in touched : Cardinality(Kinds(a)) = 2}
  BY DEF UpdateModules
<1>t. ArtifactEvents \subseteq [kind : EventKinds, path : Artifacts]
  BY ArtifactEventsTyped DEF EventsTyped
<1>e. \A e \in ArtifactEvents : e = Event(e.kind, e.path) /\ e.kind \in EventKinds
  BY <1>t DEF Event
<1>2. ASSUME NEW a \in Created \cap Removed PROVE a \in mixed'
  <2>1. Event("CreatedOrChanged", a) \in ArtifactEvents /\ Event("Deleted", a) \in ArtifactEvents
    BY DEF Created, Removed
  <2>2. /\ Event("CreatedOrChanged", a).kind = "CreatedOrChanged" /\ Event("CreatedOrChanged", a).path = a
        /\ Event("Deleted", a).kind = "Deleted" /\ Event("Deleted", a).path = a
    BY DEF Event
  <2>3. Kinds(a) = EventKinds
    BY <1>e, <2>1, <2>2 DEF EventKinds
  <2>4. Cardinality(EventKinds) = 2
    <3>1. Cardinality({"CreatedOrChanged"}) = 1 /\ IsFiniteSet({"CreatedOrChanged"})
      BY FS_Singleton
    <3>2. "Deleted" \notin {"CreatedOrChanged"} /\ EventKinds = {"CreatedOrChanged"} \cup {"Deleted"}
      BY DEF EventKinds
    <3>3. Cardinality({"CreatedOrChanged"} \cup {"Deleted"}) = Cardinality({"CreatedOrChanged"}) + 1
      BY <3>1, <3>2, FS_AddElement
    <3> QED
      BY <3>1, <3>2, <3>3
  <2>5. a \in touched
    BY <2>1, <2>2
  <2> HIDE DEF touched, Kinds
  <2> QED
    BY <1>1, <2>3, <2>4, <2>5
<1>3. ASSUME NEW a \in Artifacts \ (Created \cup Removed), a \in mixed PROVE a \in mixed'
  <2>1. a \notin touched
    BY <1>e DEF Created, Removed, EventKinds
  <2> HIDE DEF touched, Kinds
  <2> QED
    BY <1>1, <1>3, <2>1
<1> QED
  BY <1>2, <1>3

(***************************************************************************)
(* UpdateModules: the tracker                                              *)
(***************************************************************************)
LEMMA TrackerAfter ==
  ASSUME NEW bm, BatchOver(bm), UpdateModules, status' = "idle"
  PROVE  TrackInv(build_map, pending)'
<1>0. TrackerTyped /\ EventsTyped /\ BatchFacts(bm)
  BY ArtifactEventsTyped, BatchSays DEF BatchOver, BuiltOver, TrackInv
<1>1. /\ explicit' = update_module_paths.paths /\ checked' = update_module_paths.flags /\ implicit' = update_children
      /\ build_map' = build_map /\ pending' = pending
  BY DEF UpdateModules
<1>2. BatchInv(update_module_paths, Created, Removed) /\ ChildrenInv(update_children, Created, Removed)
  BY <1>0, AfterBatch, AfterChildren DEF TrackerTyped
<1>3. /\ explicit' = [q \in Qualifiers |-> explicit'[q]] /\ implicit' = [q \in Qualifiers |-> implicit'[q]]
      /\ checked' = [a \in Artifacts |-> checked'[a]]
  BY <1>1, <1>2 DEF BatchInv, ChildrenInv
<1>4. ASSUME NEW q \in Qualifiers
      PROVE  /\ IsPaths(explicit'[q], q)
             /\ PathSet(explicit'[q]) = (PathSet(explicit[q]) \cup Of(Created, q)) \ Of(Removed, q)
             /\ implicit'[q] = (implicit[q] \cup In(Created, q)) \ In(Removed, q)
  BY <1>1, <1>2 DEF BatchInv, ModuleInv, ChildrenInv
<1>5. \A q \in Qualifiers : \A a \in implicit'[q] : a \in Artifacts /\ Parent(a) = q
  BY <1>0, <1>4 DEF TrackerTyped, In, Created
<1>6. TrackerTyped'
  BY <1>3, <1>4, <1>5 DEF TrackerTyped
<1>7. ASSUME NEW a \in Artifacts
      PROVE  /\ a \in PathSet(explicit'[Qualifier(a)])
                  <=> (a \in PathSet(explicit[Qualifier(a)]) \/ a \in Created) /\ a \notin Removed
             /\ Parent(a) # NULL =>
                  (a \in implicit'[Parent(a)] <=> (a \in implicit[Parent(a)] \/ a \in Created) /\ a \notin Removed)
  BY <1>4, QualifiersAre DEF Of, In
<1>8. ASSUME NEW a \in Artifacts
      PROVE  /\ Tracked(a)' <=> /\ a \in PathSet(explicit'[Qualifier(a)])
                                /\ Parent(a) # NULL => a \in implicit'[Parent(a)]
             /\ Untracked(a)' <=> /\ a \notin PathSet(explicit'[Qualifier(a)])
                                  /\ Parent(a) # NULL => a \notin implicit'[Parent(a)]
  BY DEF Tracked, Untracked, PathSet
<1>9. ASSUME NEW a \in Artifacts, a \notin mixed' PROVE ~ (a \in Created /\ a \in Removed) /\ (a \in Created \cup Removed \/ a \notin mixed)
  BY <1>9, MixedIs
<1>10. ASSUME NEW a \in Artifacts \ mixed
       PROVE  /\ a \notin DOMAIN bm => Untracked(a)
              /\ a \in DOMAIN bm /\ bm[a] \notin pending \cup Reported(events) => Tracked(a)
  BY DEF BatchOver, BuiltOver, TrackInv
<1>11. ASSUME NEW a \in Artifacts \ mixed', a \notin DOMAIN build_map PROVE Untracked(a)'
  <2>1. a \notin Created
    BY <1>0, <1>11 DEF BatchFacts
  <2>2. CASE a \in Removed
    BY <1>7, <1>8, <2>2
  <2>3. CASE a \notin Removed
    <3>1. Untracked(a)
      BY <1>0, <1>9, <1>10, <1>11, <2>1, <2>3 DEF BatchFacts
    <3> QED
      BY <1>7, <1>8, <2>1, <3>1 DEF Untracked
  <2> QED
    BY <2>2, <2>3
<1>12. ASSUME NEW a \in Artifacts \ mixed', a \in DOMAIN build_map, build_map[a] \notin pending PROVE Tracked(a)'
  <2>1. a \notin Removed
    BY <1>0, <1>9, <1>12 DEF BatchFacts
  <2>2. CASE a \in Created
    BY <1>7, <1>8, <2>1, <2>2
  <2>3. CASE a \notin Created
    <3>1. Tracked(a)
      BY <1>0, <1>9, <1>10, <1>12, <2>1, <2>3 DEF BatchFacts
    <3> QED
      BY <1>7, <1>8, <2>1, <3>1 DEF Tracked
  <2> QED
    BY <2>2, <2>3
<1> QED
  BY <1>1, <1>6, <1>11, <1>12 DEF TrackInv

(***************************************************************************)
(* UpdateModules: the environments                                         *)
(***************************************************************************)
LEMMA LoadedAfter ==
  ASSUME NEW bm, BatchOver(bm), UpdateModules, status' = "idle"
  PROVE  LoadInv(build_map, pending)'
<1> DEFINE r == update_module_paths
           ch == update_children
<1>0. TrackerTyped /\ EventsTyped /\ BatchFacts(bm)
  BY ArtifactEventsTyped, BatchSays DEF BatchOver, BuiltOver, TrackInv
<1>1. /\ explicit' = r.paths /\ checked' = r.flags /\ implicit' = ch
      /\ build_map' = build_map /\ pending' = pending /\ disk' = disk
      /\ \A q \in Qualifiers : r.updates[q] # IllegalState
      /\ loaded' = [q \in Qualifiers |->
               CASE r.updates[q].kind \in {"New", "Changed"} -> Load(r.updates[q].path, r.flags)
                 [] r.updates[q].kind = "Delete" \/ q \in ImplicitChanged(implicit, ch)
                      -> Load(look_up_qualifier(r.paths, ch, q), r.flags)
                 [] OTHER -> loaded[q]]
  BY DEF UpdateModules
<1>2. BatchInv(r, Created, Removed) /\ ChildrenInv(ch, Created, Removed)
  BY <1>0, AfterBatch, AfterChildren DEF TrackerTyped
<1>f. \A a \in Artifacts : a \in PathSet(explicit[Qualifier(a)]) => checked'[a] = checked[a]
  BY <1>1, <1>2 DEF BatchInv
<1> HIDE DEF r, ch
<1>3. ASSUME NEW q \in Qualifiers PROVE Holds(q, loaded[q], build_map, pending)'
  <2> DEFINE p0 == explicit[q]
             p == r.paths[q]
             u == r.updates[q]
             old == look_up_qualifier(explicit, implicit, q)
             new == look_up_qualifier(r.paths, ch, q)
  <2>1. ModuleInv(q, p0, p, u, Of(Created, q), Of(Removed, q)) /\ u # IllegalState
    BY <1>1, <1>2 DEF BatchInv
  <2>2. IsPaths(p0, q) /\ IsPaths(p, q)
    BY <2>1 DEF ModuleInv
  <2>3. /\ PathSet(p) # {} => new = Head(p) /\ new \in PathSet(p) /\ new \in Artifacts /\ Qualifier(new) = q
        /\ PathSet(p) = {} => new \notin Artifacts /\ new = IF ch[q] # {} THEN "implicit" ELSE "not found"
    BY <2>2, LookUpIs
  <2>4. /\ PathSet(p0) # {} => old = Head(p0) /\ old \in PathSet(p0) /\ old \in Artifacts /\ Qualifier(old) = q
        /\ PathSet(p0) = {} => old \notin Artifacts /\ old = IF implicit[q] # {} THEN "implicit" ELSE "not found"
    BY <2>2, LookUpIs
  <2>5. loaded'[q] = CASE u.kind \in {"New", "Changed"} -> Load(u.path, checked')
                       [] u.kind = "Delete" \/ q \in ImplicitChanged(implicit, ch) -> Load(new, checked')
                       [] OTHER -> loaded[q]
    BY <1>1
  <2>6. \/ Same(p0, p, u, Of(Created, q), Of(Removed, q)) \/ New(p0, p, u) \/ Changed(p, u)
        \/ Deleted(p, u, Of(Removed, q))
    BY <2>1 DEF ModuleInv, Illegal
  <2>7. look_up_qualifier(explicit, implicit, q)' = new
    BY <1>1
  <2> HIDE DEF p, p0, u, old, new
  <2>8. ASSUME loaded'[q] = Load(new, checked') PROVE Holds(q, loaded[q], build_map, pending)'
    <3>1. PICK l : l = Load(new, checked')
      OBVIOUS
    <3>2. /\ l.path = new
          /\ l = [path |-> l.path, checked |-> l.path \in Artifacts /\ checked'[l.path], content |-> l.content]
          /\ new \notin Artifacts => l.content = Absent
          /\ new \in Artifacts /\ new \in DOMAIN build_map => l.content = disk[build_map[new]]
      BY <3>1, LoadHolds
    <3>3. /\ loaded'[q] = l
          /\ l.path \in Artifacts /\ l.path \in DOMAIN build_map => l.content = disk[build_map[l.path]]
      BY <2>8, <3>1, <3>2
    <3> QED
      BY <1>1, <2>7, <3>2, <3>3 DEF Holds, Fields, HoldsContent
  <2>9. CASE New(p0, p, u) \/ Changed(p, u)
    <3>1. u.kind \in {"New", "Changed"} /\ u.path = Head(p) /\ PathSet(p) # {}
      BY <2>9 DEF New, Changed, Update
    <3>2. Load(u.path, checked') = Load(new, checked')
      BY <2>3, <3>1
    <3>3. u.kind # "Delete"
      BY <3>1
    <3>4. loaded'[q] = Load(new, checked')
      BY <2>5, <3>1, <3>2
    <3> QED
      BY <2>8, <3>4
  <2>10. CASE Deleted(p, u, Of(Removed, q))
    <3>1. u.kind = "Delete" /\ u.kind \notin {"New", "Changed"}
      BY <2>10 DEF Deleted, Update
    <3>2. loaded'[q] = Load(new, checked')
      BY <2>5, <3>1
    <3> QED
      BY <2>8, <3>2
  <2>11. CASE Same(p0, p, u, Of(Created, q), Of(Removed, q))
    <3>1. u.kind = "None"
      BY <2>11 DEF Same, None
    <3>2. CASE q \in ImplicitChanged(implicit, ch)
      <4>1. loaded'[q] = Load(new, checked')
        BY <2>5, <3>1, <3>2
      <4> QED
        BY <2>8, <4>1
    <3>3. CASE q \notin ImplicitChanged(implicit, ch)
      <4>1. loaded'[q] = loaded[q]
        BY <2>5, <3>1, <3>3
      <4>2. (implicit[q] = {}) = (ch[q] = {})
        BY <3>3 DEF ImplicitChanged
      <4>3. /\ PathSet(p) = {} <=> PathSet(p0) = {}
            /\ PathSet(p) # {} => /\ Head(p) = Head(p0) /\ Head(p) \notin Of(Removed, q)
                                  /\ Head(p) \in Of(Created, q) => Outdated(Head(p))
        BY <2>11 DEF Same
      <4>4. new = old
        <5>1. ch[q] # {} <=> implicit[q] # {}
          BY <4>2
        <5>2. CASE PathSet(p) # {}
          <6>1. new = Head(p) /\ old = Head(p0) /\ Head(p) = Head(p0)
            BY <2>3, <2>4, <4>3, <5>2
          <6> QED
            BY <6>1
        <5>3. CASE PathSet(p) = {}
          <6>1. PathSet(p0) = {}
            BY <4>3, <5>3
          <6>2. new = IF ch[q] # {} THEN "implicit" ELSE "not found"
            BY <2>3, <5>3
          <6>3. old = IF implicit[q] # {} THEN "implicit" ELSE "not found"
            BY <2>4, <6>1
          <6> QED
            BY <5>1, <6>2, <6>3
        <5> QED
          BY <5>2, <5>3
      <4>5. PICK l : l = loaded[q]
        OBVIOUS
      <4>6. Holds(q, l, bm, pending \cup Reported(events))
        BY <4>5 DEF BatchOver, BuiltOver, LoadInv
      <4>7. Fields(l) /\ l.path = old /\ (l.path \notin Artifacts => l.content = Absent)
        BY <4>6 DEF Holds, old
      <4>8. HoldsContent(l, bm, pending \cup Reported(events))
        BY <4>6 DEF Holds
      <4>o. ASSUME old \in Artifacts
            PROVE  /\ PathSet(p) # {} /\ old = Head(p) /\ Qualifier(old) = q /\ checked'[old] = checked[old]
        <5>1. PathSet(p) # {} /\ PathSet(p0) # {} /\ old = Head(p) /\ Qualifier(old) = q /\ old \in PathSet(p0)
          BY <2>4, <4>3, <4>o
        <5>2. checked'[old] = checked[old]
          BY <1>f, <4>o, <5>1 DEF p0
        <5> QED
          BY <5>1, <5>2
      <4>9. ASSUME old \in Artifacts, old \notin mixed', old \in DOMAIN build_map, build_map[old] \notin pending,
                   checked'[old] = Internal(build_map[old])
            PROVE  l.content = disk[build_map[old]]
        <5>1. PathSet(p) # {} /\ old = Head(p) /\ Qualifier(old) = q /\ checked'[old] = checked[old]
          BY <4>9, <4>o
        <5>2. disk[build_map[old]] # Absent
          BY <4>9, LinkedExists DEF BatchOver
        <5>3. ~ Outdated(old)
          <6>1. should_type_check(old) = Internal(build_map[old])
            BY <4>9, <5>2 DEF should_type_check, ContentOf
          <6> QED
            BY <4>9, <5>1, <6>1 DEF Outdated
        <5>4. old \notin Created \cup Removed
          BY <4>3, <4>9, <5>1, <5>3 DEF Of
        <5>5. old \notin mixed
          BY <4>9, <5>4, MixedIs
        <5>6. old \in DOMAIN bm /\ bm[old] = build_map[old] /\ build_map[old] \notin Reported(events)
          BY <1>0, <4>9, <5>4 DEF BatchFacts
        <5> QED
          BY <4>7, <4>8, <4>9, <5>1, <5>5, <5>6 DEF HoldsContent
      <4>10. /\ loaded'[q] = l /\ l.path = new /\ (l.path \notin Artifacts => l.content = Absent)
             /\ /\ l.path \in Artifacts \ mixed' /\ l.path \in DOMAIN build_map /\ build_map[l.path] \notin pending
                /\ checked'[l.path] = Internal(build_map[l.path])
                => l.content = disk[build_map[l.path]]
        BY <4>1, <4>4, <4>5, <4>7, <4>9
      <4>11. l = [path |-> l.path, checked |-> l.path \in Artifacts /\ checked'[l.path], content |-> l.content]
        <5>1. (l.path \in Artifacts /\ checked'[l.path]) = (l.path \in Artifacts /\ checked[l.path])
          BY <4>7, <4>o
        <5>2. l = [path |-> l.path, checked |-> l.path \in Artifacts /\ checked[l.path], content |-> l.content]
          BY <4>7 DEF Fields
        <5> QED
          BY <5>1, <5>2
      <4> QED
        BY <1>1, <2>7, <4>10, <4>11 DEF Holds, Fields, HoldsContent
    <3> QED
      BY <3>2, <3>3
  <2> QED
    BY <2>6, <2>9, <2>10, <2>11
<1>4. loaded' = [q \in Qualifiers |-> loaded'[q]]
  BY <1>1
<1> QED
  BY <1>3, <1>4 DEF LoadInv

LEMMA UpdateModulesInv == ASSUME Inv, UpdateModules PROVE Inv'
<1>1. /\ status = "updating" /\ events' = {} /\ current' = {}
      /\ UNCHANGED <<disk, pending, deferred, build_map>>
  BY DEF UpdateModules
<1>2. TypeInv /\ Updating
  BY <1>1 DEF Inv
<1>3. TypeInv'
  BY <1>1, <1>2 DEF TypeInv
<1>4. PICK bm : BuiltOver(bm)
  BY <1>2 DEF Updating
<1>5. BatchOver(bm)
  BY <1>2, <1>4 DEF BatchOver, Updating
<1>6. \/ status' = "idle"
      \/ status' = "illegal" /\ \E q \in Qualifiers : update_module_paths.updates[q] = IllegalState
  BY DEF UpdateModules
<1>7. CASE status' = "idle"
  <2>1. TrackInv(build_map, pending)' /\ LoadInv(build_map, pending)'
    BY <1>5, <1>7, TrackerAfter, LoadedAfter
  <2>2. deferred' = {} /\ pending' \cup Reported({}) = pending'
    BY <1>1, <1>2 DEF Updating, Reported
  <2>3. BuildInv(build_map, pending)'
    BY <1>1, <1>2 DEF Updating, BuildInv, BuiltFrom
  <2>4. EventsTrue({})'
    BY DEF EventsTrue, Reported
  <2>5. Steady(deferred)'
    BY <2>1, <2>2, <2>3, <2>4 DEF Steady
  <2> QED
    BY <1>3, <1>7, <2>5 DEF Inv
<1>8. CASE status' = "illegal" /\ \E q \in Qualifiers : update_module_paths.updates[q] = IllegalState
  <2>1. PICK q \in Qualifiers : update_module_paths.updates[q] = IllegalState
    BY <1>8
  <2>2. TrackerTyped /\ EventsTyped
    BY <1>5, ArtifactEventsTyped DEF BatchOver, BuiltOver, TrackInv
  <2>3. BatchInv(update_module_paths, Created, Removed)
    BY <2>2, AfterBatch DEF TrackerTyped
  <2>4. PICK p : p = update_module_paths.paths[q]
    OBVIOUS
  <2>5. ModuleInv(q, explicit[q], p, IllegalState, Of(Created, q), Of(Removed, q))
    BY <2>1, <2>3, <2>4 DEF BatchInv
  <2>6. \A x : IllegalState # None /\ \A k \in {"New", "Changed", "Delete"} : IllegalState # Update(k, x)
    <3>1. IllegalState.kind = "Illegal" /\ None.kind = "None"
      BY DEF IllegalState, None
    <3>2. \A x : \A k \in {"New", "Changed", "Delete"} : Update(k, x).kind = k /\ k # "Illegal"
      BY DEF Update
    <3> QED
      BY <3>1, <3>2
  <2>7. Of(Created, q) \cap Of(Removed, q) # {}
    BY <2>5, <2>6 DEF ModuleInv, Illegal, Same, New, Changed, Deleted
  <2>8. mixed' # {}
    BY <1>5, <2>7, MixedIs DEF Of
  <2> QED
    BY <1>3, <1>8, <2>8 DEF Inv
<1> QED
  BY <1>6, <1>7, <1>8

LEMMA StutterInv == ASSUME Inv, UNCHANGED vars PROVE Inv'
<1>1. /\ UNCHANGED <<disk, pending, status, events, current, deferred, build_map, rebuilt>>
      /\ explicit' = explicit /\ checked' = checked /\ implicit' = implicit /\ loaded' = loaded /\ mixed' = mixed
  BY DEF vars
<1>2. TypeInv'
  BY <1>1 DEF Inv, TypeInv
<1>3. \A E : Steady(E) => Steady(E)'
  BY <1>1, SteadyKept
<1>4. status = "idle" => Steady(deferred)'
  BY <1>1, <1>3 DEF Inv, Steady
<1>5. status = "building" => Steady(events)' /\ events' = deferred' \cup current'
  BY <1>1, <1>3 DEF Inv, Steady
<1>6. ASSUME status = "updating" PROVE Updating'
  <2>0. Updating
    BY <1>6 DEF Inv
  <2>1. PICK obm : BuiltOver(obm)
    BY <2>0 DEF Updating
  <2>2. PICK bm : bm = build_map
    OBVIOUS
  <2>3. PICK E : E = events
    OBVIOUS
  <2>4. PICK dirty : dirty = pending \cup Reported(E)
    OBVIOUS
  <2>5. PICK old : old = pending
    OBVIOUS
  <2>6. /\ DOMAIN obm \subseteq Artifacts /\ (\A a \in DOMAIN obm : obm[a] \in Sources)
        /\ rebuilt = difference(obm, bm)
        /\ TrackInv(obm, dirty) /\ LoadInv(obm, dirty) /\ EventsTrue(E) /\ BuildInv(bm, old)
    BY <2>0, <2>1, <2>2, <2>3, <2>4, <2>5 DEF Updating, BuiltOver
  <2>7. TrackInv(obm, dirty)' /\ LoadInv(obm, dirty)'
    BY <1>1, <2>6 DEF TrackInv, TrackerTyped, Tracked, Untracked, LoadInv, Holds, Fields, HoldsContent, look_up_qualifier
  <2>8. EventsTrue(E)'
    BY <1>1, <2>6 DEF EventsTrue, create_source_path_event, Event, Reported
  <2>9. BuildInv(bm, old)'
    BY <1>1, <2>6 DEF BuildInv, BuiltFrom
  <2>10. /\ pending' \cup Reported(E) = dirty /\ pending' = old
         /\ build_map' = bm /\ events' = E /\ deferred' = {} /\ rebuilt' = difference(obm, bm)
    BY <1>1, <2>0, <2>2, <2>3, <2>4, <2>5, <2>6 DEF Updating
  <2>11. BuiltOver(obm)'
    BY <2>6, <2>7, <2>10 DEF BuiltOver
  <2>12. (EventsTrue(events) /\ BuildInv(build_map, pending))'
    BY <2>8, <2>9, <2>10
  <2> QED
    BY <2>10, <2>11, <2>12 DEF Updating
<1> QED
  BY <1>1, <1>2, <1>4, <1>5, <1>6 DEF Inv

(* The inductive invariant. *)
LEMMA InvAlways == Spec => []Inv
<1>1. Inv /\ [Next]_vars => Inv'
  <2> SUFFICES ASSUME Inv, [Next]_vars PROVE Inv'
    OBVIOUS
  <2> QED
    BY ChangeFileInv, ReceiveUpdateInv, SkipRebuildInv, RebuildInv, BuckErrorInv, StoppedInv, UpdateModulesInv, StutterInv
    DEF Next
<1> QED
  BY <1>1, InitInv, PTL DEF Spec

LEMMA InvExact == Inv => TrackerExact
<1> SUFFICES ASSUME Inv, Quiet PROVE /\ build_map = construct_build_map(disk)
                                     /\ \A q \in Qualifiers \ Disturbed :
                                          /\ explicit[q] = PathsOf(q) \/ (explicit[q] = NULL /\ PathsOf(q) = <<>>)
                                          /\ implicit[q] = ChildrenOf(q)
  BY DEF TrackerExact
<1>1. TypeInv /\ Steady({}) /\ pending \cup Reported({}) = {}
  BY DEF Quiet, Inv, Reported
<1>2. BuildInv(build_map, {}) /\ TrackInv(build_map, {})
  BY <1>1 DEF Steady
<1>3. build_map = construct_build_map(disk)
  BY <1>1, <1>2, CleanBuild
<1>4. \A a \in Artifacts : Exists(a) <=> a \in DOMAIN build_map
  BY <1>2, LinkedExists DEF Exists, ContentOf
<1>5. ASSUME NEW q \in Qualifiers \ Disturbed
      PROVE  /\ explicit[q] = PathsOf(q) \/ (explicit[q] = NULL /\ PathsOf(q) = <<>>)
             /\ implicit[q] = ChildrenOf(q)
  <2>1. \A a : Qualifier(a) = q \/ Parent(a) = q => a \notin mixed
    BY <1>5 DEF Disturbed
  <2>2. IsPaths(explicit[q], q) /\ \A a \in implicit[q] : a \in Artifacts /\ Parent(a) = q
    BY <1>2 DEF TrackInv, TrackerTyped
  <2>3. ASSUME NEW a \in Artifacts, a \notin mixed PROVE (a \in DOMAIN build_map => Tracked(a)) /\ (a \notin DOMAIN build_map => Untracked(a))
    BY <1>2, <2>3 DEF TrackInv
  <2>4. \A a \in PathSet(explicit[q]) : a \in Artifacts /\ Qualifier(a) = q
    <3>1. CASE explicit[q] = NULL
      BY <3>1 DEF PathSet
    <3>2. CASE Ordered(explicit[q], q)
      <4>1. explicit[q] \in Seq(Artifacts) /\ PathSet(explicit[q]) = Range(explicit[q])
        BY <3>2, PathSetIs DEF Ordered
      <4> QED
        BY <3>2, <4>1, RangeIs, PrioritiesAre DEF Ordered
    <3> QED
      BY <2>2, <3>1, <3>2 DEF IsPaths
  <2>5. PathSet(explicit[q]) = {a \in Artifacts : Qualifier(a) = q /\ Exists(a)}
    BY <1>4, <2>1, <2>3, <2>4 DEF Tracked, Untracked
  <2>6. Ordered(PathsOf(q), q) /\ Range(PathsOf(q)) = PathSet(explicit[q])
    BY <2>5, PathsOfAre
  <2>7. explicit[q] = PathsOf(q) \/ (explicit[q] = NULL /\ PathsOf(q) = <<>>)
    <3>1. CASE explicit[q] = NULL
      <4>1. Range(PathsOf(q)) = {}
        BY <2>6, <3>1 DEF PathSet
      <4> QED
        BY <2>6, <3>1, <4>1, PathSetIs
    <3>2. CASE Ordered(explicit[q], q)
      <4>1. Range(explicit[q]) = Range(PathsOf(q))
        BY <2>6, <3>2, PathSetIs
      <4> QED
        BY <2>6, <3>2, <4>1, OneOrder
    <3> QED
      BY <2>2, <3>1, <3>2 DEF IsPaths
  <2>8. q # NULL
    BY QualifierNotNull
  <2>9. implicit[q] = {a \in Artifacts : Parent(a) = q /\ Exists(a)}
    BY <1>4, <2>1, <2>2, <2>3, <2>8 DEF Tracked, Untracked
  <2> QED
    BY <2>7, <2>9 DEF ChildrenOf
<1> QED
  BY <1>3, <1>5

LEMMA InvFresh == Inv => ModulesFresh
<1> SUFFICES ASSUME Inv, Quiet, NEW q \in Qualifiers \ Disturbed
             PROVE  LET found == look_up_qualifier(explicit, implicit, q)
                    IN loaded[q].path = found /\ (~ Outdated(found) => loaded[q] = Load(found, checked))
  BY DEF ModulesFresh
<1>1. TypeInv /\ Steady({}) /\ pending \cup Reported({}) = {}
  BY DEF Quiet, Inv, Reported
<1>2. BuildInv(build_map, {}) /\ TrackInv(build_map, {}) /\ LoadInv(build_map, {})
  BY <1>1 DEF Steady
<1> DEFINE l == look_up_qualifier(explicit, implicit, q)
<1>3. PICK x : x = loaded[q]
  OBVIOUS
<1>4. Fields(x) /\ x.path = l /\ (x.path \notin Artifacts => x.content = Absent) /\ HoldsContent(x, build_map, {})
  BY <1>2, <1>3 DEF LoadInv, Holds
<1>5. IsPaths(explicit[q], q)
  BY <1>2 DEF TrackInv, TrackerTyped
<1>6. l \in Artifacts => l \in PathSet(explicit[q]) /\ Qualifier(l) = q
  BY <1>5, LookUpIs
<1> HIDE DEF l
<1>7. ASSUME l \in Artifacts PROVE l \notin mixed /\ l \in DOMAIN build_map
  <2>1. l \notin mixed
    BY <1>6, <1>7 DEF Disturbed
  <2> QED
    BY <1>2, <1>6, <1>7, <2>1 DEF TrackInv, Untracked
<1>8. ASSUME ~ Outdated(l) PROVE loaded[q] = Load(l, checked)
  <2>1. ASSUME l \in Artifacts PROVE x.content = disk[build_map[l]]
    <3>1. l \notin mixed /\ l \in DOMAIN build_map
      BY <1>7, <2>1
    <3>2. disk[build_map[l]] # Absent
      BY <1>2, <3>1, LinkedExists
    <3>3. should_type_check(l) = Internal(build_map[l])
      BY <3>1, <3>2 DEF should_type_check, ContentOf
    <3>4. checked[l] = Internal(build_map[l])
      BY <1>8, <2>1, <3>3 DEF Outdated
    <3> QED
      BY <1>4, <2>1, <3>1, <3>4 DEF HoldsContent
  <2>2. x.content = IF l \in Artifacts THEN ContentOf(l) ELSE Absent
    BY <1>4, <1>7, <2>1 DEF ContentOf
  <2>3. x = [path |-> l, checked |-> l \in Artifacts /\ checked[l], content |-> x.content]
    BY <1>4 DEF Fields
  <2> QED
    BY <1>3, <2>2, <2>3 DEF Load
<1> QED
  BY <1>3, <1>4, <1>8 DEF l

(***************************************************************************)
(* For any source tree, build definition, set of modules and packages, any *)
(* number of changes and failed builds: when the server has dealt with all *)
(* it was told, its build map, its lists of paths and its packages are     *)
(* those of a server that starts now, except for modules whose last batch  *)
(* had events of both kinds for one path.  This is about raw paths, not    *)
(* about the should_type_check field kept with them.                       *)
(***************************************************************************)
THEOREM IncrementalTrackerIsExact == Spec => []TrackerExact
<1>1. Spec => []Inv
  BY InvAlways
<1>2. Inv => TrackerExact
  BY InvExact
<1> QED
  BY <1>1, <1>2, PTL

(***************************************************************************)
(* The updates that merge_updates makes of the events of a batch name      *)
(* every module whose path or existence is another one, and those whose    *)
(* content is another one unless the path that is kept for it is outdated  *)
(* in its should_type_check: a module that is not named is still held as a *)
(* lookup and, with that exception, the disk have it.                      *)
(***************************************************************************)
THEOREM UpdatesAreEnough == Spec => []ModulesFresh
<1>1. Spec => []Inv
  BY InvAlways
<1>2. Inv => ModulesFresh
  BY InvFresh
<1> QED
  BY <1>1, <1>2, PTL

(***************************************************************************)
(* merge_updates fails only in a batch that has a path both as created and *)
(* as deleted: shadowed files that come and go do not make it fail.        *)
(***************************************************************************)
THEOREM MergeFailsOnlyIfMixed == Spec => []IllegalOnlyIfMixed
<1>1. Spec => []Inv
  BY InvAlways
<1>2. Inv => IllegalOnlyIfMixed
  BY DEF Inv, IllegalOnlyIfMixed
<1> QED
  BY <1>1, <1>2, PTL
=============================================================================

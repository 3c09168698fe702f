--------------------------- MODULE SharedTableProofs ---------------------------
(***************************************************************************)
(* Proofs about SharedTable, for every set of keys and values, any number  *)
(* of workers and every capacity of the caches.                            *)
(***************************************************************************)
EXTENDS SharedTable, FiniteSetTheorems, TLAPS

Phase == {"add", "preserve", "map"}
Mode == Sequential \cup Phase \cup {"clean"}

TypeInv ==
  /\ mode \in Mode
  /\ new \in [Key -> Option] /\ old \in [Key -> Option] /\ expected \in [Key -> Option]
  /\ keys \in [Key -> Nat] /\ written \in [Key -> Nat]
  /\ oldified \in SUBSET Key /\ undealt \in SUBSET Key /\ busy \in SUBSET Worker
  /\ job \in [Worker -> SUBSET Key] /\ answer \in [Worker -> SUBSET Key]

-----------------------------------------------------------------------------
(* A cache on its own: the counters count the entries, and an entry of L1  *)
(* is in its queue, once or more often.                                    *)

CacheType ==
  [l1 : [Key -> Option], queue : Seq(Key), size1 : Nat, l2 : [Key -> Option], size2 : Nat]

Queued(c, k) == \E i \in 1 .. Len(c.queue) : c.queue[i] = k

CacheOK(c) ==
  /\ c \in CacheType
  /\ IsFiniteSet(Bound(c.l1)) /\ c.size1 = Cardinality(Bound(c.l1))
  /\ IsFiniteSet(Bound(c.l2)) /\ c.size2 = Cardinality(Bound(c.l2))
  /\ \A k \in Bound(c.l1) : Queued(c, k)

(* The cache agrees with the table t. *)
Agrees(c, t) == \A k \in Key : c.l1[k] \in {None, t[k]} /\ c.l2[k] \in {None, t[k]}

CacheInv ==
  /\ cache \in [Process -> CacheType]
  /\ \A p \in Process : CacheOK(cache[p]) /\ Agrees(cache[p], new)

-----------------------------------------------------------------------------
(* A phase: each of its inputs is in one place. *)

Pending(k) == k \in undealt \/ \E w \in Worker : k \in job[w]
Answered(k) == written[k] > 0 \/ \E w \in Worker : k \in answer[w]

PhaseInv ==
  /\ \A w \in Worker : w \notin busy => job[w] = {} /\ answer[w] = {} /\ cache[w] = EmptyCache
  /\ mode \notin Phase => undealt = {} /\ busy = {}
  /\ \A w \in Worker : \A k \in job[w] : k \notin undealt
  /\ \A v, w \in Worker : v # w => job[v] \cap job[w] = {} /\ answer[v] \cap answer[w] = {}
  /\ \A k \in Key : Pending(k) => ~ Answered(k)
  /\ \A k \in Key : written[k] <= 1
  /\ \A w \in Worker : \A k \in answer[w] : written[k] = 0

(* What is in the table, and in the list of its keys *)
AddInv ==
  mode = "add" =>
    \A k \in Key :
      /\ Pending(k) => new[k] = None
      /\ Pending(k) \/ Answered(k) => keys[k] = 0
      /\ new[k] # None => keys[k] > 0 \/ Answered(k)

PreserveInv ==
  /\ mode \in {"oldified", "preserve", "preserved"} => \A k \in Key : old[k] # None => k \in oldified
  /\ mode = "oldified" => \A k \in oldified : new[k] = None
  /\ mode = "preserve" => \A k \in Key : Pending(k) => new[k] = None /\ keys[k] > 0

MapInv ==
  /\ mode = "map" =>
       \A k \in Key :
         /\ expected[k] = IF new[k] = None THEN None ELSE F(new[k])
         /\ Answered(k) => new[k] # None /\ old[k] = F(new[k])
         /\ ~ Answered(k) => old[k] = None /\ (new[k] = None \/ Pending(k))
  /\ mode = "mapped" => \A k \in Key : new[k] = expected[k]

HandleInv ==
  /\ \A k \in Key : keys[k] <= 1
  /\ mode \in Sequential \cup {"preserve", "map"} =>
       \A k \in Key : new[k] # None \/ old[k] # None => keys[k] > 0
  /\ mode \in {"idle", "mapped", "add", "clean"} => \A k \in Key : old[k] = None
  /\ mode = "clean" => \A k \in Key : new[k] = None

ContentInv == AddInv /\ PreserveInv /\ MapInv /\ HandleInv

Inv == TypeInv /\ CacheInv /\ PhaseInv /\ ContentInv

-----------------------------------------------------------------------------
(***************************************************************************)
(* The caches                                                              *)
(***************************************************************************)
LEMMA CapacityPositive == Capacity \in Nat /\ Capacity > 0
BY TableAssumption

LEMMA BoundOfNothing == Bound(NoValues) = {} /\ NoValues \in [Key -> Option]
BY DEF Bound, NoValues, Option

LEMMA EmptyCacheOK == CacheOK(EmptyCache) /\ \A t : Agrees(EmptyCache, t)
<1>1. EmptyCache \in CacheType
  BY BoundOfNothing DEF EmptyCache, CacheType
<1>2. IsFiniteSet(Bound(NoValues)) /\ Cardinality(Bound(NoValues)) = 0
  BY BoundOfNothing, FS_EmptySet
<1>3. EmptyCache.l1 = NoValues /\ EmptyCache.l2 = NoValues /\ EmptyCache.size1 = 0 /\ EmptyCache.size2 = 0
  BY DEF EmptyCache
<1>4. CacheOK(EmptyCache)
  BY <1>1, <1>2, <1>3, BoundOfNothing DEF CacheOK
<1>5. \A t : Agrees(EmptyCache, t)
  BY <1>3 DEF Agrees, NoValues
<1> QED
  BY <1>4, <1>5

(* How many entries a level has after one of them is set or dropped *)
LEMMA BoundSet ==
  ASSUME NEW t \in [Key -> Option], IsFiniteSet(Bound(t)), NEW x \in Key, NEW y \in Data
  PROVE  LET u == [t EXCEPT ![x] = y]
         IN  /\ u \in [Key -> Option]
             /\ Bound(u) = Bound(t) \cup {x}
             /\ IsFiniteSet(Bound(u))
             /\ Cardinality(Bound(t)) \in Nat
             /\ Cardinality(Bound(u)) =
                  IF t[x] = None THEN Cardinality(Bound(t)) + 1 ELSE Cardinality(Bound(t))
<1> DEFINE u == [t EXCEPT ![x] = y]
<1>1. u \in [Key -> Option]
  BY DEF Option
<1>2. Bound(u) = Bound(t) \cup {x}
  BY TableAssumption DEF Bound
<1>3. x \in Bound(t) <=> t[x] # None
  BY DEF Bound
<1>4. /\ IsFiniteSet(Bound(t) \cup {x})
      /\ Cardinality(Bound(t) \cup {x}) =
           IF x \in Bound(t) THEN Cardinality(Bound(t)) ELSE Cardinality(Bound(t)) + 1
  BY FS_AddElement
<1> QED
  BY <1>1, <1>2, <1>3, <1>4, FS_CardinalityType

LEMMA BoundDrop ==
  ASSUME NEW t \in [Key -> Option], IsFiniteSet(Bound(t)), NEW x \in Key
  PROVE  LET u == [t EXCEPT ![x] = None]
         IN  /\ u \in [Key -> Option]
             /\ Bound(u) = Bound(t) \ {x}
             /\ IsFiniteSet(Bound(u))
             /\ Cardinality(Bound(u)) \in Nat
             /\ Cardinality(Bound(u)) =
                  IF t[x] = None THEN Cardinality(Bound(t)) ELSE Cardinality(Bound(t)) - 1
<1> DEFINE u == [t EXCEPT ![x] = None]
<1>1. u \in [Key -> Option]
  BY DEF Option
<1>2. Bound(u) = Bound(t) \ {x}
  BY DEF Bound
<1>3. x \in Bound(t) <=> t[x] # None
  BY DEF Bound
<1>4. /\ IsFiniteSet(Bound(t) \ {x})
      /\ Cardinality(Bound(t) \ {x}) =
           IF x \in Bound(t) THEN Cardinality(Bound(t)) - 1 ELSE Cardinality(Bound(t))
  BY FS_RemoveElement
<1> QED
  BY <1>1, <1>2, <1>3, <1>4, FS_CardinalityType

LEMMA BoundWithout ==
  ASSUME NEW t \in [Key -> Option], NEW S
  PROVE  /\ Without(t, S) \in [Key -> Option]
         /\ Bound(Without(t, S)) = Bound(t) \ S
         /\ \A k \in Key : Without(t, S)[k] = IF k \in S THEN None ELSE t[k]
BY DEF Without, Bound, Option

LEMMA CountWithout ==
  ASSUME NEW t \in [Key -> Option], IsFiniteSet(Bound(t)), NEW S
  PROVE  /\ IsFiniteSet(Bound(Without(t, S)))
         /\ Cardinality(Bound(Without(t, S))) = Cardinality(Bound(t)) - Cardinality(S \cap Bound(t))
         /\ Cardinality(Bound(Without(t, S))) \in Nat
<1>1. Bound(Without(t, S)) = Bound(t) \ S
  BY BoundWithout
<1>2. /\ IsFiniteSet(Bound(t) \ S)
      /\ Cardinality(Bound(t) \ S) = Cardinality(Bound(t)) - Cardinality(Bound(t) \cap S)
  BY FS_Difference
<1>3. Bound(t) \cap S = S \cap Bound(t)
  OBVIOUS
<1> QED
  BY <1>1, <1>2, <1>3, FS_CardinalityType

(* "Remove oldest element": there is one. *)
LEMMA EvictOK ==
  ASSUME NEW c, CacheOK(c)
  PROVE  /\ CacheOK(Evict(c))
         /\ Evict(c).l2 = c.l2 /\ Evict(c).size2 = c.size2
         /\ \A k \in Key : Evict(c).l1[k] \in {None, c.l1[k]}
<1>0. c \in CacheType
  BY DEF CacheOK
<1>1. CASE c.size1 < Capacity
  BY <1>1 DEF Evict
<1>2. CASE ~ (c.size1 < Capacity)
  <2>1. c.size1 \in Nat /\ c.size1 # 0
    BY <1>0, <1>2, CapacityPositive DEF CacheType
  <2>2. Bound(c.l1) # {}
    BY <2>1, FS_EmptySet DEF CacheOK
  <2>3. c.queue \in Seq(Key) /\ c.queue # <<>>
    BY <1>0, <2>2 DEF CacheOK, CacheType, Queued
  <2> DEFINE x == Head(c.queue)
             u == [c.l1 EXCEPT ![x] = None]
             n == IF c.l1[x] = None THEN c.size1 ELSE c.size1 - 1
             e == [l1 |-> u, queue |-> Tail(c.queue), size1 |-> n, l2 |-> c.l2, size2 |-> c.size2]
  <2>4. x \in Key /\ Tail(c.queue) \in Seq(Key) /\ Len(Tail(c.queue)) = Len(c.queue) - 1
        /\ Len(c.queue) \in Nat /\ x = c.queue[1]
        /\ \A i \in 1 .. Len(c.queue) - 1 : Tail(c.queue)[i] = c.queue[i + 1]
    BY <2>3
  <2>5. Evict(c) = e
    BY <1>0, <1>2 DEF Evict, CacheType
  <2> HIDE DEF x
  <2>6. /\ u \in [Key -> Option] /\ Bound(u) = Bound(c.l1) \ {x} /\ IsFiniteSet(Bound(u))
        /\ Cardinality(Bound(u)) \in Nat /\ Cardinality(Bound(u)) = n
    BY <1>0, <2>4, BoundDrop DEF CacheOK, CacheType
  <2>7. \A k \in Key : u[k] \in {None, c.l1[k]}
    BY <1>0, <2>4 DEF CacheType
  <2>8. \A k \in Bound(u) : Queued(e, k)
    <3> SUFFICES ASSUME NEW k \in Bound(c.l1), k # x
                 PROVE  \E i \in 1 .. Len(Tail(c.queue)) : Tail(c.queue)[i] = k
      BY <2>6 DEF Queued
    <3>1. PICK i \in 1 .. Len(c.queue) : c.queue[i] = k
      BY DEF CacheOK, Queued
    <3>2. i # 1 /\ i - 1 \in 1 .. Len(c.queue) - 1
      BY <3>1, <2>4
    <3>3. Tail(c.queue)[i - 1] = k
      BY <3>1, <3>2, <2>4
    <3> QED BY <3>2, <3>3, <2>4
  <2> HIDE DEF u, n
  <2>9. e \in CacheType
    BY <1>0, <2>4, <2>6 DEF CacheType
  <2>10. CacheOK(e)
    BY <2>6, <2>8, <2>9 DEF CacheOK
  <2> QED BY <2>5, <2>7, <2>10
<1> QED
  BY <1>1, <1>2

LEMMA L1AddOK ==
  ASSUME NEW c, CacheOK(c), NEW x \in Key, NEW y \in Data
  PROVE  /\ CacheOK(L1Add(c, x, y))
         /\ L1Add(c, x, y).l2 = c.l2
         /\ \A k \in Key : \/ L1Add(c, x, y).l1[k] \in {None, c.l1[k]}
                           \/ k = x /\ L1Add(c, x, y).l1[k] = y
<1> DEFINE e == Evict(c)
           u == [e.l1 EXCEPT ![x] = y]
           n == IF e.l1[x] = None THEN e.size1 + 1 ELSE e.size1
           a == [l1 |-> u, queue |-> Append(e.queue, x), size1 |-> n, l2 |-> e.l2, size2 |-> e.size2]
<1>1. CacheOK(e) /\ e.l2 = c.l2 /\ e.size2 = c.size2 /\ \A k \in Key : e.l1[k] \in {None, c.l1[k]}
  BY EvictOK
<1>2. e \in CacheType
  BY <1>1 DEF CacheOK
<1>3. L1Add(c, x, y) = a
  <2>1. L1Add(c, x, y) =
          [e EXCEPT !.queue = Append(@, x), !.l1[x] = y, !.size1 = IF e.l1[x] = None THEN @ + 1 ELSE @]
    BY DEF L1Add
  <2> HIDE DEF e
  <2> QED BY <1>2, <2>1 DEF CacheType
<1> HIDE DEF e
<1>4. /\ u \in [Key -> Option] /\ Bound(u) = Bound(e.l1) \cup {x} /\ IsFiniteSet(Bound(u))
      /\ Cardinality(Bound(u)) = n /\ n \in Nat
  BY <1>1, <1>2, BoundSet DEF CacheOK, CacheType
<1>5. /\ Append(e.queue, x) \in Seq(Key) /\ Len(Append(e.queue, x)) = Len(e.queue) + 1
      /\ Len(e.queue) \in Nat
      /\ Append(e.queue, x)[Len(e.queue) + 1] = x
      /\ \A i \in 1 .. Len(e.queue) : Append(e.queue, x)[i] = e.queue[i]
  BY <1>2 DEF CacheType
<1>6. \A k \in Bound(u) : Queued(a, k)
  <2> SUFFICES ASSUME NEW k \in Bound(e.l1) \cup {x}
               PROVE  \E i \in 1 .. Len(Append(e.queue, x)) : Append(e.queue, x)[i] = k
    BY <1>4 DEF Queued
  <2>1. CASE k = x
    BY <1>5, <2>1
  <2>2. CASE k # x
    <3>1. PICK i \in 1 .. Len(e.queue) : e.queue[i] = k
      BY <1>1, <2>2 DEF CacheOK, Queued
    <3> QED BY <3>1, <1>5
  <2> QED BY <2>1, <2>2
<1>7. \A k \in Key : u[k] \in {None, c.l1[k]} \/ (k = x /\ u[k] = y)
  BY <1>1, <1>2 DEF CacheType
<1> HIDE DEF u, n
<1>8. a \in CacheType
  BY <1>2, <1>4, <1>5 DEF CacheType
<1>9. CacheOK(a)
  BY <1>1, <1>4, <1>6, <1>8 DEF CacheOK
<1> QED
  BY <1>1, <1>3, <1>7, <1>9

LEMMA MinOfTwo ==
  ASSUME NEW a \in Nat, NEW b \in Nat, a <= b
  PROVE  Min({a, b}) = a
<1>1. \A x \in {a, b} : (\A y \in {a, b} : x <= y) => x = a
  BY SMT
<1>2. \E x \in {a, b} : \A y \in {a, b} : x <= y
  BY SMT
<1> QED
  BY <1>1, <1>2, Zenon DEF Min

(* Of the entries of L2, Capacity are left. *)
LEMMA CollectOK ==
  ASSUME NEW c, CacheOK(c), NEW e \in Collect(c)
  PROVE  /\ CacheOK(e)
         /\ e.l1 = c.l1
         /\ \A k \in Key : e.l2[k] \in {None, c.l2[k]}
<1>0. c \in CacheType
  BY DEF CacheOK
<1>1. CASE c.size2 < 2 * Capacity
  BY <1>1 DEF Collect
<1>2. CASE ~ (c.size2 < 2 * Capacity)
  <2>1. PICK S \in Survivors(c.l2) : e = [c EXCEPT !.l2 = Without(@, Key \ S), !.size2 = Capacity]
    BY <1>2 DEF Collect
  <2> DEFINE u == Without(c.l2, Key \ S)
             a == [l1 |-> c.l1, queue |-> c.queue, size1 |-> c.size1, l2 |-> u, size2 |-> Capacity]
  <2>2. e = a
    BY <1>0, <2>1 DEF CacheType
  <2>3. c.size2 = Cardinality(Bound(c.l2)) /\ c.size2 \in Nat /\ Capacity <= c.size2
    BY <1>0, <1>2, CapacityPositive DEF CacheOK, CacheType
  <2>4. S \subseteq Bound(c.l2) /\ Cardinality(S) = Capacity
    <3>1. S \subseteq Bound(c.l2) /\ Cardinality(S) = Min({Capacity, Cardinality(Bound(c.l2))})
      BY DEF Survivors
    <3>2. Min({Capacity, Cardinality(Bound(c.l2))}) = Capacity
      BY <2>3, MinOfTwo, CapacityPositive
    <3> QED BY <3>1, <3>2
  <2>5. /\ u \in [Key -> Option] /\ Bound(u) = Bound(c.l2) \ (Key \ S)
        /\ \A k \in Key : u[k] \in {None, c.l2[k]}
    BY <1>0, BoundWithout DEF CacheType
  <2>6. Bound(u) = S
    BY <2>4, <2>5 DEF Bound
  <2>7. IsFiniteSet(S)
    BY <2>4, FS_Subset DEF CacheOK
  <2> HIDE DEF u
  <2>8. a \in CacheType
    BY <1>0, <2>5, CapacityPositive DEF CacheType
  <2>9. CacheOK(a)
    BY <2>4, <2>6, <2>7, <2>8 DEF CacheOK, Queued
  <2> QED BY <2>2, <2>5, <2>9
<1> QED
  BY <1>1, <1>2

LEMMA L2AddOK ==
  ASSUME NEW c, CacheOK(c), NEW x \in Key, NEW y \in Data, NEW r \in L2Add(c, x, y)
  PROVE  /\ CacheOK(r)
         /\ r.l1 = c.l1
         /\ \A k \in Key : r.l2[k] \in {None, c.l2[k]} \/ (k = x /\ r.l2[k] = y)
<1>1. PICK e \in Collect(c) :
        r = [e EXCEPT !.l2[x] = y, !.size2 = IF e.l2[x] = None THEN @ + 1 ELSE @]
  BY DEF L2Add
<1>2. CacheOK(e) /\ e.l1 = c.l1 /\ \A k \in Key : e.l2[k] \in {None, c.l2[k]}
  BY CollectOK
<1>3. e \in CacheType
  BY <1>2 DEF CacheOK
<1> DEFINE u == [e.l2 EXCEPT ![x] = y]
           n == IF e.l2[x] = None THEN e.size2 + 1 ELSE e.size2
           a == [l1 |-> e.l1, queue |-> e.queue, size1 |-> e.size1, l2 |-> u, size2 |-> n]
<1>4. r = a
  BY <1>1, <1>3 DEF CacheType
<1>5. /\ u \in [Key -> Option] /\ Bound(u) = Bound(e.l2) \cup {x} /\ IsFiniteSet(Bound(u))
      /\ Cardinality(Bound(u)) = n /\ n \in Nat
  BY <1>2, <1>3, BoundSet DEF CacheOK, CacheType
<1>6. \A k \in Key : u[k] \in {None, c.l2[k]} \/ (k = x /\ u[k] = y)
  BY <1>2, <1>3 DEF CacheType
<1> HIDE DEF u, n
<1>7. a \in CacheType
  BY <1>3, <1>5 DEF CacheType
<1>8. CacheOK(a)
  BY <1>2, <1>5, <1>7 DEF CacheOK, Queued
<1> QED
  BY <1>2, <1>4, <1>6, <1>8

(* What a process reads is added to its cache: the cache stays right.      *)
LEMMA CacheAddOK ==
  ASSUME NEW c, CacheOK(c), NEW x \in Key, NEW t, Agrees(c, t), t[x] \in Data,
         NEW r \in CacheAdd(c, x, t[x])
  PROVE  CacheOK(r) /\ Agrees(r, t)
<1> DEFINE e == L1Add(c, x, t[x])
<1>1. /\ CacheOK(e) /\ e.l2 = c.l2
      /\ \A k \in Key : e.l1[k] \in {None, c.l1[k]} \/ (k = x /\ e.l1[k] = t[x])
  BY L1AddOK
<1>2. r \in L2Add(e, x, t[x])
  BY DEF CacheAdd
<1> HIDE DEF e
<1>3. /\ CacheOK(r) /\ r.l1 = e.l1
      /\ \A k \in Key : r.l2[k] \in {None, e.l2[k]} \/ (k = x /\ r.l2[k] = t[x])
  BY <1>1, <1>2, L2AddOK
<1> QED
  BY <1>1, <1>3 DEF Agrees

LEMMA CacheGetOK ==
  ASSUME NEW c, CacheOK(c), NEW x \in Key, NEW t, Agrees(c, t), NEW r \in CacheGet(c, x)
  PROVE  CacheOK(r) /\ Agrees(r, t)
<1>0. c \in CacheType
  BY DEF CacheOK
<1>1. CASE c.l1[x] # None
  <2>1. r \in L2Add(c, x, c.l1[x])
    BY <1>1 DEF CacheGet
  <2>2. c.l1[x] \in Data /\ c.l1[x] = t[x]
    BY <1>0, <1>1 DEF CacheType, Option, Agrees
  <2>3. /\ CacheOK(r) /\ r.l1 = c.l1
        /\ \A k \in Key : r.l2[k] \in {None, c.l2[k]} \/ (k = x /\ r.l2[k] = t[x])
    BY <2>1, <2>2, L2AddOK
  <2> QED BY <2>3 DEF Agrees
<1>2. CASE c.l1[x] = None /\ c.l2[x] # None
  <2>1. r = L1Add(c, x, c.l2[x])
    BY <1>2 DEF CacheGet
  <2>2. c.l2[x] \in Data /\ c.l2[x] = t[x]
    BY <1>0, <1>2 DEF CacheType, Option, Agrees
  <2>3. /\ CacheOK(r) /\ r.l2 = c.l2
        /\ \A k \in Key : r.l1[k] \in {None, c.l1[k]} \/ (k = x /\ r.l1[k] = t[x])
    BY <2>1, <2>2, L1AddOK
  <2> QED BY <2>3 DEF Agrees
<1>3. CASE c.l1[x] = None /\ c.l2[x] = None
  BY <1>3 DEF CacheGet
<1> QED
  BY <1>1, <1>2, <1>3

(* Keys whose value may change are dropped from both levels. *)
LEMMA CacheRemoveOK ==
  ASSUME NEW c, CacheOK(c), NEW S, NEW t, NEW u, Agrees(c, t),
         \A k \in Key : k \notin S => u[k] = t[k]
  PROVE  CacheOK(CacheRemove(c, S)) /\ Agrees(CacheRemove(c, S), u)
<1>0. c \in CacheType
  BY DEF CacheOK
<1> DEFINE a == Without(c.l1, S)
           b == Without(c.l2, S)
           m == c.size1 - Cardinality(S \cap Bound(c.l1))
           n == c.size2 - Cardinality(S \cap Bound(c.l2))
           r == [l1 |-> a, queue |-> c.queue, size1 |-> m, l2 |-> b, size2 |-> n]
<1>1. CacheRemove(c, S) = r
  <2>1. CacheRemove(c, S) = [c EXCEPT !.l1 = a, !.size1 = m, !.l2 = b, !.size2 = n]
    BY DEF CacheRemove
  <2> HIDE DEF a, b, m, n
  <2> QED BY <1>0, <2>1 DEF CacheType
<1>2. /\ a \in [Key -> Option] /\ Bound(a) = Bound(c.l1) \ S /\ IsFiniteSet(Bound(a))
      /\ Cardinality(Bound(a)) = m /\ m \in Nat
  <2>1. c.l1 \in [Key -> Option] /\ IsFiniteSet(Bound(c.l1)) /\ c.size1 = Cardinality(Bound(c.l1))
    BY <1>0 DEF CacheOK, CacheType
  <2>2. a \in [Key -> Option] /\ Bound(a) = Bound(c.l1) \ S
    BY <2>1, BoundWithout
  <2>3. /\ IsFiniteSet(Bound(a)) /\ Cardinality(Bound(a)) \in Nat
        /\ Cardinality(Bound(a)) = Cardinality(Bound(c.l1)) - Cardinality(S \cap Bound(c.l1))
    BY <2>1, CountWithout
  <2> HIDE DEF a
  <2> QED BY <2>1, <2>2, <2>3
<1>3. /\ b \in [Key -> Option] /\ Bound(b) = Bound(c.l2) \ S /\ IsFiniteSet(Bound(b))
      /\ Cardinality(Bound(b)) = n /\ n \in Nat
  <2>1. c.l2 \in [Key -> Option] /\ IsFiniteSet(Bound(c.l2)) /\ c.size2 = Cardinality(Bound(c.l2))
    BY <1>0 DEF CacheOK, CacheType
  <2>2. b \in [Key -> Option] /\ Bound(b) = Bound(c.l2) \ S
    BY <2>1, BoundWithout
  <2>3. /\ IsFiniteSet(Bound(b)) /\ Cardinality(Bound(b)) \in Nat
        /\ Cardinality(Bound(b)) = Cardinality(Bound(c.l2)) - Cardinality(S \cap Bound(c.l2))
    BY <2>1, CountWithout
  <2> HIDE DEF b
  <2> QED BY <2>1, <2>2, <2>3
<1>4. \A k \in Key : a[k] \in {None, u[k]} /\ b[k] \in {None, u[k]}
  BY <1>0, BoundWithout DEF Agrees, CacheType
<1> HIDE DEF a, b, m, n
<1>5. r \in CacheType
  BY <1>0, <1>2, <1>3 DEF CacheType
<1>6. CacheOK(r)
  BY <1>2, <1>3, <1>5 DEF CacheOK, Queued
<1> QED
  BY <1>1, <1>4, <1>6 DEF Agrees

-----------------------------------------------------------------------------
(***************************************************************************)
(* Types                                                                   *)
(***************************************************************************)
LEMMA FData == \A d \in Data : F(d) \in Data /\ F(d) # None
BY TableAssumption

(* The steps that may be taken between phases, in which no worker is busy. *)
MasterChanges ==
  \/ \E t \in [Key -> Option] : of_alist(t)
  \/ \E k \in Key, d \in Data : merge_with_alist_sequential(k, d)
  \/ \E S \in SUBSET Key : oldify_batch(S)
  \/ \E clean_old \in BOOLEAN : cleanup(clean_old)
  \/ create \/ remove_old_batch

Starts == (\E S \in SUBSET Key : StartAdd(S)) \/ StartPreserve \/ StartMap

Ends == from_add_only \/ EndPreserve \/ revive_batch

Reads == invalidate_caches \/ \E p \in Process, k \in Key : Get(p, k) \/ Mem(p, k)

Writes(w) ==
  \/ \E k \in Key, d \in Data : AddOnlyAdd(w, k, d) \/ \E cached \in BOOLEAN : set_new(w, k, d, cached)
  \/ \E k \in Key : add_old_and_accumulate_written_keys(w, k)

LEMMA NextCases ==
  ASSUME [Next]_vars
  PROVE  \/ UNCHANGED vars
         \/ MasterChanges \/ Starts \/ Ends \/ Reads
         \/ \E w \in Worker : \E S \in SUBSET Key : Deal(w, S)
         \/ \E w \in Worker : Writes(w)
         \/ \E w \in Worker : FinishJob(w)
<1>1. ASSUME MasterNext PROVE MasterChanges \/ Starts \/ Ends \/ Reads
  BY <1>1 DEF MasterNext, MasterChanges, Starts, Ends, Reads
<1>2. ASSUME NEW w \in Worker, WorkerNext(w)
      PROVE  (\E S \in SUBSET Key : Deal(w, S)) \/ Writes(w) \/ FinishJob(w)
  BY <1>2 DEF WorkerNext, Writes
<1>3. ASSUME \E p \in Process, k \in Key : Get(p, k) \/ Mem(p, k) PROVE Reads
  BY <1>3 DEF Reads
<1> QED
  BY <1>1, <1>2, <1>3 DEF Next

(* A step that only reads changes caches and nothing else. *)
LEMMA ReadsOnly ==
  ASSUME Reads
  PROVE  UNCHANGED <<mode, tableVars, oldified, phaseVars, expected>>
BY DEF Reads, invalidate_caches, Get, Mem

LEMMA WriteType ==
  ASSUME NEW t \in [Key -> Option], NEW k \in Key, NEW d \in Data
  PROVE  /\ Write(t, k, d) \in [Key -> Option]
         /\ \A j \in Key : Write(t, k, d)[j] = IF j = k /\ t[k] = None THEN d ELSE t[j]
BY DEF Write, Option

LEMMA InitTypeInv == Init => TypeInv
BY BoundOfNothing DEF Init, TypeInv, Mode, Sequential, Phase, NoKeys

LEMMA NextTypeInv == TypeInv /\ HandleInv /\ PhaseInv /\ AddInv /\ [Next]_vars => TypeInv'
<1> SUFFICES ASSUME TypeInv, HandleInv, PhaseInv, AddInv, [Next]_vars PROVE TypeInv'
  OBVIOUS
<1> USE DEF Mode, Sequential, Phase
<1>1. CASE UNCHANGED vars
  BY <1>1 DEF vars, tableVars, phaseVars, TypeInv
<1>2. CASE MasterChanges
  <2>1. ASSUME NEW t \in [Key -> Option], of_alist(t) PROVE TypeInv'
    BY <2>1 DEF of_alist, TypeInv, phaseVars
  <2>2. ASSUME NEW k \in Key, NEW d \in Data, merge_with_alist_sequential(k, d) PROVE TypeInv'
    <3>1. (IF new[k] = None THEN d ELSE Join(new[k], d)) \in Option
      BY TableAssumption DEF TypeInv, Option
    <3> QED BY <2>2, <3>1 DEF merge_with_alist_sequential, TypeInv, phaseVars
  <2>3. ASSUME NEW S \in SUBSET Key, oldify_batch(S) PROVE TypeInv'
    BY <2>3, BoundWithout DEF oldify_batch, TypeInv, phaseVars
  <2>4. ASSUME NEW clean_old \in BOOLEAN, cleanup(clean_old) PROVE TypeInv'
    BY <2>4, BoundWithout DEF cleanup, TypeInv, phaseVars
  <2>5. CASE create
    BY <2>5, BoundOfNothing DEF create, TypeInv, phaseVars, NoKeys
  <2>6. CASE remove_old_batch
    BY <2>6, BoundWithout DEF remove_old_batch, TypeInv, phaseVars
  <2> QED BY <1>2, <2>1, <2>2, <2>3, <2>4, <2>5, <2>6 DEF MasterChanges
<1>3. CASE Starts
  <2>1. ASSUME NEW m \in Phase, NEW S \in SUBSET Key, Start(m, S), expected' \in [Key -> Option] PROVE TypeInv'
    BY <2>1 DEF Start, TypeInv, tableVars, NoKeys
  <2>2. ASSUME NEW S \in SUBSET Key, StartAdd(S) PROVE TypeInv'
    BY <2>1, <2>2 DEF StartAdd, TypeInv
  <2>3. CASE StartPreserve
    BY <2>1, <2>3 DEF StartPreserve, TypeInv
  <2>4. CASE StartMap
    <3>1. [k \in Key |-> IF new[k] = None THEN None ELSE F(new[k])] \in [Key -> Option]
      BY FData DEF TypeInv, Option
    <3>2. Listed(keys) \in SUBSET Key
      BY DEF Listed
    <3> QED BY <2>1, <2>4, <3>1, <3>2 DEF StartMap
  <2> QED BY <1>3, <2>2, <2>3, <2>4 DEF Starts
<1>4. CASE Ends
  <2>1. CASE from_add_only
    <3>1. \A k \in Key : keys[k] \in Nat /\ written[k] \in Nat
      BY DEF TypeInv
    <3>2. \A k \in Key : written[k] <= 1 /\ keys[k] <= 1 /\ (written[k] > 0 => keys[k] = 0)
      BY <2>1 DEF from_add_only, PhaseInv, AddInv, HandleInv, Answered
    <3>3. keys' \in [Key -> Nat] /\ \A k \in Key : ~ (keys'[k] > 1)
      <4>1. keys' = [k \in Key |-> keys[k] + written[k]]
        BY <2>1 DEF from_add_only
      <4>2. \A k \in Key : keys[k] + written[k] \in Nat /\ ~ (keys[k] + written[k] > 1)
        BY <3>1, <3>2
      <4> QED BY <4>1, <4>2
    <3>4. mode' = "idle"
      BY <2>1, <3>3 DEF from_add_only
    <3> QED BY <2>1, <3>3, <3>4 DEF from_add_only, TypeInv, phaseVars
  <2>2. CASE EndPreserve
    BY <2>2 DEF EndPreserve, TypeInv, tableVars, phaseVars
  <2>3. CASE revive_batch
    BY <2>3, BoundWithout DEF revive_batch, TypeInv, phaseVars
  <2> QED BY <1>4, <2>1, <2>2, <2>3 DEF Ends
<1>5. CASE Reads
  BY <1>5, ReadsOnly DEF TypeInv, tableVars, phaseVars
<1>6. ASSUME NEW w \in Worker, NEW S \in SUBSET Key, Deal(w, S) PROVE TypeInv'
  BY <1>6 DEF Deal, TypeInv, tableVars
<1>7. ASSUME NEW w \in Worker, Writes(w) PROVE TypeInv'
  <2>1. ASSUME NEW k \in Key, NEW d \in Data, AddOnlyAdd(w, k, d) PROVE TypeInv'
    BY <2>1, WriteType DEF AddOnlyAdd, Take, TypeInv
  <2>2. ASSUME NEW k \in Key, NEW d \in Data, NEW cached, set_new(w, k, d, cached) PROVE TypeInv'
    BY <2>2, WriteType DEF set_new, Take, TypeInv
  <2>3. ASSUME NEW k \in Key, add_old_and_accumulate_written_keys(w, k) PROVE TypeInv'
    <3>1. new[k] # None => F(new[k]) \in Data
      BY FData DEF TypeInv, Option
    <3>2. old' \in [Key -> Option]
      BY <2>3, <3>1, WriteType DEF add_old_and_accumulate_written_keys, TypeInv
    <3>3. answer' \in [Worker -> SUBSET Key]
      BY <2>3 DEF add_old_and_accumulate_written_keys, TypeInv
    <3> QED BY <2>3, <3>2, <3>3 DEF add_old_and_accumulate_written_keys, Take, TypeInv
  <2> QED BY <1>7, <2>1, <2>2, <2>3 DEF Writes
<1>8. ASSUME NEW w \in Worker, FinishJob(w) PROVE TypeInv'
  BY <1>8 DEF FinishJob, TypeInv, tableVars
<1> QED
  BY <1>1, <1>2, <1>3, <1>4, <1>5, <1>6, <1>7, <1>8, NextCases

-----------------------------------------------------------------------------
(***************************************************************************)
(* A phase                                                                 *)
(***************************************************************************)
LEMMA InitPhaseInv == Init => PhaseInv
BY DEF Init, PhaseInv, Phase, Pending, Answered, NoKeys, Process

(* Nothing of a phase is there between two phases. *)
LEMMA NothingPending ==
  ASSUME TypeInv, PhaseInv, mode \notin Phase \/ Done
  PROVE  /\ undealt = {} /\ busy = {}
         /\ \A w \in Worker : job[w] = {} /\ answer[w] = {} /\ cache[w] = EmptyCache
         /\ \A k \in Key : ~ Pending(k)
         /\ \A k \in Key : Answered(k) <=> written[k] > 0
BY DEF PhaseInv, Done, Pending, Answered

LEMMA SamePhase ==
  ASSUME UNCHANGED phaseVars
  PROVE  \A k \in Key : (Pending(k)' <=> Pending(k)) /\ (Answered(k)' <=> Answered(k))
BY DEF phaseVars, Pending, Answered

(* A step that leaves the phase alone, and no worker's cache but a busy one's. *)
LEMMA KeepsPhaseInv ==
  ASSUME PhaseInv, UNCHANGED phaseVars,
         mode' \notin Phase => undealt = {} /\ busy = {},
         \A w \in Worker : w \notin busy => cache'[w] = cache[w]
  PROVE  PhaseInv'
<1>1. \A k \in Key : (Pending(k)' <=> Pending(k)) /\ (Answered(k)' <=> Answered(k))
  BY SamePhase
<1> QED
  BY <1>1 DEF PhaseInv, phaseVars

LEMMA NextPhaseInv == TypeInv /\ CacheInv /\ PhaseInv /\ [Next]_vars => PhaseInv'
<1> SUFFICES ASSUME TypeInv, CacheInv, PhaseInv, [Next]_vars PROVE PhaseInv'
  OBVIOUS
<1>0. Master \notin Worker /\ \A w \in Worker : w # Master
  BY TableAssumption
<1>1. CASE UNCHANGED vars
  BY <1>1, KeepsPhaseInv DEF vars, PhaseInv
<1>2. CASE MasterChanges
  <2>1. mode \notin Phase /\ UNCHANGED phaseVars /\ \A w \in Worker : cache'[w] = cache[w]
    BY <1>0, <1>2 DEF MasterChanges, of_alist, merge_with_alist_sequential, oldify_batch, cleanup, create,
       remove_old_batch, Idle, Phase, CacheInv, Process
  <2> QED BY <2>1, NothingPending, KeepsPhaseInv
<1>3. CASE Starts
  <2>1. /\ mode \notin Phase
        /\ \E m \in Phase, S \in SUBSET Key : Start(m, S)
    <3>1. ASSUME NEW S \in SUBSET Key, StartAdd(S) PROVE mode \notin Phase /\ Start("add", S)
      BY <3>1 DEF StartAdd, Idle, Phase
    <3>2. ASSUME StartPreserve
          PROVE  mode \notin Phase /\ Start("preserve", oldified \cap Bound(old))
      BY <3>2 DEF StartPreserve, Phase
    <3>3. ASSUME StartMap PROVE mode \notin Phase /\ Start("map", Listed(keys))
      BY <3>3 DEF StartMap, Idle, Phase
    <3>4. oldified \cap Bound(old) \in SUBSET Key /\ Listed(keys) \in SUBSET Key
      BY DEF Bound, Listed
    <3> QED BY <1>3, <3>1, <3>2, <3>3, <3>4 DEF Starts, Phase
  <2>2. PICK m \in Phase, S \in SUBSET Key : Start(m, S)
    BY <2>1
  <2>3. \A k \in Key : ~ Answered(k)'
    BY <2>1, <2>2, NothingPending DEF Start, Answered, NoKeys
  <2> QED BY <2>1, <2>2, <2>3, NothingPending DEF PhaseInv, Start, NoKeys
<1>4. CASE Ends
  <2>1. Done /\ UNCHANGED phaseVars /\ \A w \in Worker : cache'[w] = cache[w]
    BY <1>0, <1>4 DEF Ends, from_add_only, EndPreserve, revive_batch, CacheInv, Process
  <2> QED BY <2>1, NothingPending, KeepsPhaseInv
<1>5. CASE Reads
  <2>1. \A w \in Worker : w \notin busy => cache'[w] = cache[w]
    BY <1>0, <1>5 DEF Reads, Get, Mem, invalidate_caches, CanRead, CacheInv, Process
  <2> QED BY <1>5, <2>1, ReadsOnly, KeepsPhaseInv DEF PhaseInv
<1>6. ASSUME NEW w \in Worker, NEW S \in SUBSET Key, Deal(w, S) PROVE PhaseInv'
  <2>1. /\ w \notin busy /\ S \subseteq undealt /\ mode \in Phase
        /\ undealt' = undealt \ S /\ busy' = busy \cup {w}
        /\ job'[w] = S /\ \A v \in Worker : v # w => job'[v] = job[v]
        /\ UNCHANGED <<mode, written, answer, cache>>
    BY <1>6 DEF Deal, TypeInv, Phase
  <2>2. \A k \in Key : (Pending(k)' => Pending(k)) /\ (Answered(k)' <=> Answered(k))
    BY <2>1 DEF Pending, Answered
  <2> QED BY <2>1, <2>2 DEF PhaseInv
<1>7. ASSUME NEW w \in Worker, Writes(w) PROVE PhaseInv'
  <2>1. PICK k \in job[w] :
          /\ UNCHANGED <<mode, undealt, busy, written>>
          /\ mode \in Phase
          /\ job'[w] = job[w] \ {k} /\ \A v \in Worker : v # w => job'[v] = job[v] /\ answer'[v] = answer[v]
          /\ answer'[w] \subseteq answer[w] \cup {k}
          /\ \A v \in Worker : v # w => cache'[v] = cache[v]
    <3>1. ASSUME NEW k \in Key, NEW d \in Data, AddOnlyAdd(w, k, d)
          PROVE  /\ k \in job[w]
                 /\ UNCHANGED <<mode, undealt, busy, written, cache>>
                 /\ mode \in Phase
                 /\ job'[w] = job[w] \ {k} /\ \A v \in Worker : v # w => job'[v] = job[v] /\ answer'[v] = answer[v]
                 /\ answer'[w] \subseteq answer[w] \cup {k}
      BY <3>1 DEF AddOnlyAdd, Take, TypeInv, Phase
    <3>2. ASSUME NEW k \in Key, NEW d \in Data, NEW cached, set_new(w, k, d, cached)
          PROVE  /\ k \in job[w]
                 /\ UNCHANGED <<mode, undealt, busy, written, answer>>
                 /\ mode \in Phase
                 /\ job'[w] = job[w] \ {k} /\ \A v \in Worker : v # w => job'[v] = job[v]
                 /\ \A v \in Worker : v # w => cache'[v] = cache[v]
      BY <3>2 DEF set_new, Take, TypeInv, Phase, CacheInv, Process
    <3>3. ASSUME NEW k \in Key, add_old_and_accumulate_written_keys(w, k)
          PROVE  /\ k \in job[w]
                 /\ UNCHANGED <<mode, undealt, busy, written, cache>>
                 /\ mode \in Phase
                 /\ job'[w] = job[w] \ {k} /\ \A v \in Worker : v # w => job'[v] = job[v] /\ answer'[v] = answer[v]
                 /\ answer'[w] \subseteq answer[w] \cup {k}
      BY <3>3 DEF add_old_and_accumulate_written_keys, Take, TypeInv, Phase
    <3> QED BY <1>7, <3>1, <3>2, <3>3 DEF Writes
  <2>2. w \in busy /\ k \notin undealt /\ \A v \in Worker : k \in job[v] => v = w
    BY DEF PhaseInv
  <2>3. k \in Key
    BY DEF TypeInv
  <2>4. written[k] = 0 /\ \A v \in Worker : k \notin answer[v]
    BY <2>3 DEF PhaseInv, Pending, Answered, TypeInv
  <2>5. \A j \in Key : (Pending(j)' => Pending(j) /\ j # k) /\ (Answered(j)' => Answered(j) \/ j = k)
    BY <2>1, <2>2 DEF Pending, Answered
  <2> QED BY <2>1, <2>2, <2>4, <2>5 DEF PhaseInv
<1>8. ASSUME NEW w \in Worker, FinishJob(w) PROVE PhaseInv'
  <2>1. /\ w \in busy /\ job[w] = {}
        /\ UNCHANGED <<mode, undealt, job>>
        /\ busy' = busy \ {w}
        /\ answer'[w] = {} /\ \A v \in Worker : v # w => answer'[v] = answer[v]
        /\ cache'[w] = EmptyCache /\ \A v \in Worker : v # w => cache'[v] = cache[v]
        /\ \A k \in Key : written'[k] = IF k \in answer[w] THEN written[k] + 1 ELSE written[k]
    BY <1>8 DEF FinishJob, TypeInv, CacheInv, Process
  <2>2. \A k \in answer[w] : written[k] = 0 /\ \A v \in Worker : v # w => k \notin answer[v]
    BY DEF PhaseInv
  <2>3. \A k \in Key : written[k] \in Nat
    BY DEF TypeInv
  <2>4. \A k \in Key : (Pending(k)' <=> Pending(k)) /\ (Answered(k)' => Answered(k))
    BY <2>1 DEF Pending, Answered
  <2>5. \A k \in Key : written'[k] <= 1
    BY <2>1, <2>2, <2>3 DEF PhaseInv
  <2>6. \A v \in Worker : \A k \in answer'[v] : written'[k] = 0
    BY <2>1, <2>2 DEF PhaseInv, TypeInv
  <2> QED BY <2>1, <2>4, <2>5, <2>6 DEF PhaseInv
<1> QED
  BY <1>1, <1>2, <1>3, <1>4, <1>5, <1>6, <1>7, <1>8, NextCases

-----------------------------------------------------------------------------
(***************************************************************************)
(* The caches agree with shared memory                                     *)
(***************************************************************************)
LEMMA InitCacheInv == Init => CacheInv
<1> SUFFICES ASSUME Init PROVE CacheInv
  OBVIOUS
<1>1. cache = [p \in Process |-> EmptyCache]
  BY DEF Init
<1>2. EmptyCache \in CacheType
  BY EmptyCacheOK DEF CacheOK
<1> QED
  BY <1>1, <1>2, EmptyCacheOK DEF CacheInv

(* A value that is written where there was none is in no cache. *)
LEMMA AgreesGrow ==
  ASSUME NEW c, NEW t, NEW u, Agrees(c, t), \A k \in Key : u[k] = t[k] \/ t[k] = None
  PROVE  Agrees(c, u)
BY DEF Agrees

(* Only one process changes its cache. *)
LEMMA KeepsCacheInv ==
  ASSUME CacheInv, NEW p \in Process, NEW c, cache' = [cache EXCEPT ![p] = c], CacheOK(c), Agrees(c, new'),
         \A q \in Process : q # p => Agrees(cache[q], new')
  PROVE  CacheInv'
<1>1. c \in CacheType
  BY DEF CacheOK
<1>2. \A q \in Process : cache'[q] = IF q = p THEN c ELSE cache[q]
  BY DEF CacheInv
<1>3. cache' \in [Process -> CacheType]
  BY <1>1 DEF CacheInv
<1> QED
  BY <1>2, <1>3 DEF CacheInv

(* Between phases nobody but the master has anything in its cache. *)
LEMMA MasterCache ==
  ASSUME TypeInv, CacheInv, PhaseInv, mode \notin Phase \/ Done,
         NEW c, cache' = [cache EXCEPT ![Master] = c], CacheOK(c), Agrees(c, new')
  PROVE  CacheInv'
<1>1. Master \in Process /\ \A q \in Process : q # Master => q \in Worker
  BY DEF Process
<1>2. \A q \in Process : q # Master => Agrees(cache[q], new')
  BY <1>1, NothingPending, EmptyCacheOK
<1> QED
  BY <1>1, <1>2, KeepsCacheInv

(* A step that changes no cache, and no value but where there is none *)
LEMMA ValuesAdded ==
  ASSUME CacheInv, UNCHANGED cache, \A k \in Key : new'[k] = new[k] \/ new[k] = None
  PROVE  CacheInv'
BY AgreesGrow DEF CacheInv

LEMMA MasterCacheInv ==
  ASSUME TypeInv, CacheInv, PhaseInv, HandleInv, MasterChanges
  PROVE  CacheInv'
<1>0. mode \notin Phase
  BY DEF MasterChanges, of_alist, merge_with_alist_sequential, oldify_batch, cleanup, create,
     remove_old_batch, Idle, Phase
<1>m. Master \in Process /\ CacheOK(cache[Master]) /\ Agrees(cache[Master], new)
  BY DEF Process, CacheInv
<1>1. ASSUME NEW t \in [Key -> Option], of_alist(t) PROVE CacheInv'
  <2>1. \A k \in Key : new[k] = None
    BY <1>1 DEF of_alist, Idle, HandleInv, Sequential, NoKeys
  <2> QED BY <1>1, <2>1, ValuesAdded DEF of_alist
<1>2. ASSUME NEW k \in Key, NEW d \in Data, merge_with_alist_sequential(k, d) PROVE CacheInv'
  <2>1. \A j \in Key : j # k => new'[j] = new[j]
    BY <1>2 DEF merge_with_alist_sequential, TypeInv
  <2>2. CASE new[k] = None
    <3>1. cache' = [cache EXCEPT ![Master] = cache[Master]]
      BY <1>2, <2>2 DEF merge_with_alist_sequential
    <3>2. Agrees(cache[Master], new')
      BY <1>m, <2>1, <2>2, AgreesGrow
    <3> QED BY <1>0, <1>m, <3>1, <3>2, MasterCache
  <2>3. CASE new[k] # None
    <3>1. cache' = [cache EXCEPT ![Master] = CacheRemove(cache[Master], {k})]
      BY <1>2, <2>3 DEF merge_with_alist_sequential
    <3>2. CacheOK(CacheRemove(cache[Master], {k})) /\ Agrees(CacheRemove(cache[Master], {k}), new')
      BY <1>m, <2>1, CacheRemoveOK
    <3> QED BY <1>0, <3>1, <3>2, MasterCache
  <2> QED BY <2>2, <2>3
<1>3. ASSUME NEW S, cache' = [cache EXCEPT ![Master] = CacheRemove(cache[Master], S)],
             \A k \in Key : k \notin S => new'[k] = new[k]
      PROVE  CacheInv'
  <2>1. CacheOK(CacheRemove(cache[Master], S)) /\ Agrees(CacheRemove(cache[Master], S), new')
    BY <1>m, <1>3, CacheRemoveOK
  <2> QED BY <1>0, <1>3, <2>1, MasterCache
<1>4. ASSUME NEW S \in SUBSET Key, oldify_batch(S) PROVE CacheInv'
  <2>1. \A k \in Key : k \notin S => new'[k] = new[k]
    BY <1>4, BoundWithout DEF oldify_batch, TypeInv
  <2> QED BY <1>3, <1>4, <2>1 DEF oldify_batch
<1>5. ASSUME NEW clean_old \in BOOLEAN, cleanup(clean_old) PROVE CacheInv'
  <2>1. \A k \in Key : k \notin Listed(keys) => new'[k] = new[k]
    BY <1>5, BoundWithout DEF cleanup, TypeInv
  <2> QED BY <1>3, <1>5, <2>1 DEF cleanup
<1>6. CASE create
  <2>1. cache' = [cache EXCEPT ![Master] = EmptyCache]
    BY <1>6 DEF create, Clear
  <2> QED BY <1>0, <2>1, EmptyCacheOK, MasterCache
<1>7. CASE remove_old_batch
  BY <1>7, ValuesAdded DEF remove_old_batch
<1> QED
  BY <1>1, <1>2, <1>4, <1>5, <1>6, <1>7 DEF MasterChanges

LEMMA ReadsCacheInv ==
  ASSUME TypeInv, CacheInv, Reads
  PROVE  CacheInv'
<1>0. new' = new
  BY ReadsOnly DEF tableVars
<1>1. ASSUME NEW p \in Process, NEW c, cache' = [cache EXCEPT ![p] = c], CacheOK(c), Agrees(c, new)
      PROVE  CacheInv'
  <2>1. \A q \in Process : q # p => Agrees(cache[q], new')
    BY <1>0 DEF CacheInv
  <2>2. Agrees(c, new')
    BY <1>0, <1>1
  <2> QED BY <1>1, <2>1, <2>2, KeepsCacheInv
<1>2. ASSUME NEW p \in Process, NEW k \in Key, Get(p, k) PROVE CacheInv'
  <2>1. CASE Cached(cache[p], k) = None /\ new[k] # None
    <3>1. PICK c \in CacheAdd(cache[p], k, new[k]) : cache' = [cache EXCEPT ![p] = c]
      BY <1>2, <2>1 DEF Get
    <3>2. new[k] \in Data
      BY <2>1 DEF TypeInv, Option
    <3> QED BY <1>1, <3>1, <3>2, CacheAddOK DEF CacheInv
  <2>2. CASE ~ (Cached(cache[p], k) = None /\ new[k] # None)
    <3>1. PICK c \in CacheGet(cache[p], k) : cache' = [cache EXCEPT ![p] = c]
      BY <1>2, <2>2 DEF Get
    <3> QED BY <1>1, <3>1, CacheGetOK DEF CacheInv
  <2> QED BY <2>1, <2>2
<1>3. ASSUME NEW p \in Process, NEW k \in Key, Mem(p, k) PROVE CacheInv'
  <2>1. PICK c \in CacheGet(cache[p], k) : cache' = [cache EXCEPT ![p] = c]
    BY <1>3 DEF Mem
  <2> QED BY <1>1, <2>1, CacheGetOK DEF CacheInv
<1>4. CASE invalidate_caches
  <2>1. Master \in Process /\ cache' = [cache EXCEPT ![Master] = EmptyCache]
    BY <1>4 DEF invalidate_caches, Clear, Process
  <2> QED BY <1>1, <2>1, EmptyCacheOK
<1> QED
  BY <1>2, <1>3, <1>4 DEF Reads

LEMMA NextCacheInv ==
  TypeInv /\ CacheInv /\ PhaseInv /\ PreserveInv /\ HandleInv /\ [Next]_vars => CacheInv'
<1> SUFFICES ASSUME TypeInv, CacheInv, PhaseInv, PreserveInv, HandleInv, [Next]_vars PROVE CacheInv'
  OBVIOUS
<1>1. CASE UNCHANGED vars
  BY <1>1 DEF vars, tableVars, CacheInv
<1>2. CASE MasterChanges
  BY <1>2, MasterCacheInv
<1>3. CASE Starts
  BY <1>3, ValuesAdded DEF Starts, StartAdd, StartPreserve, StartMap, Start, tableVars
<1>4. CASE Ends
  <2>1. CASE from_add_only \/ EndPreserve
    BY <2>1, ValuesAdded DEF from_add_only, EndPreserve, tableVars
  <2>2. CASE revive_batch
    <3> DEFINE c == CacheRemove(cache[Master], Listed(written))
    <3>1. Done /\ cache' = [cache EXCEPT ![Master] = c]
      BY <2>2 DEF revive_batch
    <3>2. \A k \in Key : k \notin Listed(written) => new'[k] = new[k]
      BY <2>2 DEF revive_batch
    <3>3. CacheOK(cache[Master]) /\ Agrees(cache[Master], new)
      BY DEF Process, CacheInv
    <3>4. CacheOK(c) /\ Agrees(c, new')
      BY <3>2, <3>3, CacheRemoveOK
    <3> HIDE DEF c
    <3> QED BY <3>1, <3>4, MasterCache
  <2> QED BY <1>4, <2>1, <2>2 DEF Ends
<1>5. CASE Reads
  BY <1>5, ReadsCacheInv
<1>6. ASSUME NEW w \in Worker, NEW S \in SUBSET Key, Deal(w, S) PROVE CacheInv'
  BY <1>6, ValuesAdded DEF Deal, tableVars
<1>7. ASSUME NEW w \in Worker, Writes(w) PROVE CacheInv'
  <2>1. ASSUME NEW k \in Key, NEW d \in Data, AddOnlyAdd(w, k, d) PROVE CacheInv'
    <3>1. \A j \in Key : new'[j] = new[j] \/ new[j] = None
      BY <2>1, WriteType DEF AddOnlyAdd, TypeInv
    <3> QED BY <2>1, <3>1, ValuesAdded DEF AddOnlyAdd
  <2>2. ASSUME NEW k \in Key, NEW d \in Data, NEW cached \in BOOLEAN, set_new(w, k, d, cached) PROVE CacheInv'
    <3>1. mode = "preserve" /\ k \in job[w] /\ new' = Write(new, k, d)
      BY <2>2 DEF set_new, Take
    <3>2. new[k] = None
      BY <3>1 DEF PreserveInv, Pending
    <3>3. new'[k] = d /\ \A j \in Key : new'[j] = new[j] \/ new[j] = None
      BY <3>1, <3>2, WriteType DEF TypeInv
    <3>4. \A q \in Process : CacheOK(cache[q]) /\ Agrees(cache[q], new')
      BY <3>3, AgreesGrow DEF CacheInv
    <3>5. w \in Process
      BY DEF Process
    <3>6. PICK c \in IF cached THEN CacheAdd(cache[w], k, d) ELSE {cache[w]} :
            cache' = [cache EXCEPT ![w] = c]
      BY <2>2 DEF set_new
    <3>7. CASE cached
      <4>1. c \in CacheAdd(cache[w], k, new'[k])
        BY <3>3, <3>6, <3>7
      <4>2. CacheOK(c) /\ Agrees(c, new')
        BY <3>3, <3>4, <3>5, <4>1, CacheAddOK
      <4> QED BY <3>4, <3>5, <3>6, <4>2, KeepsCacheInv
    <3>8. CASE ~ cached
      <4>1. c = cache[w]
        BY <3>6, <3>8
      <4> QED BY <3>4, <3>5, <3>6, <4>1, KeepsCacheInv
    <3> QED BY <3>7, <3>8
  <2>3. ASSUME NEW k \in Key, add_old_and_accumulate_written_keys(w, k) PROVE CacheInv'
    BY <2>3, ValuesAdded DEF add_old_and_accumulate_written_keys
  <2> QED BY <1>7, <2>1, <2>2, <2>3 DEF Writes
<1>8. ASSUME NEW w \in Worker, FinishJob(w) PROVE CacheInv'
  <2>1. /\ cache' = [cache EXCEPT ![w] = EmptyCache] /\ new' = new
        /\ w \in Process
    BY <1>8 DEF FinishJob, tableVars, Process
  <2>2. \A q \in Process : Agrees(cache[q], new')
    BY <2>1 DEF CacheInv
  <2> QED BY <2>1, <2>2, EmptyCacheOK, KeepsCacheInv
<1> QED
  BY <1>1, <1>2, <1>3, <1>4, <1>5, <1>6, <1>7, <1>8, NextCases

-----------------------------------------------------------------------------
(***************************************************************************)
(* The table and its keys                                                  *)
(***************************************************************************)
LEMMA InitContentInv == Init => ContentInv
BY DEF Init, ContentInv, AddInv, PreserveInv, MapInv, HandleInv, NoValues, NoKeys

(* What is left of an input when a worker is done with it *)
LEMMA TakeMoves ==
  ASSUME TypeInv, PhaseInv, NEW w \in Worker, NEW k \in Key, Take(w, k), UNCHANGED undealt
  PROVE  Pending(k) /\ ~ Answered(k) /\ \A j \in Key : Pending(j)' <=> (Pending(j) /\ j # k)
<1>1. /\ k \in job[w] /\ job'[w] = job[w] \ {k} /\ \A v \in Worker : v # w => job'[v] = job[v]
  BY DEF Take, TypeInv
<1>2. k \notin undealt /\ \A v \in Worker : v # w => k \notin job[v]
  BY <1>1 DEF PhaseInv
<1>3. Pending(k)
  BY <1>1 DEF Pending
<1>4. \A j \in Key : Pending(j)' <=> (Pending(j) /\ j # k)
  BY <1>1, <1>2 DEF Pending
<1> QED
  BY <1>3, <1>4 DEF PhaseInv

LEMMA AnswerMoves ==
  ASSUME TypeInv, NEW w \in Worker, NEW k, answer' = [answer EXCEPT ![w] = @ \cup {k}], UNCHANGED written
  PROVE  \A j \in Key : Answered(j)' <=> (Answered(j) \/ j = k)
BY DEF Answered, TypeInv

(* Dealing and finishing change who has an input, not what happened to it. *)
LEMMA DealMoves ==
  ASSUME TypeInv, CacheInv, PhaseInv, NEW w \in Worker, (\E S \in SUBSET Key : Deal(w, S)) \/ FinishJob(w)
  PROVE  /\ UNCHANGED <<mode, tableVars, oldified, expected>>
         /\ \A k \in Key : (Pending(k)' <=> Pending(k)) /\ (Answered(k)' <=> Answered(k))
<1>1. ASSUME NEW S \in SUBSET Key, Deal(w, S)
      PROVE  \A k \in Key : (Pending(k)' <=> Pending(k)) /\ (Answered(k)' <=> Answered(k))
  <2>1. /\ w \notin busy /\ S \subseteq undealt
        /\ undealt' = undealt \ S
        /\ job'[w] = S /\ \A v \in Worker : v # w => job'[v] = job[v]
        /\ UNCHANGED <<written, answer>>
    BY <1>1 DEF Deal, TypeInv
  <2>2. job[w] = {}
    BY <2>1 DEF PhaseInv
  <2> QED BY <2>1, <2>2 DEF Pending, Answered
<1>2. ASSUME FinishJob(w)
      PROVE  \A k \in Key : (Pending(k)' <=> Pending(k)) /\ (Answered(k)' <=> Answered(k))
  <2>1. /\ UNCHANGED <<undealt, job>>
        /\ answer'[w] = {} /\ \A v \in Worker : v # w => answer'[v] = answer[v]
        /\ \A k \in Key : written'[k] = IF k \in answer[w] THEN written[k] + 1 ELSE written[k]
    BY <1>2 DEF FinishJob, TypeInv
  <2>2. \A k \in Key : written[k] \in Nat
    BY DEF TypeInv
  <2> QED BY <2>1, <2>2 DEF Pending, Answered
<1> QED
  BY <1>1, <1>2 DEF Deal, FinishJob

LEMMA KeepsContentInv ==
  ASSUME ContentInv, UNCHANGED <<mode, tableVars, oldified, expected>>,
         \A k \in Key : (Pending(k)' <=> Pending(k)) /\ (Answered(k)' <=> Answered(k))
  PROVE  ContentInv'
<1>1. AddInv'
  BY DEF ContentInv, AddInv, tableVars
<1>2. PreserveInv'
  BY DEF ContentInv, PreserveInv, tableVars
<1>3. MapInv'
  BY DEF ContentInv, MapInv, tableVars
<1>4. HandleInv'
  BY DEF ContentInv, HandleInv, tableVars
<1> QED
  BY <1>1, <1>2, <1>3, <1>4 DEF ContentInv

LEMMA MasterContentInv ==
  ASSUME TypeInv, PhaseInv, ContentInv, MasterChanges
  PROVE  ContentInv'
<1> USE DEF Idle, Sequential
<1>1. ASSUME NEW t \in [Key -> Option], of_alist(t) PROVE ContentInv'
  BY <1>1 DEF of_alist, ContentInv, AddInv, PreserveInv, MapInv, HandleInv
<1>2. ASSUME NEW k \in Key, NEW d \in Data, merge_with_alist_sequential(k, d) PROVE ContentInv'
  <2>1. /\ mode' = "idle" /\ mode \in {"idle", "mapped"} /\ old' = old
        /\ \A j \in Key : j # k => new'[j] = new[j] /\ keys'[j] = keys[j]
        /\ keys'[k] = 1
    BY <1>2 DEF merge_with_alist_sequential, TypeInv
  <2> QED BY <2>1 DEF ContentInv, AddInv, PreserveInv, MapInv, HandleInv
<1>3. ASSUME NEW S \in SUBSET Key, oldify_batch(S) PROVE ContentInv'
  <2>1. /\ mode' = "oldified" /\ mode \in {"idle", "mapped"} /\ keys' = keys /\ oldified' = S
        /\ \A k \in Key : old'[k] = IF k \in S THEN new[k] ELSE old[k]
        /\ \A k \in Key : new'[k] = IF k \in S THEN None ELSE new[k]
    BY <1>3, BoundWithout DEF oldify_batch, TypeInv
  <2> QED BY <2>1 DEF ContentInv, AddInv, PreserveInv, MapInv, HandleInv
<1>4. ASSUME NEW clean_old \in BOOLEAN, cleanup(clean_old) PROVE ContentInv'
  <2>1. /\ mode' = "clean" /\ mode \in {"idle", "mapped"} /\ keys' = keys
        /\ \A k \in Key : new'[k] = IF k \in Listed(keys) THEN None ELSE new[k]
        /\ \A k \in Key : old[k] = None => old'[k] = None
    BY <1>4, BoundWithout DEF cleanup, TypeInv
  <2> QED BY <2>1 DEF ContentInv, AddInv, PreserveInv, MapInv, HandleInv, Listed
<1>5. CASE create
  BY <1>5 DEF create, NoKeys, NoValues, ContentInv, AddInv, PreserveInv, MapInv, HandleInv
<1>6. CASE remove_old_batch
  <2>1. /\ mode' = "idle" /\ mode = "preserved" /\ keys' = keys /\ new' = new
        /\ \A k \in Key : old'[k] = IF k \in oldified THEN None ELSE old[k]
    BY <1>6, BoundWithout DEF remove_old_batch, TypeInv
  <2> QED BY <2>1 DEF ContentInv, AddInv, PreserveInv, MapInv, HandleInv
<1> QED
  BY <1>1, <1>2, <1>3, <1>4, <1>5, <1>6 DEF MasterChanges

LEMMA StartContentInv ==
  ASSUME TypeInv, PhaseInv, ContentInv, Starts
  PROVE  ContentInv'
<1> USE DEF Idle, Sequential
<1>1. ASSUME NEW m \in Phase, NEW S \in SUBSET Key, Start(m, S), mode \notin Phase
      PROVE  /\ mode' = m /\ UNCHANGED <<new, old, keys, oldified>>
             /\ \A k \in Key : (Pending(k)' <=> k \in S) /\ ~ Answered(k)'
  <2>1. \A w \in Worker : job[w] = {} /\ answer[w] = {}
    BY <1>1, NothingPending
  <2> QED BY <1>1, <2>1 DEF Start, tableVars, Pending, Answered, NoKeys
<1>2. ASSUME NEW S \in SUBSET Key, StartAdd(S) PROVE ContentInv'
  <2>1. /\ mode \in {"idle", "mapped"} /\ S \cap Listed(keys) = {}
        /\ mode' = "add" /\ UNCHANGED <<new, old, keys>>
        /\ \A k \in Key : (Pending(k)' <=> k \in S) /\ ~ Answered(k)'
    BY <1>1, <1>2 DEF StartAdd, Phase
  <2>2. \A k \in S : keys[k] = 0
    BY <2>1 DEF Listed, TypeInv
  <2> QED BY <2>1, <2>2 DEF ContentInv, AddInv, PreserveInv, MapInv, HandleInv
<1>3. CASE StartPreserve
  <2>1. /\ mode = "oldified" /\ mode' = "preserve" /\ UNCHANGED <<new, old, keys, oldified>>
        /\ \A k \in Key : (Pending(k)' <=> k \in oldified /\ old[k] # None) /\ ~ Answered(k)'
    <3>1. oldified \cap Bound(old) \in SUBSET Key
      BY DEF Bound
    <3> QED BY <1>1, <1>3, <3>1 DEF StartPreserve, Phase, Bound
  <2> QED BY <2>1 DEF ContentInv, AddInv, PreserveInv, MapInv, HandleInv
<1>4. CASE StartMap
  <2>1. /\ mode \in {"idle", "mapped"} /\ mode' = "map" /\ UNCHANGED <<new, old, keys>>
        /\ \A k \in Key : (Pending(k)' <=> keys[k] > 0) /\ ~ Answered(k)'
        /\ \A k \in Key : expected'[k] = IF new[k] = None THEN None ELSE F(new[k])
    <3>1. Listed(keys) \in SUBSET Key
      BY DEF Listed
    <3> QED BY <1>1, <1>4, <3>1 DEF StartMap, Phase, Listed
  <2> QED BY <2>1 DEF ContentInv, AddInv, PreserveInv, MapInv, HandleInv
<1> QED
  BY <1>2, <1>3, <1>4 DEF Starts

LEMMA EndContentInv ==
  ASSUME TypeInv, PhaseInv, ContentInv, TypeInv', Ends
  PROVE  ContentInv'
<1> USE DEF Sequential
<1>0. Done
  BY DEF Ends, from_add_only, EndPreserve, revive_batch
<1>n. \A k \in Key : ~ Pending(k) /\ (Answered(k) <=> written[k] > 0)
  BY <1>0, NothingPending
<1>1. CASE from_add_only
  <2>1. /\ mode = "add" /\ UNCHANGED <<new, old>>
        /\ \A k \in Key : keys'[k] = keys[k] + written[k]
        /\ mode' \in {"idle", "duplicate keys"}
    BY <1>1 DEF from_add_only
  <2>2. mode' = "idle"
    BY <2>1 DEF TypeInv, Mode, Phase
  <2>3. \A k \in Key : /\ keys[k] \in Nat /\ written[k] \in Nat
                       /\ keys[k] <= 1 /\ written[k] <= 1
                       /\ written[k] > 0 => keys[k] = 0
                       /\ new[k] # None => keys[k] > 0 \/ written[k] > 0
                       /\ old[k] = None
    BY <1>n, <2>1 DEF ContentInv, AddInv, HandleInv, PhaseInv, TypeInv
  <2>4. \A k \in Key : keys'[k] <= 1 /\ (new'[k] # None => keys'[k] > 0) /\ old'[k] = None
    <3> TAKE k \in Key
    <3>1. keys'[k] = keys[k] + written[k] /\ new'[k] = new[k] /\ old'[k] = old[k]
      BY <2>1
    <3> QED BY <2>3, <3>1
  <2> QED BY <2>2, <2>4 DEF ContentInv, AddInv, PreserveInv, MapInv, HandleInv
<1>2. CASE EndPreserve
  BY <1>2 DEF EndPreserve, tableVars, ContentInv, AddInv, PreserveInv, MapInv, HandleInv
<1>3. CASE revive_batch
  <2>1. /\ mode = "map" /\ mode' = "mapped" /\ UNCHANGED <<keys, expected>>
        /\ \A k \in Key : new'[k] = IF written[k] > 0 THEN old[k] ELSE new[k]
        /\ \A k \in Key : old'[k] = IF written[k] > 0 THEN None ELSE old[k]
    BY <1>3, BoundWithout DEF revive_batch, TypeInv, Listed
  <2>2. \A k \in Key : new'[k] = expected'[k] /\ old'[k] = None /\ (new'[k] # None => new[k] # None)
    BY <1>n, <2>1 DEF ContentInv, MapInv
  <2> QED BY <2>1, <2>2 DEF ContentInv, AddInv, PreserveInv, MapInv, HandleInv
<1> QED
  BY <1>1, <1>2, <1>3 DEF Ends

LEMMA WriteContentInv ==
  ASSUME TypeInv, PhaseInv, ContentInv, NEW w \in Worker, Writes(w)
  PROVE  ContentInv'
<1> USE DEF Sequential
<1>1. ASSUME NEW k \in Key, NEW d \in Data, AddOnlyAdd(w, k, d) PROVE ContentInv'
  <2>1. /\ mode = "add" /\ UNCHANGED <<mode, old, keys>>
        /\ \A j \in Key : new'[j] = IF j = k /\ new[k] = None THEN d ELSE new[j]
    BY <1>1, WriteType DEF AddOnlyAdd, TypeInv
  <2>2. Pending(k) /\ \A j \in Key : Pending(j)' <=> (Pending(j) /\ j # k)
    BY <1>1, TakeMoves DEF AddOnlyAdd
  <2>3. \A j \in Key : Answered(j)' <=> (Answered(j) \/ j = k)
    BY <1>1, AnswerMoves DEF AddOnlyAdd
  <2> QED BY <2>1, <2>2, <2>3 DEF ContentInv, AddInv, PreserveInv, MapInv, HandleInv
<1>2. ASSUME NEW k \in Key, NEW d \in Data, NEW cached, set_new(w, k, d, cached) PROVE ContentInv'
  <2>1. /\ mode = "preserve" /\ UNCHANGED <<mode, old, keys, oldified>>
        /\ \A j \in Key : new'[j] = IF j = k /\ new[k] = None THEN d ELSE new[j]
    BY <1>2, WriteType DEF set_new, TypeInv
  <2>2. Pending(k) /\ \A j \in Key : Pending(j)' <=> (Pending(j) /\ j # k)
    BY <1>2, TakeMoves DEF set_new
  <2> QED BY <2>1, <2>2 DEF ContentInv, AddInv, PreserveInv, MapInv, HandleInv
<1>3. ASSUME NEW k \in Key, add_old_and_accumulate_written_keys(w, k) PROVE ContentInv'
  <2>1. mode = "map" /\ UNCHANGED <<mode, new, keys, expected>>
    BY <1>3 DEF add_old_and_accumulate_written_keys
  <2>2. Pending(k) /\ ~ Answered(k) /\ \A j \in Key : Pending(j)' <=> (Pending(j) /\ j # k)
    BY <1>3, TakeMoves DEF add_old_and_accumulate_written_keys
  <2>3. old[k] = None
    BY <2>1, <2>2 DEF ContentInv, MapInv
  <2>4. CASE new[k] = None
    <3>1. old' = old /\ answer' = answer
      BY <1>3, <2>4 DEF add_old_and_accumulate_written_keys, TypeInv
    <3>2. \A j \in Key : Answered(j)' <=> Answered(j)
      BY <1>3, <3>1 DEF add_old_and_accumulate_written_keys, Answered
    <3> QED BY <2>1, <2>2, <2>4, <3>1, <3>2 DEF ContentInv, AddInv, PreserveInv, MapInv, HandleInv
  <2>5. CASE new[k] # None
    <3>1. F(new[k]) \in Data
      BY <2>5, FData DEF TypeInv, Option
    <3>2. \A j \in Key : old'[j] = IF j = k THEN F(new[k]) ELSE old[j]
      BY <1>3, <2>3, <2>5, <3>1, WriteType DEF add_old_and_accumulate_written_keys, TypeInv
    <3>3. answer' = [answer EXCEPT ![w] = @ \cup {k}]
      BY <1>3, <2>5 DEF add_old_and_accumulate_written_keys
    <3>4. \A j \in Key : Answered(j)' <=> (Answered(j) \/ j = k)
      BY <1>3, <3>3, AnswerMoves DEF add_old_and_accumulate_written_keys
    <3> QED BY <2>1, <2>2, <2>5, <3>2, <3>4 DEF ContentInv, AddInv, PreserveInv, MapInv, HandleInv
  <2> QED BY <2>4, <2>5
<1> QED
  BY <1>1, <1>2, <1>3 DEF Writes

LEMMA NextContentInv ==
  TypeInv /\ CacheInv /\ PhaseInv /\ ContentInv /\ [Next]_vars /\ TypeInv' => ContentInv'
<1> SUFFICES ASSUME TypeInv, CacheInv, PhaseInv, ContentInv, [Next]_vars, TypeInv' PROVE ContentInv'
  OBVIOUS
<1>1. CASE UNCHANGED vars
  BY <1>1, SamePhase, KeepsContentInv DEF vars
<1>2. CASE Reads
  BY <1>2, ReadsOnly, SamePhase, KeepsContentInv
<1>3. ASSUME NEW w \in Worker, (\E S \in SUBSET Key : Deal(w, S)) \/ FinishJob(w) PROVE ContentInv'
  BY <1>3, DealMoves, KeepsContentInv
<1> QED
  BY <1>1, <1>2, <1>3, MasterContentInv, StartContentInv, EndContentInv, WriteContentInv, NextCases

-----------------------------------------------------------------------------
(***************************************************************************)
(* The theorems                                                            *)
(***************************************************************************)
LEMMA InvHolds == Spec => []Inv
<1>1. Init => Inv
  BY InitTypeInv, InitCacheInv, InitPhaseInv, InitContentInv DEF Inv, ContentInv
<1>2. Inv /\ [Next]_vars => Inv'
  <2> SUFFICES ASSUME Inv, [Next]_vars PROVE Inv'
    OBVIOUS
  <2>1. TypeInv /\ CacheInv /\ PhaseInv /\ AddInv /\ PreserveInv /\ HandleInv /\ ContentInv
    BY DEF Inv, ContentInv
  <2>2. TypeInv' /\ CacheInv' /\ PhaseInv'
    BY <2>1, NextTypeInv, NextCacheInv, NextPhaseInv
  <2>3. ContentInv'
    BY <2>1, <2>2, NextContentInv
  <2> QED BY <2>2, <2>3 DEF Inv, ContentInv
<1> QED
  BY <1>1, <1>2, PTL DEF Spec

(***************************************************************************)
(* No process ever reads a stale value from either level of its cache:     *)
(* whatever the master oldifies, revives, removes, merges or maps, and     *)
(* whatever other workers write, for every capacity of the caches.         *)
(***************************************************************************)
THEOREM NothingStale == Spec => []CachesCoherent
<1>1. Inv => CachesCoherent
  BY DEF Inv, TypeInv, CacheInv, Agrees, CachesCoherent, Process
<1> QED
  BY <1>1, InvHolds, PTL

(***************************************************************************)
(* The key list that is reduced from the workers' answers loses no key and *)
(* lists none twice: from_add_only never fails, the whole-table operations *)
(* reach every value, and cleanup leaves nothing behind.                   *)
(***************************************************************************)
THEOREM HandlesAreComplete == Spec => []HandleComplete
<1>1. Inv => HandleComplete
  <2> SUFFICES ASSUME Inv PROVE HandleComplete
    OBVIOUS
  <2>1. mode # "duplicate keys"
    BY DEF Inv, TypeInv, Mode, Sequential, Phase
  <2>2. mode \in Sequential => Bound(new) \cup Bound(old) \subseteq Listed(keys)
    BY DEF Inv, ContentInv, HandleInv, Bound, Listed
  <2>3. mode = "clean" => Bound(new) = {} /\ Bound(old) = {}
    BY DEF Inv, ContentInv, HandleInv, Bound
  <2> QED BY <2>1, <2>2, <2>3 DEF HandleComplete
<1> QED
  BY <1>1, InvHolds, PTL

(***************************************************************************)
(* map_parallel_keys replaces every value by its image, however its keys   *)
(* are dealt to the workers, and no operation between phases leaves an old *)
(* value in its way.                                                       *)
(***************************************************************************)
THEOREM MapIsApplied == Spec => []MapApplied
<1>1. Inv => MapApplied
  <2> SUFFICES ASSUME Inv PROVE MapApplied
    OBVIOUS
  <2>1. mode = "mapped" => new = expected
    BY DEF Inv, TypeInv, ContentInv, MapInv
  <2>2. mode \in {"idle", "mapped"} => old = NoValues
    BY DEF Inv, TypeInv, ContentInv, HandleInv, NoValues
  <2> QED BY <2>1, <2>2 DEF MapApplied, Idle
<1> QED
  BY <1>1, InvHolds, PTL

(***************************************************************************)
(* The counters of both levels of every cache count their entries, and     *)
(* OrderedCache never pops an empty queue, for every capacity and after    *)
(* any sequence of reads, writes, removals, collections and evictions.     *)
(***************************************************************************)
THEOREM CachesAccount == Spec => []CacheAccounting
<1>1. Inv => CacheAccounting
  <2> SUFFICES ASSUME Inv, NEW p \in Process
               PROVE  /\ cache[p].size1 = Cardinality(Bound(cache[p].l1))
                      /\ cache[p].size2 = Cardinality(Bound(cache[p].l2))
                      /\ cache[p].size1 >= Capacity => cache[p].queue # <<>>
    BY DEF CacheAccounting
  <2>1. CacheOK(cache[p])
    BY DEF Inv, CacheInv
  <2>2. ASSUME cache[p].size1 >= Capacity PROVE cache[p].queue # <<>>
    <3>1. cache[p].size1 # 0
      BY <2>1, <2>2, CapacityPositive DEF CacheOK, CacheType
    <3>2. Bound(cache[p].l1) # {}
      BY <2>1, <3>1, FS_EmptySet DEF CacheOK
    <3> QED BY <2>1, <3>2 DEF CacheOK, Queued
  <2> QED BY <2>1, <2>2 DEF CacheOK
<1> QED
  BY <1>1, InvHolds, PTL

=============================================================================

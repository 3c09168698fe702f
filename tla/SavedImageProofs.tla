--------------------------- MODULE SavedImageProofs ---------------------------
(***************************************************************************)
(* The heap is collected, saved and loaded without loss: ValuesKept and    *)
(* NoGarbageLeft (HeapCollection.tla) of SavedSpec (SavedImage.tla), for   *)
(* any number of slots, values, words, sessions and any chunk size.        *)
(*                                                                         *)
(* The inductive invariant describes the heap by its blocks: where each    *)
(* starts, how long it is and which slot owns it.                          *)
(***************************************************************************)
EXTENDS SavedImage, WellFoundedInduction, FiniteSetTheorems, TLAPS

(* Induction on numbers, for sets *)
Less == {p \in Nat \X Nat : p[1] < p[2]}

LEMMA LessWellFounded == IsWellFoundedOn(Less, Nat)
BY NatLessThanWellFounded DEF OpToRel, Less

LEMMA Induction ==
  ASSUME NEW S, 0 \in S, \A n \in Nat : n \in S => n + 1 \in S
  PROVE  Nat \subseteq S
<1> DEFINE T == Nat \ S
<1> SUFFICES ASSUME T # {} PROVE FALSE
  OBVIOUS
<1>1. T \subseteq Nat /\ T # {}
  OBVIOUS
<1> HIDE DEF T
<1>2. PICK x \in T : \A y \in T : ~ (<<y, x>> \in Less)
  BY <1>1, LessWellFounded, WFMin
<1>3. \A y \in T : ~ (y < x)
  BY <1>1, <1>2 DEF Less
<1>4. x \in Nat /\ x # 0 /\ x \notin S
  BY <1>1 DEF T
<1>5. x - 1 \in Nat /\ x - 1 < x /\ (x - 1) + 1 = x
  BY <1>4
<1>6. x - 1 \in S
  BY <1>3, <1>5 DEF T
<1> QED
  BY <1>4, <1>5, <1>6

(* The greatest element of a set of numbers *)
LEMMA MaxIs ==
  ASSUME NEW N \in Nat, NEW s \in SUBSET (1 .. N), s # {}
  PROVE  Max(s) \in s /\ \A y \in s : Max(s) >= y
<1> DEFINE S == {n \in Nat : \A t \in SUBSET (1 .. n) : t # {} => \E x \in t : \A y \in t : x >= y}
<1>1. 0 \in S
  <2>1. 1 .. 0 = {}
    OBVIOUS
  <2> QED
    BY <2>1
<1>2. ASSUME NEW n \in Nat, n \in S PROVE n + 1 \in S
  <2> SUFFICES ASSUME NEW t \in SUBSET (1 .. n + 1), t # {} PROVE \E x \in t : \A y \in t : x >= y
    OBVIOUS
  <2>1. CASE n + 1 \in t
    BY <2>1
  <2>2. CASE n + 1 \notin t
    <3>1. t \in SUBSET (1 .. n)
      BY <2>2
    <3> QED
      BY <1>2, <3>1
  <2> QED
    BY <2>1, <2>2
<1> HIDE DEF S
<1>3. N \in S
  BY <1>1, <1>2, Induction
<1>4. \E x \in s : \A y \in s : x >= y
  BY <1>3 DEF S
<1> QED
  BY <1>4 DEF Max

LEMMA MaxOfInterval ==
  ASSUME NEW N \in Nat, N > 0
  PROVE  /\ Max(1 .. N) = N /\ (1 .. N) \ {N} = 1 .. N - 1
         /\ \A s \in SUBSET (1 .. N) : N \in s => Max(s) = N
<1>1. ASSUME NEW s \in SUBSET (1 .. N), N \in s PROVE Max(s) = N
  <2>1. Max(s) \in s /\ Max(s) >= N
    BY <1>1, MaxIs
  <2>2. Max(s) \in 1 .. N
    BY <2>1
  <2> QED
    BY <2>1, <2>2
<1> QED
  BY <1>1

LEMMA StartOfInterval ==
  ASSUME NEW N \in Nat, NEW j \in 1 .. N
  PROVE  1 .. j # {} /\ 1 .. j \in SUBSET (1 .. N)
<1>1. j \in Nat /\ 1 <= j /\ j <= N
  OBVIOUS
<1>2. 1 \in 1 .. j
  BY <1>1
<1>3. \A x \in 1 .. j : x \in 1 .. N
  BY <1>1
<1> QED
  BY <1>2, <1>3

(***************************************************************************)
(* FoldLeft, for sums and for the words of the first heap                  *)
(***************************************************************************)
IsTotal(g, from, sizes, N) == g[0] = from /\ \A j \in 1 .. N : g[j] = g[j - 1] + sizes[j]

IsTotalFold(f, from, sizes, N) ==
  \A s \in SUBSET (1 .. N) : f[s] = IF s = {} THEN from ELSE f[s \ {Max(s)}] + sizes[Max(s)]

LEMMA TotalFoldExists ==
  ASSUME NEW from, NEW sizes, NEW N \in Nat
  PROVE  \E f : IsTotalFold(f, from, sizes, N)
<1> DEFINE S == {n \in Nat : \E f : IsTotalFold(f, from, sizes, n)}
<1>1. 0 \in S
  <2> DEFINE f == [s \in {{}} |-> from]
  <2>1. IsTotalFold(f, from, sizes, 0)
    BY DEF IsTotalFold
  <2> HIDE DEF f
  <2> QED
    BY <2>1
<1>2. ASSUME NEW n \in Nat, n \in S PROVE n + 1 \in S
  <2>1. PICK f : IsTotalFold(f, from, sizes, n)
    BY <1>2
  <2> DEFINE h == [s \in SUBSET (1 .. n + 1) |-> IF n + 1 \in s THEN f[s \ {n + 1}] + sizes[n + 1] ELSE f[s]]
  <2>2. \A s \in SUBSET (1 .. n) : h[s] = f[s]
    <3> SUFFICES ASSUME NEW s \in SUBSET (1 .. n) PROVE h[s] = f[s]
      OBVIOUS
    <3>1. s \in SUBSET (1 .. n + 1) /\ n + 1 \notin s
      OBVIOUS
    <3> QED
      BY <3>1
  <2>3. \A s \in SUBSET (1 .. n + 1) : n + 1 \in s => h[s] = f[s \ {n + 1}] + sizes[n + 1]
    OBVIOUS
  <2> HIDE DEF h
  <2>4. ASSUME NEW s \in SUBSET (1 .. n + 1)
        PROVE  h[s] = IF s = {} THEN from ELSE h[s \ {Max(s)}] + sizes[Max(s)]
    <3>1. CASE n + 1 \in s
      <4>1. Max(s) = n + 1
        <5>1. n + 1 \in Nat /\ n + 1 > 0
          OBVIOUS
        <5> QED
          BY <3>1, <5>1, MaxOfInterval
      <4>2. s \ {n + 1} \in SUBSET (1 .. n)
        OBVIOUS
      <4> QED
        BY <2>2, <2>3, <3>1, <4>1, <4>2
    <3>2. CASE n + 1 \notin s
      <4>0. s \in SUBSET (1 .. n)
        BY <3>2
      <4>1. s \in SUBSET (1 .. n) /\ s \ {Max(s)} \in SUBSET (1 .. n)
        BY <4>0
      <4> QED
        BY <2>1, <2>2, <4>1 DEF IsTotalFold
    <3> QED
      BY <3>1, <3>2
  <2>5. IsTotalFold(h, from, sizes, n + 1)
    BY <2>4 DEF IsTotalFold
  <2> QED
    BY <2>5
<1> HIDE DEF S
<1>3. N \in S
  BY <1>1, <1>2, Induction
<1> QED
  BY <1>3 DEF S

LEMMA TotalIs ==
  ASSUME NEW from, NEW T, NEW sizes \in Seq(T)
  PROVE  \E g : IsTotal(g, from, sizes, Len(sizes)) /\ Total(from, sizes) = g[Len(sizes)]
<1> DEFINE N == Len(sizes)
<1>0. N \in Nat
  OBVIOUS
<1> HIDE DEF N
<1> DEFINE D == 1 .. N
           Eq(f) == f = [s \in SUBSET D |-> IF s = {} THEN from ELSE f[s \ {Max(s)}] + sizes[Max(s)]]
           iter == CHOOSE f : Eq(f)
<1>1. Total(from, sizes) = iter[D]
  <2>1. DOMAIN sizes = D
    BY DEF N
  <2> QED
    BY <2>1 DEF Total, FoldLeft, MapThenFoldSet
<1>2. \E f : Eq(f)
  <2>1. PICK f : IsTotalFold(f, from, sizes, N)
    BY <1>0, TotalFoldExists
  <2> DEFINE h == [s \in SUBSET D |-> f[s]]
  <2>2. ASSUME NEW s \in SUBSET D PROVE h[s] = IF s = {} THEN from ELSE h[s \ {Max(s)}] + sizes[Max(s)]
    <3>1. s # {} => Max(s) \in D
      BY <1>0, MaxIs
    <3>2. h[s] = f[s] /\ h[s \ {Max(s)}] = f[s \ {Max(s)}]
      OBVIOUS
    <3> HIDE DEF h
    <3> QED
      BY <2>1, <3>1, <3>2 DEF IsTotalFold
  <2>3. h = [s \in SUBSET D |-> h[s]]
    OBVIOUS
  <2> HIDE DEF h, D
  <2>4. Eq(h)
    BY <2>2, <2>3
  <2> QED
    BY <2>4
<1>3. Eq(iter)
  <2> HIDE DEF Eq
  <2> QED
    BY <1>2
<1> HIDE DEF iter
<1> DEFINE g == [j \in 0 .. N |-> iter[1 .. j]]
<1>4. g[0] = from
  <2>1. g[0] = iter[1 .. 0] /\ 1 .. 0 = {}
    BY <1>0
  <2> QED
    BY <1>3, <2>1
<1>5. ASSUME NEW j \in 1 .. N PROVE g[j] = g[j - 1] + sizes[j]
  <2>1. j \in Nat /\ j > 0 /\ j \in D /\ j - 1 \in 0 .. N /\ j \in 0 .. N
    BY <1>0
  <2>2. /\ Max(1 .. j) = j /\ (1 .. j) \ {j} = 1 .. j - 1
        /\ 1 .. j # {} /\ 1 .. j \in SUBSET D
    <3>1. Max(1 .. j) = j /\ (1 .. j) \ {j} = 1 .. j - 1
      BY <2>1, MaxOfInterval
    <3>2. 1 .. j # {} /\ 1 .. j \in SUBSET D
      BY <1>0, StartOfInterval
    <3> QED
      BY <3>1, <3>2
  <2>3. g[j] = iter[1 .. j] /\ g[j - 1] = iter[1 .. j - 1]
    BY <2>1
  <2> HIDE DEF g
  <2>4. iter[1 .. j] = iter[1 .. j - 1] + sizes[j]
    BY <1>3, <2>2
  <2> QED
    BY <2>3, <2>4
<1>6. g[N] = iter[D]
  BY <1>0
<1> HIDE DEF g
<1>7. IsTotal(g, from, sizes, N)
  BY <1>4, <1>5 DEF IsTotal
<1> QED
  BY <1>1, <1>6, <1>7 DEF N

IsWords(g, start, sizes, N) == g[0] = start /\ \A j \in 1 .. N : g[j] = (g[j - 1] \o ValueWords(j, sizes[j]))

IsWordsFold(f, start, sizes, N) ==
  \A s \in SUBSET (1 .. N) :
    f[s] = IF s = {} THEN start ELSE (f[s \ {Max(s)}] \o ValueWords(Max(s), sizes[Max(s)]))

LEMMA WordsFoldExists ==
  ASSUME NEW start, NEW sizes, NEW N \in Nat
  PROVE  \E f : IsWordsFold(f, start, sizes, N)
<1> DEFINE S == {n \in Nat : \E f : IsWordsFold(f, start, sizes, n)}
<1>1. 0 \in S
  <2> DEFINE f == [s \in {{}} |-> start]
  <2>1. IsWordsFold(f, start, sizes, 0)
    BY DEF IsWordsFold
  <2> HIDE DEF f
  <2> QED
    BY <2>1
<1>2. ASSUME NEW n \in Nat, n \in S PROVE n + 1 \in S
  <2>1. PICK f : IsWordsFold(f, start, sizes, n)
    BY <1>2
  <2> DEFINE h == [s \in SUBSET (1 .. n + 1) |-> IF n + 1 \in s THEN (f[s \ {n + 1}] \o ValueWords(n + 1, sizes[n + 1])) ELSE f[s]]
  <2>2. \A s \in SUBSET (1 .. n) : h[s] = f[s]
    <3> SUFFICES ASSUME NEW s \in SUBSET (1 .. n) PROVE h[s] = f[s]
      OBVIOUS
    <3>1. s \in SUBSET (1 .. n + 1) /\ n + 1 \notin s
      OBVIOUS
    <3> QED
      BY <3>1
  <2>3. \A s \in SUBSET (1 .. n + 1) : n + 1 \in s => h[s] = (f[s \ {n + 1}] \o ValueWords(n + 1, sizes[n + 1]))
    OBVIOUS
  <2> HIDE DEF h
  <2>4. ASSUME NEW s \in SUBSET (1 .. n + 1)
        PROVE  h[s] = IF s = {} THEN start ELSE (h[s \ {Max(s)}] \o ValueWords(Max(s), sizes[Max(s)]))
    <3>1. CASE n + 1 \in s
      <4>1. Max(s) = n + 1
        <5>1. n + 1 \in Nat /\ n + 1 > 0
          OBVIOUS
        <5> QED
          BY <3>1, <5>1, MaxOfInterval
      <4>2. s \ {n + 1} \in SUBSET (1 .. n)
        OBVIOUS
      <4> QED
        BY <2>2, <2>3, <3>1, <4>1, <4>2
    <3>2. CASE n + 1 \notin s
      <4>0. s \in SUBSET (1 .. n)
        BY <3>2
      <4>1. s \in SUBSET (1 .. n) /\ s \ {Max(s)} \in SUBSET (1 .. n)
        BY <4>0
      <4> QED
        BY <2>1, <2>2, <4>1 DEF IsWordsFold
    <3> QED
      BY <3>1, <3>2
  <2>5. IsWordsFold(h, start, sizes, n + 1)
    BY <2>4 DEF IsWordsFold
  <2> QED
    BY <2>5
<1> HIDE DEF S
<1>3. N \in S
  BY <1>1, <1>2, Induction
<1> QED
  BY <1>3 DEF S

LEMMA ContentsIs ==
  ASSUME NEW T, NEW sizes \in Seq(T)
  PROVE  \E g : IsWords(g, <<>>, sizes, Len(sizes)) /\ Contents(sizes) = g[Len(sizes)]
<1> DEFINE N == Len(sizes)
<1>0. N \in Nat
  OBVIOUS
<1> HIDE DEF N
<1> DEFINE D == 1 .. N
           Eq(f) == f = [s \in SUBSET D |-> IF s = {} THEN <<>> ELSE (f[s \ {Max(s)}] \o ValueWords(Max(s), sizes[Max(s)]))]
           iter == CHOOSE f : Eq(f)
<1> DEFINE q == [v \in 1 .. Len(sizes) |-> v]
           EqQ(f) == f = [s \in SUBSET D |-> IF s = {} THEN <<>>
                            ELSE (f[s \ {Max(s)}] \o ValueWords(q[Max(s)], sizes[q[Max(s)]]))]
<1>q. ASSUME NEW f PROVE Eq(f) <=> EqQ(f)
  <2>1. ASSUME NEW s \in SUBSET D, s # {} PROVE q[Max(s)] = Max(s)
    <3>1. Max(s) \in D
      BY <1>0, <2>1, MaxIs
    <3> QED
      BY <3>1 DEF N
  <2>2. ASSUME NEW s \in SUBSET D
        PROVE  (IF s = {} THEN <<>> ELSE (f[s \ {Max(s)}] \o ValueWords(Max(s), sizes[Max(s)])))
                 = (IF s = {} THEN <<>> ELSE (f[s \ {Max(s)}] \o ValueWords(q[Max(s)], sizes[q[Max(s)]])))
    <3> HIDE DEF q
    <3> QED
      BY <2>1
  <2> HIDE DEF q, D
  <2> QED
    BY <2>2
<1>e. (CHOOSE f : EqQ(f)) = iter
  <2> HIDE DEF Eq, EqQ
  <2> QED
    BY <1>q
<1>1. Contents(sizes) = iter[D]
  <2>1. DOMAIN q = D
    BY DEF N
  <2>2. Contents(sizes) = (CHOOSE f : EqQ(f))[D]
    BY <2>1 DEF Contents, FoldLeft, MapThenFoldSet
  <2> QED
    BY <1>e, <2>2
<1>2. \E f : Eq(f)
  <2>1. PICK f : IsWordsFold(f, <<>>, sizes, N)
    BY <1>0, WordsFoldExists
  <2> DEFINE h == [s \in SUBSET D |-> f[s]]
  <2>2. ASSUME NEW s \in SUBSET D PROVE h[s] = IF s = {} THEN <<>> ELSE (h[s \ {Max(s)}] \o ValueWords(Max(s), sizes[Max(s)]))
    <3>1. s # {} => Max(s) \in D
      BY <1>0, MaxIs
    <3>2. h[s] = f[s] /\ h[s \ {Max(s)}] = f[s \ {Max(s)}]
      OBVIOUS
    <3> HIDE DEF h
    <3> QED
      BY <2>1, <3>1, <3>2 DEF IsWordsFold
  <2>3. h = [s \in SUBSET D |-> h[s]]
    OBVIOUS
  <2> HIDE DEF h, D
  <2>4. Eq(h)
    BY <2>2, <2>3
  <2> QED
    BY <2>4
<1>3. Eq(iter)
  <2> HIDE DEF Eq
  <2> QED
    BY <1>2
<1> HIDE DEF iter
<1> DEFINE g == [j \in 0 .. N |-> iter[1 .. j]]
<1>4. g[0] = <<>>
  <2>1. g[0] = iter[1 .. 0] /\ 1 .. 0 = {}
    BY <1>0
  <2> QED
    BY <1>3, <2>1
<1>5. ASSUME NEW j \in 1 .. N PROVE g[j] = (g[j - 1] \o ValueWords(j, sizes[j]))
  <2>1. j \in Nat /\ j > 0 /\ j \in D /\ j - 1 \in 0 .. N /\ j \in 0 .. N
    BY <1>0
  <2>2. /\ Max(1 .. j) = j /\ (1 .. j) \ {j} = 1 .. j - 1
        /\ 1 .. j # {} /\ 1 .. j \in SUBSET D
    <3>1. Max(1 .. j) = j /\ (1 .. j) \ {j} = 1 .. j - 1
      BY <2>1, MaxOfInterval
    <3>2. 1 .. j # {} /\ 1 .. j \in SUBSET D
      BY <1>0, StartOfInterval
    <3> QED
      BY <3>1, <3>2
  <2>3. g[j] = iter[1 .. j] /\ g[j - 1] = iter[1 .. j - 1]
    BY <2>1
  <2> HIDE DEF g
  <2>4. iter[1 .. j] = (iter[1 .. j - 1] \o ValueWords(j, sizes[j]))
    BY <1>3, <2>2
  <2> QED
    BY <2>3, <2>4
<1>6. g[N] = iter[D]
  BY <1>0
<1> HIDE DEF g
<1>7. IsWords(g, <<>>, sizes, N)
  BY <1>4, <1>5 DEF IsWords
<1> QED
  BY <1>1, <1>6, <1>7 DEF N

-----------------------------------------------------------------------------
(***************************************************************************)
(* The inductive invariant                                                 *)
(***************************************************************************)
Cell ==
  {Header(n) : n \in Nat} \cup {Pointer(s) : s \in Nat} \cup {Payload(v, o) : v \in Nat, o \in Nat}
    \cup {Address(w) : w \in Nat} \cup {NULL}

(* What the proofs assume of NULL: it is no address and no payload. *)
NullIsNew == (\A w \in Nat : NULL # Address(w)) /\ NULL \notin Seq(Cell)

(* The blocks that start at the places in B, of z[b] words each, fill the   *)
(* heap up to h and do not overlap.                                         *)
Layout(B, z, h) ==
  /\ h \in Nat \ {0} /\ B \subseteq 1 .. h - 1 /\ z \in [B -> Nat \ {0}]
  /\ h = 1 \/ 1 \in B
  /\ \A b \in B : b + z[b] = h \/ b + z[b] \in B
  /\ \A b, c \in B : b < c => b + z[b] <= c

(* The payload of the block of n words at b *)
Words(w, b, n) == [o \in 1 .. n - 1 |-> w[b + o]]

(* a[s] is the block of slot s, 0 if it has none; p[s] is its payload. *)
Owner(B, a, p) ==
  /\ a \in [Slot -> B \cup {0}]
  /\ \A s, t \in Slot : a[s] = a[t] /\ a[s] # 0 => s = t
  /\ \A s \in Slot : a[s] = 0 <=> p[s] = NULL

(* The slots before n hold headers, their blocks point back. *)
Swapped(B, z, a, p, f, w, n) ==
  /\ \A s \in Slot : a[s] = 0 => f[s] = NULL
  /\ \A s \in Slot : a[s] # 0 =>
       /\ p[s] = Words(w, a[s], z[a[s]])
       /\ IF s < n THEN f[s] = Header(z[a[s]]) /\ w[a[s]] = Pointer(s) ELSE f[s] = Address(a[s])
  /\ \A b \in B : (\E s \in Slot : s < n /\ a[s] = b) \/ w[b] = Header(z[b])

Marked(p, f, w, h, n) ==
  \E B, z, a : Layout(B, z, h) /\ Owner(B, a, p) /\ Swapped(B, z, a, p, f, w, n)

(* The table is in use. *)
Table(p, f, w, h) == Marked(p, f, w, h, 1)

(* The blocks before n have moved; those that were not garbage are now    *)
(* the blocks E of y[e] words, and slot s has d[s].                         *)
Moved(a, n, s) == a[s] # 0 /\ a[s] < n

Collected(a, z, E, y, d, n, p, f, w) ==
  /\ d \in [Slot -> E \cup {0}]
  /\ \A s, t \in Slot : Moved(a, n, s) /\ Moved(a, n, t) /\ d[s] = d[t] => s = t
  /\ \A s \in Slot : Moved(a, n, s) =>
       /\ d[s] \in E /\ y[d[s]] = z[a[s]]
       /\ f[s] = Address(d[s]) /\ w[d[s]] = Header(z[a[s]])
       /\ p[s] = Words(w, d[s], z[a[s]])
  /\ \A e \in E : \E s \in Slot : Moved(a, n, s) /\ d[s] = e

Uncollected(B, z, a, n, p, f, w) ==
  /\ \A s \in Slot : a[s] = 0 => f[s] = NULL
  /\ \A s \in Slot : a[s] >= n =>
       f[s] = Header(z[a[s]]) /\ w[a[s]] = Pointer(s) /\ p[s] = Words(w, a[s], z[a[s]])
  /\ \A b \in B : b >= n => (\E s \in Slot : a[s] = b) \/ w[b] = Header(z[b])

SizesMoved(a, z, n) == [s \in Slot |-> IF Moved(a, n, s) THEN z[a[s]] ELSE 0]

MovingWith(B, z, a, E, y, d, g, p, f, w, h, n, e) ==
  /\ Layout(B, z, h) /\ Owner(B, a, p) /\ Layout(E, y, e)
  /\ n \in B \cup {h} /\ e <= n
  /\ Uncollected(B, z, a, n, p, f, w) /\ Collected(a, z, E, y, d, n, p, f, w)
  /\ g \in [0 .. Slots -> Nat] /\ IsTotal(g, 1, SizesMoved(a, z, n), Slots) /\ e = g[Slots]

Moving ==
  \E B, z, a, E, y, d, g : MovingWith(B, z, a, E, y, d, g, before, field, word, heap, src, dest)

(***************************************************************************)
(* The file is a part of the image f \o w from position n on, in chunks    *)
(* that start at c[1], c[2] and so on, and ends with the terminator if it  *)
(* is complete.                                                            *)
(***************************************************************************)
IsImage(p, f, w) == f \in [Slot -> Cell] /\ w \in Seq(Cell) /\ Table(p, f, w, Len(w) + 1)

Part(f, w, n, m) == SubSeq(f \o w, n, m - 1)
Chunk(f, w, n, m) == Lz4(Part(f, w, n, m))

IsCuts(c, N, n, m) ==
  /\ c \in [1 .. N + 1 -> n .. m] /\ c[1] = n /\ c[N + 1] = m
  /\ \A j \in 1 .. N : c[j] < c[j + 1]

InChunks(cells, f, w, n) ==
  \E N \in Nat : \E c :
    /\ IsCuts(c, N, n, Slots + Len(w) + 1)
    /\ Len(cells) <= N + 1
    /\ \A j \in 1 .. N : j <= Len(cells) => cells[j] = Chunk(f, w, c[j], c[j + 1])
    /\ Len(cells) = N + 1 => cells[N + 1] = End

(* What has been saved so far: all chunks up to chunk_start. *)
Saving(f, w) ==
  \E N \in Nat : \E c :
    /\ IsCuts(c, N, 1, chunk_start)
    /\ Len(file) = N + 2
    /\ \A j \in 1 .. N : file[j + 2] = Chunk(f, w, c[j], c[j + 1])

(* The part of the image before chunk_start is loaded. *)
Loaded(f, w) ==
  /\ chunk_start <= Slots + Len(w) + 1
  /\ \A s \in Slot : s < chunk_start => field[s] = f[s]
  /\ Len(word) = (IF chunk_start > Slots THEN chunk_start - 1 - Slots ELSE 0)
  /\ \A j \in 1 .. Len(word) : word[j] = w[j]

Phases == {"mark", "move", "done", "save", "saved", "load", "chunks", "failed"}
FileCell == {Magic} \cup {Saved(r) : r \in Revision} \cup {Lz4(ws) : ws \in Seq(Cell)}

TypeInv ==
  /\ field \in [Slot -> Cell] /\ word \in Seq(Cell)
  /\ heap \in Nat \ {0} /\ i \in Nat \ {0} /\ src \in Nat \ {0} /\ dest \in Nat \ {0}
  /\ phase \in Phases
  /\ before \in [Slot -> Seq(Cell) \cup {NULL}]
  /\ revision \in Revision /\ file \in Seq(FileCell) /\ chunk_start \in Nat \ {0}

Used == SubSeq(word, 1, heap - 1)

MarkInv == heap <= Len(word) + 1 /\ i <= Slots + 1 /\ src = 1 /\ dest = 1 /\ Marked(before, field, word, heap, i)
MoveInv == heap <= Len(word) + 1 /\ Moving
UseInv == heap <= Len(word) + 1 /\ Table(before, field, word, heap)
SaveInv == chunk_start <= Slots + heap /\ Saving(field, Used)
FileInv == \E f, w : IsImage(before, f, w) /\ (Len(file) >= 2 => InChunks(SubSeq(file, 3, Len(file)), f, w, 1))
LoadInv == \E f, w : IsImage(before, f, w) /\ InChunks(file, f, w, chunk_start) /\ Loaded(f, w)

Inv ==
  /\ TypeInv
  /\ phase = "mark" => MarkInv
  /\ phase = "move" => MoveInv
  /\ phase \in {"done", "save"} => UseInv
  /\ phase = "done" => heap = Total(1, [s \in Slot |-> SizeKept(s)])
  /\ phase = "save" => SaveInv
  /\ phase \in {"saved", "load"} => FileInv
  /\ phase = "load" => chunk_start = 1 /\ word = <<>>
  /\ phase = "chunks" => LoadInv

(***************************************************************************)
(* Words, blocks and sums                                                  *)
(***************************************************************************)
LEMMA Kinds ==
  /\ \A n : Header(n).kind = "header" /\ Header(n).size = n
  /\ \A s : Pointer(s).kind = "pointer" /\ Pointer(s).slot = s
  /\ \A w : Address(w).kind = "addr" /\ Address(w).at = w
BY DEF Header, Pointer, Address

LEMMA ChunkOf == (\A f, w, n, m : Chunk(f, w, n, m).of = Part(f, w, n, m)) /\ End.of = <<>>
BY DEF Chunk, Lz4, End

LEMMA CellTypes ==
  /\ \A n \in Nat : Header(n) \in Cell /\ Pointer(n) \in Cell /\ Address(n) \in Cell
  /\ \A n \in Nat, o \in Nat : Payload(n, o) \in Cell
  /\ NULL \in Cell
<1>1. \A n \in Nat : Header(n) \in Cell /\ Pointer(n) \in Cell /\ Address(n) \in Cell
  BY DEF Cell
<1>2. ASSUME NEW n \in Nat, NEW o \in Nat PROVE Payload(n, o) \in Cell
  BY DEF Cell
<1> QED
  BY <1>1, <1>2 DEF Cell

LEMMA SlotsNat == Slots \in Nat /\ \A s \in Slot : s \in Nat /\ s > 0 /\ s <= Slots
BY BoundAssumption DEF Slot

LEMMA Blocks ==
  ASSUME NEW B, NEW z, NEW h, Layout(B, z, h), NEW b \in B
  PROVE  /\ h \in Nat /\ b \in Nat /\ b > 0 /\ z[b] \in Nat /\ z[b] > 0 /\ b + z[b] <= h
         /\ b + z[b] \in B \cup {h}
         /\ \A c \in B : c \in Nat /\ c > 0 /\ z[c] \in Nat /\ (c > b => c >= b + z[b])
<1>1. h \in Nat /\ b \in Nat /\ b > 0 /\ z[b] \in Nat /\ z[b] > 0 /\ h > 0
  BY DEF Layout
<1>2. b + z[b] = h \/ b + z[b] \in B
  BY DEF Layout
<1>3. b + z[b] <= h
  BY <1>1, <1>2 DEF Layout
<1>4. ASSUME NEW c \in B PROVE c \in Nat /\ c > 0 /\ z[c] \in Nat
  BY <1>1 DEF Layout
<1>5. ASSUME NEW c \in B, c > b PROVE c >= b + z[b]
  BY <1>1, <1>4, <1>5 DEF Layout
<1> QED
  BY <1>1, <1>2, <1>3, <1>4, <1>5

(* The payload of a block is not where another block starts. *)
LEMMA BlocksApart ==
  ASSUME NEW B, NEW z, NEW h, Layout(B, z, h), NEW b \in B, NEW c \in B, NEW o \in 1 .. z[b] - 1
  PROVE  b + o # c
<1>1. /\ b \in Nat /\ z[b] \in Nat /\ c \in Nat
      /\ c > b => c >= b + z[b]
  BY Blocks
<1> QED
  BY <1>1

LEMMA BlockInHeap ==
  ASSUME NEW B, NEW z, NEW h, Layout(B, z, h), NEW b \in B, NEW L \in Nat, h <= L + 1
  PROVE  /\ b \in 1 .. L
         /\ \A o \in 1 .. z[b] - 1 : b + o \in 1 .. L
<1>1. h \in Nat /\ b \in Nat /\ b > 0 /\ z[b] \in Nat /\ z[b] > 0 /\ b + z[b] <= h
  BY Blocks
<1> QED
  BY <1>1

LEMMA WordsType ==
  ASSUME NEW w, NEW b, NEW n \in Nat \ {0}, \A o \in 1 .. n - 1 : w[b + o] \in Cell
  PROVE  Words(w, b, n) \in Seq(Cell) /\ Len(Words(w, b, n)) = n - 1
<1> DEFINE m == n - 1
<1>1. m \in Nat /\ \A o \in 1 .. m : w[b + o] \in Cell
  OBVIOUS
<1> HIDE DEF m
<1>2. [o \in 1 .. m |-> w[b + o]] \in Seq(Cell) /\ Len([o \in 1 .. m |-> w[b + o]]) = m
  BY <1>1
<1> QED
  BY <1>2 DEF Words, m

LEMMA WordsSame ==
  ASSUME NEW w, NEW v, NEW b, NEW c, NEW n, \A o \in 1 .. n - 1 : v[c + o] = w[b + o]
  PROVE  Words(v, c, n) = Words(w, b, n)
BY DEF Words

(* One more number in a sum: k is m but for the number n at s. *)
OneMore(N, from, m, g, s, n, k) ==
  /\ N \in Nat /\ g \in [0 .. N -> Nat] /\ IsTotal(g, from, m, N)
  /\ s \in 1 .. N /\ n \in Nat /\ m[s] = 0
  /\ \A t \in 1 .. N : k[t] = IF t = s THEN n ELSE m[t]
  /\ \A t \in 1 .. N : m[t] \in Nat

LEMMA TotalAdd ==
  ASSUME NEW N, NEW from, NEW m, NEW g, NEW s, NEW n, NEW k, OneMore(N, from, m, g, s, n, k)
  PROVE  \E h \in [0 .. N -> Nat] : IsTotal(h, from, k, N) /\ h[N] = g[N] + n
<1> USE DEF OneMore
<1> DEFINE h == [j \in 0 .. N |-> IF j < s THEN g[j] ELSE g[j] + n]
<1>1. h \in [0 .. N -> Nat]
  OBVIOUS
<1>2. h[0] = from
  BY DEF IsTotal
<1>3. ASSUME NEW j \in 1 .. N PROVE h[j] = h[j - 1] + k[j]
  <2>1. g[j] = g[j - 1] + m[j] /\ j - 1 \in 0 .. N /\ j \in 0 .. N /\ g[j] \in Nat /\ g[j - 1] \in Nat /\ m[j] \in Nat
    BY DEF IsTotal
  <2>2. CASE j < s
    <3>1. j - 1 < s /\ k[j] = m[j]
      BY <2>2
    <3> QED
      BY <2>1, <2>2, <3>1
  <2>3. CASE j = s
    <3>1. j - 1 < s /\ ~ (j < s) /\ k[j] = n /\ m[j] = 0
      BY <2>3
    <3> QED
      BY <2>1, <3>1
  <2>4. CASE j > s
    <3>1. ~ (j - 1 < s) /\ ~ (j < s) /\ k[j] = m[j]
      BY <2>4
    <3> QED
      BY <2>1, <3>1
  <2> QED
    BY <2>2, <2>3, <2>4
<1>4. h[N] = g[N] + n
  OBVIOUS
<1> HIDE DEF h
<1>5. IsTotal(h, from, k, N)
  BY <1>2, <1>3 DEF IsTotal
<1> QED
  BY <1>1, <1>4, <1>5

LEMMA TotalUnique ==
  ASSUME NEW N \in Nat, NEW from, NEW g, NEW h, NEW m, NEW k, IsTotal(g, from, m, N), IsTotal(h, from, k, N),
         \A t \in 1 .. N : k[t] = m[t]
  PROVE  h[N] = g[N]
<1> DEFINE S == {j \in Nat : j <= N => h[j] = g[j]}
<1>1. 0 \in S
  BY DEF IsTotal
<1>2. ASSUME NEW j \in Nat, j \in S PROVE j + 1 \in S
  <2> SUFFICES ASSUME j + 1 <= N PROVE h[j + 1] = g[j + 1]
    OBVIOUS
  <2>1. j + 1 \in 1 .. N /\ (j + 1) - 1 = j /\ h[j] = g[j]
    BY <1>2
  <2> QED
    BY <2>1 DEF IsTotal
<1> HIDE DEF S
<1>3. N \in S
  BY <1>1, <1>2, Induction
<1> QED
  BY <1>3 DEF S

-----------------------------------------------------------------------------
(***************************************************************************)
(* The first loop                                                          *)
(***************************************************************************)
LEMMA MarkStep ==
  ASSUME NullIsNew, TypeInv, phase = "mark", MarkInv, Mark, UNCHANGED fileVars
  PROVE  TypeInv' /\ MarkInv'
<1>0. /\ i \in Slot /\ i \in Nat /\ i' = i + 1 /\ i <= Slots
      /\ UNCHANGED <<heap, phase, src, dest, before>>
  BY SlotsNat DEF Mark, TypeInv, Slot
<1>1. PICK B, z, a : Layout(B, z, heap) /\ Owner(B, a, before) /\ Swapped(B, z, a, before, field, word, i)
  BY DEF MarkInv, Marked
<1>2. heap <= Len(word) + 1 /\ Len(word) \in Nat /\ DOMAIN word = 1 .. Len(word)
  BY DEF MarkInv, TypeInv
<1>3. a \in [Slot -> B \cup {0}] /\ \A s \in Slot : s \in Nat
  BY <1>1, SlotsNat DEF Owner
<1>4. \A b \in B : b \in Nat /\ b > 0 /\ b \in 1 .. Len(word) /\ z[b] \in Nat
  BY <1>1, <1>2, Blocks, BlockInHeap
<1>5. CASE field[i] = NULL
  <2>1. field' = field /\ word' = word
    BY <1>5 DEF Mark
  <2>2. a[i] = 0
    <3> SUFFICES ASSUME a[i] # 0 PROVE FALSE
      OBVIOUS
    <3>1. field[i] = Address(a[i]) /\ a[i] \in Nat
      BY <1>0, <1>1, <1>3, <1>4 DEF Swapped
    <3> QED
      BY <1>5, <3>1 DEF NullIsNew
  <2>3. \A s \in Slot : a[s] # 0 => (s < i + 1 <=> s < i)
    BY <1>0, <1>3, <2>2
  <2>4. Swapped(B, z, a, before, field, word, i + 1)
    BY <1>0, <1>1, <1>3, <2>3 DEF Swapped
  <2>5. Marked(before, field, word, heap, i + 1)
    BY <1>1, <2>4 DEF Marked
  <2>6. MarkInv'
    BY <1>0, <1>2, <2>1, <2>5, SlotsNat DEF MarkInv
  <2> QED
    BY <1>0, <2>1, <2>6 DEF TypeInv, fileVars
<1>6. CASE field[i] # NULL
  <2> DEFINE b == a[i]
  <2>1. b # 0 /\ b \in B
    BY <1>0, <1>1, <1>3, <1>6 DEF Swapped
  <2>2. field[i] = Address(b) /\ field[i].at = b
    BY <1>0, <1>1, <2>1, Kinds DEF Swapped
  <2>3. word[b] = Header(z[b])
    <3>1. ASSUME NEW s \in Slot, s < i, a[s] = b PROVE FALSE
      BY <1>0, <1>1, <1>3, <2>1, <3>1 DEF Owner
    <3> QED
      BY <1>1, <2>1, <3>1 DEF Swapped
  <2>4. field' = [field EXCEPT ![i] = Header(z[b])] /\ word' = [word EXCEPT ![b] = Pointer(i)]
    BY <1>6, <2>2, <2>3 DEF Mark
  <2>5. b \in 1 .. Len(word) /\ b \in Nat /\ z[b] \in Nat
    BY <1>4, <2>1
  <2> HIDE DEF b
  <2>6. /\ field' \in [Slot -> Cell] /\ word' \in Seq(Cell) /\ Len(word') = Len(word)
        /\ \A s \in Slot : field'[s] = IF s = i THEN Header(z[b]) ELSE field[s]
        /\ \A j \in 1 .. Len(word) : word'[j] = IF j = b THEN Pointer(i) ELSE word[j]
    BY <1>0, <1>2, <2>4, <2>5, CellTypes DEF TypeInv
  <2>7. Swapped(B, z, a, before, field', word', i + 1)
    <3>1. \A s \in Slot : a[s] = 0 => field'[s] = NULL
      BY <1>0, <1>1, <2>1, <2>6 DEF Swapped, b
    <3>2. ASSUME NEW s \in Slot, a[s] # 0
          PROVE  /\ before[s] = Words(word', a[s], z[a[s]])
                 /\ IF s < i + 1 THEN field'[s] = Header(z[a[s]]) /\ word'[a[s]] = Pointer(s)
                                 ELSE field'[s] = Address(a[s])
      <4>1. a[s] \in B /\ a[s] \in 1 .. Len(word)
        BY <1>3, <1>4, <3>2
      <4>2. \A o \in 1 .. z[a[s]] - 1 : word'[a[s] + o] = word[a[s] + o]
        <5> SUFFICES ASSUME NEW o \in 1 .. z[a[s]] - 1 PROVE word'[a[s] + o] = word[a[s] + o]
          OBVIOUS
        <5>1. a[s] + o # b
          BY <1>1, <2>1, <4>1, BlocksApart DEF b
        <5>2. a[s] + o \in 1 .. Len(word)
          BY <1>1, <1>2, <4>1, BlockInHeap
        <5> QED
          BY <2>6, <5>1, <5>2
      <4>3. before[s] = Words(word', a[s], z[a[s]])
        BY <1>1, <3>2, <4>2, WordsSame DEF Swapped
      <4>4. CASE s = i
        BY <1>0, <2>6, <2>5, <4>3, <4>4 DEF b
      <4>5. CASE s # i
        <5>1. a[s] # b
          BY <1>0, <1>1, <3>2, <4>5 DEF Owner, b
        <5>2. s < i + 1 <=> s < i
          BY <1>0, <1>3, <4>5
        <5>3. field'[s] = field[s] /\ word'[a[s]] = word[a[s]]
          BY <2>6, <4>1, <4>5, <5>1
        <5> QED
          BY <1>1, <3>2, <4>3, <5>2, <5>3 DEF Swapped
      <4> QED
        BY <4>4, <4>5
    <3>3. ASSUME NEW c \in B PROVE (\E s \in Slot : s < i + 1 /\ a[s] = c) \/ word'[c] = Header(z[c])
      <4>1. CASE c = b
        BY <1>0, <4>1 DEF b
      <4>2. CASE c # b
        <5>1. (\E s \in Slot : s < i /\ a[s] = c) \/ word[c] = Header(z[c])
          BY <1>1 DEF Swapped
        <5>2. word'[c] = word[c]
          BY <1>4, <2>6, <4>2
        <5>3. \A s \in Slot : s < i => s < i + 1
          BY <1>0, <1>3
        <5> QED
          BY <5>1, <5>2, <5>3
      <4> QED
        BY <4>1, <4>2
    <3> QED
      BY <3>1, <3>2, <3>3 DEF Swapped
  <2>8. Marked(before, field', word', heap, i + 1)
    BY <1>1, <2>7 DEF Marked
  <2>9. MarkInv'
    BY <1>0, <1>2, <2>6, <2>8, SlotsNat DEF MarkInv
  <2> QED
    BY <1>0, <2>6, <2>9 DEF TypeInv, fileVars
<1> QED
  BY <1>5, <1>6

LEMMA MarkDoneStep ==
  ASSUME NullIsNew, TypeInv, phase = "mark", MarkInv, MarkDone, UNCHANGED fileVars
  PROVE  TypeInv' /\ MoveInv' /\ phase' = "move"
<1>0. /\ i = Slots + 1 /\ src = 1 /\ dest = 1 /\ phase' = "move"
      /\ UNCHANGED <<field, word, heap, i, src, dest, before>>
  BY SlotsNat DEF MarkDone, MarkInv, TypeInv
<1>1. PICK B, z, a : Layout(B, z, heap) /\ Owner(B, a, before) /\ Swapped(B, z, a, before, field, word, i)
  BY DEF MarkInv, Marked
<1>2. /\ a \in [Slot -> B \cup {0}] /\ \A s \in Slot : s < i
      /\ \A s \in Slot : a[s] \in Nat /\ ~ Moved(a, 1, s)
  BY <1>0, <1>1, SlotsNat, Blocks DEF Owner, Moved
<1> DEFINE y == [e \in {} |-> 1]
           d == [s \in Slot |-> 0]
           g == [j \in 0 .. Slots |-> 1]
<1>3. Layout({}, y, 1)
  BY DEF Layout
<1>4. 1 \in B \cup {heap}
  BY <1>1 DEF Layout
<1>5. Uncollected(B, z, a, 1, before, field, word)
  <2>1. \A s \in Slot : a[s] >= 1 => a[s] # 0
    BY <1>2
  <2> QED
    BY <1>1, <1>2, <2>1 DEF Uncollected, Swapped
<1>6. Collected(a, z, {}, y, d, 1, before, field, word)
  BY <1>2 DEF Collected
<1>7. g \in [0 .. Slots -> Nat] /\ g[Slots] = 1 /\ IsTotal(g, 1, SizesMoved(a, z, 1), Slots)
  <2>1. \A j \in 1 .. Slots : SizesMoved(a, z, 1)[j] = 0
    BY <1>2 DEF SizesMoved, Slot
  <2>2. \A j \in 1 .. Slots : g[j] = g[j - 1] + SizesMoved(a, z, 1)[j]
    BY <2>1, SlotsNat
  <2> QED
    BY <2>2, SlotsNat DEF IsTotal
<1> HIDE DEF y, d, g
<1>8. Moving'
  <2>1. MovingWith(B, z, a, {}, y, d, g, before, field, word, heap, 1, 1)
    BY <1>1, <1>3, <1>4, <1>5, <1>6, <1>7 DEF MovingWith
  <2>2. \E BB, zz, aa, E, yy, dd, gg : MovingWith(BB, zz, aa, E, yy, dd, gg, before, field, word, heap, 1, 1)
    BY <2>1
  <2> QED
    BY <1>0, <2>2 DEF Moving
<1>9. MoveInv'
  BY <1>0, <1>8 DEF MoveInv, MarkInv
<1> QED
  BY <1>0, <1>9 DEF TypeInv, fileVars, Phases

-----------------------------------------------------------------------------
(***************************************************************************)
(* The second loop                                                         *)
(***************************************************************************)

(* No slot has a place between src and the end of the block there. *)
LEMMA NoneBetween ==
  ASSUME NEW B, NEW z, NEW a, Layout(B, z, heap), a \in [Slot -> B \cup {0}], src \in B, NEW s \in Slot
  PROVE  /\ a[s] # src => (Moved(a, src + z[src], s) <=> Moved(a, src, s))
         /\ a[s] = src => Moved(a, src + z[src], s) /\ ~ Moved(a, src, s)
         /\ a[s] >= src + z[src] => a[s] \in B /\ a[s] >= src /\ a[s] # src /\ a[s] # 0
         /\ \A b \in B : b >= src + z[src] => b >= src /\ b # src
<1>1. /\ src \in Nat /\ src > 0 /\ z[src] \in Nat /\ z[src] > 0
      /\ \A c \in B : c \in Nat /\ c > 0 /\ (c > src => c >= src + z[src])
  BY Blocks
<1>2. a[s] \in B \cup {0}
  OBVIOUS
<1>3. a[s] \in Nat /\ (a[s] # 0 => a[s] \in B)
  <2>1. CASE a[s] = 0
    BY <2>1
  <2>2. CASE a[s] \in B
    BY <1>1, <2>2
  <2> QED
    BY <1>2, <2>1, <2>2
<1> QED
  BY <1>1, <1>3 DEF Moved

LEMMA SkipStep ==
  ASSUME TypeInv, phase = "move", MoveInv, Skip, UNCHANGED fileVars
  PROVE  TypeInv' /\ MoveInv'
<1>0. UNCHANGED <<field, word, heap, phase, i, dest, before>> /\ src < heap /\ word[src].kind = "header"
  BY DEF Skip
<1>1. PICK B, z, a, E, y, d, g : MovingWith(B, z, a, E, y, d, g, before, field, word, heap, src, dest)
  BY DEF MoveInv, Moving
<1>w. /\ Layout(B, z, heap) /\ Owner(B, a, before) /\ Layout(E, y, dest)
      /\ src \in B \cup {heap} /\ dest <= src
      /\ Uncollected(B, z, a, src, before, field, word) /\ Collected(a, z, E, y, d, src, before, field, word)
      /\ g \in [0 .. Slots -> Nat] /\ IsTotal(g, 1, SizesMoved(a, z, src), Slots) /\ dest = g[Slots]
  BY <1>1 DEF MovingWith
<1>2. src \in B /\ src \in Nat /\ z[src] \in Nat /\ z[src] > 0 /\ src + z[src] \in B \cup {heap} /\ dest \in Nat
  BY <1>0, <1>w, Blocks DEF TypeInv
<1>3. a \in [Slot -> B \cup {0}]
  BY <1>w DEF Owner
<1>4. \A s \in Slot : a[s] # src
  <2> SUFFICES ASSUME NEW s \in Slot, a[s] = src PROVE FALSE
    OBVIOUS
  <2>1. word[src] = Pointer(s)
    BY <1>w, <1>2 DEF Uncollected
  <2> QED
    BY <1>0, <2>1, Kinds
<1>5. word[src] = Header(z[src])
  BY <1>w, <1>2, <1>4 DEF Uncollected
<1> DEFINE n == src + z[src]
<1>6. src' = n
  BY <1>5, Kinds DEF Skip
<1>7. \A s \in Slot : Moved(a, n, s) <=> Moved(a, src, s)
  BY <1>w, <1>2, <1>3, <1>4, NoneBetween
<1>8. Uncollected(B, z, a, n, before, field, word)
  <2>1. \A s \in Slot : a[s] >= n => a[s] >= src
    BY <1>w, <1>2, <1>3, NoneBetween
  <2>2. \A b \in B : b >= n => b >= src
    BY <1>w, <1>2, Blocks
  <2> HIDE DEF n
  <2> QED
    BY <1>w, <2>1, <2>2 DEF Uncollected
<1>9. Collected(a, z, E, y, d, n, before, field, word)
  <2> HIDE DEF n
  <2> QED
    BY <1>w, <1>7 DEF Collected
<1>10. SizesMoved(a, z, n) = SizesMoved(a, z, src)
  <2> HIDE DEF n
  <2> QED
    BY <1>7 DEF SizesMoved
<1>11. n \in B \cup {heap} /\ dest <= n /\ n \in Nat \ {0}
  BY <1>w, <1>2
<1> HIDE DEF n
<1>12. Moving'
  <2>1. MovingWith(B, z, a, E, y, d, g, before, field, word, heap, n, dest)
    BY <1>w, <1>8, <1>9, <1>10, <1>11 DEF MovingWith
  <2>2. \E BB, zz, aa, EE, yy, dd, gg : MovingWith(BB, zz, aa, EE, yy, dd, gg, before, field, word, heap, n, dest)
    BY <2>1
  <2> QED
    BY <1>0, <1>6, <2>2 DEF Moving
<1>13. MoveInv'
  BY <1>0, <1>12 DEF MoveInv
<1> QED
  BY <1>0, <1>6, <1>11, <1>13 DEF TypeInv, fileVars

(* What memmove leaves where, after the header c is put back *)
MovedLeft(w, c, to, from, m, v) ==
  /\ w \in Seq(Cell) /\ c \in Cell /\ to \in Nat /\ from \in Nat /\ m \in Nat
  /\ to > 0 /\ to <= from /\ m > 0 /\ from + m <= Len(w) + 1
  /\ v = memmove([w EXCEPT ![from] = c], to, from, m)

LEMMA Memmove ==
  ASSUME NEW w, NEW c, NEW to, NEW from, NEW m, NEW v, MovedLeft(w, c, to, from, m, v)
  PROVE  /\ v \in Seq(Cell) /\ Len(v) = Len(w)
         /\ \A j \in 1 .. Len(w) : j < to => v[j] = w[j]
         /\ \A j \in 1 .. Len(w) : j >= from + m => v[j] = w[j]
         /\ v[to] = c
         /\ \A o \in 1 .. m - 1 : v[to + o] = w[from + o]
<1> USE DEF MovedLeft
<1> DEFINE u == [w EXCEPT ![from] = c]
<1>0. from \in 1 .. Len(w) /\ Len(w) \in Nat
  OBVIOUS
<1>1. /\ DOMAIN u = 1 .. Len(w) /\ Len(w) \in Nat /\ from \in 1 .. Len(w)
      /\ \A j \in 1 .. Len(w) : u[j] \in Cell /\ u[j] = IF j = from THEN c ELSE w[j]
  BY <1>0
<1>x. v = memmove(u, to, from, m)
  OBVIOUS
<1> HIDE DEF u
<1> DEFINE x(j) == IF to <= j /\ j < to + m THEN u[from + (j - to)] ELSE u[j]
<1>2. v = [j \in 1 .. Len(w) |-> x(j)]
  BY <1>1, <1>x DEF memmove
<1>3. ASSUME NEW j \in 1 .. Len(w) PROVE x(j) \in Cell
  <2>1. CASE to <= j /\ j < to + m
    <3>1. from + (j - to) \in 1 .. Len(w)
      BY <1>1, <2>1
    <3> QED
      BY <1>1, <2>1, <3>1
  <2>2. CASE ~ (to <= j /\ j < to + m)
    BY <1>1, <2>2
  <2> QED
    BY <2>1, <2>2
<1>4. ASSUME NEW j \in 1 .. Len(w), j < to PROVE x(j) = w[j]
  BY <1>1, <1>4
<1>5. ASSUME NEW j \in 1 .. Len(w), j >= from + m PROVE x(j) = w[j]
  BY <1>1, <1>5
<1>6. to \in 1 .. Len(w) /\ x(to) = c
  <2>1. from + (to - to) = from /\ to <= to /\ to < to + m
    OBVIOUS
  <2> QED
    BY <1>1, <2>1
<1>7. ASSUME NEW o \in 1 .. m - 1 PROVE to + o \in 1 .. Len(w) /\ x(to + o) = w[from + o]
  <2>1. /\ from + ((to + o) - to) = from + o /\ to <= to + o /\ to + o < to + m
        /\ from + o \in 1 .. Len(w) /\ from + o # from /\ to + o \in 1 .. Len(w)
    BY <1>1
  <2> QED
    BY <1>1, <2>1
<1> HIDE DEF x
<1>8. v \in Seq(Cell) /\ Len(v) = Len(w)
  <2> DEFINE L == Len(w)
  <2>1. L \in Nat /\ v = [j \in 1 .. L |-> x(j)] /\ \A j \in 1 .. L : x(j) \in Cell
    BY <1>1, <1>2, <1>3
  <2> HIDE DEF L
  <2>2. [j \in 1 .. L |-> x(j)] \in Seq(Cell) /\ Len([j \in 1 .. L |-> x(j)]) = L
    BY <2>1
  <2> QED
    BY <2>1, <2>2 DEF L
<1>9. \A j \in 1 .. Len(w) : v[j] = x(j)
  BY <1>2
<1> QED
  BY <1>4, <1>5, <1>6, <1>7, <1>8, <1>9

(* One more block at the end *)
LEMMA LayoutAdd ==
  ASSUME NEW B, NEW z, NEW h, Layout(B, z, h), NEW m \in Nat \ {0}
  PROVE  Layout(B \cup {h}, [b \in B \cup {h} |-> IF b = h THEN m ELSE z[b]], h + m)
<1> DEFINE y == [b \in B \cup {h} |-> IF b = h THEN m ELSE z[b]]
<1>1. h \in Nat /\ h > 0 /\ \A b \in B : b \in Nat /\ b > 0 /\ b < h /\ z[b] \in Nat /\ z[b] > 0 /\ b + z[b] <= h
  BY Blocks DEF Layout
<1>2. h + m \in Nat \ {0} /\ B \cup {h} \subseteq 1 .. (h + m) - 1 /\ y \in [B \cup {h} -> Nat \ {0}]
  BY <1>1
<1>3. h + m = 1 \/ 1 \in B \cup {h}
  BY DEF Layout
<1>4. y[h] = m /\ \A b \in B : y[b] = z[b]
  BY <1>1
<1> HIDE DEF y
<1>5. \A b \in B \cup {h} : b + y[b] = h + m \/ b + y[b] \in B \cup {h}
  BY <1>1, <1>4 DEF Layout
<1>6. ASSUME NEW b \in B \cup {h}, NEW c \in B \cup {h}, b < c PROVE b + y[b] <= c
  <2>1. b \in B
    BY <1>1, <1>6
  <2> QED
    BY <1>1, <1>4, <1>6, <2>1 DEF Layout
<1>7. Layout(B \cup {h}, y, h + m)
  BY <1>2, <1>3, <1>5, <1>6 DEF Layout
<1> QED
  BY <1>7 DEF y

LEMMA MoveStep ==
  ASSUME TypeInv, phase = "move", MoveInv, Move, UNCHANGED fileVars
  PROVE  TypeInv' /\ MoveInv'
<1>0. UNCHANGED <<heap, phase, i, before>> /\ src < heap /\ word[src].kind = "pointer"
  BY DEF Move
<1>1. PICK B, z, a, E, y, d, g : MovingWith(B, z, a, E, y, d, g, before, field, word, heap, src, dest)
  BY DEF MoveInv, Moving
<1>w. /\ Layout(B, z, heap) /\ Owner(B, a, before) /\ Layout(E, y, dest)
      /\ src \in B \cup {heap} /\ dest <= src
      /\ Uncollected(B, z, a, src, before, field, word) /\ Collected(a, z, E, y, d, src, before, field, word)
      /\ g \in [0 .. Slots -> Nat] /\ IsTotal(g, 1, SizesMoved(a, z, src), Slots) /\ dest = g[Slots]
  BY <1>1 DEF MovingWith
<1>2. /\ src \in B /\ src \in Nat /\ src > 0 /\ z[src] \in Nat /\ z[src] > 0 /\ src + z[src] \in B \cup {heap}
      /\ dest \in Nat /\ dest > 0 /\ src + z[src] <= heap /\ heap \in Nat
  BY <1>0, <1>w, Blocks DEF TypeInv
<1>3. a \in [Slot -> B \cup {0}]
  BY <1>w DEF Owner
<1>4. PICK s \in Slot : a[s] = src
  BY <1>0, <1>w, <1>2, Kinds DEF Uncollected
<1> DEFINE m == z[src]
           n == src + m
           E2 == E \cup {dest}
           y2 == [e \in E2 |-> IF e = dest THEN m ELSE y[e]]
           d2 == [d EXCEPT ![s] = dest]
<1>5. field[s] = Header(m) /\ word[src] = Pointer(s) /\ before[s] = Words(word, src, m)
  BY <1>w, <1>2, <1>4 DEF Uncollected
<1>6. /\ field' = [field EXCEPT ![s] = Address(dest)]
      /\ word' = memmove([word EXCEPT ![src] = Header(m)], dest, src, m)
      /\ dest' = dest + m /\ src' = n
  <2>1. word[src].slot = s /\ field[s].size = m
    BY <1>5, Kinds
  <2> HIDE DEF m
  <2>2. m = z[src]
    BY DEF m
  <2> QED
    BY <1>5, <2>1, <2>2 DEF Move
<1>7. \A t \in Slot : Moved(a, n, t) <=> (t = s \/ Moved(a, src, t))
  <2> SUFFICES ASSUME NEW t \in Slot PROVE Moved(a, n, t) <=> (t = s \/ Moved(a, src, t))
    OBVIOUS
  <2>1. a[t] = src => t = s
    BY <1>w, <1>2, <1>4 DEF Owner
  <2> QED
    BY <1>w, <1>2, <1>3, <1>4, <2>1, NoneBetween
<1>8. ~ Moved(a, src, s)
  BY <1>w, <1>2, <1>3, <1>4, NoneBetween
<1>9. m \in Nat /\ m > 0 /\ n \in Nat /\ n = src + m /\ n \in B \cup {heap} /\ dest + m <= n /\ n <= heap
  BY <1>w, <1>2
<1>10. heap <= Len(word) + 1 /\ Len(word) \in Nat /\ word \in Seq(Cell)
  BY DEF MoveInv, TypeInv
<1>11. \A t \in Slot : a[t] >= n => a[t] \in B /\ a[t] >= src /\ t # s
  BY <1>w, <1>2, <1>3, <1>4, NoneBetween
<1>12. \A b \in B : b >= n => b >= src /\ b # src
  BY <1>w, <1>2, <1>3, <1>4, NoneBetween
<1>m. z[src] = m
  OBVIOUS
<1> HIDE DEF m, n
<1>13. /\ word' \in Seq(Cell) /\ Len(word') = Len(word)
       /\ \A j \in 1 .. Len(word) : j < dest => word'[j] = word[j]
       /\ \A j \in 1 .. Len(word) : j >= n => word'[j] = word[j]
       /\ word'[dest] = Header(m)
       /\ \A o \in 1 .. m - 1 : word'[dest + o] = word[src + o]
  <2>1. src + m <= Len(word) + 1 /\ Header(m) \in Cell
    BY <1>2, <1>9, <1>10, CellTypes
  <2>2. /\ word' \in Seq(Cell) /\ Len(word') = Len(word)
        /\ \A j \in 1 .. Len(word) : j < dest => word'[j] = word[j]
        /\ \A j \in 1 .. Len(word) : j >= src + m => word'[j] = word[j]
        /\ word'[dest] = Header(m)
        /\ \A o \in 1 .. m - 1 : word'[dest + o] = word[src + o]
    <3>1. MovedLeft(word, Header(m), dest, src, m, word')
      BY <1>2, <1>6, <1>9, <1>10, <1>w, <2>1 DEF MovedLeft
    <3> QED
      BY <3>1, Memmove
  <2> QED
    BY <2>2, <1>9
<1>14. /\ field' \in [Slot -> Cell] /\ \A t \in Slot : field'[t] = IF t = s THEN Address(dest) ELSE field[t]
  BY <1>2, <1>4, <1>6, CellTypes DEF TypeInv
<1>15. Layout(E2, y2, dest + m)
  <2>1. Layout(E, y, dest) /\ m \in Nat \ {0}
    BY <1>w, <1>9
  <2> QED
    BY <2>1, LayoutAdd
<1>16. dest \notin E /\ \A e \in E : e \in Nat /\ e < dest /\ e + y[e] <= dest /\ e > 0 /\ y[e] \in Nat
  <2>1. ASSUME NEW e \in E PROVE e \in Nat /\ e < dest /\ e + y[e] <= dest /\ e > 0 /\ y[e] \in Nat
    <3>1. e \in Nat /\ e > 0 /\ y[e] \in Nat /\ y[e] > 0 /\ e + y[e] <= dest
      BY <1>w, Blocks
    <3> QED
      BY <1>2, <3>1
  <2> QED
    BY <1>2, <2>1
<1>17. y2[dest] = m /\ \A e \in E : y2[e] = y[e]
  BY <1>16
<1> HIDE DEF E2, y2
<1>18. Uncollected(B, z, a, n, before, field', word')
  <2>1. ASSUME NEW t \in Slot, a[t] = 0 PROVE field'[t] = NULL
    BY <1>w, <1>2, <1>4, <1>14, <2>1 DEF Uncollected
  <2>2. ASSUME NEW t \in Slot, a[t] >= n
        PROVE  field'[t] = Header(z[a[t]]) /\ word'[a[t]] = Pointer(t) /\ before[t] = Words(word', a[t], z[a[t]])
    <3>1. a[t] \in B /\ a[t] >= src /\ t # s
      BY <1>11, <2>2
    <3>2. a[t] \in 1 .. Len(word) /\ \A o \in 1 .. z[a[t]] - 1 : a[t] + o \in 1 .. Len(word)
      BY <1>w, <1>10, <3>1, BlockInHeap
    <3>3. word'[a[t]] = word[a[t]]
      BY <1>13, <2>2, <3>2
    <3>4. ASSUME NEW o \in 1 .. z[a[t]] - 1 PROVE word'[a[t] + o] = word[a[t] + o]
      <4>1. a[t] + o >= n /\ a[t] + o \in 1 .. Len(word)
        BY <1>9, <2>2, <3>2
      <4> QED
        BY <1>13, <4>1
    <3>5. Words(word', a[t], z[a[t]]) = Words(word, a[t], z[a[t]])
      BY <3>4, WordsSame
    <3> QED
      BY <1>w, <1>14, <3>1, <3>3, <3>5 DEF Uncollected
  <2>3. ASSUME NEW b \in B, b >= n PROVE (\E t \in Slot : a[t] = b) \/ word'[b] = Header(z[b])
    <3>1. b \in 1 .. Len(word) /\ b >= src
      BY <1>w, <1>10, <1>12, <2>3, BlockInHeap
    <3>2. word'[b] = word[b]
      BY <1>13, <2>3, <3>1
    <3> QED
      BY <1>w, <3>1, <3>2 DEF Uncollected
  <2> QED
    BY <2>1, <2>2, <2>3 DEF Uncollected
<1>19. d2 \in [Slot -> E2 \cup {0}] /\ \A t \in Slot : d2[t] = IF t = s THEN dest ELSE d[t]
  BY <1>w, <1>4 DEF Collected, E2
<1> HIDE DEF d2
<1>20. Collected(a, z, E2, y2, d2, n, before, field', word')
  <2>1. ASSUME NEW t \in Slot, NEW u \in Slot, Moved(a, n, t), Moved(a, n, u), d2[t] = d2[u] PROVE t = u
    <3>1. ASSUME NEW r \in Slot, Moved(a, n, r), r # s PROVE d2[r] # dest /\ d2[r] = d[r] /\ Moved(a, src, r)
      BY <1>w, <1>7, <1>16, <1>19, <3>1 DEF Collected
    <3>2. d2[s] = dest
      BY <1>19
    <3>3. CASE t = s \/ u = s
      BY <2>1, <3>1, <3>2, <3>3
    <3>4. CASE t # s /\ u # s
      <4>1. Moved(a, src, t) /\ Moved(a, src, u) /\ d[t] = d[u]
        BY <2>1, <3>1, <3>4
      <4> QED
        BY <1>w, <4>1 DEF Collected
    <3> QED
      BY <3>3, <3>4
  <2>2. ASSUME NEW t \in Slot, Moved(a, n, t)
        PROVE  /\ d2[t] \in E2 /\ y2[d2[t]] = z[a[t]]
               /\ field'[t] = Address(d2[t]) /\ word'[d2[t]] = Header(z[a[t]])
               /\ before[t] = Words(word', d2[t], z[a[t]])
    <3>1. CASE t = s
      <4>1. d2[t] = dest /\ z[a[t]] = m /\ field'[t] = Address(dest)
        BY <1>4, <1>14, <1>19, <1>m, <3>1
      <4>2. Words(word', dest, m) = Words(word, src, m)
        BY <1>13, WordsSame
      <4> QED
        BY <1>5, <1>13, <1>17, <3>1, <4>1, <4>2 DEF E2
    <3>2. CASE t # s
      <4>1. Moved(a, src, t) /\ d2[t] = d[t] /\ field'[t] = field[t]
        BY <1>7, <1>14, <1>19, <2>2, <3>2
      <4>2. /\ d[t] \in E /\ y[d[t]] = z[a[t]]
            /\ field[t] = Address(d[t]) /\ word[d[t]] = Header(z[a[t]])
            /\ before[t] = Words(word, d[t], z[a[t]])
        BY <1>w, <4>1 DEF Collected
      <4>3. d[t] \in Nat /\ d[t] > 0 /\ d[t] < dest /\ d[t] + y[d[t]] <= dest /\ y[d[t]] \in Nat
        BY <1>16, <4>2
      <4>4. word'[d[t]] = word[d[t]]
        <5>1. d[t] \in 1 .. Len(word)
          BY <1>2, <1>9, <1>10, <4>3
        <5> QED
          BY <1>13, <4>3, <5>1
      <4>5. ASSUME NEW o \in 1 .. y[d[t]] - 1 PROVE word'[d[t] + o] = word[d[t] + o]
        <5> DEFINE at == d[t]
                   size == y[d[t]]
        <5>0. at \in Nat /\ size \in Nat /\ at > 0 /\ at + size <= dest /\ o \in 1 .. size - 1 /\ dest \in Nat
          BY <1>2, <4>3
        <5> HIDE DEF at, size
        <5>4. at + o < dest /\ at + o \in Nat /\ at + o > 0
          BY <5>0
        <5>1. d[t] + o < dest /\ d[t] + o \in Nat /\ d[t] + o > 0
          BY <5>4 DEF at
        <5>2. dest <= Len(word) + 1
          BY <1>2, <1>9, <1>10
        <5>3. d[t] + o \in 1 .. Len(word)
          BY <1>2, <1>10, <5>1, <5>2
        <5> QED
          BY <1>13, <5>1, <5>3
      <4>6. Words(word', d[t], y[d[t]]) = Words(word, d[t], y[d[t]])
        BY <4>5, WordsSame
      <4> QED
        BY <1>17, <4>1, <4>2, <4>4, <4>6 DEF E2
    <3> QED
      BY <3>1, <3>2
  <2>3. ASSUME NEW e \in E2 PROVE \E t \in Slot : Moved(a, n, t) /\ d2[t] = e
    <3>1. CASE e = dest
      BY <1>4, <1>7, <1>19, <3>1
    <3>2. CASE e # dest
      <4>1. PICK t \in Slot : Moved(a, src, t) /\ d[t] = e
        BY <1>w, <3>2 DEF Collected, E2
      <4>2. t # s
        BY <1>8, <4>1
      <4> QED
        BY <1>7, <1>19, <4>1, <4>2
    <3> QED
      BY <3>1, <3>2
  <2> QED
    BY <1>19, <2>1, <2>2, <2>3 DEF Collected
<1>21. PICK h \in [0 .. Slots -> Nat] : IsTotal(h, 1, SizesMoved(a, z, n), Slots) /\ h[Slots] = dest + m
  <2> DEFINE k0 == SizesMoved(a, z, src)
             k1 == SizesMoved(a, z, n)
  <2>1. \A t \in Slot : k0[t] \in Nat
    <3> SUFFICES ASSUME NEW t \in Slot PROVE k0[t] \in Nat
      OBVIOUS
    <3>1. Moved(a, src, t) => z[a[t]] \in Nat
      BY <1>w, <1>3, <1>2, Blocks DEF Moved
    <3> QED
      BY <3>1 DEF SizesMoved
  <2>2. k0[s] = 0
    BY <1>8 DEF SizesMoved
  <2>3. \A t \in Slot : k1[t] = IF t = s THEN m ELSE k0[t]
    BY <1>4, <1>7, <1>8, <1>m DEF SizesMoved
  <2> HIDE DEF k0, k1
  <2>4. \E h \in [0 .. Slots -> Nat] : IsTotal(h, 1, k1, Slots) /\ h[Slots] = g[Slots] + m
    <3>1. IsTotal(g, 1, k0, Slots)
      BY <1>w DEF k0
    <3> QED
      <4>1. OneMore(Slots, 1, k0, g, s, m, k1)
        BY <1>w, <1>9, <2>1, <2>2, <2>3, <3>1, SlotsNat DEF Slot, OneMore
      <4> QED
        BY <4>1, TotalAdd
  <2> QED
    BY <1>w, <2>4 DEF k1
<1>22. Moving'
  <2>1. MovingWith(B, z, a, E2, y2, d2, h, before, field', word', heap, n, dest + m)
    BY <1>w, <1>9, <1>15, <1>18, <1>20, <1>21 DEF MovingWith
  <2>2. \E BB, zz, aa, EE, yy, dd, gg : MovingWith(BB, zz, aa, EE, yy, dd, gg, before, field', word', heap, n, dest + m)
    BY <2>1
  <2> QED
    BY <1>0, <1>6, <2>2 DEF Moving
<1>23. MoveInv'
  BY <1>0, <1>10, <1>13, <1>22 DEF MoveInv
<1>24. src' \in Nat \ {0} /\ dest' \in Nat \ {0}
  BY <1>2, <1>6, <1>9
<1> QED
  BY <1>0, <1>13, <1>14, <1>23, <1>24 DEF TypeInv, fileVars

LEMMA MoveDoneStep ==
  ASSUME NullIsNew, TypeInv, phase = "move", MoveInv, MoveDone, UNCHANGED fileVars
  PROVE  TypeInv' /\ UseInv' /\ phase' = "done" /\ heap' = Total(1, [s \in Slot |-> SizeKept(s)'])
<1>0. /\ UNCHANGED <<field, word, i, src, dest, before>> /\ src >= heap /\ heap' = dest /\ phase' = "done"
  BY DEF MoveDone
<1>1. PICK B, z, a, E, y, d, g : MovingWith(B, z, a, E, y, d, g, before, field, word, heap, src, dest)
  BY DEF MoveInv, Moving
<1>w. /\ Layout(B, z, heap) /\ Owner(B, a, before) /\ Layout(E, y, dest)
      /\ src \in B \cup {heap} /\ dest <= src
      /\ Uncollected(B, z, a, src, before, field, word) /\ Collected(a, z, E, y, d, src, before, field, word)
      /\ g \in [0 .. Slots -> Nat] /\ IsTotal(g, 1, SizesMoved(a, z, src), Slots) /\ dest = g[Slots]
  BY <1>1 DEF MovingWith
<1>2. src = heap /\ heap \in Nat /\ dest \in Nat /\ src \in Nat /\ dest <= heap
  BY <1>0, <1>w DEF Layout, TypeInv
<1>3. a \in [Slot -> B \cup {0}] /\ d \in [Slot -> E \cup {0}]
  BY <1>w DEF Owner, Collected
<1>4. \A s \in Slot : Moved(a, src, s) <=> a[s] # 0
  <2> SUFFICES ASSUME NEW s \in Slot, a[s] # 0 PROVE Moved(a, src, s)
    BY DEF Moved
  <2>1. a[s] \in B
    BY <1>3
  <2>2. a[s] \in Nat /\ z[a[s]] \in Nat /\ z[a[s]] > 0 /\ a[s] + z[a[s]] <= heap
    BY <1>w, <2>1, Blocks
  <2> QED
    BY <1>2, <2>2 DEF Moved
<1>5. /\ dest > 0 /\ 0 \notin E /\ \A e \in E : e \in Nat /\ y[e] \in Nat \ {0}
      /\ \A s \in Slot : a[s] # 0 => z[a[s]] \in Nat \ {0}
  <2>1. dest > 0 /\ 0 \notin E /\ \A e \in E : e \in Nat /\ y[e] \in Nat \ {0}
    BY <1>w DEF Layout
  <2>2. ASSUME NEW s \in Slot, a[s] # 0 PROVE z[a[s]] \in Nat \ {0}
    BY <1>w, <1>3, <2>2 DEF Layout
  <2> QED
    BY <2>1, <2>2
<1> DEFINE a2 == [s \in Slot |-> IF a[s] = 0 THEN 0 ELSE d[s]]
<1>6. \A s \in Slot : /\ a[s] # 0 => a2[s] = d[s] /\ d[s] \in E /\ d[s] # 0
                      /\ a[s] = 0 => a2[s] = 0
                      /\ a2[s] # 0 => a[s] # 0 /\ a2[s] = d[s]
  BY <1>w, <1>4, <1>5 DEF Collected
<1>7. Owner(E, a2, before)
  <2>1. a2 \in [Slot -> E \cup {0}]
    BY <1>6
  <2> HIDE DEF a2
  <2>2. ASSUME NEW s \in Slot, NEW t \in Slot, a2[s] = a2[t], a2[s] # 0 PROVE s = t
    BY <1>w, <1>4, <1>6, <2>2 DEF Collected
  <2>3. \A s \in Slot : a2[s] = 0 <=> before[s] = NULL
    BY <1>w, <1>6 DEF Owner
  <2> QED
    BY <2>1, <2>2, <2>3 DEF Owner
<1> HIDE DEF a2
<1>8. Swapped(E, y, a2, before, field, word, 1)
  <2>1. \A s \in Slot : a2[s] = 0 => field[s] = NULL
    BY <1>w, <1>6 DEF Uncollected
  <2>2. ASSUME NEW s \in Slot, a2[s] # 0
        PROVE  /\ before[s] = Words(word, a2[s], y[a2[s]])
               /\ field[s] = Address(a2[s]) /\ ~ (s < 1)
    <3>1. Moved(a, src, s) /\ a2[s] = d[s]
      BY <1>4, <1>6, <2>2
    <3>2. y[d[s]] = z[a[s]] /\ field[s] = Address(d[s]) /\ before[s] = Words(word, d[s], z[a[s]])
      BY <1>w, <3>1 DEF Collected
    <3> QED
      BY <3>1, <3>2, SlotsNat
  <2>3. ASSUME NEW e \in E PROVE word[e] = Header(y[e])
    BY <1>w DEF Collected
  <2> QED
    BY <2>1, <2>2, <2>3 DEF Swapped
<1>9. Table(before, field, word, dest)
  BY <1>w, <1>7, <1>8 DEF Table, Marked
<1>10. UseInv'
  BY <1>0, <1>2, <1>9 DEF UseInv, MoveInv, TypeInv
<1>11. TypeInv'
  BY <1>0 DEF TypeInv, fileVars, Phases
<1> DEFINE k == [s \in Slot |-> SizeKept(s)]
           sm == SizesMoved(a, z, src)
<1>12. ASSUME NEW s \in Slot PROVE SizeKept(s) = sm[s] /\ SizeKept(s) \in Nat
  <2>1. CASE a[s] = 0
    BY <1>w, <1>4, <2>1 DEF Owner, SizeKept, SizesMoved
  <2>2. CASE a[s] # 0
    <3>1. Moved(a, src, s) /\ before[s] # NULL /\ d[s] \in E /\ z[a[s]] \in Nat \ {0} /\ y[d[s]] = z[a[s]]
      BY <1>w, <1>4, <1>5, <1>6, <2>2 DEF Owner, Collected
    <3>2. before[s] = Words(word, d[s], z[a[s]])
      BY <1>w, <3>1 DEF Collected
    <3>3. Len(word) \in Nat /\ dest <= Len(word) + 1 /\ word \in Seq(Cell)
      BY <1>2 DEF MoveInv, TypeInv
    <3>4. \A o \in 1 .. z[a[s]] - 1 : word[d[s] + o] \in Cell
      <4>1. \A o \in 1 .. y[d[s]] - 1 : d[s] + o \in 1 .. Len(word)
        BY <1>w, <3>1, <3>3, BlockInHeap
      <4> QED
        BY <3>1, <3>3, <4>1
    <3>5. Len(before[s]) = z[a[s]] - 1
      BY <3>1, <3>2, <3>4, WordsType
    <3>6. sm[s] = z[a[s]] /\ SizeKept(s) = Len(before[s]) + 1
      BY <3>1 DEF SizesMoved, SizeKept
    <3> QED
      BY <3>1, <3>5, <3>6
  <2> QED
    BY <2>1, <2>2
<1> HIDE DEF sm
<1>13. k \in Seq(Nat) /\ Len(k) = Slots /\ \A t \in 1 .. Slots : k[t] = sm[t]
  BY <1>12, SlotsNat DEF Slot
<1>k. SizeKept(1)' = SizeKept(1) /\ [s \in Slot |-> SizeKept(s)'] = k
  BY <1>0 DEF SizeKept
<1> HIDE DEF k
<1>14. Total(1, k) = dest
  <2>1. PICK h : IsTotal(h, 1, k, Len(k)) /\ Total(1, k) = h[Len(k)]
    BY <1>13, TotalIs
  <2>2. IsTotal(g, 1, sm, Slots) /\ IsTotal(h, 1, k, Slots) /\ Slots \in Nat
    BY <1>w, <1>13, <2>1, SlotsNat DEF sm
  <2>3. h[Slots] = g[Slots]
    BY <1>13, <2>2, TotalUnique
  <2> QED
    BY <1>w, <1>13, <2>1, <2>3
<1> QED
  BY <1>0, <1>10, <1>11, <1>14, <1>k

-----------------------------------------------------------------------------
(***************************************************************************)
(* Saving                                                                  *)
(***************************************************************************)

(* A part of the image *)
PartFits(f, w, n, m) ==
  /\ f \in [Slot -> Cell] /\ w \in Seq(Cell) /\ n \in Nat /\ m \in Nat
  /\ n > 0 /\ n <= m /\ m <= Slots + Len(w) + 1

LEMMA PartOf ==
  ASSUME NEW f, NEW w, NEW n, NEW m, PartFits(f, w, n, m)
  PROVE  /\ Part(f, w, n, m) \in Seq(Cell) /\ Len(Part(f, w, n, m)) = m - n
         /\ \A j \in 1 .. m - n :
              Part(f, w, n, m)[j] = IF (n + j) - 1 <= Slots THEN f[(n + j) - 1] ELSE w[((n + j) - 1) - Slots]
<1> USE DEF PartFits
<1> DEFINE x == f \o w
           c == SubSeq(x, n, m - 1)
<1>1. f \in Seq(Cell) /\ Len(f) = Slots /\ Slots \in Nat /\ Len(w) \in Nat
  BY SlotsNat DEF Slot
<1>2. /\ x \in Seq(Cell) /\ Len(x) = Slots + Len(w)
      /\ \A j \in 1 .. Slots + Len(w) : x[j] = IF j <= Slots THEN f[j] ELSE w[j - Slots]
  BY <1>1
<1> HIDE DEF x
<1>3. c \in Seq(Cell) /\ Len(c) = m - n /\ \A j \in 1 .. m - n : c[j] = x[(n + j) - 1]
  <2>1. n \in 1 .. Len(x) + 1 /\ m - 1 \in n - 1 .. Len(x)
    BY <1>1, <1>2
  <2>2. c \in Seq(Cell)
    BY <1>2, <2>1
  <2>3. Len(c) = m - n
    BY <1>2, <2>1
  <2>4. \A j \in 1 .. m - n : c[j] = x[(n + j) - 1]
    BY <1>2, <2>1
  <2> QED
    BY <2>2, <2>3, <2>4
<1>4. \A j \in 1 .. m - n : (n + j) - 1 \in 1 .. Slots + Len(w)
  BY <1>1
<1> HIDE DEF c
<1>5. /\ c \in Seq(Cell) /\ Len(c) = m - n
      /\ \A j \in 1 .. m - n : c[j] = IF (n + j) - 1 <= Slots THEN f[(n + j) - 1] ELSE w[((n + j) - 1) - Slots]
  BY <1>2, <1>3, <1>4
<1> QED
  BY <1>5 DEF c, x, Part

LEMMA UsedIs ==
  ASSUME TypeInv, heap <= Len(word) + 1
  PROVE  /\ Used \in Seq(Cell) /\ Len(Used) = heap - 1
         /\ \A j \in 1 .. heap - 1 : Used[j] = word[j]
         /\ Image = field \o Used /\ Len(Image) = Slots + heap - 1
<1> DEFINE n == heap - 1
<1>1. word \in Seq(Cell) /\ n \in Nat /\ n <= Len(word) /\ Len(word) \in Nat /\ heap \in Nat
  BY DEF TypeInv
<1> HIDE DEF n
<1>2. SubSeq(word, 1, n) \in Seq(Cell) /\ Len(SubSeq(word, 1, n)) = n /\ \A j \in 1 .. n : SubSeq(word, 1, n)[j] = word[j]
  BY <1>1
<1>3. Used \in Seq(Cell) /\ Len(Used) = n /\ \A j \in 1 .. n : Used[j] = word[j]
  BY <1>2 DEF Used, n
<1>4. Image = field \o Used
  BY DEF Image, Used
<1>5. field \in Seq(Cell) /\ Len(field) = Slots
  BY SlotsNat DEF TypeInv, Slot
<1>6. Len(field \o Used) = Slots + n
  BY <1>3, <1>5
<1> QED
  BY <1>1, <1>3, <1>4, <1>6, SlotsNat DEF n

(* What the table needs of the heap is before the heap pointer. *)
LEMMA TableOfUsed ==
  ASSUME NEW p, NEW f, NEW w, NEW v, NEW h, Table(p, f, w, h), \A j \in 1 .. h - 1 : v[j] = w[j]
  PROVE  Table(p, f, v, h)
<1>1. PICK B, z, a : Layout(B, z, h) /\ Owner(B, a, p) /\ Swapped(B, z, a, p, f, w, 1)
  BY DEF Table, Marked
<1>2. h \in Nat /\ h > 0
  BY <1>1 DEF Layout
<1>3. \A b \in B : v[b] = w[b] /\ Words(v, b, z[b]) = Words(w, b, z[b])
  <2> SUFFICES ASSUME NEW b \in B PROVE v[b] = w[b] /\ Words(v, b, z[b]) = Words(w, b, z[b])
    OBVIOUS
  <2>1. b \in 1 .. h - 1 /\ \A o \in 1 .. z[b] - 1 : b + o \in 1 .. h - 1
    BY <1>1, <1>2, BlockInHeap
  <2> QED
    BY <2>1, WordsSame
<1>4. Swapped(B, z, a, p, f, v, 1)
  <2>1. a \in [Slot -> B \cup {0}]
    BY <1>1 DEF Owner
  <2>2. \A s \in Slot : ~ (s < 1)
    BY SlotsNat
  <2> QED
    BY <1>1, <1>3, <2>1, <2>2 DEF Swapped
<1> QED
  BY <1>1, <1>4 DEF Table, Marked

LEMMA QuietUse ==
  ASSUME TypeInv, Quiet, phase = "mark" => MarkInv, phase = "done" => UseInv
  PROVE  UseInv
BY DEF Quiet, MarkInv, UseInv, Table

LEMMA HeaderStep ==
  ASSUME TypeInv, UseInv, fwrite_header
  PROVE  TypeInv' /\ UseInv' /\ SaveInv' /\ phase' = "save"
<1>0. /\ UNCHANGED <<field, word, heap, i, src, dest, before, revision, loads>> /\ phase' = "save"
      /\ file' = <<Magic, Saved(revision)>> /\ chunk_start' = 1
  BY DEF fwrite_header
<1>1. file' \in Seq(FileCell) /\ Len(file') = 2
  <2>1. Magic \in FileCell /\ Saved(revision) \in FileCell
    BY DEF FileCell, TypeInv
  <2> QED
    BY <1>0, <2>1
<1>2. TypeInv'
  BY <1>0, <1>1 DEF TypeInv, Phases
<1>3. UseInv'
  BY <1>0 DEF UseInv
<1>4. ASSUME NEW f, NEW w PROVE Saving(f, w)'
  <2> DEFINE c == [j \in 1 .. 1 |-> 1]
  <2>1. IsCuts(c, 0, 1, 1)
    BY DEF IsCuts
  <2>2. \E cc : IsCuts(cc, 0, 1, chunk_start') /\ Len(file') = 0 + 2
                /\ \A j \in 1 .. 0 : file'[j + 2] = Chunk(f, w, cc[j], cc[j + 1])
    BY <1>0, <1>1, <2>1
  <2> QED
    BY <2>2 DEF Saving
<1>5. SaveInv'
  <2>1. heap \in Nat \ {0}
    BY DEF TypeInv
  <2> QED
    BY <1>0, <1>4, <2>1, SlotsNat DEF SaveInv
<1> QED
  BY <1>0, <1>2, <1>3, <1>5

LEMMA ChunkStep ==
  ASSUME TypeInv, phase = "save", UseInv, SaveInv, SaveChunk
  PROVE  TypeInv' /\ UseInv' /\ SaveInv' /\ phase' = "save"
<1>s. PICK k :
        /\ k = (IF LZ4_MAX_INPUT_SIZE < Len(Image) + 1 - chunk_start THEN LZ4_MAX_INPUT_SIZE
                                                                  ELSE Len(Image) + 1 - chunk_start)
        /\ chunk_start' = chunk_start + k
        /\ file' = Append(file, Lz4(SubSeq(Image, chunk_start, chunk_start + k - 1)))
  BY DEF SaveChunk
<1>0. UNCHANGED <<field, word, heap, phase, i, src, dest, before, revision, loads>> /\ chunk_start <= Len(Image)
  BY DEF SaveChunk, vars
<1> DEFINE m == chunk_start + k
<1>1. /\ Used \in Seq(Cell) /\ Len(Used) = heap - 1 /\ Image = field \o Used /\ Len(Image) = Slots + heap - 1
      /\ heap \in Nat /\ heap > 0 /\ chunk_start \in Nat /\ chunk_start > 0 /\ file \in Seq(FileCell)
      /\ field \in [Slot -> Cell] /\ Slots \in Nat
  BY UsedIs, SlotsNat DEF UseInv, TypeInv
<1>2. k \in Nat /\ m \in Nat /\ m > chunk_start /\ m <= Slots + heap
  BY <1>0, <1>1, <1>s, ChunkAssumption
<1>c. chunk_start' = m /\ file' = Append(file, Lz4(SubSeq(Image, chunk_start, m - 1)))
  <2> DEFINE n == chunk_start + k - 1
  <2>1. file' = Append(file, Lz4(SubSeq(Image, chunk_start, n))) /\ chunk_start' = m
    BY <1>s
  <2>2. n = m - 1
    BY <1>1, <1>2
  <2> HIDE DEF n, m
  <2> QED
    BY <2>1, <2>2
<1> HIDE DEF m
<1>3. Part(field, Used, chunk_start, m) \in Seq(Cell)
  <2>1. PartFits(field, Used, chunk_start, m)
    BY <1>1, <1>2 DEF PartFits
  <2> QED
    BY <2>1, PartOf
<1>4. file' = Append(file, Chunk(field, Used, chunk_start, m))
  BY <1>1, <1>c DEF Chunk, Part
<1>5. Chunk(field, Used, chunk_start, m) \in FileCell
  BY <1>3 DEF Chunk, FileCell
<1> DEFINE ch == Chunk(field, Used, chunk_start, m)
<1> HIDE DEF ch
<1>6. file' \in Seq(FileCell) /\ Len(file') = Len(file) + 1 /\ file'[Len(file) + 1] = ch
      /\ \A j \in 1 .. Len(file) : file'[j] = file[j]
  BY <1>1, <1>4, <1>5 DEF ch
<1>7. PICK N \in Nat : \E c : /\ IsCuts(c, N, 1, chunk_start) /\ Len(file) = N + 2
                            /\ \A j \in 1 .. N : file[j + 2] = Chunk(field, Used, c[j], c[j + 1])
  BY DEF SaveInv, Saving
<1>8. PICK c : /\ IsCuts(c, N, 1, chunk_start) /\ Len(file) = N + 2
               /\ \A j \in 1 .. N : file[j + 2] = Chunk(field, Used, c[j], c[j + 1])
  BY <1>7
<1> DEFINE e == [j \in 1 .. N + 2 |-> IF j = N + 2 THEN m ELSE c[j]]
<1>9. e[N + 2] = m /\ \A j \in 1 .. N + 1 : e[j] = c[j]
  OBVIOUS
<1>10. e \in [1 .. N + 2 -> 1 .. m]
  <2>1. \A j \in 1 .. N + 1 : c[j] \in 1 .. m
    BY <1>1, <1>2, <1>8 DEF IsCuts
  <2> QED
    BY <1>1, <1>2, <2>1
<1> HIDE DEF e
<1>11. IsCuts(e, N + 1, 1, m)
  <2>1. (N + 1) + 1 = N + 2 /\ 1 \in 1 .. N + 1 /\ N + 1 \in Nat
    OBVIOUS
  <2>2. e[1] = 1
    BY <1>8, <1>9, <2>1 DEF IsCuts
  <2>3. ASSUME NEW j \in 1 .. N + 1 PROVE e[j] < e[j + 1]
    <3>1. CASE j = N + 1
      <4>1. e[j] = chunk_start /\ e[j + 1] = m
        BY <1>8, <1>9, <3>1 DEF IsCuts
      <4> QED
        BY <1>2, <4>1
    <3>2. CASE j # N + 1
      <4>1. j \in 1 .. N /\ j + 1 \in 1 .. N + 1
        BY <3>2
      <4> QED
        BY <1>8, <1>9, <4>1 DEF IsCuts
    <3> QED
      BY <3>1, <3>2
  <2> QED
    BY <1>9, <1>10, <2>1, <2>2, <2>3 DEF IsCuts
<1>12. Used' = Used
  BY <1>0 DEF Used
<1>13. \A j \in 1 .. N + 1 : file'[j + 2] = Chunk(field, Used, e[j], e[j + 1])
  <2> SUFFICES ASSUME NEW j \in 1 .. N + 1 PROVE file'[j + 2] = Chunk(field, Used, e[j], e[j + 1])
    OBVIOUS
  <2>1. CASE j = N + 1
    <3>1. e[j] = chunk_start /\ e[j + 1] = m
      BY <1>8, <1>9, <2>1 DEF IsCuts
    <3>2. j + 2 = Len(file) + 1
      BY <1>8, <2>1
    <3> QED
      BY <1>6, <3>1, <3>2 DEF ch
  <2>2. CASE j # N + 1
    <3>1. j \in 1 .. N /\ j + 1 \in 1 .. N + 1 /\ j + 2 \in 1 .. Len(file)
      BY <1>8, <2>2
    <3> QED
      BY <1>6, <1>8, <1>9, <3>1
  <2> QED
    BY <2>1, <2>2
<1>14. SaveInv'
  <2>1. Len(file') = (N + 1) + 2 /\ N + 1 \in Nat
    BY <1>6, <1>8
  <2>2. Saving(field, Used)'
    BY <1>0, <1>c, <1>11, <1>12, <1>13, <2>1 DEF Saving
  <2> QED
    BY <1>0, <1>2, <1>c, <2>2 DEF SaveInv
<1>15. TypeInv' /\ UseInv'
  BY <1>0, <1>1, <1>2, <1>6, <1>c DEF TypeInv, UseInv
<1> QED
  BY <1>0, <1>14, <1>15

LEMMA SaveEndStep ==
  ASSUME TypeInv, phase = "save", UseInv, SaveInv, SaveEnd
  PROVE  TypeInv' /\ FileInv' /\ phase' = "saved"
<1>0. /\ UNCHANGED <<field, word, heap, i, src, dest, before, revision, chunk_start, loads>>
      /\ phase' = "saved" /\ chunk_start > Len(Image)
  BY DEF SaveEnd
<1>1. PICK n \in 0 .. Len(file) + 1 : file' = SubSeq(Append(file, End), 1, n)
  BY DEF SaveEnd
<1>2. /\ Used \in Seq(Cell) /\ Len(Used) = heap - 1 /\ Len(Image) = Slots + heap - 1
      /\ heap \in Nat /\ heap > 0 /\ chunk_start \in Nat /\ file \in Seq(FileCell) /\ Len(file) \in Nat
      /\ field \in [Slot -> Cell] /\ Slots \in Nat /\ \A j \in 1 .. heap - 1 : Used[j] = word[j]
  <2>1. heap <= Len(word) + 1
    BY DEF UseInv
  <2>2. heap \in Nat \ {0} /\ chunk_start \in Nat \ {0} /\ file \in Seq(FileCell) /\ field \in [Slot -> Cell]
    BY DEF TypeInv
  <2>3. heap \in Nat /\ heap > 0 /\ chunk_start \in Nat /\ Len(file) \in Nat
    BY <2>2
  <2> QED
    BY <2>1, <2>2, <2>3, UsedIs, SlotsNat
<1>3. chunk_start = Slots + Len(Used) + 1 /\ Len(Used) + 1 = heap
  <2>1. chunk_start <= Slots + heap
    BY DEF SaveInv
  <2>2. PICK h : h = heap
    OBVIOUS
  <2>3. PICK u : u = Len(Used)
    OBVIOUS
  <2>4. h \in Nat /\ u = h - 1 /\ chunk_start \in Nat /\ Slots \in Nat /\ chunk_start > Slots + h - 1
    BY <1>0, <1>2, <2>2, <2>3
  <2> QED
    BY <2>1, <2>2, <2>3, <2>4
<1>4. IsImage(before, field, Used)
  <2>1. Table(before, field, Used, heap)
    BY <1>2, TableOfUsed DEF UseInv
  <2> QED
    BY <1>2, <1>3, <2>1 DEF IsImage
<1>5. End \in FileCell
  <2>1. <<>> \in Seq(Cell)
    OBVIOUS
  <2>2. End = Lz4(<<>>)
    BY DEF End, Lz4
  <2> QED
    BY <2>1, <2>2 DEF FileCell
<1> DEFINE x == Append(file, End)
<1>6. /\ x \in Seq(FileCell) /\ Len(x) = Len(file) + 1 /\ x[Len(file) + 1] = End
      /\ \A j \in 1 .. Len(file) : x[j] = file[j]
  BY <1>2, <1>5
<1> HIDE DEF x
<1>7. file' \in Seq(FileCell) /\ Len(file') = n /\ \A j \in 1 .. n : file'[j] = x[j]
  <2>1. file' = SubSeq(x, 1, n) /\ n \in Nat /\ n <= Len(x)
    BY <1>1, <1>2, <1>6 DEF x
  <2> QED
    BY <1>6, <2>1
<1>8. PICK N \in Nat : \E c : /\ IsCuts(c, N, 1, chunk_start) /\ Len(file) = N + 2
                            /\ \A j \in 1 .. N : file[j + 2] = Chunk(field, Used, c[j], c[j + 1])
  BY DEF SaveInv, Saving
<1>9. PICK c : /\ IsCuts(c, N, 1, chunk_start) /\ Len(file) = N + 2
               /\ \A j \in 1 .. N : file[j + 2] = Chunk(field, Used, c[j], c[j + 1])
  BY <1>8
<1>10. ASSUME n >= 2 PROVE InChunks(SubSeq(file', 3, n), field, Used, 1)
  <2> DEFINE cells == SubSeq(file', 3, n)
  <2>1. Len(cells) = n - 2 /\ \A j \in 1 .. n - 2 : cells[j] = file'[j + 2]
    <3>1. n \in Nat /\ n >= 2
      BY <1>1, <1>2, <1>10
    <3> QED
      BY <1>7, <3>1
  <2> HIDE DEF cells
  <2>2. \A j \in 1 .. n - 2 : cells[j] = x[j + 2]
    BY <1>7, <2>1
  <2>3. Len(cells) <= N + 1
    BY <1>1, <1>9, <2>1
  <2>4. ASSUME NEW j \in 1 .. N, j <= Len(cells) PROVE cells[j] = Chunk(field, Used, c[j], c[j + 1])
    <3>1. j \in 1 .. n - 2 /\ j + 2 \in 1 .. Len(file)
      BY <1>1, <1>9, <2>1, <2>4
    <3> QED
      BY <1>6, <1>9, <2>2, <3>1
  <2>5. ASSUME Len(cells) = N + 1 PROVE cells[N + 1] = End
    <3>1. N + 1 \in 1 .. n - 2 /\ (N + 1) + 2 = Len(file) + 1
      BY <1>1, <1>9, <2>1, <2>5
    <3> QED
      BY <1>6, <2>2, <3>1
  <2>6. IsCuts(c, N, 1, Slots + Len(Used) + 1)
    BY <1>3, <1>9
  <2>7. InChunks(cells, field, Used, 1)
    BY <2>3, <2>4, <2>5, <2>6 DEF InChunks
  <2> QED
    BY <2>7 DEF cells
<1>11. FileInv'
  <2>1. IsImage(before', field, Used) /\ (Len(file') >= 2 => InChunks(SubSeq(file', 3, Len(file')), field, Used, 1))
    BY <1>0, <1>4, <1>7, <1>10
  <2>2. \E f, w : IsImage(before', f, w) /\ (Len(file') >= 2 => InChunks(SubSeq(file', 3, Len(file')), f, w, 1))
    BY <2>1
  <2> QED
    BY <2>2 DEF FileInv
<1> QED
  BY <1>0, <1>7, <1>11 DEF TypeInv, Phases

-----------------------------------------------------------------------------
(***************************************************************************)
(* Loading                                                                 *)
(***************************************************************************)
LEMMA InitStep ==
  ASSUME TypeInv, phase = "saved", FileInv, hh_shared_init
  PROVE  TypeInv' /\ FileInv' /\ phase' = "load" /\ chunk_start' = 1 /\ word' = <<>>
<1>1. TypeInv'
  <2>1. NULL \in Cell /\ <<>> \in Seq(Cell)
    BY CellTypes
  <2> QED
    BY <2>1 DEF hh_shared_init, TypeInv, Phases
<1>2. FileInv'
  BY DEF hh_shared_init, FileInv
<1> QED
  BY <1>1, <1>2 DEF hh_shared_init

LEMMA ReadHeaderStep ==
  ASSUME TypeInv, phase = "load", FileInv, chunk_start = 1, word = <<>>, fread_header
  PROVE  TypeInv' /\ LoadInv' /\ phase' = "chunks"
<1>0. /\ UNCHANGED <<field, word, heap, i, src, dest, before, revision, chunk_start, loads>>
      /\ phase' = "chunks" /\ file' = SubSeq(file, 3, Len(file)) /\ Len(file) >= 2
  BY DEF fread_header, HeaderFits
<1>1. PICK f, w : IsImage(before, f, w) /\ (Len(file) >= 2 => InChunks(SubSeq(file, 3, Len(file)), f, w, 1))
  BY DEF FileInv
<1>2. InChunks(file', f, w, chunk_start')
  BY <1>0, <1>1
<1>3. Loaded(f, w)'
  <2>1. Len(w) \in Nat
    BY <1>1 DEF IsImage
  <2>2. Len(word') = 0 /\ chunk_start' = 1
    BY <1>0
  <2> QED
    BY <1>0, <2>1, <2>2, SlotsNat DEF Loaded
<1>4. LoadInv'
  <2>1. IsImage(before', f, w) /\ InChunks(file', f, w, chunk_start') /\ Loaded(f, w)'
    BY <1>0, <1>1, <1>2, <1>3
  <2> QED
    BY <2>1 DEF LoadInv
<1>5. file' \in Seq(FileCell)
  <2>1. file \in Seq(FileCell) /\ Len(file) \in Nat
    BY DEF TypeInv
  <2> QED
    BY <1>0, <2>1
<1> QED
  BY <1>0, <1>4, <1>5 DEF TypeInv, Phases

LEMMA LoadChunkStep ==
  ASSUME TypeInv, phase = "chunks", LoadInv, LoadChunk
  PROVE  TypeInv' /\ LoadInv' /\ phase' = "chunks"
<1> DEFINE chunk == Head(file).of
           end == chunk_start + Len(chunk)
           k == IF end > Slots THEN end - 1 - Slots ELSE 0
<1>0. /\ UNCHANGED <<heap, phase, i, src, dest, before, revision, loads>> /\ phase' = "chunks"
      /\ file # <<>> /\ Head(file) # End /\ file' = Tail(file)
  BY DEF LoadChunk, ReadCell
<1>1. /\ field' = [s \in Slot |-> IF chunk_start <= s /\ s < end THEN chunk[s - chunk_start + 1] ELSE field[s]]
      /\ word' = [j \in 1 .. k |-> IF j <= Len(word) THEN word[j] ELSE chunk[j + Slots - chunk_start + 1]]
      /\ chunk_start' = end
  BY ZenonT(20) DEF LoadChunk
<1>2. PICK f, w : IsImage(before, f, w) /\ InChunks(file, f, w, chunk_start) /\ Loaded(f, w)
  BY DEF LoadInv
<1>3. /\ f \in [Slot -> Cell] /\ w \in Seq(Cell) /\ Len(w) \in Nat /\ Slots \in Nat
      /\ chunk_start \in Nat /\ chunk_start > 0 /\ file \in Seq(FileCell) /\ Len(file) \in Nat /\ Len(file) >= 1
      /\ field \in [Slot -> Cell] /\ word \in Seq(Cell) /\ Len(word) \in Nat
  BY <1>0, <1>2, SlotsNat DEF IsImage, TypeInv
<1> DEFINE L == Slots + Len(w) + 1
<1>4. PICK N \in Nat : \E c :
        /\ IsCuts(c, N, chunk_start, L) /\ Len(file) <= N + 1
        /\ \A j \in 1 .. N : j <= Len(file) => file[j] = Chunk(f, w, c[j], c[j + 1])
        /\ Len(file) = N + 1 => file[N + 1] = End
  BY <1>2 DEF InChunks
<1>5. PICK c :
        /\ IsCuts(c, N, chunk_start, L) /\ Len(file) <= N + 1
        /\ \A j \in 1 .. N : j <= Len(file) => file[j] = Chunk(f, w, c[j], c[j + 1])
        /\ Len(file) = N + 1 => file[N + 1] = End
  BY <1>4
<1>6. Head(file) = file[1]
  BY <1>3
<1>7. N >= 1
  <2> SUFFICES ASSUME N = 0 PROVE FALSE
    OBVIOUS
  <2> DEFINE len == Len(file)
  <2>0. len <= N + 1 /\ len >= 1 /\ len \in Nat
    BY <1>3, <1>5
  <2> HIDE DEF len
  <2>1. N + 1 = 1
    OBVIOUS
  <2>2. len = N + 1
    BY <2>0, <2>1
  <2> QED
    BY <1>0, <1>5, <1>6, <2>1, <2>2 DEF len
<1> DEFINE m == c[2]
<1>8. /\ c[1] = chunk_start /\ m \in Nat /\ m > chunk_start /\ m <= L /\ L \in Nat
      /\ c \in [1 .. N + 1 -> chunk_start .. L]
  BY <1>3, <1>5, <1>7 DEF IsCuts
<1> HIDE DEF m
<1> DEFINE cc == Part(f, w, chunk_start, m)
<1>9. chunk = cc
  <2>1. file[1] = Chunk(f, w, c[1], c[1 + 1])
    BY <1>3, <1>5, <1>7
  <2> QED
    BY <1>6, <1>8, <2>1, ChunkOf DEF m
<1>10. /\ cc \in Seq(Cell) /\ Len(cc) = m - chunk_start
       /\ \A j \in 1 .. m - chunk_start :
            cc[j] = IF (chunk_start + j) - 1 <= Slots THEN f[(chunk_start + j) - 1]
                                                      ELSE w[((chunk_start + j) - 1) - Slots]
  <2>1. PartFits(f, w, chunk_start, m)
    BY <1>3, <1>8 DEF PartFits
  <2> QED
    BY <2>1, PartOf
<1> HIDE DEF cc, chunk
<1>11. end = m
  BY <1>3, <1>8, <1>9, <1>10
<1> HIDE DEF end
<1>12. /\ chunk_start <= L /\ \A s \in Slot : s < chunk_start => field[s] = f[s]
       /\ Len(word) = (IF chunk_start > Slots THEN chunk_start - 1 - Slots ELSE 0)
       /\ \A j \in 1 .. Len(word) : word[j] = w[j]
  BY <1>2 DEF Loaded
<1>13. field' \in [Slot -> Cell] /\ \A s \in Slot : s < m => field'[s] = f[s]
  <2>1. ASSUME NEW s \in Slot, chunk_start <= s, s < m PROVE chunk[s - chunk_start + 1] = f[s]
    <3>1. /\ s - chunk_start + 1 \in 1 .. m - chunk_start /\ (chunk_start + (s - chunk_start + 1)) - 1 = s /\ s <= Slots
      BY <1>3, <1>8, <2>1, SlotsNat
    <3> QED
      BY <1>9, <1>10, <3>1
  <2>2. \A s \in Slot : s \in Nat
    BY SlotsNat
  <2>3. \A s \in Slot : field'[s] = IF chunk_start <= s /\ s < m THEN f[s] ELSE field[s]
    BY <1>1, <1>11, <2>1
  <2>4. ASSUME NEW s \in Slot, s < m PROVE field'[s] = f[s]
    BY <1>3, <1>12, <2>2, <2>3, <2>4
  <2>5. \A s \in Slot : field'[s] \in Cell
    BY <1>3, <2>3
  <2>6. field' = [s \in Slot |-> field'[s]]
    BY <1>1
  <2> QED
    BY <2>4, <2>5, <2>6
<1>14. k \in Nat /\ k = (IF m > Slots THEN m - 1 - Slots ELSE 0) /\ k <= Len(w)
  BY <1>3, <1>8, <1>11
<1> HIDE DEF k
<1>15. word' \in Seq(Cell) /\ Len(word') = k /\ \A j \in 1 .. k : word'[j] = w[j]
  <2> DEFINE x(j) == IF j <= Len(word) THEN word[j] ELSE chunk[j + Slots - chunk_start + 1]
  <2>1. ASSUME NEW j \in 1 .. k PROVE x(j) = w[j] /\ w[j] \in Cell
    <3>1. j \in Nat /\ j > 0 /\ m > Slots /\ j + Slots < m /\ j \in 1 .. Len(w)
      BY <1>3, <1>8, <1>14
    <3>2. w[j] \in Cell
      BY <1>3, <3>1
    <3>3. CASE j <= Len(word)
      BY <1>3, <1>12, <3>1, <3>2, <3>3
    <3>4. CASE ~ (j <= Len(word))
      <4>1. j + Slots >= chunk_start
        BY <1>3, <1>12, <3>1, <3>4
      <4>2. /\ j + Slots - chunk_start + 1 \in 1 .. m - chunk_start
            /\ (chunk_start + (j + Slots - chunk_start + 1)) - 1 = j + Slots
            /\ (j + Slots) - Slots = j /\ ~ (j + Slots <= Slots)
        BY <1>3, <1>8, <3>1, <4>1
      <4>3. chunk[j + Slots - chunk_start + 1] = w[j]
        BY <1>9, <1>10, <4>2
      <4> QED
        BY <3>2, <3>4, <4>3
    <3> QED
      BY <3>3, <3>4
  <2>2. word' = [j \in 1 .. k |-> x(j)]
    BY <1>1 DEF k
  <2> HIDE DEF x
  <2>3. [j \in 1 .. k |-> x(j)] \in Seq(Cell) /\ Len([j \in 1 .. k |-> x(j)]) = k
    BY <1>14, <2>1
  <2> QED
    BY <2>1, <2>2, <2>3
<1>16. Loaded(f, w)'
  <2>1. chunk_start' = m
    BY <1>1, <1>11
  <2> QED
    BY <1>8, <1>13, <1>14, <1>15, <2>1 DEF Loaded
<1> DEFINE rest == Tail(file)
<1>17. /\ rest \in Seq(FileCell) /\ Len(rest) = Len(file) - 1
       /\ \A j \in 1 .. Len(file) - 1 : rest[j] = file[j + 1]
  BY <1>0, <1>3
<1> HIDE DEF rest
<1>18. InChunks(rest, f, w, m)
  <2> DEFINE M == N - 1
             e == [j \in 1 .. N |-> c[j + 1]]
  <2>1. M \in Nat /\ M + 1 = N
    BY <1>7
  <2>2. IsCuts(e, M, m, L)
    <3>1. \A j \in 1 .. N : e[j] = c[j + 1] /\ j + 1 \in 1 .. N + 1
      OBVIOUS
    <3>2. e[1] = m /\ e[N] = L /\ 1 \in 1 .. N /\ N \in 1 .. N
      BY <1>5, <1>7 DEF IsCuts, m
    <3>3. \A j \in 1 .. M : e[j] < e[j + 1]
      <4> SUFFICES ASSUME NEW j \in 1 .. M PROVE e[j] < e[j + 1]
        OBVIOUS
      <4>1. j \in 1 .. N /\ j + 1 \in 1 .. N
        BY <2>1
      <4> QED
        BY <1>5, <3>1, <4>1 DEF IsCuts
    <3>4. \A j \in 1 .. N : e[j] \in m .. L
      <4> DEFINE S == {j \in Nat : j + 1 <= N => e[j + 1] \in m .. L}
      <4>1. 0 \in S
        BY <1>8, <3>2
      <4>2. ASSUME NEW j \in Nat, j \in S PROVE j + 1 \in S
        <5> SUFFICES ASSUME (j + 1) + 1 <= N PROVE e[(j + 1) + 1] \in m .. L
          OBVIOUS
        <5>1. e[j + 1] \in m .. L
          BY <4>2
        <5>2. j + 1 \in 1 .. M /\ (j + 1) + 1 \in 1 .. N
          BY <2>1
        <5>3. e[j + 1] < e[(j + 1) + 1]
          BY <3>3, <5>2
        <5>4. e[(j + 1) + 1] \in chunk_start .. L
          BY <1>8, <3>1, <5>2
        <5>5. PICK x : x = e[j + 1]
          OBVIOUS
        <5>6. PICK y : y = e[(j + 1) + 1]
          OBVIOUS
        <5> HIDE DEF e
        <5>7. m \in Nat /\ x \in m .. L /\ x < y /\ y \in chunk_start .. L
          BY <1>3, <1>8, <5>1, <5>3, <5>4, <5>5, <5>6
        <5>8. x \in Int /\ y \in Int /\ m <= x /\ y <= L
          BY <5>7
        <5>9. y \in m .. L
          BY <5>7, <5>8
        <5> QED
          BY <5>6, <5>9
      <4> HIDE DEF S
      <4>3. Nat \subseteq S
        BY <4>1, <4>2, Induction
      <4> SUFFICES ASSUME NEW j \in 1 .. N PROVE e[j] \in m .. L
        OBVIOUS
      <4>4. j - 1 \in Nat /\ (j - 1) + 1 = j /\ j <= N
        OBVIOUS
      <4> HIDE DEF e
      <4> QED
        BY <4>3, <4>4 DEF S
    <3>5. e \in [1 .. N -> m .. L]
      BY <3>4
    <3> HIDE DEF e, M
    <3> QED
      BY <2>1, <3>2, <3>3, <3>5 DEF IsCuts
  <2>3. Len(rest) <= M + 1
    BY <1>5, <1>17, <1>3
  <2>4. ASSUME NEW j \in 1 .. M, j <= Len(rest) PROVE rest[j] = Chunk(f, w, e[j], e[j + 1])
    <3>1. j + 1 \in 1 .. N /\ j + 1 <= Len(file) /\ j \in 1 .. Len(file) - 1 /\ j \in 1 .. N
      BY <1>3, <1>17, <2>1, <2>4
    <3>2. rest[j] = file[j + 1] /\ file[j + 1] = Chunk(f, w, c[j + 1], c[(j + 1) + 1])
      BY <1>5, <1>17, <3>1
    <3> QED
      BY <3>1, <3>2
  <2>5. ASSUME Len(rest) = M + 1 PROVE rest[M + 1] = End
    <3>1. Len(file) = N + 1 /\ N \in 1 .. Len(file) - 1
      BY <1>3, <1>7, <1>17, <2>1, <2>5
    <3> QED
      BY <1>5, <1>17, <2>1, <3>1
  <2> HIDE DEF M, e
  <2> QED
    BY <2>1, <2>2, <2>3, <2>4, <2>5 DEF InChunks
<1>19. LoadInv'
  <2>1. IsImage(before', f, w) /\ InChunks(file', f, w, chunk_start') /\ Loaded(f, w)'
    BY <1>0, <1>1, <1>2, <1>11, <1>16, <1>18 DEF rest
  <2> QED
    BY <2>1 DEF LoadInv
<1>20. TypeInv'
  <2>1. file' \in Seq(FileCell) /\ chunk_start' \in Nat \ {0}
    BY <1>0, <1>1, <1>3, <1>8, <1>11, <1>17 DEF rest
  <2> QED
    BY <1>0, <1>13, <1>15, <2>1 DEF TypeInv, Phases
<1> QED
  BY <1>0, <1>19, <1>20

LEMMA LoadEndStep ==
  ASSUME TypeInv, phase = "chunks", LoadInv, LoadEnd
  PROVE  TypeInv' /\ MarkInv' /\ phase' = "mark"
<1>0. /\ UNCHANGED <<field, word, before, revision, chunk_start, loads>>
      /\ phase' = "mark" /\ i' = 1 /\ src' = 1 /\ dest' = 1 /\ heap' = chunk_start - Slots
      /\ file # <<>> /\ Head(file) = End /\ file' = Tail(file)
  BY DEF LoadEnd, ReadCell
<1>1. PICK f, w : IsImage(before, f, w) /\ InChunks(file, f, w, chunk_start) /\ Loaded(f, w)
  BY DEF LoadInv
<1>2. /\ f \in [Slot -> Cell] /\ w \in Seq(Cell) /\ Len(w) \in Nat /\ Slots \in Nat
      /\ chunk_start \in Nat /\ chunk_start > 0 /\ file \in Seq(FileCell) /\ Len(file) \in Nat /\ Len(file) >= 1
      /\ field \in [Slot -> Cell] /\ word \in Seq(Cell) /\ Len(word) \in Nat /\ Tail(file) \in Seq(FileCell)
  BY <1>0, <1>1, SlotsNat DEF IsImage, TypeInv
<1> DEFINE L == Slots + Len(w) + 1
<1>3. PICK N \in Nat : \E c :
        /\ IsCuts(c, N, chunk_start, L) /\ Len(file) <= N + 1
        /\ \A j \in 1 .. N : j <= Len(file) => file[j] = Chunk(f, w, c[j], c[j + 1])
        /\ Len(file) = N + 1 => file[N + 1] = End
  BY <1>1 DEF InChunks
<1>4. PICK c :
        /\ IsCuts(c, N, chunk_start, L) /\ Len(file) <= N + 1
        /\ \A j \in 1 .. N : j <= Len(file) => file[j] = Chunk(f, w, c[j], c[j + 1])
        /\ Len(file) = N + 1 => file[N + 1] = End
  BY <1>3
<1>5. N = 0
  <2> SUFFICES ASSUME N # 0 PROVE FALSE
    OBVIOUS
  <2> DEFINE m == c[2]
  <2>1. /\ c[1] = chunk_start /\ m \in Nat /\ m > chunk_start /\ m <= L
    BY <1>2, <1>4 DEF IsCuts
  <2>2. file[1] = Chunk(f, w, chunk_start, m)
    <3>1. file[1] = Chunk(f, w, c[1], c[1 + 1])
      BY <1>2, <1>4
    <3> QED
      BY <2>1, <3>1
  <2> HIDE DEF m
  <2>3. Len(Part(f, w, chunk_start, m)) = m - chunk_start
    <3>1. PartFits(f, w, chunk_start, m)
      BY <1>2, <2>1 DEF PartFits
    <3> QED
      BY <3>1, PartOf
  <2>4. Head(file) = file[1]
    BY <1>2
  <2>5. Part(f, w, chunk_start, m) = <<>>
    BY <1>0, <2>2, <2>4, ChunkOf
  <2> QED
    BY <1>2, <2>1, <2>3, <2>5
<1>6. chunk_start = L
  BY <1>4, <1>5 DEF IsCuts
<1>7. /\ \A s \in Slot : field[s] = f[s]
      /\ Len(word) = Len(w) /\ \A j \in 1 .. Len(w) : word[j] = w[j]
  BY <1>1, <1>2, <1>6, SlotsNat DEF Loaded
<1>8. field = f
  BY <1>2, <1>7
<1>9. heap' = Len(w) + 1
  BY <1>0, <1>2, <1>6
<1>10. Table(before, field, word, Len(w) + 1)
  <2>1. \A j \in 1 .. (Len(w) + 1) - 1 : word[j] = w[j]
    BY <1>2, <1>7
  <2>2. Table(before, f, w, Len(w) + 1)
    BY <1>1 DEF IsImage
  <2> QED
    BY <1>8, <2>1, <2>2, TableOfUsed
<1>11. MarkInv'
  BY <1>0, <1>2, <1>7, <1>9, <1>10, SlotsNat DEF MarkInv, Table
<1> QED
  BY <1>0, <1>2, <1>9, <1>11 DEF TypeInv, Phases

LEMMA FailStep ==
  ASSUME TypeInv, LoadFails
  PROVE  TypeInv' /\ phase' = "failed"
BY DEF LoadFails, TypeInv, Phases, fileVars

LEMMA ResetStep ==
  ASSUME TypeInv, pyre_reset
  PROVE  TypeInv' /\ MarkInv' /\ phase' = "mark"
<1>0. /\ field' = [s \in Slot |-> NULL] /\ heap' = 1 /\ before' = [s \in Slot |-> NULL]
      /\ phase' = "mark" /\ i' = 1 /\ src' = 1 /\ dest' = 1
      /\ UNCHANGED <<word, revision, file, chunk_start, loads>>
  BY DEF pyre_reset, fileVars
<1> DEFINE z == [b \in {} |-> 1]
           a == [s \in Slot |-> 0]
<1>1. Layout({}, z, 1)
  BY DEF Layout
<1>2. Owner({}, a, before')
  BY <1>0 DEF Owner
<1>3. Swapped({}, z, a, before', field', word', 1)
  BY <1>0 DEF Swapped
<1>4. Marked(before', field', word', 1, 1)
  BY <1>1, <1>2, <1>3 DEF Marked
<1>5. MarkInv'
  <2>1. Len(word) \in Nat /\ word' = word
    BY <1>0 DEF TypeInv
  <2> QED
    BY <1>0, <1>4, <2>1, SlotsNat DEF MarkInv
<1>6. TypeInv'
  BY <1>0, CellTypes DEF TypeInv, Phases
<1> QED
  BY <1>0, <1>5, <1>6

-----------------------------------------------------------------------------
(***************************************************************************)
(* The first heap                                                          *)
(***************************************************************************)
LEMMA ValueWordsType ==
  ASSUME NEW v \in Nat, NEW k \in Nat, k > 0
  PROVE  ValueWords(v, k) \in Seq(Cell) /\ Len(ValueWords(v, k)) = k /\ ValueWords(v, k)[1] = Header(k)
<1> DEFINE m == k - 1
           p == [o \in 1 .. m |-> Payload(v, o)]
<1>1. m \in Nat /\ k = m + 1
  OBVIOUS
<1> HIDE DEF m
<1>2. \A o \in 1 .. m : Payload(v, o) \in Cell
  BY <1>1, CellTypes
<1>3. p \in Seq(Cell) /\ Len(p) = m
  BY <1>1, <1>2
<1> HIDE DEF p
<1>4. Header(k) \in Cell
  BY CellTypes
<1> DEFINE h == Header(k)
<1>5. <<h>> \in Seq(Cell) /\ Len(<<h>>) = 1 /\ <<h>>[1] = h
  BY <1>4
<1> HIDE DEF h
<1>6. <<h>> \o p \in Seq(Cell) /\ Len(<<h>> \o p) = 1 + m /\ (<<h>> \o p)[1] = h
  BY <1>1, <1>3, <1>5
<1>7. ValueWords(v, k) = <<h>> \o p
  BY DEF ValueWords, h, p, m
<1>8. PICK ws : ws = ValueWords(v, k)
  OBVIOUS
<1>9. ws \in Seq(Cell) /\ Len(ws) = 1 + m /\ ws[1] = h
  BY <1>6, <1>7, <1>8
<1>10. Len(ws) = k
  BY <1>1, <1>9
<1> QED
  BY <1>8, <1>9, <1>10 DEF h

EndsBefore(y, x, G) ==
  y \in Seq(Cell) /\ x \in Seq(Cell) /\ G \in Nat /\ Len(y) = G - 1 /\ Len(x) > 0

ContinuesAt(v, y, x, G) ==
  /\ v \in Seq(Cell) /\ Len(v) = (G - 1) + Len(x)
  /\ \A t \in 1 .. G - 1 : v[t] = y[t]
  /\ v[G] = x[1]

LEMMA OneAfter ==
  ASSUME NEW y, NEW x, NEW G, EndsBefore(y, x, G)
  PROVE  ContinuesAt(y \o x, y, x, G)
<1> USE DEF EndsBefore
<1>1. Len(y) \in Nat /\ Len(x) \in Nat /\ G = Len(y) + 1
  OBVIOUS
<1>2. y \o x \in Seq(Cell) /\ Len(y \o x) = Len(y) + Len(x)
  OBVIOUS
<1>3. \A t \in 1 .. Len(y) + Len(x) : (y \o x)[t] = IF t <= Len(y) THEN y[t] ELSE x[t - Len(y)]
  OBVIOUS
<1>4. G \in 1 .. Len(y) + Len(x) /\ ~ (G <= Len(y)) /\ G - Len(y) = 1
  BY <1>1
<1>5. \A t \in 1 .. G - 1 : t \in 1 .. Len(y) + Len(x) /\ t <= Len(y)
  BY <1>1
<1> QED
  BY <1>1, <1>2, <1>3, <1>4, <1>5 DEF ContinuesAt

(* The first j values end at g[j]; value v starts at g[v - 1]. *)
LaidOut(g, q, sizes, j) ==
  /\ g[j] \in Nat /\ g[j] > 0 /\ q[j] \in Seq(Cell) /\ Len(q[j]) = g[j] - 1
  /\ \A v \in 1 .. j : /\ g[v - 1] \in Nat /\ g[v - 1] > 0 /\ g[v] = g[v - 1] + sizes[v] /\ g[v] <= g[j]
                       /\ q[j][g[v - 1]] = Header(sizes[v])

LEMMA LayOut ==
  ASSUME NEW n \in Nat, NEW sizes \in [1 .. n -> Nat \ {0}], NEW g, NEW q,
         IsTotal(g, 1, sizes, n), IsWords(q, <<>>, sizes, n), NEW m \in 0 .. n
  PROVE  LaidOut(g, q, sizes, m)
<1> DEFINE S == {j \in Nat : j <= n => LaidOut(g, q, sizes, j)}
<1>1. 0 \in S
  <2>1. g[0] = 1 /\ q[0] = <<>>
    BY DEF IsTotal, IsWords
  <2>2. <<>> \in Seq(Cell) /\ Len(<<>>) = 0
    OBVIOUS
  <2>3. LaidOut(g, q, sizes, 0)
    BY <2>1, <2>2 DEF LaidOut
  <2> QED
    BY <2>3
<1>2. ASSUME NEW j \in Nat, j \in S PROVE j + 1 \in S
  <2> SUFFICES ASSUME j + 1 <= n PROVE LaidOut(g, q, sizes, j + 1)
    OBVIOUS
  <2>1. LaidOut(g, q, sizes, j) /\ j + 1 \in 1 .. n /\ (j + 1) - 1 = j /\ j + 1 \in Nat
    BY <1>2
  <2> DEFINE k == sizes[j + 1]
             x == ValueWords(j + 1, k)
             y == q[j]
             G == g[j]
             H == g[j + 1]
  <2>2. k \in Nat /\ k > 0
    BY <2>1
  <2>3. H = G + k /\ q[j + 1] = y \o x
    BY <2>1 DEF IsTotal, IsWords
  <2>4. x \in Seq(Cell) /\ Len(x) = k /\ x[1] = Header(k)
    BY <2>1, <2>2, ValueWordsType
  <2>5. y \in Seq(Cell) /\ Len(y) = G - 1 /\ G \in Nat /\ G > 0
    BY <2>1 DEF LaidOut
  <2> HIDE DEF k, x, y, G, H
  <2>6. /\ y \o x \in Seq(Cell) /\ Len(y \o x) = (G - 1) + k
        /\ \A t \in 1 .. G - 1 : (y \o x)[t] = y[t]
        /\ (y \o x)[G] = Header(k)
    <3>1. EndsBefore(y, x, G)
      BY <2>2, <2>4, <2>5 DEF EndsBefore
    <3>2. ContinuesAt(y \o x, y, x, G)
      BY <3>1, OneAfter
    <3> QED
      BY <2>4, <3>2 DEF ContinuesAt
  <2>7. ASSUME NEW v \in 1 .. j + 1
        PROVE  /\ g[v - 1] \in Nat /\ g[v - 1] > 0 /\ g[v] = g[v - 1] + sizes[v] /\ g[v] <= g[j + 1]
               /\ q[j + 1][g[v - 1]] = Header(sizes[v])
    <3>1. CASE v = j + 1
      <4>1. g[v - 1] = G /\ g[v] = H /\ sizes[v] = k /\ q[j + 1][g[v - 1]] = Header(k)
        BY <2>1, <2>3, <2>6, <3>1 DEF k, G, H
      <4> QED
        BY <2>2, <2>3, <2>5, <4>1 DEF H
    <3>2. CASE v # j + 1
      <4>1. v \in 1 .. j /\ v \in 1 .. n
        BY <2>1, <3>2
      <4>2. /\ g[v - 1] \in Nat /\ g[v - 1] > 0 /\ g[v] = g[v - 1] + sizes[v] /\ g[v] <= G
            /\ y[g[v - 1]] = Header(sizes[v])
        BY <2>1, <4>1 DEF LaidOut, y, G
      <4>3. sizes[v] \in Nat /\ sizes[v] > 0
        BY <4>1
      <4>4. g[v - 1] \in 1 .. G - 1 /\ g[v] <= H
        <5> DEFINE P == g[v - 1]
                   Q == g[v]
                   r == sizes[v]
        <5>1. P \in Nat /\ P > 0 /\ Q = P + r /\ Q <= G /\ r \in Nat /\ r > 0
          BY <4>2, <4>3
        <5> HIDE DEF P, Q, r
        <5>2. P \in 1 .. G - 1 /\ Q <= H
          BY <2>2, <2>3, <2>5, <5>1
        <5> QED
          BY <5>2 DEF P, Q
      <4> QED
        BY <2>3, <2>6, <4>2, <4>4 DEF H
    <3> QED
      BY <3>1, <3>2
  <2>8. H \in Nat /\ H > 0 /\ q[j + 1] \in Seq(Cell) /\ Len(q[j + 1]) = H - 1
    BY <2>2, <2>3, <2>5, <2>6
  <2> QED
    BY <2>7, <2>8 DEF LaidOut, H
<1> HIDE DEF S
<1>3. Nat \subseteq S
  BY <1>1, <1>2, Induction
<1>4. m \in Nat /\ m <= n
  OBVIOUS
<1> QED
  BY <1>3, <1>4 DEF S

(* Where a value starts, as the sum says *)
LEMMA StartIs ==
  ASSUME NEW n \in Nat, NEW sizes \in [1 .. n -> Nat \ {0}], NEW g, IsTotal(g, 1, sizes, n), NEW v \in 1 .. n
  PROVE  StartOf(sizes, v) = g[v - 1]
<1> DEFINE m == v - 1
           x == SubSeq(sizes, 1, m)
<1>1. m \in Nat /\ m <= n
  OBVIOUS
<1> HIDE DEF m
<1>2. sizes \in Seq(Nat) /\ Len(sizes) = n
  OBVIOUS
<1>3. x \in Seq(Nat) /\ Len(x) = m /\ \A t \in 1 .. m : x[t] = sizes[t]
  BY <1>1, <1>2
<1> HIDE DEF x
<1>4. PICK h : IsTotal(h, 1, x, Len(x)) /\ Total(1, x) = h[Len(x)]
  BY <1>3, TotalIs
<1>5. IsTotal(h, 1, x, m) /\ Total(1, x) = h[m]
  BY <1>3, <1>4
<1>6. IsTotal(g, 1, sizes, m)
  BY <1>1 DEF IsTotal
<1>7. h[m] = g[m]
  BY <1>1, <1>3, <1>5, <1>6, TotalUnique
<1> QED
  BY <1>5, <1>7 DEF StartOf, m, x

LEMMA FirstTable ==
  ASSUME NullIsNew, SavedInit
  PROVE  TypeInv /\ MarkInv
<1>a. PICK n \in 0 .. MaxValues : \E sizes \in [1 .. n -> 1 .. MaxSize], own \in Owners(n) :
        /\ field = [s \in Slot |-> IF own[s] = 0 THEN NULL ELSE Address(StartOf(sizes, own[s]))]
        /\ word = Contents(sizes)
        /\ heap = Len(word) + 1
        /\ before = [s \in Slot |-> IF own[s] = 0 THEN NULL
                                    ELSE PayloadAt(word, StartOf(sizes, own[s]))]
        /\ phase = "mark" /\ i = 1 /\ src = 1 /\ dest = 1
  BY DEF SavedInit, Init
<1>1. PICK sizes \in [1 .. n -> 1 .. MaxSize], own \in Owners(n) :
        /\ field = [s \in Slot |-> IF own[s] = 0 THEN NULL ELSE Address(StartOf(sizes, own[s]))]
        /\ word = Contents(sizes)
        /\ heap = Len(word) + 1
        /\ before = [s \in Slot |-> IF own[s] = 0 THEN NULL
                                    ELSE PayloadAt(word, StartOf(sizes, own[s]))]
        /\ phase = "mark" /\ i = 1 /\ src = 1 /\ dest = 1
  BY <1>a
<1>2. /\ revision \in Revision /\ file = <<>> /\ chunk_start = 1
  BY DEF SavedInit
<1>3. n \in Nat /\ sizes \in [1 .. n -> Nat \ {0}] /\ sizes \in Seq(Nat) /\ Len(sizes) = n
  BY BoundAssumption
<1>4. PICK g : IsTotal(g, 1, sizes, n)
  BY <1>3, TotalIs
<1>5. PICK q : IsWords(q, <<>>, sizes, n) /\ word = q[n]
  BY <1>1, <1>3, ContentsIs
<1>6. \A m \in 0 .. n : LaidOut(g, q, sizes, m)
  BY <1>3, <1>4, <1>5, LayOut
<1>7. /\ heap = g[n] /\ heap \in Nat /\ heap > 0 /\ word \in Seq(Cell) /\ Len(word) \in Nat /\ heap = Len(word) + 1
  <2>1. LaidOut(g, q, sizes, n)
    BY <1>3, <1>6
  <2> QED
    BY <1>1, <1>5, <2>1 DEF LaidOut
<1> DEFINE st(v) == g[v - 1]
           V == 1 .. n
           B == {st(v) : v \in V}
           z == [b \in B |-> sizes[CHOOSE v \in V : st(v) = b]]
           a == [s \in Slot |-> IF own[s] = 0 THEN 0 ELSE st(own[s])]
<1>8. \A v \in V : /\ st(v) \in Nat /\ st(v) > 0 /\ sizes[v] \in Nat /\ sizes[v] > 0
                   /\ g[v] = st(v) + sizes[v] /\ g[v] <= heap /\ word[st(v)] = Header(sizes[v])
                   /\ StartOf(sizes, v) = st(v)
  <2> SUFFICES ASSUME NEW v \in V
               PROVE  /\ st(v) \in Nat /\ st(v) > 0 /\ sizes[v] \in Nat /\ sizes[v] > 0
                      /\ g[v] = st(v) + sizes[v] /\ g[v] <= heap /\ word[st(v)] = Header(sizes[v])
                      /\ StartOf(sizes, v) = st(v)
    OBVIOUS
  <2>1. LaidOut(g, q, sizes, n) /\ sizes[v] \in Nat /\ sizes[v] > 0
    BY <1>3, <1>6
  <2>2. StartOf(sizes, v) = st(v)
    BY <1>3, <1>4, StartIs
  <2> QED
    BY <1>5, <1>7, <2>1, <2>2 DEF LaidOut
<1>9. ASSUME NEW u \in V, NEW v \in V, u < v PROVE g[u] <= st(v)
  <2>1. LaidOut(g, q, sizes, v - 1) /\ u \in 1 .. v - 1
    BY <1>3, <1>6, <1>9
  <2> QED
    BY <2>1 DEF LaidOut
<1> HIDE DEF st
<1>10. ASSUME NEW u \in V, NEW v \in V PROVE (st(u) < st(v) => g[u] <= st(v)) /\ (st(u) = st(v) => u = v)
  <2>1. CASE u < v
    <3>1. g[u] <= st(v) /\ g[u] = st(u) + sizes[u] /\ st(u) \in Nat /\ st(v) \in Nat /\ sizes[u] \in Nat /\ sizes[u] > 0
      BY <1>8, <1>9, <2>1
    <3>2. st(u) < st(v)
      BY <3>1
    <3> QED
      BY <3>1, <3>2
  <2>2. CASE v < u
    <3>1. g[v] <= st(u) /\ g[v] = st(v) + sizes[v] /\ st(u) \in Nat /\ st(v) \in Nat /\ sizes[v] \in Nat /\ sizes[v] > 0
      BY <1>8, <1>9, <2>2
    <3>2. st(v) < st(u)
      BY <3>1
    <3> QED
      BY <3>1, <3>2
  <2>3. CASE u = v
    BY <1>8, <2>3
  <2>4. u < v \/ v < u \/ u = v
    BY <1>3
  <2> QED
    BY <2>1, <2>2, <2>3, <2>4
<1>11. \A v \in V : st(v) \in B /\ z[st(v)] = sizes[v]
  <2> SUFFICES ASSUME NEW v \in V PROVE st(v) \in B /\ z[st(v)] = sizes[v]
    OBVIOUS
  <2> DEFINE c == CHOOSE u \in V : st(u) = st(v)
  <2>1. c \in V /\ st(c) = st(v)
    OBVIOUS
  <2>2. c = v
    BY <1>10, <2>1
  <2>3. st(v) \in B
    OBVIOUS
  <2>4. z[st(v)] = sizes[c]
    BY <2>3
  <2> QED
    BY <2>2, <2>3, <2>4
<1>12. \A b \in B : \E v \in V : b = st(v)
  OBVIOUS
<1>13. z \in [B -> Nat \ {0}]
  <2>1. z = [b \in B |-> z[b]]
    OBVIOUS
  <2> HIDE DEF z, B
  <2>2. ASSUME NEW b \in B PROVE z[b] \in Nat \ {0}
    <3>1. PICK v \in V : b = st(v)
      BY <1>12
    <3>2. z[b] = sizes[v]
      BY <1>11, <3>1
    <3>3. sizes[v] \in Nat /\ sizes[v] > 0
      BY <1>8
    <3> QED
      BY <3>2, <3>3
  <2> QED
    BY <2>1, <2>2
<1>14. a \in [Slot -> B \cup {0}] /\ \A s \in Slot : (own[s] = 0 \/ own[s] \in V) /\ a[s] = IF own[s] = 0 THEN 0 ELSE st(own[s])
  <2>1. \A s \in Slot : own[s] \in 0 .. n
    BY DEF Owners
  <2>2. \A s \in Slot : own[s] = 0 \/ own[s] \in V
    BY <1>3, <2>1
  <2> QED
    BY <1>11, <2>2
<1> HIDE DEF B, z, a, V
<1>15. Layout(B, z, heap)
  <2>1. B \subseteq 1 .. heap - 1
    <3> SUFFICES ASSUME NEW b \in B PROVE b \in 1 .. heap - 1
      OBVIOUS
    <3>1. PICK v \in V : b = st(v)
      BY <1>12
    <3> QED
      BY <1>7, <1>8, <3>1
  <2>2. heap = 1 \/ 1 \in B
    <3>1. g[0] = 1
      BY <1>4 DEF IsTotal
    <3>2. CASE n = 0
      BY <1>7, <3>1, <3>2
    <3>3. CASE n # 0
      <4>1. 1 \in V /\ st(1) = g[0]
        BY <1>3, <3>3 DEF V, st
      <4> QED
        BY <1>11, <3>1, <4>1
    <3> QED
      BY <3>2, <3>3
  <2>3. ASSUME NEW b \in B PROVE b + z[b] = heap \/ b + z[b] \in B
    <3>1. PICK v \in V : b = st(v)
      BY <1>12
    <3>2. b + z[b] = g[v]
      BY <1>8, <1>11, <3>1
    <3>3. CASE v = n
      BY <1>7, <3>2, <3>3
    <3>4. CASE v # n
      <4>1. v + 1 \in V /\ st(v + 1) = g[v]
        BY <1>3, <3>4 DEF V, st
      <4> QED
        BY <1>11, <3>2, <4>1
    <3> QED
      BY <3>3, <3>4
  <2>4. ASSUME NEW b \in B, NEW c \in B, b < c PROVE b + z[b] <= c
    <3>1. PICK u \in V : b = st(u)
      BY <1>12
    <3>2. PICK v \in V : c = st(v)
      BY <1>12
    <3>3. b + z[b] = g[u]
      BY <1>8, <1>11, <3>1
    <3> QED
      BY <1>10, <2>4, <3>1, <3>2, <3>3
  <2> QED
    BY <1>7, <1>13, <2>1, <2>2, <2>3, <2>4 DEF Layout
<1>16. \A s \in Slot : field[s] = IF own[s] = 0 THEN NULL ELSE Address(a[s])
  BY <1>1, <1>8, <1>14
<1>17. \A s \in Slot : /\ own[s] = 0 => before[s] = NULL
                       /\ own[s] # 0 => /\ before[s] = Words(word, a[s], z[a[s]]) /\ before[s] \in Seq(Cell)
                                        /\ a[s] \in B /\ a[s] \in Nat /\ a[s] > 0
  <2> SUFFICES ASSUME NEW s \in Slot, own[s] # 0
               PROVE  /\ before[s] = Words(word, a[s], z[a[s]]) /\ before[s] \in Seq(Cell)
                      /\ a[s] \in B /\ a[s] \in Nat /\ a[s] > 0
    BY <1>1
  <2> DEFINE v == own[s]
  <2>1. v \in V /\ a[s] = st(v) /\ StartOf(sizes, v) = st(v) /\ z[st(v)] = sizes[v]
    BY <1>8, <1>11, <1>14
  <2>2. before[s] = PayloadAt(word, st(v))
    BY <1>1, <2>1
  <2>3. word[st(v)].size = sizes[v]
    BY <1>8, <2>1, Kinds
  <2>4. before[s] = Words(word, st(v), sizes[v])
    BY <2>2, <2>3 DEF PayloadAt, Words
  <2>5. a[s] \in B /\ a[s] \in Nat /\ a[s] > 0 /\ z[a[s]] \in Nat \ {0}
    BY <1>8, <1>11, <2>1
  <2>6. \A o \in 1 .. z[a[s]] - 1 : word[a[s] + o] \in Cell
    <3>0. heap <= Len(word) + 1 /\ Len(word) \in Nat
      BY <1>7
    <3>1. \A o \in 1 .. z[a[s]] - 1 : a[s] + o \in 1 .. Len(word)
      BY <1>15, <2>5, <3>0, BlockInHeap
    <3> QED
      BY <1>7, <3>1
  <2>7. Words(word, a[s], z[a[s]]) \in Seq(Cell)
    BY <2>5, <2>6, WordsType
  <2> QED
    BY <2>1, <2>4, <2>5, <2>7
<1>18. Owner(B, a, before)
  <2>1. ASSUME NEW s \in Slot, NEW t \in Slot, a[s] = a[t], a[s] # 0 PROVE s = t
    <3>1. own[s] # 0 /\ own[t] # 0 /\ own[s] \in V /\ own[t] \in V /\ st(own[s]) = st(own[t])
      BY <1>14, <2>1
    <3>2. own[s] = own[t]
      BY <1>10, <3>1
    <3> QED
      BY <3>1, <3>2 DEF Owners
  <2>2. ASSUME NEW s \in Slot PROVE a[s] = 0 <=> before[s] = NULL
    <3>1. CASE own[s] = 0
      BY <1>14, <1>17, <3>1
    <3>2. CASE own[s] # 0
      BY <1>17, <3>2 DEF NullIsNew
    <3> QED
      BY <3>1, <3>2
  <2> QED
    BY <1>14, <2>1, <2>2 DEF Owner
<1>19. Swapped(B, z, a, before, field, word, 1)
  <2>1. \A s \in Slot : (a[s] = 0 <=> own[s] = 0) /\ ~ (s < 1)
    BY <1>14, <1>17, SlotsNat
  <2>2. ASSUME NEW b \in B PROVE word[b] = Header(z[b])
    BY <1>8, <1>11, <1>12
  <2> QED
    BY <1>16, <1>17, <2>1, <2>2 DEF Swapped
<1>20. MarkInv
  <2>1. Marked(before, field, word, heap, 1)
    BY <1>15, <1>18, <1>19 DEF Marked
  <2> QED
    BY <1>1, <1>7, <2>1, SlotsNat DEF MarkInv
<1>21. TypeInv
  <2>1. field \in [Slot -> Cell]
    <3>1. \A s \in Slot : field[s] \in Cell
      BY <1>16, <1>17, CellTypes
    <3> QED
      BY <1>1, <3>1
  <2>2. before \in [Slot -> Seq(Cell) \cup {NULL}]
    <3>1. \A s \in Slot : before[s] \in Seq(Cell) \cup {NULL}
      BY <1>17
    <3>2. before = [s \in Slot |-> before[s]]
      BY <1>1
    <3> QED
      BY <3>1, <3>2
  <2> QED
    BY <1>1, <1>2, <1>7, <2>1, <2>2 DEF TypeInv, Phases
<1> QED
  BY <1>20, <1>21

-----------------------------------------------------------------------------
(***************************************************************************)
(* The theorems                                                            *)
(***************************************************************************)
LEMMA InvInit ==
  ASSUME NullIsNew, SavedInit
  PROVE  Inv
<1>1. phase = "mark"
  BY DEF SavedInit, Init
<1> QED
  BY <1>1, FirstTable DEF Inv

LEMMA InvNext ==
  ASSUME NullIsNew, Inv, [SavedNext]_allVars
  PROVE  Inv'
<1>0. TypeInv
  BY DEF Inv
<1>1. ASSUME Mark, UNCHANGED fileVars PROVE Inv'
  <2>1. phase = "mark" /\ phase' = "mark" /\ MarkInv
    BY <1>1 DEF Mark, Inv
  <2>2. TypeInv' /\ MarkInv'
    BY <1>0, <1>1, <2>1, MarkStep
  <2> QED
    BY <2>1, <2>2 DEF Inv
<1>2. ASSUME MarkDone, UNCHANGED fileVars PROVE Inv'
  <2>1. phase = "mark" /\ MarkInv
    BY <1>2 DEF MarkDone, Inv
  <2>2. TypeInv' /\ MoveInv' /\ phase' = "move"
    BY <1>0, <1>2, <2>1, MarkDoneStep
  <2> QED
    BY <2>2 DEF Inv
<1>3. ASSUME Skip, UNCHANGED fileVars PROVE Inv'
  <2>1. phase = "move" /\ phase' = "move" /\ MoveInv
    BY <1>3 DEF Skip, Inv
  <2>2. TypeInv' /\ MoveInv'
    BY <1>0, <1>3, <2>1, SkipStep
  <2> QED
    BY <2>1, <2>2 DEF Inv
<1>4. ASSUME Move, UNCHANGED fileVars PROVE Inv'
  <2>1. phase = "move" /\ phase' = "move" /\ MoveInv
    BY <1>4 DEF Move, Inv
  <2>2. TypeInv' /\ MoveInv'
    BY <1>0, <1>4, <2>1, MoveStep
  <2> QED
    BY <2>1, <2>2 DEF Inv
<1>5. ASSUME MoveDone, UNCHANGED fileVars PROVE Inv'
  <2>1. phase = "move" /\ MoveInv
    BY <1>5 DEF MoveDone, Inv
  <2>2. TypeInv' /\ UseInv' /\ phase' = "done" /\ heap' = Total(1, [s \in Slot |-> SizeKept(s)'])
    BY <1>0, <1>5, <2>1, MoveDoneStep
  <2> QED
    BY <2>2 DEF Inv
<1>6. ASSUME UNCHANGED allVars PROVE Inv'
  <2>1. UNCHANGED <<field, word, heap, phase, i, src, dest, before, revision, file, chunk_start, loads>>
    BY <1>6 DEF allVars, vars, fileVars
  <2>2. TypeInv'
    BY <1>0, <2>1 DEF TypeInv
  <2>3. (MarkInv => MarkInv') /\ (UseInv => UseInv') /\ (MoveInv => MoveInv')
    BY <2>1 DEF MarkInv, UseInv, MoveInv, Moving
  <2>4. (SaveInv => SaveInv') /\ (FileInv => FileInv') /\ (LoadInv => LoadInv')
    BY <2>1 DEF SaveInv, Saving, Used, FileInv, LoadInv, Loaded
  <2>5. [s \in Slot |-> SizeKept(s)]' = [s \in Slot |-> SizeKept(s)]
    BY <2>1 DEF SizeKept
  <2> QED
    BY <2>1, <2>2, <2>3, <2>4, <2>5 DEF Inv
<1>7. ASSUME Done, UNCHANGED fileVars PROVE Inv'
  <2>1. UNCHANGED allVars
    BY <1>7 DEF Done, allVars
  <2> QED
    BY <1>6, <2>1
<1>8. ASSUME fwrite_header PROVE Inv'
  <2>1. UseInv
    BY <1>0, <1>8, QuietUse DEF fwrite_header, Inv
  <2>2. TypeInv' /\ UseInv' /\ SaveInv' /\ phase' = "save"
    BY <1>0, <1>8, <2>1, HeaderStep
  <2> QED
    BY <2>2 DEF Inv
<1>9. ASSUME SaveChunk PROVE Inv'
  <2>1. phase = "save" /\ UseInv /\ SaveInv
    BY <1>9 DEF SaveChunk, Inv
  <2>2. TypeInv' /\ UseInv' /\ SaveInv' /\ phase' = "save"
    BY <1>0, <1>9, <2>1, ChunkStep
  <2> QED
    BY <2>2 DEF Inv
<1>10. ASSUME SaveEnd PROVE Inv'
  <2>1. phase = "save" /\ UseInv /\ SaveInv
    BY <1>10 DEF SaveEnd, Inv
  <2>2. TypeInv' /\ FileInv' /\ phase' = "saved"
    BY <1>0, <1>10, <2>1, SaveEndStep
  <2> QED
    BY <2>2 DEF Inv
<1>11. ASSUME hh_shared_init PROVE Inv'
  <2>1. phase = "saved" /\ FileInv
    BY <1>11 DEF hh_shared_init, Inv
  <2>2. TypeInv' /\ FileInv' /\ phase' = "load" /\ chunk_start' = 1 /\ word' = <<>>
    BY <1>0, <1>11, <2>1, InitStep
  <2> QED
    BY <2>2 DEF Inv
<1>12. ASSUME fread_header PROVE Inv'
  <2>1. phase = "load" /\ FileInv /\ chunk_start = 1 /\ word = <<>>
    BY <1>12 DEF fread_header, Inv
  <2>2. TypeInv' /\ LoadInv' /\ phase' = "chunks"
    BY <1>0, <1>12, <2>1, ReadHeaderStep
  <2> QED
    BY <2>2 DEF Inv
<1>13. ASSUME LoadChunk PROVE Inv'
  <2>1. phase = "chunks" /\ LoadInv
    BY <1>13 DEF LoadChunk, Inv
  <2>2. TypeInv' /\ LoadInv' /\ phase' = "chunks"
    BY <1>0, <1>13, <2>1, LoadChunkStep
  <2> QED
    BY <2>2 DEF Inv
<1>14. ASSUME LoadEnd PROVE Inv'
  <2>1. phase = "chunks" /\ LoadInv
    BY <1>14 DEF LoadEnd, Inv
  <2>2. TypeInv' /\ MarkInv' /\ phase' = "mark"
    BY <1>0, <1>14, <2>1, LoadEndStep
  <2> QED
    BY <2>2 DEF Inv
<1>15. ASSUME LoadFails PROVE Inv'
  <2>1. TypeInv' /\ phase' = "failed"
    BY <1>0, <1>15, FailStep
  <2> QED
    BY <2>1 DEF Inv
<1>16. ASSUME pyre_reset PROVE Inv'
  <2>1. TypeInv' /\ MarkInv' /\ phase' = "mark"
    BY <1>0, <1>16, ResetStep
  <2> QED
    BY <2>1 DEF Inv
<1> QED
  BY <1>1, <1>2, <1>3, <1>4, <1>5, <1>6, <1>7, <1>8, <1>9, <1>10, <1>11, <1>12, <1>13, <1>14, <1>15, <1>16
  DEF SavedNext, Collect, SaveStep, LoadStep, Next

LEMMA InvKeeps ==
  ASSUME Inv, NullIsNew
  PROVE  ValuesKept
<1> SUFFICES ASSUME Quiet, NEW s \in Slot
             PROVE  IF before[s] = NULL THEN field[s] = NULL
                    ELSE /\ field[s] # NULL /\ field[s].kind = "addr" /\ field[s].at < heap
                         /\ word[field[s].at].kind = "header"
                         /\ field[s].at + word[field[s].at].size <= heap
                         /\ PayloadAt(word, field[s].at) = before[s]
  BY DEF ValuesKept
<1>1. UseInv
  BY QuietUse DEF Inv
<1>2. PICK B, z, a : Layout(B, z, heap) /\ Owner(B, a, before) /\ Swapped(B, z, a, before, field, word, 1)
  BY <1>1 DEF UseInv, Table, Marked
<1>3. CASE a[s] = 0
  BY <1>2, <1>3 DEF Owner, Swapped
<1>4. CASE a[s] # 0
  <2>1. a[s] \in B /\ before[s] # NULL
    BY <1>2, <1>4 DEF Owner
  <2>2. /\ before[s] = Words(word, a[s], z[a[s]]) /\ field[s] = Address(a[s])
        /\ word[a[s]] = Header(z[a[s]])
    BY <1>2, <1>4, <2>1, SlotsNat DEF Swapped
  <2>3. a[s] \in Nat /\ z[a[s]] \in Nat /\ z[a[s]] > 0 /\ a[s] + z[a[s]] <= heap /\ heap \in Nat
    BY <1>2, <2>1, Blocks
  <2>4. field[s] # NULL
    BY <2>2, <2>3 DEF NullIsNew
  <2>5. field[s].kind = "addr" /\ field[s].at = a[s] /\ word[a[s]].kind = "header" /\ word[a[s]].size = z[a[s]]
    BY <2>2, Kinds
  <2>6. a[s] < heap
    BY <2>3
  <2>7. PayloadAt(word, a[s]) = before[s]
    BY <2>2, <2>5 DEF PayloadAt, Words
  <2> QED
    BY <2>1, <2>3, <2>4, <2>5, <2>6, <2>7
<1> QED
  BY <1>3, <1>4

LEMMA InvClean ==
  ASSUME Inv
  PROVE  NoGarbageLeft
<1>1. ASSUME phase = "move" PROVE src <= heap
  <2>1. MoveInv /\ heap \in Nat
    BY <1>1 DEF Inv, TypeInv
  <2>2. PICK B, z, a, E, y, d, g : MovingWith(B, z, a, E, y, d, g, before, field, word, heap, src, dest)
    BY <2>1 DEF MoveInv, Moving
  <2>3. B \subseteq 1 .. heap - 1 /\ src \in B \cup {heap}
    BY <2>2 DEF MovingWith, Layout
  <2> QED
    BY <2>1, <2>3
<1> QED
  BY <1>1 DEF NoGarbageLeft, Inv

LEMMA InvAlways ==
  ASSUME NullIsNew
  PROVE  SavedSpec => []Inv
<1>1. SavedInit => Inv
  BY InvInit
<1>2. Inv /\ [SavedNext]_allVars => Inv'
  BY InvNext
<1> QED
  BY <1>1, <1>2, PTL DEF SavedSpec

(***************************************************************************)
(* For any table, any heap and any number of sessions: whenever the table  *)
(* is in use (before hh_collect, after it, and after hh_load_table has     *)
(* read a file back, or failed on a damaged one and the table was reset)   *)
(* every slot finds the payload it had, at an address of its own.          *)
(***************************************************************************)
THEOREM CollectionKeepsValues ==
  ASSUME NullIsNew
  PROVE  SavedSpec => []ValuesKept
<1>1. SavedSpec => []Inv
  BY InvAlways
<1>2. Inv => ValuesKept
  BY InvKeeps
<1> QED
  BY <1>1, <1>2, PTL

(***************************************************************************)
(* The second loop of hh_collect never runs past the heap, and when it     *)
(* ends the heap holds the live values and not a word more.                *)
(***************************************************************************)
THEOREM CollectionLeavesNoGarbage ==
  ASSUME NullIsNew
  PROVE  SavedSpec => []NoGarbageLeft
<1>1. SavedSpec => []Inv
  BY InvAlways
<1>2. Inv => NoGarbageLeft
  BY InvClean
<1> QED
  BY <1>1, <1>2, PTL

===============================================================================

------------------------ MODULE EnvironmentStackProofs ------------------------
(***************************************************************************)
(* Proofs about EnvironmentStack and SavedState: for any number of layers, *)
(* modules, workers, changes and sessions, for every hash of dependencies, *)
(* and for every produce_value that computes a value from what it reads    *)
(* below, and for those of Environments.                                   *)
(***************************************************************************)
EXTENDS Environments, WellFoundedInduction, FiniteSetTheorems, TLAPS

-----------------------------------------------------------------------------
(* What the proofs assume of produce_value.  V[k] is the set of values of  *)
(* the key k.                                                              *)

TablesOf(V) ==
  {t \in [Key -> (UNION {V[k] : k \in Key}) \cup {NULL}] : \A k \in Key : t[k] \in V[k] \cup {NULL}}

Full(k, t) == \A r \in Reads(k, t) : t[r] # NULL
Agree(k, t, u) == \A r \in Reads(k, t) : t[r] = u[r]

(* It reads lower layers only, and what it reads and computes depends on   *)
(* nothing but what it reads.                                              *)
Local(k, T) ==
  \A t \in T :
    /\ Reads(k, t) \subseteq {r \in Key : r[1] < k[1]}
    /\ \A u \in T : Agree(k, t, u) => Reads(k, u) = Reads(k, t) /\ (Full(k, t) => Produce(k, u) = Produce(k, t))

WellBehavedWith(V) ==
  /\ \A m \in Modules : Contents(m) \cup {None} \subseteq V[Source(m)]
  /\ \A k \in Key : NULL \notin V[k]
  /\ \A k \in Key : k[1] > 0 =>
       /\ Local(k, TablesOf(V))
       /\ \A t \in TablesOf(V) : Full(k, t) => Produce(k, t) \in V[k]
  (* collect_definitions reads a layer that is computed from sources, and  *)
  (* that process_module_updates triggers for every invalidated module.    *)
  /\ Listed \in Manual /\ Manual \subseteq 1 .. Layers
  /\ \A m \in Modules, t \in TablesOf(V) : \A r \in Reads(<<Listed, m>>, t) : r[1] = 0

Values == CHOOSE V : WellBehavedWith(V)
WellBehaved == WellBehavedWith(Values)
Tables == TablesOf(Values)

-----------------------------------------------------------------------------
(* The inductive invariant *)

Frame == [key : Key, parsed : UNION {Values[Source(m)] : m \in Modules}]

TypeInv ==
  /\ disk \in [Modules -> UNION {Contents(m) : m \in Modules}] /\ \A m \in Modules : disk[m] \in Contents(m)
  /\ pending \subseteq Modules /\ tracked \subseteq Modules /\ invalidated \subseteq Modules
  /\ table \in Tables /\ old \in Tables
  /\ registry \subseteq Key /\ scope \subseteq Key /\ triggered \subseteq Key /\ todo \subseteq Key
  /\ layer \in Nat
  /\ work \in [Processes -> [busy : BOOLEAN, stack : Seq(Frame), keys : SUBSET Key]]

(* Nothing runs between the phases. *)
Resting == {"idle", "start", "stopped", "down"}

RestInv ==
  /\ phase \in Resting => todo = {} /\ AllIdle
  /\ \A w \in Processes : ~ work[w].busy => work[w] = Idle

(* A source is that of the file, or the server will hear of a change. *)
SourceOK(m, v) ==
  v \in Values[Source(m)] /\ (m \in pending \/ v = disk[m]) /\ (m \notin tracked => v = None)

TrackInv == \A m \in Modules : m \in pending \/ (m \in tracked <=> disk[m] # None)

SourceInv == \A m \in Modules : table[Source(m)] # NULL => SourceOK(m, table[Source(m)])

(* The value v of k is what is computed from the table t, and the edges E   *)
(* say so.                                                                  *)
Justified(k, v, t, E) ==
  Full(k, t) /\ v = Produce(k, t) /\ \A r \in Reads(k, t) : <<r, Hash(k)>> \in E

AllEdges == edges \cup loaded_edges
Current(k) == Justified(k, table[k], table, AllEdges)

(* The value was current before the transaction. *)
Merged == [k \in Key |-> IF k \in scope THEN old[k] ELSE table[k]]
WasCurrent(k) == phase = "update" /\ Justified(k, table[k], Merged, AllEdges)

(* The update will come to k. *)
Due(k) ==
  /\ k \in triggered
  /\ \/ phase = "start" /\ layer <= k[1]
     \/ phase = "update" /\ layer > 0 /\ layer < k[1]

(* A lost dependency on another module, that nobody has registered since *)
Unseen(k, R, L, E) ==
  k \in L \ R /\ \E m \in Modules : m # k[2] /\ <<Source(m), Hash(k)>> \in E

Registering(k) == \E w \in Processes : k \in work[w].keys
Known(k) == k \in registry \cup lost \/ Registering(k)
Overlooked(k) == Unseen(k, registry, lost, AllEdges) /\ ~ Registering(k)
Accounted(k) == Known(k) /\ (Current(k) \/ WasCurrent(k) \/ Due(k) \/ Overlooked(k))

ValueInv == \A k \in Key : k[1] > 0 /\ table[k] # NULL => Accounted(k)

(* A source that was read is to be added; a value that is being computed *)
(* is not in the table, or is current.                                     *)
FrameOK(f) ==
  IF f.key[1] = 0 THEN SourceOK(f.key[2], f.parsed) ELSE table[f.key] = NULL \/ Current(f.key)

Calls(w) == {work[w].stack[n] : n \in 1 .. Len(work[w].stack)}
CallInv == \A w \in Processes : \A f \in Calls(w) : FrameOK(f)

(* The transaction of a layer; that of the sources is of invalidated modules. *)
ScopeInv ==
  phase = "update" =>
    \A k \in scope : k[1] = layer /\ (layer = 0 => k[2] \in invalidated)

(* Only what collect_definitions asks for is lost. *)
ListedKeys == {Listed} \X Modules

LostInv ==
  /\ lost \subseteq ListedKeys
  /\ phase = "collect" =>
       /\ todo \subseteq ListedKeys
       /\ \A w \in Processes :
            /\ work[w].keys \subseteq ListedKeys
            /\ \A f \in Calls(w) : f.key[1] \in {0, Listed}

(* What a server saves is as good as what it has when it is up to date. *)
SavedOK(s) ==
  /\ s.disk \in [Modules -> UNION {Contents(m) : m \in Modules}]
  /\ s.tracked = {m \in Modules : s.disk[m] # None}
  /\ s.table \in Tables /\ s.registry \subseteq Key /\ s.lost \subseteq ListedKeys
  /\ \A m \in Modules : s.table[Source(m)] \in {NULL, s.disk[m]}
  /\ \A k \in Key : k[1] > 0 /\ s.table[k] # NULL =>
       /\ k \in s.registry \cup s.lost
       /\ Justified(k, s.table[k], s.table, s.edges) \/ Unseen(k, s.registry, s.lost, s.edges)

SavedInv == phase = "stopped" => SavedOK(saved)

Inv == TypeInv /\ RestInv /\ TrackInv /\ SourceInv /\ ValueInv /\ CallInv /\ ScopeInv /\ LostInv /\ SavedInv

-----------------------------------------------------------------------------
(***************************************************************************)
(* Keys, tables and stacks                                                 *)
(***************************************************************************)
LEMMA KeyIs ==
  /\ \A k \in Key : k[1] \in Nat /\ k[1] <= Layers /\ k[2] \in Modules /\ k = <<k[1], k[2]>>
  /\ \A m \in Modules : Source(m) \in Key /\ Source(m)[1] = 0 /\ Source(m)[2] = m
  /\ \A k \in Key : k[1] = 0 => k = Source(k[2])
  /\ \A l \in 1 .. Layers, m \in Modules : <<l, m>> \in Key
  /\ Layers \in Nat
BY LayerAssumption DEF Key, Source

LEMMA ListedIs ==
  /\ ListedKeys \subseteq Key
  /\ \A k \in ListedKeys : k[1] = Listed /\ k[1] > 0 /\ k[2] \in Modules /\ k = <<Listed, k[2]>>
  /\ \A k \in Key : k[1] = Listed => k \in ListedKeys
  /\ {<<Listed, m>> : m \in tracked \cap Project} \subseteq ListedKeys
<1>1. Listed \in 1 .. Layers /\ Layers \in Nat
  BY LayerAssumption
<1>2. \A k \in ListedKeys : k[1] = Listed /\ k[2] \in Modules /\ k = <<Listed, k[2]>>
  BY DEF ListedKeys
<1>3. ListedKeys \subseteq Key
  BY <1>1 DEF ListedKeys, Key
<1>4. \A k \in Key : k[1] = Listed => k \in ListedKeys
  BY DEF ListedKeys, Key
<1>5. \A m \in tracked \cap Project : <<Listed, m>> \in ListedKeys
  BY LayerAssumption DEF ListedKeys
<1>6. {<<Listed, m>> : m \in tracked \cap Project} \subseteq ListedKeys
  BY <1>5
<1> QED
  BY <1>1, <1>2, <1>3, <1>4, <1>6

LEMMA TableGet ==
  ASSUME NEW t \in Tables
  PROVE  /\ t = [k \in Key |-> t[k]]
         /\ \A k \in Key : t[k] \in Values[k] \cup {NULL}
BY DEF Tables, TablesOf

LEMMA TableIs ==
  ASSUME NEW t, t = [k \in Key |-> t[k]], \A k \in Key : t[k] \in Values[k] \cup {NULL}
  PROVE  t \in Tables
BY DEF Tables, TablesOf

LEMMA NoTableIs == NoTable \in Tables /\ \A k \in Key : NoTable[k] = NULL
<1>1. \A k \in Key : NoTable[k] = NULL
  BY DEF NoTable
<1>2. NoTable = [k \in Key |-> NoTable[k]]
  BY DEF NoTable
<1> QED
  BY <1>1, <1>2, TableIs

(* A table that takes its values from one or the other. *)
LEMMA TableMix ==
  ASSUME NEW t \in Tables, NEW u \in Tables, NEW S
  PROVE  [k \in Key |-> IF k \in S THEN t[k] ELSE u[k]] \in Tables
<1> DEFINE m == [k \in Key |-> IF k \in S THEN t[k] ELSE u[k]]
<1>1. \A k \in Key : m[k] = IF k \in S THEN t[k] ELSE u[k]
  OBVIOUS
<1>2. m = [k \in Key |-> m[k]]
  OBVIOUS
<1> HIDE DEF m
<1>3. m \in Tables
  BY <1>1, <1>2, TableGet, TableIs
<1> QED
  BY <1>3 DEF m

LEMMA TableDrop ==
  ASSUME NEW t \in Tables, NEW S
  PROVE  [k \in Key |-> IF k \in S THEN NULL ELSE t[k]] \in Tables
<1> DEFINE m == [k \in Key |-> IF k \in S THEN NULL ELSE t[k]]
<1>1. \A k \in Key : m[k] = IF k \in S THEN NULL ELSE t[k]
  OBVIOUS
<1>2. m = [k \in Key |-> m[k]]
  OBVIOUS
<1> HIDE DEF m
<1>3. m \in Tables
  BY <1>1, <1>2, TableGet, TableIs
<1> QED
  BY <1>3 DEF m

(* What Add does *)
LEMMA AddIs ==
  ASSUME table \in Tables, NEW k \in Key, NEW v \in Values[k]
  PROVE  /\ Add(k, v) \in Tables
         /\ \A r \in Key : Add(k, v)[r] = IF r = k /\ table[k] = NULL THEN v ELSE table[r]
<1> DEFINE m == Add(k, v)
<1>0. table = [r \in Key |-> table[r]]
  BY TableGet
<1>1. \A r \in Key : m[r] = IF r = k /\ table[k] = NULL THEN v ELSE table[r]
  BY <1>0 DEF Add
<1>2. m = [r \in Key |-> m[r]]
  BY <1>0 DEF Add
<1> HIDE DEF m
<1>3. m \in Tables
  BY <1>1, <1>2, TableGet, TableIs
<1> QED
  BY <1>3, <1>1 DEF m

LEMMA IdleIs == Idle.busy = FALSE /\ Idle.stack = <<>> /\ Idle.keys = {}
BY DEF Idle

LEMMA StackIs ==
  ASSUME NEW S, NEW s \in Seq(S), s # <<>>
  PROVE  /\ Len(s) \in Nat /\ Len(s) > 0
         /\ Last(s) = s[Len(s)] /\ Last(s) \in S
         /\ Front(s) \in Seq(S) /\ Len(Front(s)) = Len(s) - 1
         /\ \A n \in 1 .. Len(s) - 1 : Front(s)[n] = s[n]
<1>1. Len(s) \in Nat /\ Len(s) > 0 /\ s[Len(s)] \in S
  OBVIOUS
<1>2. /\ SubSeq(s, 1, Len(s) - 1) \in Seq(S) /\ Len(SubSeq(s, 1, Len(s) - 1)) = Len(s) - 1
      /\ \A n \in 1 .. Len(s) - 1 : SubSeq(s, 1, Len(s) - 1)[n] = s[n]
  <2>1. PICK n \in Nat : n = Len(s) - 1
    BY <1>1
  <2>2. Len(SubSeq(s, 1, n)) = n
    BY <1>1, <2>1
  <2>3. \A i \in 1 .. n : SubSeq(s, 1, n)[i] = s[i]
    BY <1>1, <2>1
  <2>4. SubSeq(s, 1, n) \in Seq(S)
    BY <1>1, <2>1
  <2> QED
    BY <2>1, <2>2, <2>3, <2>4
<1> QED
  BY <1>1, <1>2 DEF Last, Front

-----------------------------------------------------------------------------
(***************************************************************************)
(* What produce_value computes                                             *)
(***************************************************************************)
LEMMA NullIsNoValue ==
  ASSUME WellBehaved
  PROVE  /\ \A k \in Key : NULL \notin Values[k]
         /\ \A m \in Modules : Contents(m) \cup {None} \subseteq Values[Source(m)]
BY DEF WellBehaved, WellBehavedWith

LEMMA ReadsBelow ==
  ASSUME WellBehaved, NEW k \in Key, k[1] > 0, NEW t \in Tables
  PROVE  /\ Reads(k, t) \subseteq {r \in Key : r[1] < k[1]}
         /\ Full(k, t) => Produce(k, t) \in Values[k] /\ Produce(k, t) # NULL
BY DEF WellBehaved, WellBehavedWith, Local, Tables

LEMMA JustifiedStable ==
  ASSUME WellBehaved, NEW k \in Key, k[1] > 0, NEW t \in Tables, NEW u \in Tables, NEW v,
         NEW E, NEW F, E \subseteq F, Agree(k, t, u), Justified(k, v, t, E)
  PROVE  Justified(k, v, u, F)
<1>1. Reads(k, u) = Reads(k, t) /\ (Full(k, t) => Produce(k, u) = Produce(k, t))
  BY DEF WellBehaved, WellBehavedWith, Local, Tables
<1>2. Full(k, u)
  BY <1>1 DEF Full, Agree, Justified
<1> QED
  BY <1>1, <1>2 DEF Justified

Grows(t, u) == \A r \in Key : t[r] # NULL => u[r] = t[r]

LEMMA JustifiedGrows ==
  ASSUME WellBehaved, NEW k \in Key, k[1] > 0, NEW t \in Tables, NEW u \in Tables, NEW v,
         NEW E, NEW F, E \subseteq F, Grows(t, u), Justified(k, v, t, E)
  PROVE  Justified(k, v, u, F)
<1>1. Agree(k, t, u)
  BY ReadsBelow DEF Agree, Grows, Justified, Full
<1> QED
  BY <1>1, JustifiedStable

-----------------------------------------------------------------------------
(***************************************************************************)
(* A step of a process, in a phase: the table and the edges grow.          *)
(***************************************************************************)
LEMMA TopIs ==
  ASSUME TypeInv, RestInv, NEW w \in Processes, work[w].stack # <<>>
  PROVE  LET s == work[w].stack
         IN /\ s \in Seq(Frame) /\ Len(s) \in Nat /\ Len(s) > 0
            /\ Top(w) = s[Len(s)] /\ Top(w) \in Frame /\ Top(w).key \in Key
            /\ Front(s) \in Seq(Frame) /\ Len(Front(s)) = Len(s) - 1
            /\ \A n \in 1 .. Len(s) - 1 : Front(s)[n] = s[n]
            /\ work[w].busy
<1> DEFINE s == work[w].stack
<1>1. s \in Seq(Frame) /\ s # <<>>
  BY DEF TypeInv
<1>2. work[w].busy
  BY DEF RestInv, Idle
<1>3. Top(w) = Last(s)
  BY DEF Top
<1>4. \A f \in Frame : f.key \in Key
  BY DEF Frame
<1> HIDE DEF s
<1>5. /\ Len(s) \in Nat /\ Len(s) > 0
      /\ Last(s) = s[Len(s)] /\ Last(s) \in Frame
      /\ Front(s) \in Seq(Frame) /\ Len(Front(s)) = Len(s) - 1
      /\ \A n \in 1 .. Len(s) - 1 : Front(s)[n] = s[n]
  BY <1>1, StackIs
<1> QED
  BY <1>1, <1>2, <1>3, <1>4, <1>5 DEF s

LEMMA CallIs ==
  ASSUME WellBehaved, TypeInv, TrackInv, NEW k \in Key
  PROVE  /\ Call(k) \in Frame /\ Call(k).key = k
         /\ k[1] = 0 => SourceOK(k[2], Call(k).parsed)
<1> DEFINE m == k[2]
<1>1. m \in Modules /\ (k[1] = 0 => k = Source(m))
  BY KeyIs
<1>2. None \in Values[Source(m)] /\ disk[m] \in Values[Source(m)]
  BY <1>1, NullIsNoValue DEF TypeInv
<1>3. m \in pending \/ (m \in tracked <=> disk[m] # None)
  BY <1>1 DEF TrackInv
<1>4. Call(k) = [key |-> k, parsed |-> IF k[1] = 0 /\ m \in tracked THEN disk[m] ELSE None]
  BY DEF Call
<1> HIDE DEF m
<1>5. Call(k) \in Frame /\ Call(k).key = k
  BY <1>1, <1>2, <1>4 DEF Frame
<1>6. ASSUME k[1] = 0 PROVE SourceOK(m, Call(k).parsed)
  BY <1>2, <1>3, <1>4, <1>6 DEF SourceOK
<1> QED
  BY <1>5, <1>6 DEF m

LEMMA MergedIs ==
  ASSUME TypeInv
  PROVE  Merged \in Tables /\ \A k \in Key : Merged[k] = IF k \in scope THEN old[k] ELSE table[k]
BY TableMix DEF Merged, TypeInv

(* How the calls of a process change *)
LEMMA CallsOf ==
  ASSUME TypeInv, NEW w \in Processes
  PROVE  /\ Calls(w) \subseteq Frame
         /\ work[w] = Idle => Calls(w) = {}
<1>1. work[w].stack \in Seq(Frame)
  BY DEF TypeInv
<1>2. work[w] = Idle => work[w].stack = <<>>
  BY DEF Idle
<1> QED
  BY <1>1, <1>2 DEF Calls

LEMMA CallsPopped ==
  ASSUME TypeInv, RestInv, NEW w \in Processes, work[w].stack # <<>>, work'[w].stack = Front(work[w].stack)
  PROVE  Calls(w)' \subseteq Calls(w) /\ Top(w) \in Calls(w)
<1>1. PICK s : s = work[w].stack
  OBVIOUS
<1>2. PICK t : t = Front(s)
  OBVIOUS
<1>3. /\ Len(s) \in Nat /\ Len(s) > 0 /\ Top(w) = s[Len(s)]
      /\ Len(t) = Len(s) - 1 /\ \A n \in 1 .. Len(s) - 1 : t[n] = s[n]
  BY <1>1, <1>2, TopIs
<1>4. Calls(w) = {s[n] : n \in 1 .. Len(s)} /\ Calls(w)' = {t[n] : n \in 1 .. Len(t)}
  BY <1>1, <1>2 DEF Calls
<1>5. Len(s) \in 1 .. Len(s)
  BY <1>3
<1>6. \A n \in 1 .. Len(t) : n \in 1 .. Len(s) /\ t[n] = s[n]
  BY <1>3
<1> QED
  BY <1>3, <1>4, <1>5, <1>6

LEMMA CallsPushed ==
  ASSUME TypeInv, NEW w \in Processes, NEW c \in Frame, work'[w].stack = Append(work[w].stack, c)
  PROVE  Calls(w)' \subseteq Calls(w) \cup {c}
<1>1. work[w].stack \in Seq(Frame)
  BY DEF TypeInv
<1> QED
  BY <1>1 DEF Calls

LEMMA CallsSame ==
  ASSUME NEW w \in Processes, work'[w].stack = work[w].stack
  PROVE  Calls(w)' = Calls(w)
BY DEF Calls

(* What stays as it is in a step of a process *)
Still == UNCHANGED <<fileVars, old, loaded_edges, masterVars, saved>>

LEMMA GrowthKeeps ==
  ASSUME WellBehaved, TypeInv, TypeInv', Still, edges \subseteq edges', Grows(table, table'),
         NEW k \in Key, k[1] > 0, table[k] # NULL
  PROVE  /\ Current(k) => Current(k)'
         /\ WasCurrent(k) => WasCurrent(k)'
         /\ Due(k) => Due(k)'
<1>1. table'[k] = table[k] /\ AllEdges \subseteq AllEdges'
  BY DEF Grows, AllEdges, Still
<1>2. table \in Tables /\ table' \in Tables
  BY DEF TypeInv
<1>3. Current(k) => Current(k)'
  BY <1>1, <1>2, JustifiedGrows DEF Current
<1>4. Merged \in Tables /\ Merged' \in Tables
  BY TableMix DEF Merged, TypeInv
<1>5. Grows(Merged, Merged')
  BY DEF Grows, Merged, Still, masterVars
<1>6. WasCurrent(k) => WasCurrent(k)'
  <2>1. ASSUME Justified(k, table[k], Merged, AllEdges) PROVE Justified(k, table[k], Merged', AllEdges')
    BY <1>1, <1>4, <1>5, <2>1, JustifiedGrows
  <2> QED
    BY <2>1, <1>1 DEF WasCurrent, Still, masterVars
<1>7. Due(k) => Due(k)'
  BY DEF Due, Still, masterVars
<1> QED
  BY <1>3, <1>6, <1>7

LEMMA ProcessStep ==
  ASSUME WellBehaved, Inv, TypeInv', Still, edges \subseteq edges', Grows(table, table'),
         \A k \in Key : k[1] > 0 /\ table[k] = NULL /\ table'[k] # NULL => Known(k)' /\ Current(k)',
         \A k \in Key : Known(k) => Known(k)',
         \A k \in Key : k[1] > 0 /\ table[k] # NULL /\ Overlooked(k) => Overlooked(k)' \/ Current(k)',
         \A m \in Modules : table[Source(m)] = NULL /\ table'[Source(m)] # NULL
                              => SourceOK(m, table'[Source(m)])
  PROVE  (TrackInv /\ SourceInv /\ ValueInv /\ ScopeInv /\ SavedInv)'
<1>1. TrackInv'
  BY DEF Inv, TrackInv, Still, fileVars, masterVars
<1>2. SourceInv'
  <2> SUFFICES ASSUME NEW m \in Modules, table'[Source(m)] # NULL PROVE SourceOK(m, table'[Source(m)])
    BY DEF SourceInv, SourceOK, Still, fileVars, masterVars
  <2> QED
    BY KeyIs DEF Inv, SourceInv, Grows
<1>3. ValueInv'
  <2> SUFFICES ASSUME NEW k \in Key, k[1] > 0, table'[k] # NULL PROVE Accounted(k)'
    BY DEF ValueInv
  <2>1. CASE table[k] = NULL
    BY <2>1 DEF Accounted
  <2>2. CASE table[k] # NULL
    <3>1. Known(k) /\ (Current(k) \/ WasCurrent(k) \/ Due(k) \/ Overlooked(k))
      BY <2>2 DEF Inv, ValueInv, Accounted
    <3>2. /\ Current(k) => Current(k)'
          /\ WasCurrent(k) => WasCurrent(k)'
          /\ Due(k) => Due(k)'
      BY <2>2, GrowthKeeps DEF Inv
    <3> QED
      BY <2>2, <3>1, <3>2 DEF Accounted
  <2> QED
    BY <2>1, <2>2
<1>4. ScopeInv'
  BY DEF Inv, ScopeInv, Still, masterVars
<1>5. SavedInv'
  BY DEF Inv, SavedInv, SavedOK, Still, masterVars
<1> QED
  BY <1>1, <1>2, <1>3, <1>4, <1>5

(* The calls that go on *)
LEMMA FramesStay ==
  ASSUME WellBehaved, TypeInv, TypeInv', Still, edges \subseteq edges', Grows(table, table'),
         NEW f \in Frame, FrameOK(f),
         f.key[1] > 0 /\ table[f.key] = NULL /\ table'[f.key] # NULL => Current(f.key)'
  PROVE  FrameOK(f)'
<1>0. f.key \in Key
  BY DEF Frame
<1>1. CASE f.key[1] = 0
  BY <1>1 DEF FrameOK, SourceOK, Still, fileVars, masterVars
<1>2. CASE f.key[1] # 0
  <2>1. f.key[1] > 0
    BY <1>0, <1>2, KeyIs
  <2>2. CASE table[f.key] = NULL
    BY <1>2, <2>1, <2>2 DEF FrameOK
  <2>3. CASE table[f.key] # NULL
    <3>1. Current(f.key)
      BY <1>2, <2>3 DEF FrameOK
    <3>2. Current(f.key)'
      BY <1>0, <3>1, <2>1, <2>3, GrowthKeeps
    <3> QED
      BY <3>2, <1>2 DEF FrameOK
  <2> QED
    BY <2>2, <2>3
<1> QED
  BY <1>1, <1>2

LEMMA ProcessInv ==
  ASSUME WellBehaved, Inv, TypeInv', RestInv', Still, edges \subseteq edges', Grows(table, table'),
         NEW w \in Processes,
         \A v \in Processes : v # w => work'[v] = work[v],
         \A k \in Key : k[1] > 0 /\ table[k] = NULL /\ table'[k] # NULL => Known(k)' /\ Current(k)',
         \A k \in Key : Known(k) => Known(k)',
         \A k \in Key : k[1] > 0 /\ table[k] # NULL /\ Overlooked(k) => Overlooked(k)' \/ Current(k)',
         \A m \in Modules : table[Source(m)] = NULL /\ table'[Source(m)] # NULL
                              => SourceOK(m, table'[Source(m)]),
         \A f \in Calls(w)' :
           f \in Calls(w) \/ (f \in Frame /\ FrameOK(f) /\ (phase = "collect" => f.key[1] \in {0, Listed})),
         phase = "collect" => todo' \subseteq ListedKeys /\ work'[w].keys \subseteq ListedKeys,
         lost' \subseteq ListedKeys
  PROVE  Inv'
<1>1. (TrackInv /\ SourceInv /\ ValueInv /\ ScopeInv /\ SavedInv)'
  BY ProcessStep
<1>2. \A v \in Processes : v # w => Calls(v)' = Calls(v)
  BY DEF Calls
<1>3. \A v \in Processes : \A f \in Calls(v) : f \in Frame /\ FrameOK(f)
  BY CallsOf DEF Inv, CallInv
<1>4. CallInv'
  <2> SUFFICES ASSUME NEW v \in Processes, NEW f \in Calls(v)' PROVE FrameOK(f)'
    BY DEF CallInv
  <2>1. f \in Frame /\ FrameOK(f)
    BY <1>2, <1>3
  <2>2. f.key \in Key
    BY <2>1 DEF Frame
  <2> QED
    BY <2>1, <2>2, FramesStay DEF Inv
<1>5. LostInv'
  <2>1. ASSUME phase' = "collect", NEW v \in Processes
        PROVE  work'[v].keys \subseteq ListedKeys /\ \A f \in Calls(v)' : f.key[1] \in {0, Listed}
    <3>1. phase = "collect"
      BY <2>1 DEF Still, masterVars
    <3>2. /\ work[v].keys \subseteq ListedKeys /\ \A f \in Calls(v) : f.key[1] \in {0, Listed}
          /\ \A f \in Calls(w) : f.key[1] \in {0, Listed}
      BY <3>1 DEF Inv, LostInv
    <3> QED
      BY <1>2, <3>1, <3>2
  <2>2. phase' = "collect" => todo' \subseteq ListedKeys
    BY DEF Still, masterVars
  <2> QED
    BY <2>1, <2>2 DEF LostInv
<1> QED
  BY <1>1, <1>4, <1>5 DEF Inv

-----------------------------------------------------------------------------
(***************************************************************************)
(* The actions of a process                                                *)
(***************************************************************************)
LEMMA TakeJobInv ==
  ASSUME WellBehaved, Inv, NEW w \in Processes, TakeJob(w), UNCHANGED savedVars
  PROVE  Inv'
<1>1. PICK k \in todo :
        /\ todo' = todo \ {k}
        /\ work' = [work EXCEPT ![w] =
             [busy |-> TRUE, stack |-> IF table[k] = NULL THEN <<Call(k)>> ELSE <<>>, keys |-> {}]]
  BY DEF TakeJob
<1>2. ~ work[w].busy /\ UNCHANGED <<fileVars, stackVars, masterVars, savedVars>>
  BY DEF TakeJob
<1>3. TypeInv /\ RestInv /\ TrackInv /\ k \in Key
  BY DEF Inv, TypeInv
<1>4. Call(k) \in Frame /\ Call(k).key = k /\ (k[1] = 0 => SourceOK(k[2], Call(k).parsed))
  BY <1>3, CallIs
<1>5. work[w] = Idle
  BY <1>2, <1>3 DEF RestInv
<1>6. /\ work'[w].stack \in {<<>>, <<Call(k)>>} /\ (table[k] # NULL => work'[w].stack = <<>>)
      /\ work'[w].keys = {} /\ work'[w].busy
      /\ \A v \in Processes : v # w => work'[v] = work[v]
  BY <1>1, <1>3 DEF TypeInv
<1>7. TypeInv'
  <2>0. <<>> \in Seq(Frame) /\ <<Call(k)>> \in Seq(Frame)
    BY <1>4
  <2> DEFINE s == IF table[k] = NULL THEN <<Call(k)>> ELSE <<>>
  <2>1. s \in Seq(Frame) /\ work' = [work EXCEPT ![w] = [busy |-> TRUE, stack |-> s, keys |-> {}]]
    BY <1>1, <2>0
  <2> HIDE DEF s
  <2>2. work' \in [Processes -> [busy : BOOLEAN, stack : Seq(Frame), keys : SUBSET Key]]
    BY <1>3, <2>1 DEF TypeInv
  <2> QED
    BY <1>1, <1>2, <1>3, <2>2 DEF TypeInv, fileVars, stackVars, masterVars
<1>8. Still /\ edges' = edges /\ table' = table /\ registry' = registry /\ lost' = lost
  BY <1>2 DEF Still, stackVars, savedVars
<1>9. Grows(table, table')
  BY <1>8 DEF Grows
<1>10. \A x \in Key : Registering(x)' <=> Registering(x)
  <2>1. \A v \in Processes : work'[v].keys = work[v].keys
    BY <1>5, <1>6, IdleIs
  <2> QED
    BY <2>1 DEF Registering
<1>11. \A x \in Key : (Known(x) => Known(x)') /\ (Overlooked(x) => Overlooked(x)')
  BY <1>8, <1>10 DEF Known, Overlooked, Unseen, AllEdges, Still
<1>12. \A f \in Calls(w)' : f \in Frame /\ FrameOK(f) /\ f.key = k
  <2>1. Calls(w)' \subseteq {Call(k)} /\ (table[k] # NULL => Calls(w)' = {})
    BY <1>6 DEF Calls
  <2> QED
    BY <2>1, <1>4 DEF FrameOK
<1>13. RestInv'
  BY <1>1, <1>2, <1>3, <1>6 DEF RestInv, AllIdle, masterVars
<1>14. phase = "collect" => todo' \subseteq ListedKeys /\ work'[w].keys \subseteq ListedKeys /\ k[1] = Listed
  BY <1>1, <1>6, ListedIs DEF Inv, LostInv
<1>15. lost' \subseteq ListedKeys
  BY <1>8 DEF Inv, LostInv
<1> QED
  BY <1>6, <1>7, <1>8, <1>9, <1>11, <1>12, <1>13, <1>14, <1>15, ProcessInv

LEMMA ReadMissingInv ==
  ASSUME WellBehaved, Inv, NEW w \in Processes, ReadMissing(w), UNCHANGED savedVars
  PROVE  Inv'
<1> DEFINE k == Top(w).key
           r == CHOOSE r \in Missing(k) : TRUE
<1>1. /\ work[w].stack # <<>> /\ k[1] > 0 /\ Missing(k) # {}
      /\ work' = [work EXCEPT ![w].stack = Append(@, Call(r))]
      /\ UNCHANGED <<fileVars, stackVars, masterVars, todo, savedVars>>
  BY DEF ReadMissing
<1>2. TypeInv /\ RestInv /\ TrackInv /\ table \in Tables
  BY DEF Inv, TypeInv
<1>3. k \in Key /\ work[w].busy /\ Top(w) \in Calls(w)
  <2>1. Top(w) = work[w].stack[Len(work[w].stack)] /\ Len(work[w].stack) \in Nat /\ Len(work[w].stack) > 0
        /\ k \in Key /\ work[w].busy
    BY <1>1, <1>2, TopIs
  <2> QED
    BY <2>1 DEF Calls
<1>4. r \in Missing(k)
  BY <1>1
<1>5. r \in Key /\ table[r] = NULL /\ r \in Reads(k, table)
  BY <1>1, <1>2, <1>3, <1>4, ReadsBelow DEF Missing
<1> HIDE DEF r
<1>6. Call(r) \in Frame /\ Call(r).key = r /\ (r[1] = 0 => SourceOK(r[2], Call(r).parsed))
  BY <1>2, <1>5, CallIs
<1>7. /\ work'[w].stack = Append(work[w].stack, Call(r))
      /\ work'[w].keys = work[w].keys /\ work'[w].busy = work[w].busy
      /\ \A v \in Processes : v # w => work'[v] = work[v]
  BY <1>1, <1>2 DEF TypeInv
<1>8. TypeInv'
  <2>1. Append(work[w].stack, Call(r)) \in Seq(Frame)
    BY <1>2, <1>6 DEF TypeInv
  <2>2. work' \in [Processes -> [busy : BOOLEAN, stack : Seq(Frame), keys : SUBSET Key]]
    BY <1>1, <1>2, <2>1 DEF TypeInv
  <2> QED
    BY <1>1, <1>2, <2>2 DEF TypeInv, fileVars, stackVars, masterVars
<1>9. Still /\ edges' = edges /\ table' = table /\ registry' = registry /\ lost' = lost
  BY <1>1 DEF Still, stackVars, savedVars
<1>10. Grows(table, table')
  BY <1>9 DEF Grows
<1>11. \A x \in Key : (Known(x) => Known(x)') /\ (Overlooked(x) => Overlooked(x)')
  <2>1. \A v \in Processes : work'[v].keys = work[v].keys
    BY <1>7
  <2> QED
    BY <2>1, <1>9 DEF Known, Registering, Overlooked, Unseen, AllEdges, Still
<1>12. Calls(w)' \subseteq Calls(w) \cup {Call(r)}
  BY <1>2, <1>6, <1>7, CallsPushed
<1>13. FrameOK(Call(r))
  BY <1>5, <1>6 DEF FrameOK
<1>14. RestInv'
  BY <1>1, <1>2, <1>3, <1>7 DEF RestInv, AllIdle, masterVars
<1>15. phase = "collect" => todo' \subseteq ListedKeys /\ work'[w].keys \subseteq ListedKeys /\ r[1] = 0
  <2> SUFFICES ASSUME phase = "collect"
               PROVE  todo' \subseteq ListedKeys /\ work'[w].keys \subseteq ListedKeys /\ r[1] = 0
    OBVIOUS
  <2>1. todo' \subseteq ListedKeys /\ work'[w].keys \subseteq ListedKeys
    BY <1>1, <1>7 DEF Inv, LostInv
  <2>2. k[1] = Listed
    BY <1>1, <1>3 DEF Inv, LostInv
  <2>3. k = <<Listed, k[2]>> /\ k[2] \in Modules
    BY <2>2, <1>3, KeyIs
  <2> QED
    BY <2>1, <2>3, <1>2, <1>5 DEF WellBehaved, WellBehavedWith, Tables
<1>16. lost' \subseteq ListedKeys
  BY <1>9 DEF Inv, LostInv
<1> QED
  BY <1>6, <1>7, <1>8, <1>9, <1>10, <1>11, <1>12, <1>13, <1>14, <1>15, <1>16, ProcessInv

LEMMA RawAddInv ==
  ASSUME WellBehaved, Inv, NEW w \in Processes, RawAdd(w), UNCHANGED savedVars
  PROVE  Inv'
<1> DEFINE k == Top(w).key
           p == Top(w).parsed
<1>1. /\ work[w].stack # <<>> /\ k[1] = 0 /\ table' = Add(k, p)
      /\ work' = [work EXCEPT ![w].stack = Front(@)]
      /\ UNCHANGED <<fileVars, old, edges, loaded_edges, registry, lost, masterVars, todo, savedVars>>
  BY DEF RawAdd
<1>2. TypeInv /\ RestInv /\ table \in Tables
  BY DEF Inv, TypeInv
<1>3. /\ k \in Key /\ work[w].busy
      /\ Front(work[w].stack) \in Seq(Frame)
  BY <1>1, <1>2, TopIs
<1>4. /\ work'[w].stack = Front(work[w].stack)
      /\ work'[w].keys = work[w].keys /\ work'[w].busy = work[w].busy
      /\ \A v \in Processes : v # w => work'[v] = work[v]
  BY <1>1, <1>2 DEF TypeInv
<1>5. Calls(w)' \subseteq Calls(w) /\ Top(w) \in Calls(w)
  BY <1>1, <1>2, <1>4, CallsPopped
<1>6. SourceOK(k[2], p) /\ k = Source(k[2]) /\ k[2] \in Modules
  BY <1>1, <1>3, <1>5, KeyIs DEF Inv, CallInv, FrameOK
<1>7. p \in Values[k]
  BY <1>6 DEF SourceOK
<1>8. table' \in Tables /\ \A x \in Key : table'[x] = IF x = k /\ table[k] = NULL THEN p ELSE table[x]
  BY <1>1, <1>2, <1>3, <1>7, AddIs
<1>9. TypeInv'
  <2>1. work' \in [Processes -> [busy : BOOLEAN, stack : Seq(Frame), keys : SUBSET Key]]
    BY <1>1, <1>2, <1>3 DEF TypeInv
  <2> QED
    BY <1>1, <1>2, <1>8, <2>1 DEF TypeInv, fileVars, masterVars
<1>10. Still /\ edges' = edges /\ registry' = registry /\ lost' = lost
  BY <1>1 DEF Still, savedVars
<1>11. Grows(table, table')
  BY <1>8 DEF Grows
<1>12. \A x \in Key : (Known(x) => Known(x)') /\ (Overlooked(x) => Overlooked(x)')
  <2>1. \A v \in Processes : work'[v].keys = work[v].keys
    BY <1>4
  <2> QED
    BY <2>1, <1>10 DEF Known, Registering, Overlooked, Unseen, AllEdges, Still
<1>13. \A x \in Key : x[1] > 0 => table'[x] = table[x]
  BY <1>1, <1>8
<1>14. \A m \in Modules : table[Source(m)] = NULL /\ table'[Source(m)] # NULL => SourceOK(m, table'[Source(m)])
  <2> SUFFICES ASSUME NEW m \in Modules, table[Source(m)] = NULL, table'[Source(m)] # NULL
               PROVE  SourceOK(m, table'[Source(m)])
    OBVIOUS
  <2>1. Source(m) = k /\ table'[k] = p
    BY <1>8, KeyIs
  <2>2. m = k[2]
    BY <2>1, <1>6, KeyIs
  <2> QED
    BY <2>1, <2>2, <1>6
<1>15. RestInv'
  BY <1>1, <1>2, <1>3, <1>4 DEF RestInv, AllIdle, masterVars
<1>16. lost' \subseteq ListedKeys /\ (phase = "collect" => todo' \subseteq ListedKeys /\ work'[w].keys \subseteq ListedKeys)
  BY <1>1, <1>4, <1>10 DEF Inv, LostInv
<1> HIDE DEF k, p
<1> QED
  BY <1>4, <1>5, <1>9, <1>10, <1>11, <1>12, <1>13, <1>14, <1>15, <1>16, ProcessInv

LEMMA ProduceValueInv ==
  ASSUME WellBehaved, Inv, NEW w \in Processes, ProduceValue(w), UNCHANGED savedVars
  PROVE  Inv'
<1>0. TypeInv /\ RestInv /\ table \in Tables /\ work[w].stack # <<>>
  BY DEF Inv, TypeInv, ProduceValue
<1>k. PICK k \in Key : k = Top(w).key
  BY <1>0, TopIs
<1>p. PICK p : p = Produce(k, table)
  OBVIOUS
<1>1. /\ k[1] > 0 /\ Missing(k) = {}
      /\ table' = Add(k, p)
      /\ edges' = edges \cup {<<r, Hash(k)>> : r \in Reads(k, table)}
      /\ UNCHANGED <<fileVars, old, loaded_edges, lost, masterVars, todo, savedVars>>
  BY <1>k, <1>p DEF ProduceValue
<1>2. work[w].busy /\ Front(work[w].stack) \in Seq(Frame)
  BY <1>0, TopIs
<1>4. \/ /\ registry' = registry \cup {k} /\ work' = [work EXCEPT ![w].stack = Front(@)]
      \/ /\ registry' = registry
         /\ work' = [work EXCEPT ![w].stack = Front(@), ![w].keys = @ \cup {k}]
  BY <1>k DEF ProduceValue
<1>5. /\ work'[w].stack = Front(work[w].stack) /\ work'[w].busy = work[w].busy
      /\ work[w].keys \subseteq work'[w].keys /\ work'[w].keys \subseteq work[w].keys \cup {k}
      /\ registry \subseteq registry' /\ registry' \subseteq registry \cup {k}
      /\ k \in registry' \/ k \in work'[w].keys
      /\ \A v \in Processes : v # w => work'[v] = work[v]
      /\ work' \in [Processes -> [busy : BOOLEAN, stack : Seq(Frame), keys : SUBSET Key]]
  <2>1. CASE registry' = registry \cup {k} /\ work' = [work EXCEPT ![w].stack = Front(@)]
    BY <2>1, <1>0, <1>2 DEF TypeInv
  <2>2. CASE /\ registry' = registry
             /\ work' = [work EXCEPT ![w].stack = Front(@), ![w].keys = @ \cup {k}]
    BY <2>2, <1>0, <1>2 DEF TypeInv
  <2> QED
    BY <1>4, <2>1, <2>2
<1>6. Calls(w)' \subseteq Calls(w) /\ Top(w) \in Calls(w)
  BY <1>0, <1>5, CallsPopped
<1>7. Full(k, table)
  BY <1>1 DEF Missing, Full
<1>8. p \in Values[k] /\ p # NULL /\ Reads(k, table) \subseteq {r \in Key : r[1] < k[1]}
  BY <1>0, <1>1, <1>p, <1>7, ReadsBelow
<1>9. table' \in Tables /\ \A x \in Key : table'[x] = IF x = k /\ table[k] = NULL THEN p ELSE table[x]
  BY <1>0, <1>1, <1>8, AddIs
<1>10. TypeInv'
  BY <1>0, <1>1, <1>5, <1>9 DEF TypeInv, fileVars, masterVars
<1>11. Still /\ lost' = lost /\ edges \subseteq edges'
  BY <1>1 DEF Still, savedVars
<1>12. Grows(table, table')
  BY <1>9 DEF Grows
<1>13. \A x \in Key : Known(x) => Known(x)'
  BY <1>5, <1>11 DEF Known, Registering
<1>14. Known(k)'
  BY <1>5 DEF Known, Registering
<1>15. Current(k)'
  <2>1. table'[k] = p
    <3>1. CASE table[k] = NULL
      BY <3>1, <1>9
    <3>2. CASE table[k] # NULL
      <4>1. Current(k)
        BY <3>2, <1>1, <1>k, <1>6 DEF Inv, CallInv, FrameOK
      <4> QED
        BY <4>1, <3>2, <1>p, <1>9 DEF Current, Justified
    <3> QED
      BY <3>1, <3>2
  <2>2. Justified(k, p, table, AllEdges')
    BY <1>1, <1>p, <1>7 DEF Justified, AllEdges
  <2>3. Justified(k, p, table', AllEdges')
    BY <2>2, <1>0, <1>1, <1>9, <1>12, JustifiedGrows
  <2> QED
    BY <2>1, <2>3 DEF Current
<1>16. \A x \in Key : x # k /\ Overlooked(x) => Overlooked(x)'
  BY <1>5, <1>11 DEF Overlooked, Unseen, Registering, AllEdges, Still
<1>17. \A x \in Key : x # k => table'[x] = table[x]
  BY <1>9
<1>18. \A m \in Modules : table'[Source(m)] = table[Source(m)]
  BY <1>1, <1>17, KeyIs
<1>19. RestInv'
  BY <1>0, <1>1, <1>2, <1>5 DEF RestInv, AllIdle, masterVars
<1>20. phase = "collect" => k[1] = Listed
  BY <1>1, <1>k, <1>6 DEF Inv, LostInv
<1>21. lost' \subseteq ListedKeys /\ (phase = "collect" => todo' \subseteq ListedKeys /\ work'[w].keys \subseteq ListedKeys)
  BY <1>1, <1>5, <1>11, <1>20, ListedIs DEF Inv, LostInv
<1>22. \A x \in Key : x[1] > 0 /\ table[x] = NULL /\ table'[x] # NULL => Known(x)' /\ Current(x)'
  <2> SUFFICES ASSUME NEW x \in Key, table[x] = NULL, table'[x] # NULL PROVE x = k
    BY <1>14, <1>15
  <2> QED
    BY <1>17
<1>23. \A x \in Key : Overlooked(x) => Overlooked(x)' \/ Current(x)'
  BY <1>15, <1>16
<1> QED
  BY <1>5, <1>6, <1>10, <1>11, <1>12, <1>13, <1>18, <1>19, <1>21, <1>22, <1>23, ProcessInv

LEMMA FinishJobInv ==
  ASSUME WellBehaved, Inv, NEW w \in Processes, FinishJob(w), UNCHANGED savedVars
  PROVE  Inv'
<1>1. /\ work[w].busy
      /\ registry' = IF phase = "collect" THEN registry ELSE registry \cup work[w].keys
      /\ lost' = (lost \cup work[w].keys) \ registry'
      /\ work' = [work EXCEPT ![w] = Idle]
      /\ UNCHANGED <<fileVars, table, old, edges, loaded_edges, masterVars, todo, savedVars>>
  BY DEF FinishJob
<1>2. TypeInv /\ RestInv
  BY DEF Inv
<1>3. work'[w] = Idle /\ \A v \in Processes : v # w => work'[v] = work[v]
  BY <1>1, <1>2 DEF TypeInv
<1>4. TypeInv'
  <2>1. Idle \in [busy : BOOLEAN, stack : Seq(Frame), keys : SUBSET Key]
    BY DEF Idle
  <2>2. work' \in [Processes -> [busy : BOOLEAN, stack : Seq(Frame), keys : SUBSET Key]]
    BY <1>1, <1>2, <2>1 DEF TypeInv
  <2>3. registry' \subseteq Key
    BY <1>1, <1>2 DEF TypeInv
  <2> QED
    BY <1>1, <1>2, <2>2, <2>3 DEF TypeInv, fileVars, masterVars
<1>5. Still /\ edges' = edges /\ table' = table /\ registry \subseteq registry'
  BY <1>1 DEF Still, savedVars
<1>6. Grows(table, table')
  BY <1>5 DEF Grows
<1>7. \A x \in Key : Known(x) => Known(x)'
  BY <1>1, <1>3 DEF Known, Registering
<1>8. \A x \in Key : Overlooked(x) => Overlooked(x)'
  <2> SUFFICES ASSUME NEW x \in Key, Overlooked(x) PROVE Overlooked(x)'
    OBVIOUS
  <2>1. x \in lost \ registry /\ ~ Registering(x)
    BY DEF Overlooked, Unseen
  <2>2. \A v \in Processes : x \notin work[v].keys
    BY <2>1 DEF Registering
  <2>3. x \in lost' \ registry'
    BY <1>1, <2>1, <2>2
  <2>4. ~ Registering(x)'
    BY <1>3, <2>2 DEF Registering, Idle
  <2> QED
    BY <2>3, <2>4, <1>5 DEF Overlooked, Unseen, AllEdges, Still
<1>9. Calls(w)' = {}
  BY <1>3 DEF Calls, Idle
<1>10. RestInv'
  BY <1>1, <1>2, <1>3 DEF RestInv, AllIdle, masterVars
<1>11. work'[w].keys = {}
  BY <1>3 DEF Idle
<1>12. lost' \subseteq ListedKeys
  <2>1. CASE phase = "collect"
    BY <2>1, <1>1 DEF Inv, LostInv
  <2>2. CASE phase # "collect"
    BY <2>2, <1>1 DEF Inv, LostInv
  <2> QED
    BY <2>1, <2>2
<1>13. phase = "collect" => todo' \subseteq ListedKeys
  BY <1>1 DEF Inv, LostInv
<1> QED
  BY <1>3, <1>4, <1>5, <1>6, <1>7, <1>8, <1>9, <1>10, <1>11, <1>12, <1>13, ProcessInv

-----------------------------------------------------------------------------
(***************************************************************************)
(* Files change; the master goes from phase to phase                       *)
(***************************************************************************)
LEMMA ChangeFileInv ==
  ASSUME WellBehaved, Inv, ChangeFile, UNCHANGED savedVars
  PROVE  Inv'
<1>0. PICK m \in Modules :
        \E c \in Contents(m) : disk' = [disk EXCEPT ![m] = c] /\ pending' = pending \cup {m}
  BY DEF ChangeFile
<1>1. PICK c \in Contents(m) : disk' = [disk EXCEPT ![m] = c] /\ pending' = pending \cup {m}
  BY <1>0
<1>2. UNCHANGED <<stackVars, masterVars, todo, work, savedVars>>
  BY DEF ChangeFile
<1>3. TypeInv'
  BY <1>1, <1>2 DEF Inv, TypeInv, stackVars, masterVars
<1>4. \A n \in Modules : n # m => disk'[n] = disk[n]
  BY <1>1 DEF Inv, TypeInv
<1>5. \A n \in Modules : \A v : SourceOK(n, v) => SourceOK(n, v)'
  BY <1>1, <1>2, <1>4 DEF SourceOK, masterVars
<1>6. TrackInv'
  BY <1>1, <1>2, <1>4 DEF Inv, TrackInv, masterVars
<1>7. SourceInv'
  BY <1>2, <1>5 DEF Inv, SourceInv, stackVars
<1>8. \A k : (Current(k)' <=> Current(k)) /\ (WasCurrent(k)' <=> WasCurrent(k))
  BY <1>2 DEF Current, WasCurrent, Merged, AllEdges, stackVars, masterVars
<1>9. ValueInv'
  <2>1. \A k : Accounted(k)' <=> Accounted(k)
    BY <1>2, <1>8 DEF Accounted, Known, Registering, Overlooked, Unseen, AllEdges, Due, stackVars, masterVars
  <2> QED
    BY <2>1, <1>2 DEF Inv, ValueInv, stackVars
<1>10. CallInv'
  <2> SUFFICES ASSUME NEW w \in Processes, NEW f \in Calls(w)' PROVE FrameOK(f)'
    BY DEF CallInv
  <2>1. f \in Calls(w)
    BY <1>2 DEF Calls
  <2>2. f \in Frame /\ FrameOK(f)
    BY <2>1, CallsOf DEF Inv, CallInv
  <2>3. f.key \in Key /\ f.key[2] \in Modules
    BY <2>2, KeyIs DEF Frame
  <2> QED
    BY <2>2, <2>3, <1>2, <1>5, <1>8 DEF FrameOK, stackVars
<1>11. RestInv' /\ ScopeInv' /\ SavedInv'
  BY <1>2 DEF Inv, RestInv, AllIdle, ScopeInv, SavedInv, SavedOK, masterVars, savedVars
<1>12. LostInv'
  BY <1>2 DEF Inv, LostInv, Calls, stackVars, masterVars
<1> QED
  BY <1>3, <1>6, <1>7, <1>9, <1>10, <1>11, <1>12 DEF Inv

(* While nothing runs *)
LEMMA AtRest ==
  ASSUME TypeInv, RestInv, AllIdle, UNCHANGED work
  PROVE  /\ \A w \in Processes : Calls(w) = {} /\ work[w].keys = {} /\ work'[w] = Idle /\ Calls(w)' = {}
         /\ \A k : ~ Registering(k) /\ ~ Registering(k)'
         /\ CallInv' /\ AllIdle'
         /\ work' \in [Processes -> [busy : BOOLEAN, stack : Seq(Frame), keys : SUBSET Key]]
<1>1. \A w \in Processes : work[w] = Idle
  BY DEF RestInv, AllIdle
<1>2. \A w \in Processes : work'[w] = Idle
  BY <1>1
<1>3. \A w \in Processes : Calls(w) = {} /\ Calls(w)' = {} /\ work[w].keys = {} /\ work'[w].keys = {}
  BY <1>1, <1>2, IdleIs DEF Calls
<1>4. CallInv'
  BY <1>3 DEF CallInv
<1> QED
  BY <1>1, <1>2, <1>3, <1>4 DEF Registering, AllIdle, TypeInv

LEMMA RestNext ==
  ASSUME TypeInv, RestInv, AllIdle, UNCHANGED work, phase' \in Resting => todo' = {}
  PROVE  RestInv'
BY AtRest DEF RestInv

LEMMA LostNext ==
  ASSUME TypeInv, RestInv, AllIdle, UNCHANGED work, lost' \subseteq ListedKeys,
         phase' = "collect" => todo' \subseteq ListedKeys
  PROVE  LostInv'
BY AtRest DEF LostInv

(* From a phase without a transaction to another one *)
LEMMA PhaseStep ==
  ASSUME WellBehaved, Inv, AllIdle, UNCHANGED <<fileVars, stackVars, tracked, scope, invalidated, work>>,
         \A k \in Key : ~ WasCurrent(k) /\ ~ Due(k),
         phase' \notin {"update", "collect", "stopped"},
         phase' \in Resting => todo' = {}, todo' \subseteq Key, layer' \in Nat, triggered' \subseteq Key
  PROVE  Inv'
<1>1. TypeInv'
  BY DEF Inv, TypeInv, fileVars, stackVars
<1>2. RestInv' /\ CallInv'
  BY RestNext, AtRest DEF Inv
<1>3. TrackInv' /\ SourceInv'
  BY DEF Inv, TrackInv, SourceInv, SourceOK, fileVars, stackVars
<1>4. ValueInv'
  <2> SUFFICES ASSUME NEW k \in Key, k[1] > 0, table'[k] # NULL PROVE Accounted(k)'
    BY DEF ValueInv
  <2>1. Known(k) /\ (Current(k) \/ Overlooked(k))
    BY DEF Inv, ValueInv, Accounted, stackVars
  <2>2. Known(k)' /\ (Current(k)' \/ Overlooked(k)')
    BY <2>1 DEF Known, Registering, Current, Overlooked, Unseen, AllEdges, stackVars
  <2> QED
    BY <2>2 DEF Accounted
<1>5. ScopeInv' /\ SavedInv'
  BY DEF ScopeInv, SavedInv
<1>6. LostInv'
  BY LostNext DEF Inv, LostInv, stackVars
<1> QED
  BY <1>1, <1>2, <1>3, <1>4, <1>5, <1>6 DEF Inv

LEMMA CheckKeys == {<<Checked, m>> : m \in tracked \cap Project} \subseteq Key
<1>1. \A m \in tracked \cap Project : <<Checked, m>> \in Key
  BY LayerAssumption, KeyIs
<1> QED
  BY <1>1

LEMMA EndCollectInv ==
  ASSUME WellBehaved, Inv, EndCollect, UNCHANGED savedVars
  PROVE  Inv'
<1>1. \A k \in Key : ~ WasCurrent(k) /\ ~ Due(k)
  BY DEF WasCurrent, Due, EndCollect
<1>2. todo' \subseteq Key
  BY CheckKeys DEF EndCollect
<1>3. layer' \in Nat /\ triggered' \subseteq Key
  BY DEF EndCollect, Inv, TypeInv
<1> QED
  BY <1>1, <1>2, <1>3, PhaseStep DEF EndCollect, MapDone, savedVars, Resting

LEMMA EndCheckInv ==
  ASSUME WellBehaved, Inv, EndCheck, UNCHANGED savedVars
  PROVE  Inv'
<1>1. \A k \in Key : ~ WasCurrent(k) /\ ~ Due(k)
  BY DEF WasCurrent, Due, EndCheck
<1>2. todo' = {} /\ layer' \in Nat /\ triggered' \subseteq Key
  BY DEF EndCheck, MapDone, Inv, TypeInv
<1> QED
  BY <1>1, <1>2, PhaseStep DEF EndCheck, MapDone, savedVars

LEMMA QueryInv ==
  ASSUME WellBehaved, Inv, Query, UNCHANGED savedVars
  PROVE  Inv'
<1>1. \A k \in Key : ~ WasCurrent(k) /\ ~ Due(k)
  BY DEF WasCurrent, Due, Query
<1>2. todo' \subseteq Key
  <2>1. PICK m \in tracked \cap Project : todo' = {<<Checked, m>>}
    BY DEF Query
  <2> QED
    BY <2>1, CheckKeys
<1>3. layer' \in Nat /\ triggered' \subseteq Key
  BY DEF Query, Inv, TypeInv
<1>4. AllIdle
  BY DEF Query, Inv, RestInv, Resting
<1> QED
  BY <1>1, <1>2, <1>3, <1>4, PhaseStep DEF Query, savedVars, Resting

LEMMA EndUpdateInv ==
  ASSUME WellBehaved, Inv, EndUpdate, UNCHANGED savedVars
  PROVE  Inv'
<1>1. \A k \in Key : ~ WasCurrent(k) /\ ~ Due(k)
  BY KeyIs DEF WasCurrent, Due, EndUpdate
<1>2. AllIdle /\ todo' = {}
  BY DEF EndUpdate, Inv, RestInv, Resting
<1> QED
  BY <1>1, <1>2, PhaseStep DEF EndUpdate, savedVars

-----------------------------------------------------------------------------
(***************************************************************************)
(* The transactions of an update                                           *)
(***************************************************************************)
LEMMA OldifyIs ==
  ASSUME WellBehaved, TypeInv, NEW keys, keys \subseteq Key, Oldify(keys)
  PROVE  /\ table' \in Tables /\ old' \in Tables /\ scope' = keys
         /\ \A k \in Key : table'[k] = IF k \in keys THEN NULL ELSE table[k]
         /\ Merged' = table
<1>1. table \in Tables /\ old \in Tables
  BY DEF TypeInv
<1>2. /\ table' = [k \in Key |-> IF k \in keys THEN NULL ELSE table[k]]
      /\ old' = [k \in Key |-> IF k \in keys THEN table[k] ELSE old[k]]
      /\ scope' = keys
  BY DEF Oldify
<1>3. table' \in Tables /\ old' \in Tables
  BY <1>1, <1>2, TableDrop, TableMix
<1>4. Merged' = [k \in Key |-> table[k]]
  BY <1>2 DEF Merged
<1>5. table = [k \in Key |-> table[k]]
  BY <1>1, TableGet
<1> QED
  BY <1>2, <1>3, <1>4, <1>5

(* What was current is so before the transaction. *)
LEMMA OldifyKeeps ==
  ASSUME WellBehaved, TypeInv, NEW keys, keys \subseteq Key, Oldify(keys), phase' = "update",
         UNCHANGED <<edges, loaded_edges>>, NEW k \in Key, Current(k), table'[k] # NULL
  PROVE  WasCurrent(k)'
<1>1. Merged' = table /\ table'[k] = table[k]
  BY OldifyIs
<1>2. AllEdges' = AllEdges
  BY DEF AllEdges
<1> QED
  BY <1>1, <1>2 DEF Current, WasCurrent

LEMMA StartUpdateInv ==
  ASSUME WellBehaved, Inv, StartUpdate, UNCHANGED savedVars
  PROVE  Inv'
<1> DEFINE Changed(E) == {m \in E : disk[m] # None}
           Removed(E) == {m \in E : disk[m] = None} \cap tracked
           Reparse(E) == {m \in Changed(E) : table[Source(m)] # NULL}
<1>1. PICK E \in SUBSET pending :
        /\ pending' = pending \ E
        /\ tracked' = (tracked \ Removed(E)) \cup Changed(E)
        /\ invalidated' = Removed(E) \cup Reparse(E) \cup (Changed(E) \cap Project)
        /\ Oldify({Source(m) : m \in Removed(E) \cup Reparse(E)})
        /\ todo' = {Source(m) : m \in Reparse(E)}
  BY DEF StartUpdate
<1>2. /\ phase = "idle" /\ phase' = "update" /\ layer' = 0
      /\ UNCHANGED <<disk, changes, edges, loaded_edges, registry, lost, parallel, triggered, work, savedVars>>
  BY DEF StartUpdate
<1>3. TypeInv /\ RestInv /\ AllIdle /\ E \subseteq Modules
  BY <1>2 DEF Inv, RestInv, Resting, TypeInv
<1> DEFINE gone == Removed(E) \cup Reparse(E)
           keys == {Source(m) : m \in gone}
<1>4. gone \subseteq Modules /\ Reparse(E) \subseteq gone
  BY <1>3
<1>5. keys \subseteq Key /\ \A k \in keys : k[1] = 0 /\ k[2] \in gone
  BY <1>4, KeyIs
<1>6. \A m \in Modules : Source(m) \in keys <=> m \in gone
  BY <1>4, KeyIs
<1>7. /\ Oldify(keys) /\ gone \subseteq invalidated' /\ invalidated' \subseteq Modules
      /\ tracked' \subseteq Modules
  BY <1>1, <1>3 DEF TypeInv
<1>8. todo' \subseteq Key
  BY <1>1, <1>4, KeyIs
<1>9. \A m \in Modules :
        /\ m \in E => (m \in tracked' <=> disk[m] # None) /\ m \notin pending'
        /\ m \notin E => (m \in tracked' <=> m \in tracked) /\ (m \in pending' <=> m \in pending)
        /\ m \in E /\ m \notin gone /\ table[Source(m)] # NULL => disk[m] = None /\ m \notin tracked
  BY <1>1, <1>3
<1> HIDE DEF gone, keys
<1>10. /\ table' \in Tables /\ old' \in Tables /\ scope' = keys
       /\ \A k \in Key : table'[k] = IF k \in keys THEN NULL ELSE table[k]
  BY <1>3, <1>5, <1>7, OldifyIs
<1>11. TypeInv'
  BY <1>1, <1>2, <1>3, <1>5, <1>7, <1>8, <1>10 DEF TypeInv
<1>12. TrackInv'
  BY <1>2, <1>9 DEF Inv, TrackInv
<1>13. SourceInv'
  <2> SUFFICES ASSUME NEW m \in Modules, table'[Source(m)] # NULL PROVE SourceOK(m, table[Source(m)])'
    BY DEF SourceInv
  <2>1. m \notin gone /\ table'[Source(m)] = table[Source(m)] /\ table[Source(m)] # NULL
    BY <1>6, <1>10, KeyIs
  <2>2. SourceOK(m, table[Source(m)])
    BY <2>1 DEF Inv, SourceInv
  <2>3. CASE m \in E
    BY <2>1, <2>2, <2>3, <1>2, <1>9 DEF SourceOK
  <2>4. CASE m \notin E
    BY <2>1, <2>2, <2>4, <1>2, <1>9 DEF SourceOK
  <2> QED
    BY <2>3, <2>4
<1>14. ValueInv'
  <2> SUFFICES ASSUME NEW k \in Key, k[1] > 0, table'[k] # NULL PROVE Accounted(k)'
    BY DEF ValueInv
  <2>1. table[k] # NULL
    BY <1>10
  <2>2. Known(k) /\ (Current(k) \/ Overlooked(k))
    BY <2>1, <1>2 DEF Inv, ValueInv, Accounted, WasCurrent, Due
  <2>3. Current(k) => WasCurrent(k)'
    BY <1>2, <1>3, <1>5, <1>7, OldifyKeeps
  <2>4. Known(k)' /\ (Overlooked(k) => Overlooked(k)')
    BY <2>2, <1>2 DEF Known, Registering, Overlooked, Unseen, AllEdges
  <2> QED
    BY <2>2, <2>3, <2>4 DEF Accounted
<1>15. ScopeInv'
  BY <1>2, <1>5, <1>7, <1>10 DEF ScopeInv
<1>16. RestInv' /\ CallInv' /\ SavedInv'
  BY <1>2, <1>3, RestNext, AtRest DEF Resting, SavedInv
<1>17. LostInv'
  BY <1>2, <1>3, LostNext DEF Inv, LostInv
<1> QED
  BY <1>11, <1>12, <1>13, <1>14, <1>15, <1>16, <1>17 DEF Inv

LEMMA StartLayerInv ==
  ASSUME WellBehaved, Inv, StartLayer, UNCHANGED savedVars
  PROVE  Inv'
<1>1. /\ phase = "start" /\ layer \in 1 .. Layers /\ Oldify(TriggerMap)
      /\ todo' = TriggerMap /\ phase' = "update"
      /\ UNCHANGED <<fileVars, tracked, parallel, edges, loaded_edges, registry, lost, layer, invalidated,
                     triggered, work, savedVars>>
  BY DEF StartLayer
<1>2. TypeInv /\ RestInv /\ AllIdle
  BY <1>1 DEF Inv, RestInv, Resting
<1>3. TriggerMap \subseteq Key /\ \A k \in TriggerMap : k[1] = layer
  BY <1>2 DEF TriggerMap, TypeInv
<1>4. /\ table' \in Tables /\ old' \in Tables /\ scope' = TriggerMap
      /\ \A k \in Key : table'[k] = IF k \in TriggerMap THEN NULL ELSE table[k]
  BY <1>1, <1>2, <1>3, OldifyIs
<1>5. TypeInv'
  BY <1>1, <1>2, <1>3, <1>4 DEF TypeInv, fileVars
<1>6. \A m \in Modules : table'[Source(m)] = table[Source(m)]
  BY <1>1, <1>3, <1>4, KeyIs
<1>7. TrackInv' /\ SourceInv'
  BY <1>1, <1>6 DEF Inv, TrackInv, SourceInv, SourceOK, fileVars
<1>8. ValueInv'
  <2> SUFFICES ASSUME NEW k \in Key, k[1] > 0, table'[k] # NULL PROVE Accounted(k)'
    BY DEF ValueInv
  <2>1. table[k] # NULL /\ k \notin TriggerMap
    BY <1>4
  <2>2. Known(k) /\ (Current(k) \/ Due(k) \/ Overlooked(k))
    BY <2>1, <1>1 DEF Inv, ValueInv, Accounted, WasCurrent
  <2>3. Current(k) => WasCurrent(k)'
    BY <1>1, <1>2, <1>3, OldifyKeeps
  <2>4. Due(k) => Due(k)'
    <3>1. k[1] \in Nat
      BY KeyIs
    <3> QED
      BY <3>1, <2>1, <1>1, <1>2 DEF Due, TriggerMap
  <2>5. Known(k)' /\ (Overlooked(k) => Overlooked(k)')
    BY <2>2, <1>1 DEF Known, Registering, Overlooked, Unseen, AllEdges
  <2> QED
    BY <2>2, <2>3, <2>4, <2>5 DEF Accounted
<1>9. ScopeInv'
  BY <1>1, <1>3, <1>4 DEF ScopeInv
<1>10. RestInv' /\ CallInv' /\ SavedInv'
  BY <1>1, <1>2, RestNext, AtRest DEF Resting, SavedInv
<1>11. LostInv'
  BY <1>1, <1>2, LostNext DEF Inv, LostInv
<1> QED
  BY <1>5, <1>7, <1>8, <1>9, <1>10, <1>11 DEF Inv

(* A value that depends on what the transaction has changed *)
LEMMA DependsOnChange ==
  ASSUME WellBehaved, Inv, NEW k \in Key, k[1] > 0, WasCurrent(k), ~ Current(k)
  PROVE  \E r \in scope : /\ r \in Reads(k, Merged) /\ r \in Key /\ r[1] < k[1]
                          /\ old[r] # table[r] /\ <<r, Hash(k)>> \in AllEdges
<1>1. TypeInv /\ table \in Tables
  BY DEF Inv, TypeInv
<1>2. Merged \in Tables /\ \A r \in Key : Merged[r] = IF r \in scope THEN old[r] ELSE table[r]
  BY <1>1, MergedIs
<1>3. Justified(k, table[k], Merged, AllEdges)
  BY DEF WasCurrent
<1>4. Reads(k, Merged) \subseteq {r \in Key : r[1] < k[1]}
  BY <1>2, ReadsBelow
<1>5. ~ Agree(k, Merged, table)
  BY <1>1, <1>2, <1>3, JustifiedStable DEF Current
<1>6. PICK r \in Reads(k, Merged) : Merged[r] # table[r]
  BY <1>5 DEF Agree
<1>7. <<r, Hash(k)>> \in AllEdges
  BY <1>3 DEF Justified
<1> QED
  BY <1>2, <1>4, <1>6, <1>7

LEMMA FoundByQuery ==
  ASSUME NEW keys, NEW r \in keys, NEW k \in registry, <<r, Hash(k)>> \in AllEdges
  PROVE  k \in Dependents(keys)
<1>1. <<r, Hash(k)>> \in {x \in edges \cup loaded_edges : x[1] \in keys}
  BY DEF AllEdges
<1>2. Hash(k) \in {e[2] : e \in {x \in edges \cup loaded_edges : x[1] \in keys}}
  BY <1>1
<1> QED
  BY <1>2 DEF Dependents

LEMMA LostReadsSources ==
  ASSUME WellBehaved, NEW k \in ListedKeys, NEW t \in Tables, NEW r \in Reads(k, t)
  PROVE  r[1] = 0
<1>1. k[2] \in Modules /\ k = <<Listed, k[2]>>
  BY ListedIs
<1> QED
  BY <1>1 DEF WellBehaved, WellBehavedWith, Tables

LEMMA ManualKeys ==
  ASSUME WellBehaved, TypeInv
  PROVE  /\ Manual \X invalidated \subseteq Key /\ \A k \in Manual \X invalidated : k[1] >= 1
         /\ \A k \in ListedKeys : k[2] \in invalidated => k \in Manual \X invalidated
<1>1. Listed \in Manual /\ Manual \subseteq 1 .. Layers /\ invalidated \subseteq Modules /\ Layers \in Nat
  BY LayerAssumption DEF WellBehaved, WellBehavedWith, TypeInv
<1>2. \A k \in Manual \X invalidated : k \in Key /\ k[1] >= 1
  <2> SUFFICES ASSUME NEW l \in Manual, NEW m \in invalidated PROVE <<l, m>> \in Key /\ l >= 1
    OBVIOUS
  <2> QED
    BY <1>1, KeyIs
<1>3. \A k \in ListedKeys : k[2] \in invalidated => <<Listed, k[2]>> \in Manual \X invalidated
  BY <1>1
<1> QED
  BY <1>2, <1>3, ListedIs

LEMMA TransactionEnds ==
  ASSUME WellBehaved, Inv, phase = "update", MapDone, EndTransaction, UNCHANGED savedVars,
         triggered' \subseteq Key, registry' \subseteq Key, invalidated' \subseteq Modules,
         DependentsOfChanges \subseteq triggered',
         layer > 0 => triggered \subseteq triggered' /\ registry' = registry,
         layer = 0 => Manual \X invalidated \subseteq triggered' /\ registry' = registry \cup (Manual \X invalidated)
  PROVE  Inv'
<1>1. /\ old' = [k \in Key |-> IF k \in scope THEN NULL ELSE old[k]]
      /\ scope' = {} /\ layer' = layer + 1 /\ phase' = "start"
      /\ UNCHANGED <<fileVars, tracked, parallel, table, edges, loaded_edges, lost, todo, work, savedVars>>
  BY DEF EndTransaction
<1>2. TypeInv /\ RestInv /\ AllIdle /\ todo = {} /\ layer \in Nat
  BY DEF MapDone, Inv, TypeInv
<1>3. TypeInv'
  <2>1. old' \in Tables
    BY <1>1, <1>2, TableDrop DEF TypeInv
  <2> QED
    BY <2>1, <1>1, <1>2 DEF TypeInv, fileVars
<1>4. TrackInv' /\ SourceInv'
  BY <1>1 DEF Inv, TrackInv, SourceInv, SourceOK, fileVars
<1>5. ValueInv'
  <2> SUFFICES ASSUME NEW k \in Key, k[1] > 0, table'[k] # NULL PROVE Accounted(k)'
    BY DEF ValueInv
  <2>0. k[1] \in Nat /\ k[2] \in Modules /\ AllEdges' = AllEdges /\ ~ Registering(k) /\ ~ Registering(k)'
    BY <1>1, <1>2, KeyIs, AtRest DEF AllEdges
  <2>1. Known(k) /\ (Current(k) \/ WasCurrent(k) \/ Due(k) \/ Overlooked(k))
    BY <1>1 DEF Inv, ValueInv, Accounted
  <2>2. k \in registry \cup lost
    BY <2>0, <2>1 DEF Known
  <2>3. registry \subseteq registry' /\ Known(k)'
    BY <2>2, <1>1, <1>2 DEF Known
  <2>4. Current(k) => Current(k)'
    BY <2>0, <1>1 DEF Current
  <2>5. Due(k) => Due(k)'
    BY <2>0, <1>1, <1>2 DEF Due
  <2>6. k \in triggered' /\ layer < k[1] => Due(k)'
    BY <2>0, <1>1, <1>2 DEF Due
  <2>7. ASSUME k \in registry' \ registry PROVE Due(k)'
    <3>1. layer = 0 /\ k \in Manual \X invalidated
      BY <2>7, <1>2
    <3> QED
      BY <3>1, <2>6
  <2>8. Overlooked(k) => Overlooked(k)' \/ Due(k)'
    BY <2>0, <2>7, <1>1 DEF Overlooked, Unseen
  <2>9. ASSUME WasCurrent(k), ~ Current(k) PROVE Due(k)' \/ Overlooked(k)'
    <3>1. PICK r \in scope : /\ r \in Reads(k, Merged) /\ r \in Key /\ r[1] < k[1]
                            /\ old[r] # table[r] /\ <<r, Hash(k)>> \in AllEdges
      BY <2>9, DependsOnChange
    <3>2. r[1] = layer /\ (layer = 0 => r[2] \in invalidated)
      BY DEF Inv, ScopeInv
    <3>3. CASE k \in registry
      <4>1. k \in DependentsOfChanges
        BY <3>1, <3>3, FoundByQuery DEF DependentsOfChanges
      <4> QED
        BY <4>1, <3>1, <3>2, <2>6
    <3>4. CASE k \notin registry
      <4>1. k \in lost /\ k \in ListedKeys
        BY <3>4, <2>2 DEF Inv, LostInv
      <4>2. r[1] = 0 /\ r = Source(r[2]) /\ r[2] \in Modules /\ r[2] \in invalidated
        BY <4>1, <3>1, <3>2, <1>2, MergedIs, LostReadsSources, KeyIs
      <4>3. CASE r[2] = k[2]
        <5>1. k \in Manual \X invalidated
          BY <4>1, <4>2, <4>3, <1>2, ManualKeys
        <5> QED
          BY <5>1, <4>2, <3>1, <3>2, <2>6
      <4>4. CASE r[2] # k[2]
        <5>1. CASE k \in registry'
          BY <5>1, <3>4, <2>7
        <5>2. CASE k \notin registry'
          BY <5>2, <4>1, <4>2, <4>4, <3>1, <2>0, <1>1 DEF Overlooked, Unseen
        <5> QED
          BY <5>1, <5>2
      <4> QED
        BY <4>3, <4>4
    <3> QED
      BY <3>3, <3>4
  <2> QED
    BY <2>1, <2>3, <2>4, <2>5, <2>8, <2>9 DEF Accounted
<1>6. ScopeInv' /\ SavedInv'
  BY <1>1 DEF ScopeInv, SavedInv
<1>7. RestInv' /\ CallInv'
  BY <1>1, <1>2, RestNext, AtRest
<1>8. LostInv'
  BY <1>1, <1>2, LostNext DEF Inv, LostInv
<1> QED
  BY <1>3, <1>4, <1>5, <1>6, <1>7, <1>8 DEF Inv

LEMMA DependentsRegistered == \A keys : Dependents(keys) \subseteq registry
BY DEF Dependents

LEMMA EndSourcesInv ==
  ASSUME WellBehaved, Inv, EndSources, UNCHANGED savedVars
  PROVE  Inv'
<1>1. /\ phase = "update" /\ layer = 0 /\ MapDone /\ EndTransaction /\ invalidated' = {}
      /\ triggered' = DependentsOfChanges \cup (Manual \X invalidated)
      /\ registry' = registry \cup (Manual \X invalidated)
  BY DEF EndSources
<1>2. Manual \X invalidated \subseteq Key /\ registry \subseteq Key
  BY ManualKeys DEF Inv, TypeInv
<1>3. DependentsOfChanges \subseteq registry
  BY DependentsRegistered DEF DependentsOfChanges
<1> QED
  BY <1>1, <1>2, <1>3, TransactionEnds

LEMMA EndLayerInv ==
  ASSUME WellBehaved, Inv, EndLayer, UNCHANGED savedVars
  PROVE  Inv'
<1>1. /\ phase = "update" /\ layer > 0 /\ MapDone /\ EndTransaction
      /\ triggered' = triggered \cup DependentsOfChanges
      /\ UNCHANGED <<registry, invalidated>>
  BY DEF EndLayer
<1>2. triggered \subseteq Key /\ registry \subseteq Key /\ invalidated \subseteq Modules /\ layer \in Nat
  BY DEF Inv, TypeInv
<1>3. DependentsOfChanges \subseteq registry
  BY DependentsRegistered DEF DependentsOfChanges
<1> QED
  BY <1>1, <1>2, <1>3, TransactionEnds

LEMMA RemoveLazyInv ==
  ASSUME WellBehaved, Inv, RemoveLazy, UNCHANGED savedVars
  PROVE  Inv'
<1>1. /\ phase = "start" /\ layer \in 1 .. Layers
      /\ table' = [k \in Key |-> IF k \in TriggerMap THEN NULL ELSE table[k]]
      /\ triggered' = triggered \cup Dependents(TriggerMap)
      /\ layer' = layer + 1
      /\ UNCHANGED <<fileVars, tracked, parallel, old, edges, loaded_edges, registry, lost, phase, scope,
                     invalidated, todo, work, savedVars>>
  BY LayerAssumption DEF RemoveLazy
<1>2. TypeInv /\ RestInv /\ AllIdle /\ todo = {}
  BY <1>1 DEF Inv, RestInv, Resting
<1>3. TriggerMap \subseteq Key /\ \A k \in TriggerMap : k[1] = layer
  BY <1>2 DEF TriggerMap, TypeInv
<1>4. /\ table \in Tables /\ table' \in Tables
      /\ \A k \in Key : table'[k] = IF k \in TriggerMap THEN NULL ELSE table[k]
  BY <1>1, <1>2, TableDrop DEF TypeInv
<1>5. TypeInv'
  BY <1>1, <1>2, <1>4, DependentsRegistered DEF TypeInv, fileVars
<1>6. \A m \in Modules : table'[Source(m)] = table[Source(m)]
  BY <1>1, <1>3, <1>4, KeyIs
<1>7. TrackInv' /\ SourceInv'
  BY <1>1, <1>6 DEF Inv, TrackInv, SourceInv, SourceOK, fileVars
<1>8. ValueInv'
  <2> SUFFICES ASSUME NEW k \in Key, k[1] > 0, table'[k] # NULL PROVE Accounted(k)'
    BY DEF ValueInv
  <2>0. k[1] \in Nat /\ AllEdges' = AllEdges /\ ~ Registering(k)
    BY <1>1, <1>2, KeyIs, AtRest DEF AllEdges
  <2>1. table'[k] = table[k] /\ table[k] # NULL /\ k \notin TriggerMap
    BY <1>4
  <2>2. Known(k) /\ (Current(k) \/ Due(k) \/ Overlooked(k))
    BY <2>1, <1>1 DEF Inv, ValueInv, Accounted, WasCurrent
  <2>3. Known(k)' /\ (Overlooked(k) => Overlooked(k)')
    BY <2>2, <1>1 DEF Known, Registering, Overlooked, Unseen, AllEdges
  <2>4. Due(k) => Due(k)'
    BY <2>0, <2>1, <1>1, <1>2 DEF Due, TriggerMap
  <2>5. ASSUME Current(k) PROVE Current(k)' \/ Due(k)'
    <3>1. CASE Agree(k, table, table')
      <4>1. Justified(k, table[k], table', AllEdges)
        BY <3>1, <2>5, <1>4, JustifiedStable DEF Current
      <4> QED
        BY <4>1, <2>0, <2>1 DEF Current
    <3>2. CASE ~ Agree(k, table, table')
      <4>1. PICK r \in Reads(k, table) : table'[r] # table[r]
        BY <3>2 DEF Agree
      <4>2. r \in Key /\ r[1] < k[1] /\ <<r, Hash(k)>> \in AllEdges
        BY <2>5, <1>4, ReadsBelow DEF Current, Justified
      <4>3. r \in TriggerMap /\ r[1] = layer
        BY <4>1, <4>2, <1>3, <1>4
      <4>4. k \in registry
        <5> SUFFICES ASSUME k \notin registry PROVE FALSE
          OBVIOUS
        <5>1. k \in ListedKeys
          BY <2>0, <2>2 DEF Known, Inv, LostInv
        <5> QED
          BY <5>1, <4>3, <1>1, <1>4, LostReadsSources
      <4>5. k \in Dependents(TriggerMap)
        BY <4>2, <4>3, <4>4, FoundByQuery
      <4> QED
        BY <4>2, <4>3, <4>5, <2>0, <1>1, <1>2 DEF Due
    <3> QED
      BY <3>1, <3>2
  <2> QED
    BY <2>2, <2>3, <2>4, <2>5 DEF Accounted
<1>9. ScopeInv' /\ SavedInv'
  BY <1>1 DEF ScopeInv, SavedInv
<1>10. RestInv' /\ CallInv'
  BY <1>1, <1>2, RestNext, AtRest
<1>11. LostInv'
  BY <1>1, <1>2, LostNext DEF Inv, LostInv
<1> QED
  BY <1>5, <1>7, <1>8, <1>9, <1>10, <1>11 DEF Inv

-----------------------------------------------------------------------------
(***************************************************************************)
(* Sessions                                                                *)
(***************************************************************************)
LEMMA SaveStateInv ==
  ASSUME WellBehaved, Inv, SaveState
  PROVE  Inv'
<1>1. /\ phase = "idle" /\ pending = {} /\ loaded_edges = {} /\ phase' = "stopped"
      /\ UNCHANGED <<fileVars, stackVars, tracked, parallel, layer, scope, invalidated, triggered, todo, work, sessions>>
  BY DEF SaveState
<1>2. PICK complete \in BOOLEAN :
        saved' = [table |-> table, edges |-> edges, disk |-> disk, complete |-> complete,
                  registry |-> registry, tracked |-> tracked, lost |-> lost]
  BY DEF SaveState
<1>3. TypeInv /\ RestInv /\ AllIdle /\ todo = {}
  BY <1>1 DEF Inv, RestInv, Resting
<1>4. TypeInv'
  BY <1>1, <1>3 DEF TypeInv, fileVars, stackVars
<1>5. TrackInv' /\ SourceInv'
  BY <1>1 DEF Inv, TrackInv, SourceInv, SourceOK, fileVars, stackVars
<1>6. \A k \in Key : k[1] > 0 /\ table[k] # NULL => Known(k) /\ (Current(k) \/ Overlooked(k))
  BY <1>1 DEF Inv, ValueInv, Accounted, WasCurrent, Due
<1>7. ValueInv'
  <2> SUFFICES ASSUME NEW k \in Key, k[1] > 0, table'[k] # NULL PROVE Accounted(k)'
    BY DEF ValueInv
  <2>1. Known(k) /\ (Current(k) \/ Overlooked(k))
    BY <1>1, <1>6 DEF stackVars
  <2>2. Known(k)' /\ (Current(k)' \/ Overlooked(k)')
    BY <2>1, <1>1 DEF Known, Registering, Current, Overlooked, Unseen, AllEdges, stackVars
  <2> QED
    BY <2>2 DEF Accounted
<1>8. SavedOK(saved')
  <2>1. /\ saved'.table = table /\ saved'.edges = edges /\ saved'.disk = disk
        /\ saved'.registry = registry /\ saved'.tracked = tracked /\ saved'.lost = lost
    BY <1>2
  <2>2. /\ disk \in [Modules -> UNION {Contents(m) : m \in Modules}]
        /\ table \in Tables /\ registry \subseteq Key /\ lost \subseteq ListedKeys
    BY DEF Inv, TypeInv, LostInv
  <2>3. tracked = {m \in Modules : disk[m] # None}
    BY <1>1, <1>3 DEF Inv, TrackInv, TypeInv
  <2>4. \A m \in Modules : table[Source(m)] \in {NULL, disk[m]}
    BY <1>1 DEF Inv, SourceInv, SourceOK
  <2>5. AllEdges = edges /\ \A k : ~ Registering(k)
    BY <1>1, <1>3, AtRest DEF AllEdges
  <2>6. \A k \in Key : k[1] > 0 /\ table[k] # NULL =>
          /\ k \in registry \cup lost
          /\ Justified(k, table[k], table, edges) \/ Unseen(k, registry, lost, edges)
    BY <1>6, <2>5 DEF Known, Current, Overlooked
  <2> QED
    BY <2>1, <2>2, <2>3, <2>4, <2>6 DEF SavedOK
<1>9. SavedInv'
  BY <1>8 DEF SavedInv
<1>10. ScopeInv' /\ RestInv' /\ CallInv'
  BY <1>1, <1>3, RestNext, AtRest DEF ScopeInv
<1>11. LostInv'
  BY <1>1, <1>3, LostNext DEF Inv, LostInv, stackVars
<1> QED
  BY <1>4, <1>5, <1>7, <1>9, <1>10, <1>11 DEF Inv

LEMMA LoadStateInv ==
  ASSUME WellBehaved, Inv, LoadState
  PROVE  Inv'
<1>1. /\ phase = "stopped" /\ phase' = "idle"
      /\ table' = saved.table /\ old' = NoTable /\ edges' = {} /\ loaded_edges' = saved.edges
      /\ registry' = saved.registry /\ lost' = saved.lost /\ tracked' = saved.tracked
      /\ pending' = {m \in Modules : disk[m] # saved.disk[m]}
      /\ UNCHANGED <<disk, changes, parallel, layer, scope, invalidated, triggered, todo, work>>
  BY DEF LoadState, Start
<1>2. TypeInv /\ RestInv /\ AllIdle /\ todo = {} /\ SavedOK(saved)
  BY <1>1 DEF Inv, RestInv, Resting, SavedInv
<1>3. TypeInv'
  BY <1>1, <1>2, NoTableIs DEF TypeInv, SavedOK
<1>4. TrackInv'
  BY <1>1, <1>2 DEF TrackInv, SavedOK
<1>5. SourceInv'
  <2> SUFFICES ASSUME NEW m \in Modules, table'[Source(m)] # NULL PROVE SourceOK(m, table[Source(m)])'
    BY DEF SourceInv
  <2>1. table'[Source(m)] = saved.disk[m] /\ table' \in Tables
    BY <1>1, <1>2 DEF SavedOK
  <2>2. table'[Source(m)] \in Values[Source(m)]
    BY <2>1, TableGet, KeyIs
  <2>3. m \in pending' \/ table'[Source(m)] = disk'[m]
    BY <2>1, <1>1
  <2>4. m \notin tracked' => table'[Source(m)] = None
    BY <2>1, <1>1, <1>2 DEF SavedOK
  <2> QED
    BY <2>2, <2>3, <2>4 DEF SourceOK
<1>6. ValueInv'
  <2> SUFFICES ASSUME NEW k \in Key, k[1] > 0, table'[k] # NULL PROVE Accounted(k)'
    BY DEF ValueInv
  <2>1. /\ k \in registry' \cup lost'
        /\ Justified(k, table'[k], table', loaded_edges') \/ Unseen(k, registry', lost', loaded_edges')
    BY <1>1, <1>2 DEF SavedOK
  <2>2. AllEdges' = loaded_edges' /\ ~ Registering(k)'
    BY <1>1, <1>2, AtRest DEF AllEdges
  <2>3. Known(k)' /\ (Current(k)' \/ Overlooked(k)')
    BY <2>1, <2>2 DEF Known, Current, Overlooked
  <2> QED
    BY <2>3 DEF Accounted
<1>7. ScopeInv' /\ SavedInv' /\ RestInv' /\ CallInv'
  BY <1>1, <1>2, RestNext, AtRest DEF ScopeInv, SavedInv
<1>8. LostInv'
  BY <1>1, <1>2, LostNext DEF SavedOK
<1> QED
  BY <1>3, <1>4, <1>5, <1>6, <1>7, <1>8 DEF Inv

LEMMA FallBackInv ==
  ASSUME WellBehaved, Inv, FallBack
  PROVE  Inv'
<1>1. /\ phase = "stopped"
      /\ tracked' = {m \in Modules : disk[m] # None} /\ table' = NoTable /\ old' = NoTable
      /\ registry' = {} /\ lost' = {} /\ pending' = {}
      /\ \/ phase' = "collect" /\ todo' = {<<Listed, m>> : m \in tracked' \cap Project}
         \/ phase' = "idle" /\ todo' = {}
      /\ UNCHANGED <<disk, changes, parallel, layer, scope, invalidated, triggered, work>>
  BY DEF FallBack, Start, ColdStart
<1>2. TypeInv /\ RestInv /\ AllIdle
  BY <1>1 DEF Inv, RestInv, Resting
<1>3. todo' \subseteq ListedKeys /\ ListedKeys \subseteq Key
  <2>1. {<<Listed, m>> : m \in tracked' \cap Project} \subseteq ListedKeys
    BY LayerAssumption DEF ListedKeys
  <2> QED
    BY <1>1, <2>1, ListedIs
<1>4. TypeInv'
  BY <1>1, <1>2, <1>3, NoTableIs DEF TypeInv
<1>5. TrackInv' /\ SourceInv' /\ ValueInv'
  BY <1>1, NoTableIs, KeyIs DEF TrackInv, SourceInv, ValueInv
<1>6. ScopeInv' /\ SavedInv' /\ RestInv' /\ CallInv'
  BY <1>1, <1>2, RestNext, AtRest DEF ScopeInv, SavedInv, Resting
<1>7. LostInv'
  BY <1>1, <1>2, <1>3, LostNext
<1> QED
  BY <1>4, <1>5, <1>6, <1>7 DEF Inv

LEMMA DoesNotStartInv ==
  ASSUME WellBehaved, Inv, DoesNotStart
  PROVE  Inv'
<1>1. /\ phase = "stopped" /\ phase' = "down"
      /\ UNCHANGED <<fileVars, stackVars, tracked, parallel, layer, scope, invalidated, triggered, todo, work>>
  BY DEF DoesNotStart, Start
<1>2. \A k \in Key : ~ WasCurrent(k) /\ ~ Due(k)
  BY <1>1 DEF WasCurrent, Due
<1>3. AllIdle /\ todo' = {} /\ layer' \in Nat /\ triggered' \subseteq Key
  BY <1>1 DEF Inv, RestInv, Resting, TypeInv
<1> QED
  BY <1>1, <1>2, <1>3, PhaseStep

-----------------------------------------------------------------------------
(***************************************************************************)
(* The invariant holds in every state of every session.                    *)
(***************************************************************************)
LEMMA InitInv == ASSUME WellBehaved, SavedInit PROVE Inv
<1>1. /\ disk \in [Modules -> UNION {Contents(m) : m \in Modules}] /\ \A m \in Modules : disk[m] \in Contents(m)
      /\ tracked = {m \in Modules : disk[m] # None} /\ table = NoTable /\ old = NoTable
      /\ registry = {} /\ lost = {} /\ pending = {}
      /\ \/ phase = "collect" /\ todo = {<<Listed, m>> : m \in tracked \cap Project}
         \/ phase = "idle" /\ todo = {}
      /\ layer = 0 /\ scope = {} /\ invalidated = {} /\ triggered = {}
      /\ work = [w \in Processes |-> Idle]
  BY DEF SavedInit, Init
<1>2. todo \subseteq ListedKeys /\ ListedKeys \subseteq Key
  BY <1>1, ListedIs
<1>3. TypeInv
  <2>1. Idle \in [busy : BOOLEAN, stack : Seq(Frame), keys : SUBSET Key]
    BY DEF Idle
  <2> QED
    BY <1>1, <1>2, <2>1, NoTableIs DEF TypeInv
<1>4. \A w \in Processes : work[w] = Idle /\ Calls(w) = {} /\ work[w].keys = {} /\ ~ work[w].busy
  BY <1>1, <1>3, CallsOf, IdleIs
<1>5. TrackInv /\ SourceInv /\ ValueInv /\ CallInv /\ ScopeInv /\ SavedInv
  BY <1>1, <1>4, NoTableIs, KeyIs DEF TrackInv, SourceInv, ValueInv, CallInv, ScopeInv, SavedInv
<1>6. RestInv /\ LostInv
  BY <1>1, <1>2, <1>4 DEF RestInv, AllIdle, Resting, LostInv
<1> QED
  BY <1>3, <1>5, <1>6 DEF Inv

LEMMA StutterInv == ASSUME Inv, UNCHANGED allVars PROVE Inv'
<1> USE DEF allVars, vars, fileVars, stackVars, masterVars, savedVars
<1>1. TypeInv' /\ RestInv' /\ TrackInv' /\ ScopeInv'
  BY DEF Inv, TypeInv, RestInv, AllIdle, TrackInv, ScopeInv
<1>2. SourceInv' /\ SavedInv' /\ LostInv'
  BY DEF Inv, SourceInv, SourceOK, SavedInv, SavedOK, LostInv, Calls
<1>3. \A k : Current(k)' <=> Current(k)
  BY DEF Current, AllEdges
<1>4. \A k : Accounted(k)' <=> Accounted(k)
  BY <1>3 DEF Accounted, Known, Registering, WasCurrent, Merged, Due, Overlooked, Unseen, AllEdges
<1>5. ValueInv'
  BY <1>4 DEF Inv, ValueInv
<1>6. \A f : FrameOK(f)' <=> FrameOK(f)
  BY <1>3 DEF FrameOK, SourceOK
<1>7. CallInv'
  BY <1>6 DEF Inv, CallInv, Calls
<1> QED
  BY <1>1, <1>2, <1>5, <1>7 DEF Inv

LEMMA NextInv == ASSUME WellBehaved, Inv, [SavedNext]_allVars PROVE Inv'
<1>1. CASE UNCHANGED allVars
  BY <1>1, StutterInv
<1>2. CASE SessionStep
  BY <1>2, SaveStateInv, LoadStateInv, FallBackInv, DoesNotStartInv DEF SessionStep
<1>3. CASE Next /\ UNCHANGED savedVars
  <2>1. CASE ChangeFile \/ Query
    BY <2>1, <1>3, ChangeFileInv, QueryInv
  <2>2. CASE MasterStep
    BY <2>2, <1>3, EndCollectInv, EndCheckInv, StartUpdateInv, EndSourcesInv, StartLayerInv, EndLayerInv,
       RemoveLazyInv, EndUpdateInv DEF MasterStep
  <2>3. CASE \E w \in Processes : WorkerStep(w)
    BY <2>3, <1>3, TakeJobInv, ReadMissingInv, RawAddInv, ProduceValueInv, FinishJobInv DEF WorkerStep
  <2> QED
    BY <1>3, <2>1, <2>2, <2>3 DEF Next
<1> QED
  BY <1>1, <1>2, <1>3 DEF SavedNext

LEMMA Invariant == ASSUME WellBehaved PROVE SavedSpec => []Inv
<1>1. SavedInit => Inv
  BY InitInv
<1>2. Inv /\ [SavedNext]_allVars => Inv'
  BY NextInv
<1> QED
  BY <1>1, <1>2, PTL DEF SavedSpec

-----------------------------------------------------------------------------
(***************************************************************************)
(* Induction on numbers, for sets                                          *)
(***************************************************************************)
Less == {p \in Nat \X Nat : p[1] < p[2]}

LEMMA LessWellFounded == IsWellFoundedOn(Less, Nat)
BY NatLessThanWellFounded DEF OpToRel, Less

LEMMA Induction ==
  ASSUME NEW S, 0 \in S, \A n \in Nat : n \in S => n + 1 \in S
  PROVE  Nat \subseteq S
<1> DEFINE T == Nat \ S
<1> SUFFICES ASSUME T # {} PROVE FALSE
  OBVIOUS
<1>1. T \subseteq Nat /\ T # {}
  OBVIOUS
<1> HIDE DEF T
<1>2. PICK x \in T : \A y \in T : ~ (<<y, x>> \in Less)
  BY <1>1, LessWellFounded, WFMin
<1>3. \A y \in T : ~ (y < x)
  BY <1>1, <1>2 DEF Less
<1>4. x \in Nat /\ x # 0 /\ x \notin S
  BY <1>1 DEF T
<1>5. x - 1 \in Nat /\ x - 1 < x /\ (x - 1) + 1 = x
  BY <1>4
<1>6. x - 1 \in S
  BY <1>3, <1>5 DEF T
<1> QED
  BY <1>4, <1>5, <1>6

-----------------------------------------------------------------------------
(***************************************************************************)
(* From scratch                                                            *)
(***************************************************************************)
Bottom == [k \in Key |-> IF k[1] = 0 THEN disk[k[2]] ELSE NULL]
Here(k, t) == IF k \in Unwatched THEN table[k] ELSE Produce(k, t)
Above(l, t) == [k \in Key |-> IF k[1] # l THEN t[k] ELSE Here(k, t)]
IsScratch(g, n) == \A l \in 0 .. n : g[l] = IF l = 0 THEN Bottom ELSE Above(l, g[l - 1])

LEMMA ScratchIs == IsScratch(Scratch, Layers)
<1>0. Layers \in Nat
  BY LayerAssumption
<1> DEFINE S == {n \in Nat : \E g : IsScratch(g, n)}
<1>1. 0 \in S
  <2> DEFINE g == [l \in 0 .. 0 |-> Bottom]
  <2>1. IsScratch(g, 0)
    BY DEF IsScratch
  <2> HIDE DEF g
  <2> QED
    BY <2>1
<1>2. ASSUME NEW n \in Nat, n \in S PROVE n + 1 \in S
  <2>1. PICK g : IsScratch(g, n)
    BY <1>2
  <2> DEFINE h == [l \in 0 .. n + 1 |-> IF l = n + 1 THEN Above(n + 1, g[n]) ELSE g[l]]
  <2>2. \A l \in 0 .. n : h[l] = g[l]
    OBVIOUS
  <2>3. h[n + 1] = Above(n + 1, g[n])
    OBVIOUS
  <2> HIDE DEF h
  <2>4. ASSUME NEW l \in 0 .. n + 1 PROVE h[l] = IF l = 0 THEN Bottom ELSE Above(l, h[l - 1])
    <3>1. CASE l = n + 1
      <4>1. l # 0 /\ l - 1 = n /\ h[n] = g[n]
        BY <3>1, <2>2
      <4> QED
        BY <3>1, <4>1, <2>3
    <3>2. CASE l \in 0 .. n
      <4>1. g[l] = IF l = 0 THEN Bottom ELSE Above(l, g[l - 1])
        BY <3>2, <2>1 DEF IsScratch
      <4>2. l # 0 => h[l - 1] = g[l - 1]
        BY <3>2, <2>2
      <4> QED
        BY <3>2, <4>1, <4>2, <2>2
    <3> QED
      BY <3>1, <3>2
  <2>5. IsScratch(h, n + 1)
    BY <2>4 DEF IsScratch
  <2> QED
    BY <2>5
<1> HIDE DEF S
<1>3. Layers \in S
  BY <1>0, <1>1, <1>2, Induction
<1>4. PICK g : IsScratch(g, Layers)
  BY <1>3 DEF S
<1> DEFINE Eq(f) == f = [l \in 0 .. Layers |-> IF l = 0 THEN Bottom ELSE Above(l, f[l - 1])]
<1>5. \E f : Eq(f)
  <2> DEFINE h == [l \in 0 .. Layers |-> g[l]]
  <2>1. \A l \in 0 .. Layers : h[l] = IF l = 0 THEN Bottom ELSE Above(l, h[l - 1])
    BY <1>0, <1>4 DEF IsScratch
  <2>2. h = [l \in 0 .. Layers |-> h[l]]
    OBVIOUS
  <2> HIDE DEF h
  <2>3. Eq(h)
    BY <2>1, <2>2
  <2> QED
    BY <2>3
<1>6. Scratch = CHOOSE f : Eq(f)
  BY DEF Scratch, Bottom, Above, Here
<1>7. Eq(Scratch)
  <2> HIDE DEF Eq
  <2> QED
    BY <1>5, <1>6
<1> QED
  BY <1>0, <1>7 DEF IsScratch

LEMMA BottomIs ==
  ASSUME WellBehaved, TypeInv
  PROVE  Bottom \in Tables /\ \A k \in Key : k[1] = 0 => Bottom[k] = disk[k[2]] /\ Bottom[k] # NULL
<1>1. \A k \in Key : Bottom[k] = IF k[1] = 0 THEN disk[k[2]] ELSE NULL
  BY DEF Bottom
<1>2. Bottom = [k \in Key |-> Bottom[k]]
  BY DEF Bottom
<1>3. \A k \in Key : k[1] = 0 => disk[k[2]] \in Values[k]
  <2> SUFFICES ASSUME NEW k \in Key, k[1] = 0 PROVE disk[k[2]] \in Values[k]
    OBVIOUS
  <2>1. k = Source(k[2]) /\ k[2] \in Modules
    BY KeyIs
  <2> QED
    BY <2>1, NullIsNoValue DEF TypeInv
<1> QED
  BY <1>1, <1>2, <1>3, TableIs, NullIsNoValue

LEMMA AboveIs ==
  ASSUME WellBehaved, TypeInv,
         NEW t \in Tables, NEW l \in Nat, l > 0, \A k \in Key : k[1] < l => t[k] # NULL
  PROVE  /\ Above(l, t) \in Tables
         /\ \A k \in Key : Above(l, t)[k] = IF k[1] # l THEN t[k] ELSE Here(k, t)
         /\ \A k \in Key : k[1] = l => Here(k, t) # NULL
<1>1. \A k \in Key : Above(l, t)[k] = IF k[1] # l THEN t[k] ELSE Here(k, t)
  BY DEF Above
<1>2. Above(l, t) = [k \in Key |-> Above(l, t)[k]]
  BY DEF Above
<1>3. \A k \in Key : k[1] = l => Here(k, t) \in Values[k] /\ Here(k, t) # NULL
  <2> SUFFICES ASSUME NEW k \in Key, k[1] = l PROVE Here(k, t) \in Values[k] /\ Here(k, t) # NULL
    OBVIOUS
  <2>1. CASE k \in Unwatched
    <3>1. table[k] # NULL
      BY <2>1 DEF Unwatched
    <3>2. table[k] \in Values[k]
      BY <3>1, TableGet DEF TypeInv
    <3> QED
      BY <2>1, <3>1, <3>2 DEF Here
  <2>2. CASE k \notin Unwatched
    <3>1. Full(k, t)
      BY ReadsBelow DEF Full
    <3> QED
      BY <2>2, <3>1, ReadsBelow DEF Here
  <2> QED
    BY <2>1, <2>2
<1>4. Above(l, t) \in Tables
  BY <1>1, <1>2, <1>3, TableGet, TableIs
<1> QED
  BY <1>1, <1>3, <1>4

(* When every watched value is current, the tables are those of scratch,   *)
(* layer by layer.                                                         *)
LEMMA CurrentIsScratch ==
  ASSUME WellBehaved, TypeInv,
         \A m \in Modules : table[Source(m)] \in {NULL, disk[m]},
         \A k \in Key : k[1] > 0 /\ table[k] # NULL /\ k \notin Unwatched => Current(k)
  PROVE  \A k \in Key : table[k] \in {NULL, Scratch[Layers][k]}
<1>0. Layers \in Nat /\ table \in Tables
  BY LayerAssumption DEF TypeInv
<1> DEFINE P(n) == /\ Scratch[n] \in Tables
                   /\ \A k \in Key : k[1] <= n => Scratch[n][k] # NULL /\ table[k] \in {NULL, Scratch[n][k]}
           S == {n \in Nat : n <= Layers => P(n)}
<1>1. 0 \in S
  <2>1. Scratch[0] = Bottom
    BY <1>0, ScratchIs DEF IsScratch
  <2>2. \A k \in Key : k[1] <= 0 => k[1] = 0 /\ k = Source(k[2]) /\ k[2] \in Modules
    BY KeyIs
  <2> QED
    BY <2>1, <2>2, BottomIs
<1>2. ASSUME NEW n \in Nat, n \in S PROVE n + 1 \in S
  <2> SUFFICES ASSUME n + 1 <= Layers PROVE P(n + 1)
    OBVIOUS
  <2>1. PICK t : t = Scratch[n]
    OBVIOUS
  <2>2. t \in Tables /\ \A k \in Key : k[1] <= n => t[k] # NULL /\ table[k] \in {NULL, t[k]}
    BY <1>0, <1>2, <2>1
  <2>3. Scratch[n + 1] = Above(n + 1, t)
    <3>1. n + 1 \in 0 .. Layers /\ n + 1 # 0 /\ (n + 1) - 1 = n
      BY <1>0
    <3> QED
      BY <2>1, <3>1, ScratchIs DEF IsScratch
  <2>4. \A k \in Key : k[1] \in Nat /\ (k[1] < n + 1 => k[1] <= n)
    BY KeyIs
  <2>5. /\ Above(n + 1, t) \in Tables
        /\ \A k \in Key : Above(n + 1, t)[k] = IF k[1] # n + 1 THEN t[k] ELSE Here(k, t)
        /\ \A k \in Key : k[1] = n + 1 => Here(k, t) # NULL
    <3>1. n + 1 \in Nat /\ n + 1 > 0 /\ \A k \in Key : k[1] < n + 1 => t[k] # NULL
      BY <2>2, <2>4
    <3> QED
      BY <3>1, <2>2, AboveIs
  <2>6. ASSUME NEW k \in Key, k[1] = n + 1, table[k] # NULL PROVE table[k] = Here(k, t)
    <3> SUFFICES ASSUME k \notin Unwatched PROVE table[k] = Produce(k, t)
      BY DEF Here
    <3>1. k[1] > 0
      BY <2>6
    <3>2. Justified(k, table[k], table, AllEdges)
      BY <2>6, <3>1 DEF Current
    <3>3. Agree(k, table, t)
      <4> SUFFICES ASSUME NEW r \in Reads(k, table) PROVE table[r] = t[r]
        BY DEF Agree
      <4>1. r \in Key /\ r[1] < n + 1 /\ table[r] # NULL
        BY <3>1, <3>2, <2>6, <1>0, ReadsBelow DEF Justified, Full
      <4> QED
        BY <4>1, <2>2, <2>4
    <3>4. Justified(k, table[k], t, AllEdges)
      BY <3>1, <3>2, <3>3, <2>2, <1>0, JustifiedStable
    <3> QED
      BY <3>4 DEF Justified
  <2>7. ASSUME NEW k \in Key, k[1] <= n + 1
        PROVE  Scratch[n + 1][k] # NULL /\ table[k] \in {NULL, Scratch[n + 1][k]}
    <3>1. CASE k[1] = n + 1
      BY <3>1, <2>3, <2>5, <2>6
    <3>2. CASE k[1] # n + 1
      <4>1. k[1] <= n
        BY <3>2, <2>4, <2>7
      <4> QED
        BY <3>2, <4>1, <2>2, <2>3, <2>5
    <3> QED
      BY <3>1, <3>2
  <2> QED
    BY <2>3, <2>5, <2>7
<1> HIDE DEF S
<1>3. Layers \in S
  BY <1>0, <1>1, <1>2, Induction
<1>4. P(Layers)
  BY <1>0, <1>3 DEF S
<1> QED
  BY <1>4, KeyIs

LEMMA FreshHolds == ASSUME WellBehaved, Inv PROVE Fresh
<1> SUFFICES ASSUME phase = "idle", pending = {}
             PROVE  /\ \A k \in Key : table[k] \in {NULL, Scratch[Layers][k]}
                    /\ Unwatched \subseteq {Listed} \X Modules
  BY DEF Fresh
<1>1. \A m \in Modules : table[Source(m)] \in {NULL, disk[m]}
  BY DEF Inv, SourceInv, SourceOK
<1>2. ASSUME NEW k \in Key, k[1] > 0, table[k] # NULL, k \notin Unwatched PROVE Current(k)
  <2>1. Current(k) \/ Overlooked(k)
    BY <1>2 DEF Inv, ValueInv, Accounted, WasCurrent, Due
  <2>2. ~ Overlooked(k)
    BY <1>2 DEF Overlooked, Unseen, AllEdges, Unwatched
  <2> QED
    BY <2>1, <2>2
<1>3. \A k \in Key : table[k] \in {NULL, Scratch[Layers][k]}
  BY <1>1, <1>2, CurrentIsScratch DEF Inv
<1>4. Unwatched \subseteq {Listed} \X Modules
  BY DEF Inv, LostInv, ListedKeys, Unwatched
<1> QED
  BY <1>3, <1>4

LEMMA OwnValueHolds == ASSUME WellBehaved, Inv PROVE OwnValueIsShared
<1> SUFFICES ASSUME NEW w \in Processes, work[w].stack # <<>>, Top(w).key[1] > 0, table[Top(w).key] # NULL
             PROVE  table[Top(w).key] = Produce(Top(w).key, table)
  BY DEF OwnValueIsShared
<1>1. Top(w) \in Calls(w)
  <2>1. /\ Top(w) = work[w].stack[Len(work[w].stack)]
        /\ Len(work[w].stack) \in Nat /\ Len(work[w].stack) > 0
    BY TopIs DEF Inv
  <2> QED
    BY <2>1 DEF Calls
<1>2. Current(Top(w).key)
  BY <1>1 DEF Inv, CallInv, FrameOK
<1> QED
  BY <1>2 DEF Current, Justified

LEMMA ValuesExist == ASSUME NEW V, WellBehavedWith(V) PROVE WellBehaved
BY DEF WellBehaved, Values

(***************************************************************************)
(* Incremental is as good as from scratch: after any history of changes of *)
(* files, of reads by any number of processes, of updates and of sessions  *)
(* that save, load or fall back, what the tables hold when the server has  *)
(* caught up is what a new server would compute (environment.ml,           *)
(* update_this_and_all_preceding_environments).  Exempt are the values     *)
(* that collect_definitions asked for in a worker, if they depend on       *)
(* another module and the dependency was thrown away (Unwatched); what is  *)
(* above such a value is what is computed from it and from the files.      *)
(***************************************************************************)
THEOREM IncrementalIsFresh == ASSUME NEW V, WellBehavedWith(V) PROVE SavedSpec => []Fresh
<1>1. WellBehaved
  BY ValuesExist
<1>2. Inv => Fresh
  BY <1>1, FreshHolds
<1>3. SavedSpec => []Inv
  BY <1>1, Invariant
<1> QED
  BY <1>2, <1>3, PTL

(***************************************************************************)
(* Two processes that compute the same value agree: what produce_value     *)
(* returns to its caller is what the table has, whoever was first to add   *)
(* it and whatever became of the files meanwhile (environment.ml, get).    *)
(***************************************************************************)
THEOREM ProcessesAgree == ASSUME NEW V, WellBehavedWith(V) PROVE SavedSpec => []OwnValueIsShared
<1>1. WellBehaved
  BY ValuesExist
<1>2. Inv => OwnValueIsShared
  BY <1>1, OwnValueHolds
<1>3. SavedSpec => []Inv
  BY <1>1, Invariant
<1> QED
  BY <1>2, <1>3, PTL

-----------------------------------------------------------------------------
(***************************************************************************)
(* The environments: wildcard imports                                      *)
(***************************************************************************)
Found(n, t) == IF t[Source(n)] = NULL THEN {} ELSE Wildcards(t[Source(n)])

Rounds == Cardinality(Modules)
IsVisit(g, m, t, N) ==
  \A i \in 0 .. N :
    g[i] = IF i = 0 THEN Found(m, t) ELSE g[i - 1] \cup UNION {Found(n, t) : n \in g[i - 1]}

LEMMA VisitedIs ==
  ASSUME IsFiniteSet(Modules), NEW m, NEW t
  PROVE  \E g : IsVisit(g, m, t, Rounds) /\ Visited(m, t) = g[Rounds]
<1>0. Rounds \in Nat
  BY FS_CardinalityType DEF Rounds
<1> DEFINE S == {N \in Nat : \E g : IsVisit(g, m, t, N)}
           Next1(x) == x \cup UNION {Found(n, t) : n \in x}
<1> HIDE DEF Next1
<1>1. 0 \in S
  <2> DEFINE g == [i \in 0 .. 0 |-> Found(m, t)]
  <2>1. IsVisit(g, m, t, 0)
    BY DEF IsVisit
  <2> HIDE DEF g
  <2> QED
    BY <2>1
<1>2. ASSUME NEW N \in Nat, N \in S PROVE N + 1 \in S
  <2>1. PICK g : IsVisit(g, m, t, N)
    BY <1>2
  <2> DEFINE h == [i \in 0 .. N + 1 |-> IF i = N + 1 THEN Next1(g[N]) ELSE g[i]]
  <2>2. \A i \in 0 .. N : h[i] = g[i]
    OBVIOUS
  <2>3. h[N + 1] = Next1(g[N])
    OBVIOUS
  <2> HIDE DEF h
  <2>4. ASSUME NEW i \in 0 .. N + 1 PROVE h[i] = IF i = 0 THEN Found(m, t) ELSE Next1(h[i - 1])
    <3>1. CASE i = N + 1
      <4>1. i # 0 /\ i - 1 = N /\ h[N] = g[N]
        BY <3>1, <2>2
      <4> QED
        BY <3>1, <4>1, <2>3
    <3>2. CASE i \in 0 .. N
      <4>1. g[i] = IF i = 0 THEN Found(m, t) ELSE Next1(g[i - 1])
        BY <3>2, <2>1 DEF IsVisit, Next1
      <4>2. i # 0 => h[i - 1] = g[i - 1]
        BY <3>2, <2>2
      <4> QED
        BY <3>2, <4>1, <4>2, <2>2
    <3> QED
      BY <3>1, <3>2
  <2>5. IsVisit(h, m, t, N + 1)
    BY <2>4 DEF IsVisit, Next1
  <2> QED
    BY <2>5
<1> HIDE DEF S
<1>3. Rounds \in S
  BY <1>0, <1>1, <1>2, Induction
<1>4. PICK g : IsVisit(g, m, t, Rounds)
  BY <1>3 DEF S
<1> DEFINE Eq(f) == f = [i \in 0 .. Rounds |-> IF i = 0 THEN Found(m, t) ELSE Next1(f[i - 1])]
<1>5. \E f : Eq(f)
  <2> DEFINE h == [i \in 0 .. Rounds |-> g[i]]
  <2>0. \A i \in 0 .. Rounds : g[i] = IF i = 0 THEN Found(m, t) ELSE Next1(g[i - 1])
    BY <1>4 DEF IsVisit, Next1
  <2>1. \A i \in 0 .. Rounds : h[i] = IF i = 0 THEN Found(m, t) ELSE Next1(h[i - 1])
    BY <1>0, <2>0
  <2>2. h = [i \in 0 .. Rounds |-> h[i]]
    OBVIOUS
  <2> HIDE DEF h
  <2>3. Eq(h)
    BY <2>1, <2>2
  <2> QED
    BY <2>3
<1> DEFINE v == CHOOSE f : Eq(f)
<1>6. Visited(m, t) = v[Rounds]
  BY DEF Visited, Found, Rounds, Next1
<1>7. Eq(v)
  <2> HIDE DEF Eq
  <2> QED
    BY <1>5
<1>8. IsVisit(v, m, t, Rounds)
  <2> HIDE DEF v
  <2> QED
    BY <1>0, <1>7 DEF IsVisit, Next1
<1> QED
  BY <1>6, <1>8

(* What is visited once stays visited. *)
LEMMA VisitGrows ==
  ASSUME NEW m, NEW t, NEW g, NEW N \in Nat, IsVisit(g, m, t, N), NEW n \in 0 .. N
  PROVE  g[n] \subseteq g[N]
<1> DEFINE S == {j \in Nat : n + j <= N => g[n] \subseteq g[n + j]}
<1>1. 0 \in S
  OBVIOUS
<1>2. ASSUME NEW j \in Nat, j \in S PROVE j + 1 \in S
  <2> SUFFICES ASSUME n + (j + 1) <= N PROVE g[n] \subseteq g[n + (j + 1)]
    OBVIOUS
  <2>1. PICK i \in 0 .. N : i = n + (j + 1) /\ i # 0 /\ i - 1 = n + j
    OBVIOUS
  <2>2. g[i - 1] \subseteq g[i]
    BY <2>1 DEF IsVisit
  <2> QED
    BY <1>2, <2>1, <2>2
<1> HIDE DEF S
<1>3. N - n \in S
  BY <1>1, <1>2, Induction
<1> QED
  BY <1>3 DEF S

(* The files import and use modules of the project. *)
FilesAreClosed ==
  \A m \in Modules : \A c \in Contents(m) : Wildcards(c) \subseteq Modules /\ Uses(c) \subseteq Modules

Interfaces == {Interface(c) : c \in (UNION {Contents(m) : m \in Modules}) \cup {None}}
NameTables == UNION {[N -> Interfaces] : N \in SUBSET Modules}
Components == {None} \cup [interface : Interfaces, names : NameTables]
Attributes == [attributes : Components]
Definitions(m) == {None} \cup [source : Contents(m), names : NameTables]
TypeTables == UNION {[N -> Attributes] : N \in SUBSET Modules}

EnvironmentValues ==
  [k \in Key |->
     CASE k[1] = 0 -> Contents(k[2]) \cup {None}
       [] k[1] = 1 -> Components
       [] k[1] = 2 -> Attributes
       [] k[1] = 3 -> Definitions(k[2])
       [] k[1] = 4 -> {None} \cup [checked : Definitions(k[2]), types : TypeTables]]

(* The four environments are those that EnvironmentStack is about. *)
FourEnvironments ==
  /\ Layers = 4 /\ Listed = 3 /\ Manual = {1, 3}
  /\ \A k, t : Reads(k, t) = EnvironmentReads(k, t) /\ Produce(k, t) = EnvironmentValue(k, t)
  /\ IsFiniteSet(Modules) /\ FilesAreClosed
  /\ \A k \in Key : NULL \notin EnvironmentValues[k]

EnvironmentTables == TablesOf(EnvironmentValues)

LEMMA EnvironmentValuesOf ==
  ASSUME FourEnvironments, NEW m \in Modules
  PROVE  /\ EnvironmentValues[Source(m)] = Contents(m) \cup {None}
         /\ EnvironmentValues[<<1, m>>] = Components
         /\ EnvironmentValues[<<2, m>>] = Attributes
         /\ EnvironmentValues[<<3, m>>] = Definitions(m)
         /\ EnvironmentValues[<<4, m>>] = {None} \cup [checked : Definitions(m), types : TypeTables]
<1>1. Layers = 4
  BY DEF FourEnvironments
<1> DEFINE Of(l, x) ==
      CASE l = 0 -> Contents(x) \cup {None}
        [] l = 1 -> Components
        [] l = 2 -> Attributes
        [] l = 3 -> Definitions(x)
        [] l = 4 -> {None} \cup [checked : Definitions(x), types : TypeTables]
<1>2. EnvironmentValues = [k \in Key |-> Of(k[1], k[2])]
  BY Zenon DEF EnvironmentValues
<1>3. /\ Of(0, m) = Contents(m) \cup {None}
      /\ Of(1, m) = Components
      /\ Of(2, m) = Attributes
      /\ Of(3, m) = Definitions(m)
      /\ Of(4, m) = {None} \cup [checked : Definitions(m), types : TypeTables]
  <2> HIDE DEF Components, Attributes, Definitions, TypeTables
  <2> QED
    OBVIOUS
<1> HIDE DEF Of
<1>4. ASSUME NEW l \in 0 .. 4 PROVE EnvironmentValues[<<l, m>>] = Of(l, m)
  <2>1. <<l, m>> \in Key
    BY <1>1, <1>4 DEF Key
  <2> QED
    BY <1>2, <2>1
<1> QED
  BY <1>3, <1>4 DEF Source

LEMMA EnvironmentTable ==
  ASSUME FourEnvironments, NEW t \in EnvironmentTables, NEW m \in Modules
  PROVE  /\ t[Source(m)] \in Contents(m) \cup {None, NULL}
         /\ t[<<1, m>>] \in Components \cup {NULL}
         /\ t[<<2, m>>] \in Attributes \cup {NULL}
         /\ t[<<3, m>>] \in Definitions(m) \cup {NULL}
<1>1. Layers = 4
  BY DEF FourEnvironments
<1>2. Source(m) \in Key /\ <<1, m>> \in Key /\ <<2, m>> \in Key /\ <<3, m>> \in Key
  BY <1>1 DEF Key, Source
<1>3. \A k \in Key : t[k] \in EnvironmentValues[k] \cup {NULL}
  BY DEF EnvironmentTables, TablesOf
<1>4. /\ EnvironmentValues[Source(m)] = Contents(m) \cup {None}
      /\ EnvironmentValues[<<1, m>>] = Components
      /\ EnvironmentValues[<<2, m>>] = Attributes
      /\ EnvironmentValues[<<3, m>>] = Definitions(m)
  BY EnvironmentValuesOf
<1> QED
  BY <1>2, <1>3, <1>4

LEMMA FoundInModules ==
  ASSUME FourEnvironments, NEW t \in EnvironmentTables, NEW m \in Modules
  PROVE  Found(m, t) \subseteq Modules
<1>1. t[Source(m)] \in Contents(m) \cup {None, NULL}
  BY EnvironmentTable
<1>2. \A c \in Contents(m) : Wildcards(c) \subseteq Modules
  BY DEF FourEnvironments, FilesAreClosed
<1>3. Wildcards(None) = {}
  BY DEF Wildcards
<1> QED
  BY <1>1, <1>2, <1>3 DEF Found

LEMMA VisitedInModules ==
  ASSUME FourEnvironments, NEW t \in EnvironmentTables, NEW m \in Modules
  PROVE  Visited(m, t) \subseteq Modules
<1>0. IsFiniteSet(Modules) /\ Rounds \in Nat
  BY FS_CardinalityType DEF FourEnvironments, Rounds
<1>1. PICK g : IsVisit(g, m, t, Rounds) /\ Visited(m, t) = g[Rounds]
  BY <1>0, VisitedIs
<1> DEFINE S == {i \in Nat : i <= Rounds => g[i] \subseteq Modules}
<1>2. 0 \in S
  <2>1. 0 \in 0 .. Rounds
    BY <1>0
  <2>2. g[0] = Found(m, t)
    BY <1>1, <2>1 DEF IsVisit
  <2>3. Found(m, t) \subseteq Modules
    BY FoundInModules
  <2> QED
    BY <2>2, <2>3
<1>3. ASSUME NEW i \in Nat, i \in S PROVE i + 1 \in S
  <2> SUFFICES ASSUME i + 1 <= Rounds PROVE g[i + 1] \subseteq Modules
    OBVIOUS
  <2>1. g[i] \subseteq Modules
    BY <1>0, <1>3
  <2>2. i + 1 \in 0 .. Rounds /\ i + 1 # 0 /\ (i + 1) - 1 = i
    BY <1>0
  <2>3. g[i + 1] = g[i] \cup UNION {Found(n, t) : n \in g[i]}
    BY <1>1, <2>2 DEF IsVisit
  <2> QED
    BY <2>1, <2>3, FoundInModules
<1> HIDE DEF S
<1>4. Rounds \in S
  BY <1>0, <1>2, <1>3, Induction
<1> QED
  BY <1>0, <1>1, <1>4 DEF S

(* expand_wildcard_imports depends on the sources it visits, and no other. *)
LEMMA VisitedLocal ==
  ASSUME FourEnvironments, NEW t, NEW u, NEW m,
         \A n \in {m} \cup Visited(m, t) : t[Source(n)] = u[Source(n)]
  PROVE  Visited(m, u) = Visited(m, t)
<1>0. IsFiniteSet(Modules) /\ Rounds \in Nat
  BY FS_CardinalityType DEF FourEnvironments, Rounds
<1>1. PICK g : IsVisit(g, m, t, Rounds) /\ Visited(m, t) = g[Rounds]
  BY <1>0, VisitedIs
<1>2. PICK h : IsVisit(h, m, u, Rounds) /\ Visited(m, u) = h[Rounds]
  BY <1>0, VisitedIs
<1>3. \A n \in {m} \cup g[Rounds] : Found(n, t) = Found(n, u)
  BY <1>1 DEF Found
<1> DEFINE S == {i \in Nat : i <= Rounds => h[i] = g[i]}
<1>4. 0 \in S
  <2>1. 0 \in 0 .. Rounds
    BY <1>0
  <2>2. g[0] = Found(m, t) /\ h[0] = Found(m, u)
    BY <1>1, <1>2, <2>1 DEF IsVisit
  <2>3. Found(m, t) = Found(m, u)
    BY <1>3
  <2> QED
    BY <2>2, <2>3
<1>5. ASSUME NEW i \in Nat, i \in S PROVE i + 1 \in S
  <2> SUFFICES ASSUME i + 1 <= Rounds PROVE h[i + 1] = g[i + 1]
    OBVIOUS
  <2>1. h[i] = g[i]
    BY <1>0, <1>5
  <2>2. i + 1 \in 0 .. Rounds /\ i + 1 # 0 /\ (i + 1) - 1 = i /\ i \in 0 .. Rounds
    BY <1>0
  <2>3. /\ g[i + 1] = g[i] \cup UNION {Found(n, t) : n \in g[i]}
        /\ h[i + 1] = h[i] \cup UNION {Found(n, u) : n \in h[i]}
    BY <1>1, <1>2, <2>2 DEF IsVisit
  <2>4. g[i] \subseteq g[Rounds]
    BY <1>0, <1>1, <2>2, VisitGrows
  <2>5. {Found(n, t) : n \in g[i]} = {Found(n, u) : n \in g[i]}
    BY <1>3, <2>4
  <2> QED
    BY <2>1, <2>3, <2>5
<1> HIDE DEF S
<1>6. Rounds \in S
  BY <1>0, <1>4, <1>5, Induction
<1> QED
  BY <1>0, <1>1, <1>2, <1>6 DEF S

(* What the type check reads besides the definitions of the module. *)
ClassesUsed(m, t) == IF t[<<3, m>>] \in {NULL, None} THEN {} ELSE {<<2, n>> : n \in Uses(t[<<3, m>>].source)}

LEMMA EnvironmentsAre ==
  ASSUME FourEnvironments, NEW t, NEW m
  PROVE  /\ Reads(<<1, m>>, t) = SourcesRead(m, t)
         /\ Reads(<<2, m>>, t) = {<<1, m>>}
         /\ Reads(<<3, m>>, t) = SourcesRead(m, t)
         /\ Reads(<<4, m>>, t) = {<<3, m>>} \cup ClassesUsed(m, t)
         /\ Produce(<<1, m>>, t) = IF t[Source(m)] = None THEN None
                                   ELSE [interface |-> Interface(t[Source(m)]), names |-> Names(m, t)]
         /\ Produce(<<2, m>>, t) = [attributes |-> t[<<1, m>>]]
         /\ Produce(<<3, m>>, t) = IF t[Source(m)] = None THEN None
                                   ELSE [source |-> t[Source(m)], names |-> Names(m, t)]
         /\ Produce(<<4, m>>, t) = IF t[<<3, m>>] = None THEN None
                                   ELSE [checked |-> t[<<3, m>>],
                                         types |-> [n \in Uses(t[<<3, m>>].source) |-> t[<<2, n>>]]]
<1>1. ASSUME NEW k PROVE Reads(k, t) = EnvironmentReads(k, t) /\ Produce(k, t) = EnvironmentValue(k, t)
  BY DEF FourEnvironments
<1> DEFINE k1 == <<1, m>>  k2 == <<2, m>>  k3 == <<3, m>>  k4 == <<4, m>>
<1>2. /\ k1[1] = 1 /\ k1[2] = m /\ k2[1] = 2 /\ k2[2] = m
      /\ k3[1] = 3 /\ k3[2] = m /\ k4[1] = 4 /\ k4[2] = m
  OBVIOUS
<1> HIDE DEF k1, k2, k3, k4
<1>3. EnvironmentReads(k1, t) = SourcesRead(m, t)
  BY <1>2 DEF EnvironmentReads
<1>4. EnvironmentReads(k2, t) = {<<1, m>>}
  BY <1>2 DEF EnvironmentReads
<1>5. EnvironmentReads(k3, t) = SourcesRead(m, t)
  BY <1>2 DEF EnvironmentReads
<1>6. EnvironmentReads(k4, t) = {<<3, m>>} \cup ClassesUsed(m, t)
  BY <1>2 DEF EnvironmentReads, ClassesUsed
<1>7. EnvironmentValue(k1, t) = IF t[Source(m)] = None THEN None
                                ELSE [interface |-> Interface(t[Source(m)]), names |-> Names(m, t)]
  BY <1>2 DEF EnvironmentValue
<1>8. EnvironmentValue(k2, t) = [attributes |-> t[<<1, m>>]]
  BY <1>2 DEF EnvironmentValue
<1>9. EnvironmentValue(k3, t) = IF t[Source(m)] = None THEN None
                                ELSE [source |-> t[Source(m)], names |-> Names(m, t)]
  BY <1>2 DEF EnvironmentValue
<1>10. EnvironmentValue(k4, t) = IF t[<<3, m>>] = None THEN None
                                 ELSE [checked |-> t[<<3, m>>],
                                       types |-> [n \in Uses(t[<<3, m>>].source) |-> t[<<2, n>>]]]
  BY <1>2 DEF EnvironmentValue
<1> QED
  BY <1>1, <1>3, <1>4, <1>5, <1>6, <1>7, <1>8, <1>9, <1>10 DEF k1, k2, k3, k4

LEMMA SourcesReadLocal ==
  ASSUME FourEnvironments, NEW t, NEW u, NEW m,
         \A r \in SourcesRead(m, t) : t[r] = u[r]
  PROVE  /\ SourcesRead(m, u) = SourcesRead(m, t)
         /\ Names(m, u) = Names(m, t)
         /\ t[Source(m)] = u[Source(m)]
<1>1. \A n \in {m} \cup Visited(m, t) : t[Source(n)] = u[Source(n)]
  BY DEF SourcesRead
<1>2. Visited(m, u) = Visited(m, t)
  BY <1>1, VisitedLocal
<1>3. Names(m, u) = Names(m, t)
  BY <1>1, <1>2 DEF Names
<1> QED
  BY <1>1, <1>2, <1>3 DEF SourcesRead

LEMMA SourcesReadInKey ==
  ASSUME FourEnvironments, NEW t \in EnvironmentTables, NEW m \in Modules, NEW r \in SourcesRead(m, t)
  PROVE  r \in Key /\ r[1] = 0
<1>1. PICK n \in {m} \cup Visited(m, t) : r = Source(n)
  BY DEF SourcesRead
<1>2. n \in Modules
  BY <1>1, VisitedInModules
<1> QED
  BY <1>1, <1>2 DEF Source, Key, FourEnvironments

LEMMA NamesType ==
  ASSUME FourEnvironments, NEW t \in EnvironmentTables, NEW m \in Modules,
         \A r \in SourcesRead(m, t) : t[r] # NULL
  PROVE  /\ Names(m, t) \in NameTables
         /\ t[Source(m)] \in Contents(m) \cup {None}
         /\ Interface(t[Source(m)]) \in Interfaces
<1>1. Visited(m, t) \in SUBSET Modules
  BY VisitedInModules
<1>2. ASSUME NEW n \in {m} \cup Visited(m, t)
      PROVE  t[Source(n)] \in Contents(n) \cup {None} /\ Interface(t[Source(n)]) \in Interfaces
  <2>1. n \in Modules
    BY <1>1
  <2>2. t[Source(n)] # NULL
    BY DEF SourcesRead
  <2>3. t[Source(n)] \in Contents(n) \cup {None}
    BY <2>1, <2>2, EnvironmentTable
  <2>4. t[Source(n)] \in (UNION {Contents(x) : x \in Modules}) \cup {None}
    BY <2>1, <2>3
  <2> QED
    BY <2>3, <2>4 DEF Interfaces
<1>3. Names(m, t) \in [Visited(m, t) -> Interfaces]
  BY <1>2 DEF Names
<1> QED
  BY <1>1, <1>2, <1>3 DEF NameTables

LEMMA UsesInModules ==
  ASSUME FourEnvironments, NEW t \in EnvironmentTables, NEW m \in Modules, t[<<3, m>>] \notin {NULL, None}
  PROVE  Uses(t[<<3, m>>].source) \subseteq Modules
<1>1. t[<<3, m>>] \in Definitions(m)
  BY EnvironmentTable
<1>2. t[<<3, m>>].source \in Contents(m)
  BY <1>1 DEF Definitions
<1> QED
  BY <1>2 DEF FourEnvironments, FilesAreClosed

(* What the proofs assume of a layer *)
LayerOK(k) ==
  /\ Local(k, EnvironmentTables)
  /\ \A t \in EnvironmentTables : Full(k, t) => Produce(k, t) \in EnvironmentValues[k]

LEMMA ComponentsOK ==
  ASSUME FourEnvironments, NEW m \in Modules
  PROVE  LayerOK(<<1, m>>)
<1> DEFINE k == <<1, m>>
<1>0. k[1] = 1
  OBVIOUS
<1>r. ASSUME NEW t PROVE Reads(k, t) = SourcesRead(m, t)
  BY EnvironmentsAre
<1>p. ASSUME NEW t
      PROVE  Produce(k, t) = IF t[Source(m)] = None THEN None
                             ELSE [interface |-> Interface(t[Source(m)]), names |-> Names(m, t)]
  BY EnvironmentsAre
<1>v. EnvironmentValues[k] = Components
  BY EnvironmentValuesOf
<1> HIDE DEF k
<1>1. ASSUME NEW t \in EnvironmentTables PROVE Reads(k, t) \subseteq {r \in Key : r[1] < k[1]}
  BY <1>0, <1>r, SourcesReadInKey
<1>2. ASSUME NEW t \in EnvironmentTables, NEW u \in EnvironmentTables, Agree(k, t, u)
      PROVE  Reads(k, u) = Reads(k, t) /\ Produce(k, u) = Produce(k, t)
  <2>1. \A r \in SourcesRead(m, t) : t[r] = u[r]
    BY <1>2, <1>r DEF Agree
  <2> QED
    BY <2>1, SourcesReadLocal, <1>r, <1>p
<1>3. ASSUME NEW t \in EnvironmentTables, Full(k, t) PROVE Produce(k, t) \in EnvironmentValues[k]
  <2>1. \A r \in SourcesRead(m, t) : t[r] # NULL
    BY <1>3, <1>r DEF Full
  <2>2. Names(m, t) \in NameTables /\ Interface(t[Source(m)]) \in Interfaces
    BY <2>1, NamesType
  <2>3. Produce(k, t) \in Components
    BY <2>2, <1>r, <1>p DEF Components
  <2> QED
    BY <2>3, <1>v
<1> QED
  BY <1>1, <1>2, <1>3 DEF LayerOK, Local, k

LEMMA AttributesOK ==
  ASSUME FourEnvironments, NEW m \in Modules
  PROVE  LayerOK(<<2, m>>)
<1> DEFINE k == <<2, m>>
<1>0. k[1] = 2 /\ <<1, m>> \in Key
  BY DEF Key, FourEnvironments
<1>r. ASSUME NEW t PROVE Reads(k, t) = {<<1, m>>}
  BY EnvironmentsAre
<1>p. ASSUME NEW t
      PROVE  Produce(k, t) = [attributes |-> t[<<1, m>>]]
  BY EnvironmentsAre
<1>v. EnvironmentValues[k] = Attributes
  BY EnvironmentValuesOf
<1> HIDE DEF k
<1>1. ASSUME NEW t \in EnvironmentTables PROVE Reads(k, t) \subseteq {r \in Key : r[1] < k[1]}
  BY <1>0, <1>r
<1>2. ASSUME NEW t \in EnvironmentTables, NEW u \in EnvironmentTables, Agree(k, t, u)
      PROVE  Reads(k, u) = Reads(k, t) /\ Produce(k, u) = Produce(k, t)
  <2>1. t[<<1, m>>] = u[<<1, m>>]
    BY <1>2, <1>r DEF Agree
  <2> QED
    BY <2>1, <1>r, <1>p
<1>3. ASSUME NEW t \in EnvironmentTables, Full(k, t) PROVE Produce(k, t) \in EnvironmentValues[k]
  <2>1. t[<<1, m>>] # NULL
    BY <1>3, <1>r DEF Full
  <2>2. t[<<1, m>>] \in Components
    BY <2>1, EnvironmentTable
  <2>3. Produce(k, t) \in Attributes
    BY <2>2, <1>r, <1>p DEF Attributes
  <2> QED
    BY <2>3, <1>v
<1> QED
  BY <1>1, <1>2, <1>3 DEF LayerOK, Local, k

LEMMA DefinitionsOK ==
  ASSUME FourEnvironments, NEW m \in Modules
  PROVE  LayerOK(<<3, m>>)
<1> DEFINE k == <<3, m>>
<1>0. k[1] = 3
  OBVIOUS
<1>r. ASSUME NEW t PROVE Reads(k, t) = SourcesRead(m, t)
  BY EnvironmentsAre
<1>p. ASSUME NEW t
      PROVE  Produce(k, t) = IF t[Source(m)] = None THEN None
                             ELSE [source |-> t[Source(m)], names |-> Names(m, t)]
  BY EnvironmentsAre
<1>v. EnvironmentValues[k] = Definitions(m)
  BY EnvironmentValuesOf
<1> HIDE DEF k
<1>1. ASSUME NEW t \in EnvironmentTables PROVE Reads(k, t) \subseteq {r \in Key : r[1] < k[1]}
  BY <1>0, <1>r, SourcesReadInKey
<1>2. ASSUME NEW t \in EnvironmentTables, NEW u \in EnvironmentTables, Agree(k, t, u)
      PROVE  Reads(k, u) = Reads(k, t) /\ Produce(k, u) = Produce(k, t)
  <2>1. \A r \in SourcesRead(m, t) : t[r] = u[r]
    BY <1>2, <1>r DEF Agree
  <2> QED
    BY <2>1, SourcesReadLocal, <1>r, <1>p
<1>3. ASSUME NEW t \in EnvironmentTables, Full(k, t) PROVE Produce(k, t) \in EnvironmentValues[k]
  <2>1. \A r \in SourcesRead(m, t) : t[r] # NULL
    BY <1>3, <1>r DEF Full
  <2>2. Names(m, t) \in NameTables /\ t[Source(m)] \in Contents(m) \cup {None}
    BY <2>1, NamesType
  <2>3. Produce(k, t) \in Definitions(m)
    BY <2>2, <1>r, <1>p DEF Definitions
  <2> QED
    BY <2>3, <1>v
<1> QED
  BY <1>1, <1>2, <1>3 DEF LayerOK, Local, k

LEMMA ResultsOK ==
  ASSUME FourEnvironments, NEW m \in Modules
  PROVE  LayerOK(<<4, m>>)
<1> DEFINE k == <<4, m>>
<1>0. k[1] = 4 /\ <<3, m>> \in Key /\ \A n \in Modules : <<2, n>> \in Key
  BY DEF Key, FourEnvironments
<1>r. ASSUME NEW t PROVE Reads(k, t) = {<<3, m>>} \cup ClassesUsed(m, t)
  BY EnvironmentsAre
<1>p. ASSUME NEW t
      PROVE  Produce(k, t) = IF t[<<3, m>>] = None THEN None
                             ELSE [checked |-> t[<<3, m>>],
                                   types |-> [n \in Uses(t[<<3, m>>].source) |-> t[<<2, n>>]]]
  BY EnvironmentsAre
<1>v. EnvironmentValues[k] = {None} \cup [checked : Definitions(m), types : TypeTables]
  BY EnvironmentValuesOf
<1> HIDE DEF k
<1>1. ASSUME NEW t \in EnvironmentTables PROVE Reads(k, t) \subseteq {r \in Key : r[1] < k[1]}
  <2>1. ClassesUsed(m, t) \subseteq {<<2, n>> : n \in Modules}
    BY UsesInModules DEF ClassesUsed
  <2> QED
    BY <1>0, <2>1, <1>r
<1>2. ASSUME NEW t \in EnvironmentTables, NEW u \in EnvironmentTables, Agree(k, t, u)
      PROVE  /\ Reads(k, u) = Reads(k, t)
             /\ Full(k, t) => Produce(k, u) = Produce(k, t)
  <2>1. t[<<3, m>>] = u[<<3, m>>] /\ \A r \in ClassesUsed(m, t) : t[r] = u[r]
    BY <1>2, <1>r DEF Agree
  <2>2. ClassesUsed(m, u) = ClassesUsed(m, t)
    BY <2>1 DEF ClassesUsed
  <2>3. ASSUME t[<<3, m>>] \notin {NULL, None}
        PROVE  \A n \in Uses(t[<<3, m>>].source) : t[<<2, n>>] = u[<<2, n>>]
    BY <2>1, <2>3 DEF ClassesUsed
  <2>4. Full(k, t) => t[<<3, m>>] # NULL
    BY <1>r DEF Full
  <2>5. ASSUME t[<<3, m>>] \notin {NULL, None}
        PROVE  [n \in Uses(t[<<3, m>>].source) |-> t[<<2, n>>]] = [n \in Uses(u[<<3, m>>].source) |-> u[<<2, n>>]]
    BY <2>1, <2>3, <2>5
  <2> QED
    BY <2>1, <2>2, <2>4, <2>5, <1>r, <1>p
<1>3. ASSUME NEW t \in EnvironmentTables, Full(k, t) PROVE Produce(k, t) \in EnvironmentValues[k]
  <2>1. t[<<3, m>>] # NULL /\ \A r \in ClassesUsed(m, t) : t[r] # NULL
    BY <1>3, <1>r DEF Full
  <2>2. t[<<3, m>>] \in Definitions(m)
    BY <2>1, EnvironmentTable
  <2>3. CASE t[<<3, m>>] = None
    BY <2>3, <1>r, <1>p, <1>v
  <2>4. CASE t[<<3, m>>] # None
    <3> DEFINE U == Uses(t[<<3, m>>].source)
    <3>1. U \subseteq Modules
      BY <2>1, <2>4, UsesInModules
    <3>2. ASSUME NEW n \in U PROVE t[<<2, n>>] \in Attributes
      <4>1. t[<<2, n>>] # NULL
        BY <2>1, <2>4 DEF ClassesUsed
      <4> QED
        BY <3>1, <4>1, EnvironmentTable
    <3>3. [n \in U |-> t[<<2, n>>]] \in TypeTables
      BY <3>1, <3>2 DEF TypeTables
    <3>4. Produce(k, t) = [checked |-> t[<<3, m>>], types |-> [n \in U |-> t[<<2, n>>]]]
      BY <2>4, <1>r, <1>p
    <3> QED
      BY <2>2, <3>3, <3>4, <1>v
  <2> QED
    BY <2>3, <2>4
<1> QED
  BY <1>1, <1>2, <1>3 DEF LayerOK, Local, k

LEMMA EnvironmentsWellBehaved ==
  ASSUME FourEnvironments
  PROVE  WellBehavedWith(EnvironmentValues)
<1>1. Layers = 4 /\ Listed = 3 /\ Manual = {1, 3}
  BY DEF FourEnvironments
<1>2. \A m \in Modules : Contents(m) \cup {None} \subseteq EnvironmentValues[Source(m)]
  BY EnvironmentValuesOf
<1>3. \A k \in Key : NULL \notin EnvironmentValues[k]
  BY DEF FourEnvironments
<1>4. ASSUME NEW k \in Key, k[1] > 0 PROVE LayerOK(k)
  <2>1. PICK l \in 0 .. 4, m \in Modules : k = <<l, m>>
    BY <1>1 DEF Key
  <2>2. l \in {1, 2, 3, 4}
    BY <1>4, <2>1
  <2> QED
    BY <2>1, <2>2, ComponentsOK, AttributesOK, DefinitionsOK, ResultsOK
<1>5. ASSUME NEW m \in Modules, NEW t \in EnvironmentTables, NEW r \in Reads(<<Listed, m>>, t) PROVE r[1] = 0
  BY <1>1, EnvironmentsAre, SourcesReadInKey
<1>6. Listed \in Manual /\ Manual \subseteq 1 .. Layers
  BY <1>1
<1> QED
  BY <1>2, <1>3, <1>4, <1>5, <1>6 DEF WellBehavedWith, LayerOK, EnvironmentTables

(* The four environments over any finite set of modules, whatever the       *)
(* files import, also in cycles: an incremental update, and a server that   *)
(* starts from a saved state, leave in every table what a server that has   *)
(* just been started would compute from the files and from the unwatched    *)
(* values: function definitions that a worker of collect_definitions        *)
(* computed, with an edge from the source of another module.  No other      *)
(* value is exempt, and only check results read function definitions.  And  *)
(* every process sees the value it computed.                                *)
THEOREM EnvironmentsAreFresh ==
  ASSUME FourEnvironments
  PROVE  SavedSpec => [](Fresh /\ OwnValueIsShared)
<1>1. WellBehavedWith(EnvironmentValues)
  BY EnvironmentsWellBehaved
<1>2. SavedSpec => []Fresh
  BY <1>1, IncrementalIsFresh
<1>3. SavedSpec => []OwnValueIsShared
  BY <1>1, ProcessesAgree
<1> QED
  BY <1>2, <1>3, PTL

===============================================================================

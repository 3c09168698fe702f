--------------------------- MODULE EnvironmentStack ---------------------------
(***************************************************************************)
(* The environments of the type checker: layers of tables in shared        *)
(* memory, each computed from the ones below (analysis/environment.ml),    *)
(* the lowest being the parsed sources (analysis/astEnvironment.ml).       *)
(* Values are produced when they are first asked for, by any process;      *)
(* every read records an edge in the dependency table                      *)
(* (service/dependencyTrackedMemory.ml), and an update of the sources      *)
(* removes or recomputes what the edges lead to, layer by layer.           *)
(*                                                                         *)
(* A key is <<layer, module>>; layer 0 holds the sources.  The dependency  *)
(* of a value is the key itself (trigger_to_dependency), known to the      *)
(* dependency table only by its hash.                                      *)
(***************************************************************************)
EXTENDS Naturals, Sequences, SequencesExt, FiniteSets

CONSTANTS
  Modules,
  Project,        \* those that are type checked (should_type_check)
  Contents(_),    \* what a file may hold, None if it may be missing
  Layers,         \* number of layers above the sources
  Lazy,           \* those with lazy_incremental
  Listed,         \* the layer that collect_definitions reads
  Checked,        \* the layer the type check asks for
  Manual,         \* layers triggered for every invalidated module
  Reads(_, _),    \* produce_value: what it reads for a key, given what there is
  Produce(_, _),  \* and what it computes
  Hash(_),        \* EncodedDependency.make of a key
  Workers, Master,
  MaxChanges,     \* bound: changes of files
  NULL,           \* no value in the table
  None            \* Some None: there is no such module

ASSUME LayerAssumption ==
  Project \subseteq Modules /\ Layers \in Nat /\ Lazy \subseteq 1 .. Layers /\ {Listed, Checked} \subseteq 1 .. Layers

Key == (0 .. Layers) \X Modules
Source(m) == <<0, m>>

VARIABLES
  disk,         \* the content of a file, or None
  pending,      \* changes the server has not been told of
  tracked,      \* the modules of the module tracker
  table, old,   \* the values under new and old keys
  edges,        \* the dependency table: <<key, hash of a dependency>>
  loaded_edges, \* the one of a saved state
  registry,     \* Registry: the dependencies the master can decode
  lost,         \* history: registered in a worker, and never collected
  parallel,     \* is there a pool of workers?
  phase,        \* what the master is doing
  layer,        \* the layer of the update
  scope,        \* the keys of the transaction
  invalidated,  \* invalidated_modules_before_preprocessing
  triggered,    \* all_triggered_dependencies so far
  todo,         \* inputs of the map that are not dealt
  work,         \* a process: its stack of calls and the keys it registered
  changes

fileVars == <<disk, pending, changes>>
stackVars == <<table, old, edges, loaded_edges, registry, lost>>
masterVars == <<tracked, parallel, phase, layer, scope, invalidated, triggered>>
vars == <<fileVars, stackVars, masterVars, todo, work>>

Processes == Workers \cup {Master}
Idle == [busy |-> FALSE, stack |-> <<>>, keys |-> {}]
Active == IF parallel /\ phase # "query" THEN Workers ELSE {Master}
AllIdle == \A w \in Processes : ~ work[w].busy

NoTable == [k \in Key |-> NULL]

(* A server that has listed its modules and parsed nothing. *)
ColdStart ==
  /\ tracked' = {m \in Modules : disk[m] # None}
  /\ table' = NoTable /\ old' = NoTable
  /\ edges' = {} /\ loaded_edges' = {} /\ registry' = {} /\ lost' = {}
  /\ pending' = {}
  /\ \/ phase' = "collect" /\ todo' = {<<Listed, m>> : m \in tracked' \cap Project}
     \/ phase' = "idle" /\ todo' = {}  \* skip_initial_type_check

Init ==
  /\ disk \in {d \in [Modules -> UNION {Contents(m) : m \in Modules}] : \A m \in Modules : d[m] \in Contents(m)}
  /\ tracked = {m \in Modules : disk[m] # None}
  /\ table = NoTable /\ old = NoTable
  /\ edges = {} /\ loaded_edges = {} /\ registry = {} /\ lost = {} /\ pending = {}
  /\ parallel \in BOOLEAN
  /\ \/ phase = "collect" /\ todo = {<<Listed, m>> : m \in tracked \cap Project}
     \/ phase = "idle" /\ todo = {}
  /\ layer = 0 /\ scope = {} /\ invalidated = {} /\ triggered = {} /\ changes = 0
  /\ work = [w \in Processes |-> Idle]

(* Files change at any time, also while they are being parsed. *)
ChangeFile ==
  /\ changes < MaxChanges
  /\ \E m \in Modules : \E c \in Contents(m) :
       /\ c # disk[m] /\ disk' = [disk EXCEPT ![m] = c]
       /\ pending' = pending \cup {m}
  /\ changes' = changes + 1
  /\ UNCHANGED <<stackVars, masterVars, todo, work>>

-----------------------------------------------------------------------------
(* Reading: ReadOnly.get and LazyRawSources.get *)

(* The call of get or load for a key that is not there.  A source is read  *)
(* from its file right away and added later.                               *)
Call(k) ==
  [key |-> k, parsed |-> IF k[1] = 0 /\ k[2] \in tracked THEN disk[k[2]] ELSE None]

Top(w) == Last(work[w].stack)
Missing(k) == {r \in Reads(k, table) : table[r] = NULL}

TakeJob(w) ==
  /\ w \in Active /\ ~ work[w].busy
  /\ \E k \in todo :
       /\ todo' = todo \ {k}
       /\ work' = [work EXCEPT ![w] =
            [busy |-> TRUE, stack |-> IF table[k] = NULL THEN <<Call(k)>> ELSE <<>>, keys |-> {}]]
  /\ UNCHANGED <<fileVars, stackVars, masterVars>>

(* produce_value needs a value that is not there. *)
ReadMissing(w) ==
  /\ work[w].stack # <<>> /\ Top(w).key[1] > 0
  /\ LET missing == Missing(Top(w).key)
     IN /\ missing # {}
        /\ work' = [work EXCEPT ![w].stack = Append(@, Call(CHOOSE r \in missing : TRUE))]
  /\ UNCHANGED <<fileVars, stackVars, masterVars, todo>>

(* Table.add: the first writer wins. *)
Add(k, v) == IF table[k] = NULL THEN [table EXCEPT ![k] = v] ELSE table

(* mutant: the last writer wins *)
AddAgain(k, v) == [table EXCEPT ![k] = v]

(* mutant: what was parsed is stored even if another process was faster *)
RawAddAgain(w) ==
  /\ work[w].stack # <<>> /\ Top(w).key[1] = 0
  /\ table' = AddAgain(Top(w).key, Top(w).parsed)
  /\ work' = [work EXCEPT ![w].stack = Front(@)]
  /\ UNCHANGED <<fileVars, old, edges, loaded_edges, registry, lost, masterVars, todo>>

(* source_of_module_path adds what it parsed; the caller reads it again. *)
RawAdd(w) ==
  /\ work[w].stack # <<>> /\ Top(w).key[1] = 0
  /\ table' = Add(Top(w).key, Top(w).parsed)
  /\ work' = [work EXCEPT ![w].stack = Front(@)]
  /\ UNCHANGED <<fileVars, old, edges, loaded_edges, registry, lost, masterVars, todo>>

(* produce_value has all it reads; add_dependency for each of it, and the  *)
(* registration of the dependency.                                         *)
ProduceValue(w) ==
  LET k == Top(w).key IN
  /\ work[w].stack # <<>> /\ k[1] > 0 /\ Missing(k) = {}
  /\ table' = Add(k, Produce(k, table))
  /\ edges' = edges \cup {<<r, Hash(k)>> : r \in Reads(k, table)}
  /\ IF w = Master
     THEN registry' = registry \cup {k} /\ work' = [work EXCEPT ![w].stack = Front(@)]
     ELSE /\ work' = [work EXCEPT ![w].stack = Front(@), ![w].keys = @ \cup {k}]
          /\ UNCHANGED registry
  /\ UNCHANGED <<fileVars, old, loaded_edges, lost, masterVars, todo>>

(* The reduce.  collected_map_reduce registers the keys of the worker;     *)
(* collect_definitions uses a plain map_reduce.                            *)
FinishJob(w) ==
  /\ work[w].busy /\ work[w].stack = <<>>
  /\ registry' = IF phase = "collect" THEN registry ELSE registry \cup work[w].keys
  /\ lost' = (lost \cup work[w].keys) \ registry'
  /\ work' = [work EXCEPT ![w] = Idle]
  /\ UNCHANGED <<fileVars, table, old, edges, loaded_edges, masterVars, todo>>

MapDone == todo = {} /\ AllIdle

(* populate_for_modules: the functions that were listed are checked. *)
EndCollect ==
  /\ phase = "collect" /\ MapDone
  /\ phase' = "check" /\ todo' = {<<Checked, m>> : m \in tracked \cap Project}
  /\ UNCHANGED <<fileVars, stackVars, tracked, parallel, layer, scope, invalidated, triggered, work>>

EndCheck ==
  /\ phase \in {"check", "query"} /\ MapDone
  /\ phase' = "idle"
  /\ UNCHANGED <<fileVars, stackVars, tracked, parallel, layer, scope, invalidated, triggered, todo, work>>

(* A query of the server, which reads in the master. *)
Query ==
  /\ phase = "idle"
  /\ \E m \in tracked \cap Project : table[<<Checked, m>>] = NULL /\ todo' = {<<Checked, m>>}
  /\ phase' = "query"
  /\ UNCHANGED <<fileVars, stackVars, tracked, parallel, layer, scope, invalidated, triggered, work>>

-----------------------------------------------------------------------------
(* update_this_and_all_preceding_environments *)

(* mutant: dependents that share their hash with another are not found *)
DependentsOne(keys) ==
  LET hashes == {e[2] : e \in {x \in edges \cup loaded_edges : x[1] \in keys}}
  IN {CHOOSE d \in registry : Hash(d) = h : h \in {Hash(d) : d \in registry} \cap hashes}

(* mutant: the dependency table of the saved state is not asked *)
DependentsHere(keys) ==
  {d \in registry : Hash(d) \in {e[2] : e \in {x \in edges : x[1] \in keys}}}

(* DependencyKey.query: what the registry makes of the hashes. *)
Dependents(keys) ==
  {d \in registry : Hash(d) \in {e[2] : e \in {x \in edges \cup loaded_edges : x[1] \in keys}}}

(* deprecate_keys *)
Oldify(keys) ==
  /\ old' = [k \in Key |-> IF k \in keys THEN table[k] ELSE old[k]]
  /\ table' = [k \in Key |-> IF k \in keys THEN NULL ELSE table[k]]
  /\ scope' = keys

(* The module tracker reports the modules; those that are cached are parsed *)
(* again.                                                                   *)
StartUpdate ==
  /\ phase = "idle"
  /\ \E events \in SUBSET pending \ {{}} :
       LET changed == {m \in events : disk[m] # None}
           removed == {m \in events : disk[m] = None} \cap tracked
           reparse == {m \in changed : table[Source(m)] # NULL}
       IN /\ pending' = pending \ events
          /\ tracked' = (tracked \ removed) \cup changed
          /\ invalidated' = removed \cup reparse \cup (changed \cap Project)
          /\ Oldify({Source(m) : m \in removed \cup reparse})
          /\ todo' = {Source(m) : m \in reparse}
  /\ phase' = "update" /\ layer' = 0
  /\ UNCHANGED <<disk, changes, edges, loaded_edges, registry, lost, parallel, triggered, work>>

(* dependencies_since_last_deprecate *)
DependentsOfChanges == Dependents({k \in scope : old[k] # table[k]})

EndTransaction ==
  /\ old' = [k \in Key |-> IF k \in scope THEN NULL ELSE old[k]]
  /\ scope' = {} /\ layer' = layer + 1 /\ phase' = "start"
  /\ UNCHANGED <<fileVars, tracked, parallel, table, edges, loaded_edges, lost, todo, work>>

(* mutant: dependents of the parsed sources only *)
EndSourcesOnly ==
  /\ phase = "update" /\ layer = 0 /\ MapDone
  /\ triggered' = DependentsOfChanges
  /\ invalidated' = {} /\ UNCHANGED registry
  /\ EndTransaction

(* process_module_updates, after the sources: the first layers are         *)
(* triggered for every invalidated module.                                 *)
EndSources ==
  /\ phase = "update" /\ layer = 0 /\ MapDone
  /\ LET manual == Manual \X invalidated
     IN /\ triggered' = DependentsOfChanges \cup manual
        /\ registry' = registry \cup manual
  /\ invalidated' = {}
  /\ EndTransaction

(* compute_trigger_map: dependencies of this layer, triggered by any layer below. *)
TriggerMap == {d \in triggered : d[1] = layer}

(* add_to_transaction: deprecate, and recompute in parallel. *)
StartLayer ==
  /\ phase = "start" /\ layer \in (1 .. Layers) \ Lazy
  /\ Oldify(TriggerMap)
  /\ todo' = TriggerMap /\ phase' = "update"
  /\ UNCHANGED <<fileVars, tracked, parallel, edges, loaded_edges, registry, lost, layer, invalidated,
                 triggered, work>>

EndLayer ==
  /\ phase = "update" /\ layer > 0 /\ MapDone
  /\ triggered' = triggered \cup DependentsOfChanges
  /\ EndTransaction
  /\ UNCHANGED <<registry, invalidated>>

(* mutant: nobody is told that values were removed *)
RemoveLazyQuietly ==
  /\ phase = "start" /\ layer \in Lazy
  /\ table' = [k \in Key |-> IF k \in TriggerMap THEN NULL ELSE table[k]]
  /\ layer' = layer + 1
  /\ UNCHANGED <<fileVars, tracked, parallel, old, edges, loaded_edges, registry, lost, phase, scope,
                 invalidated, triggered, todo, work>>

(* add_pessimistic_transaction: remove, and trigger all dependents. *)
RemoveLazy ==
  /\ phase = "start" /\ layer \in Lazy
  /\ table' = [k \in Key |-> IF k \in TriggerMap THEN NULL ELSE table[k]]
  /\ triggered' = triggered \cup Dependents(TriggerMap)
  /\ layer' = layer + 1
  /\ UNCHANGED <<fileVars, tracked, parallel, old, edges, loaded_edges, registry, lost, phase, scope,
                 invalidated, todo, work>>

EndUpdate ==
  /\ phase = "start" /\ layer = Layers + 1
  /\ phase' = "idle" /\ layer' = 0 /\ triggered' = {}
  /\ UNCHANGED <<fileVars, stackVars, tracked, parallel, scope, invalidated, todo, work>>

WorkerStep(w) == TakeJob(w) \/ ReadMissing(w) \/ RawAdd(w) \/ ProduceValue(w) \/ FinishJob(w)

MasterStep ==
  EndCollect \/ EndCheck \/ StartUpdate \/ EndSources \/ StartLayer \/ EndLayer \/ RemoveLazy \/ EndUpdate

Next == ChangeFile \/ Query \/ MasterStep \/ \E w \in Processes : WorkerStep(w)

-----------------------------------------------------------------------------

(* Values with a lost dependency on another module: nobody can decode it,  *)
(* and a change of that module does not reach them.                        *)
Unwatched ==
  {d \in lost \ registry :
     table[d] # NULL /\ \E m \in Modules : m # d[2] /\ <<Source(m), Hash(d)>> \in edges \cup loaded_edges}

(* The tables that a server would compute from the files as they are, if   *)
(* only the unwatched values were there already.                           *)
Scratch[l \in 0 .. Layers] ==
  IF l = 0 THEN [k \in Key |-> IF k[1] = 0 THEN disk[k[2]] ELSE NULL]
  ELSE [k \in Key |-> IF k[1] # l THEN Scratch[l - 1][k]
                      ELSE IF k \in Unwatched THEN table[k] ELSE Produce(k, Scratch[l - 1])]

(***************************************************************************)
(* Incremental is as good as from scratch: when no change is pending, what *)
(* is in a table of any layer is what a new server would compute, however  *)
(* changes of the files interleaved with parsing and checking.  Exempt are *)
(* the values, and no others, whose dependency on another module was       *)
(* registered in a worker and thrown away, which are values that           *)
(* collect_definitions asked for; a value that reads one of them is what   *)
(* is computed from it and from the files.                                 *)
(***************************************************************************)
Fresh ==
  phase = "idle" /\ pending = {} =>
    /\ LET computed == Scratch[Layers] IN \A k \in Key : table[k] \in {NULL, computed[k]}
    /\ Unwatched \subseteq {Listed} \X Modules

(***************************************************************************)
(* The value that a process computes, returns and keeps in its cache is    *)
(* the one in the table, also if another process added it first.           *)
(***************************************************************************)
OwnValueIsShared ==
  \A w \in Processes :
    work[w].stack # <<>> /\ Top(w).key[1] > 0 /\ table[Top(w).key] # NULL /\ Missing(Top(w).key) = {}
      => table[Top(w).key] = Produce(Top(w).key, table)

===============================================================================

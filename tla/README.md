# Pysa: the parallel core, in TLA+

Pysa finds flows of tainted data in Python programs. It analyzes every function
once or more, in many worker processes, and keeps what it learns (a *model* of
each function) in shared memory until nothing changes any more. What makes it
hard to test is not the analysis of one function, which is sequential, but what
is around it: a global fixpoint whose workers read models that others are
replacing, a lock-free hash table that the models live in, a dependency table
built from chained compare-and-swaps, a heap that is compacted in place, a
pool of forked processes that may fail, and a server that keeps up with files
that change while it looks at them. This directory models that core.

Paths below are relative to `src/source/`; `heap/` and `procs/` stand for
`hack_parallel/hack_parallel/heap/` and `hack_parallel/hack_parallel/procs/`.

## 1. Inventory

### How the parts work together

`taintAnalysis.ml` builds call graphs, an override graph and a dependency graph,
and starts `FixpointAnalysis.Make(...).compute`, twice: for the higher order
call graph (`callGraphFixpoint.ml`) and for taint (`taintFixpoint.ml`). `compute`
uses `Scheduler.map_reduce`, which deals chunks of targets to the worker
processes of `procs/` through pipes. A worker forks a child for every chunk; the
child reads and writes models in shared memory (`heap/sharedMemory.ml`, in C
`heap/hh_shared.c`) and answers with what the master has to merge. Between two
parallel phases only the master runs: it moves the models of the last iteration
to *old* keys, removes them, and lets the heap be compacted. The type checker
and the server use the same shared memory and, for incremental updates, the
dependency table of `hh_shared.c`: an update request goes from
`server/requestHandler.ml` through the Buck build (`server/buildSystem.ml`) to the
module tracker (`analysis/moduleTracker.ml`), the parsed sources
(`analysis/astEnvironment.ml`) and the environments above them
(`analysis/environment.ml`). A server may save its memory to a file from which
a later one starts (`server/start.ml`, `service/memory.ml`).

| Part | State | Operations | Hard behaviour | Correct if |
|---|---|---|---|---|
| Global fixpoint, `interprocedural/fixpointAnalysis.ml` | new and old models, results, the targets to analyze, the dependency graph | `record_initial_models`, `iterate`, `one_analysis_pass`, `analyze_callable`, `compute_callables_to_reanalyze`, `initialize_new_dependencies` | workers read models while others replace them; targets and edges appear during the iteration | "fixpoint" means that no model would change; no model is ever missing; it ends |
| OCaml tables and caches, `heap/sharedMemory.ml` | values under new and old keys, the key list of a table handle, a two-level cache per process | `get`, `mem`, `add`, `write_around`, `oldify_batch`, `revive_batch`, `map_parallel`, `merge_with_alist_sequential`, `cleanup`, handles for parallel phases | nobody can invalidate another process' cache; a worker may not remove; old values left behind | a cached value is the one in shared memory; whole-table operations reach every key |
| Hash table, `heap/hh_shared.c` | slots (hash, addr), a count, the heap and its pointer, wasted bytes | `hh_add`, `hh_mem`, `hh_get_and_deserialize`, `hh_move`, `hh_remove`, `hh_collect`, `pyre_reset`, save, load | races for slots and for values; readers during a write; killed writers; tombstones | it is a map in which the first writer wins |
| Heap collection and its image, `hh_collect`, `hh_save_table`, `hh_load_table` | headers and slots that point to each other; a file of compressed chunks | mark, slide; write, read | in-place pointer threading; a file that is cut off or of another binary | every value survives, no garbage does; a load ends with everything or nothing |
| Dependency table, `heap/hh_shared.c` | a table of edges, and lists of list heads and nodes in a second table | `add_dep`, `hh_get_dep`, saving to SQLite | three unbounded loops with compare-and-swap; lists are read while they grow | one slot per edge, one list per node, reads and the saved file see the graph |
| Worker pool, `procs/worker.ml`, `multiWorker.ml`, `hack_bucket.ml`, `service/scheduler.ml` | pipes, busy flags, processes | `map_reduce`, `once_per_worker`, `destroy`, `call`, `select`, `get_result`, `fork_handler` | jobs raise, processes die, the server uses the pool again | every task is merged once, or the call raises |
| Environments, `analysis/environment.ml`, `astEnvironment.ml`, `service/dependencyTrackedMemory.ml` | layers of lazily or eagerly computed tables, recorded dependencies, a registry that decodes them | `get`, `update_this_and_all_preceding_environments`, transactions, overlays | several processes compute a value; files change while they are parsed; an update must find everything that depends on a change | incremental = from scratch |
| Saved states, `server/start.ml`, `serverState.ml`, `service/memory.ml` | the file | store, load, fall back | memory, edges and decoder of an earlier session, files changed since | the same |
| Module tracker and update requests, `analysis/moduleTracker.ml`, `server/requestHandler.ml`, `buildSystem.ml`, `buck_integration/` | build map, deferred events, explicit and implicit modules | `process_incremental_update_request`, builds, `Layouts.update` | a file is looked at three times and may change in between; builds fail | incremental = from scratch |
| Graph algorithms, `interprocedural/dependencyGraph.ml`, `classIntervalSetGraph.ml`, `analysis/weakTopologicalOrder.ml` | none | DFS order, pruning, intervals | recursion on cyclic graphs | equal to their definitions |
| Rest of the server, code navigation server | subscriptions, overlays | handlers under a lock | a failed request | state stays usable |
| Type checker, AST, parsers, call graph builder, taint domains, forward and backward analysis, model parsing and queries, reporting, Pyrefly interface, Watchman, Python client, stubs, tools | | | sequential, or I/O | not modelled, see section 7 |

`PROJECT.json` lists each part with its files, and the hazards at their lines.

## 2. Modules

| Module | Models | Used by |
|---|---|---|
| `FixpointAnalysis` | `fixpointAnalysis.ml`; the functor parameters (domain, analysis of a body) are CONSTANT operators | |
| `TaintFixpoint`, `CallGraphFixpoint` | the two sets of functor arguments; both EXTEND `FixpointAnalysis` and define the operators its CONSTANTS stand for | `MCTaintFixpoint`, `MCCallGraphFixpoint` |
| `FixpointAnalysisProofs` | proofs about `FixpointAnalysis` | |
| `SharedHashTable` | the hash table of `hh_shared.c` | `MCSharedHashTable` |
| `KeyValueStore` | abstract: a map with Add (first writer wins), Remove, Move and Reset | instance `Store` in `SharedHashTable` |
| `SharedHashTableProofs` | proofs about `SharedHashTable` and its refinement of `KeyValueStore` | |
| `SharedTable` | `WithCache` over `LocalCache`, and `FirstClassWithKeys`, of `sharedMemory.ml` | `MCSharedTable` |
| `SharedTableProofs` | proofs about `SharedTable` | |
| `HeapCollection` | the loops inside `hh_collect`, which is one step in `SharedHashTable` | `SavedImage` |
| `SavedImage` | EXTENDS `HeapCollection`: the image of the collected heap in a file, and its load | `MCSavedImage` |
| `SavedImageProofs` | proofs about `HeapCollection` and `SavedImage` | |
| `DependencyTable` | `add_dep`, `hh_get_dep`, and the table's SQLite file | `MCDependencyTable` |
| `DependencyTableProofs` | proofs about `DependencyTable` | |
| `WorkerPool` | `map_reduce`, `once_per_worker` and `destroy` down to pipes and processes | `MCWorkerPool` |
| `WorkerPoolProofs` | proofs about `WorkerPool` | |
| `EnvironmentStack` | layers of environments over parsed sources, read on demand and updated; what a layer computes is a CONSTANT operator | `SavedState` |
| `SavedState` | EXTENDS `EnvironmentStack`: sessions of the server with a saved state between them | `Environments` |
| `Environments` | four real layers as arguments of the stack | `MCEnvironments` |
| `EnvironmentStackProofs` | proofs about `EnvironmentStack` and `SavedState`, and about their instance `Environments` | |
| `ModuleTracker` | update requests, the Buck build system and the eager module tracker | `MCModuleTracker` |
| `ModuleTrackerProofs` | proofs about `ModuleTracker` | |

### FixpointAnalysis

`phase` is where `iterate` stands, or how `compute` ended (`fixpoint`, `stopped`
and `raised` at the iteration bound, `failed` for the internal failures of the
file). `new` and `old` are the two versions of the shared model table, `todo` is
`callables_to_analyze`, `graph` the dependency graph. A worker has a list of
callables (`job`), the one it analyzes (`current`), what it has read for it
(`seen`) and its process cache.

- `StartIteration` is `oldify` and the start of `map_reduce`; `TakeJob` deals a
  chunk, to a freshly forked child with an empty cache, or, if the CONSTANT
  `LongLivedWorkers` says so, to a process that still has its cache (`JobCache`).
- `BeginCallable`, `ReadCallee` and `FinishCallable` are the three parts of
  `analyze_callable`. Every read of a model is an action of its own, because
  other workers publish in between. `FinishCallable` widens, sets
  the result, the new model and the meta data.
- `FinishJob` is the reduce; `EndIteration` removes the old models, adds new
  dependencies, initializes new targets and computes what to analyze again.

`Queries(c, s)` says which models the analysis of `c` asks for when its answers
so far are `s`: what an analysis reads may depend on what it has read.
`lastSeen` is a history variable: what the last analysis of a target had read.

### SharedHashTable

One action per atomic access. A worker's `pc` is its place in `hh_add` or in
`hh_mem` + `hh_get_and_deserialize`. `AddRead` loads the hash, `AddGrab` is the
compare-and-swap of the hash and the second look when it fails, `AddCount` the
increment of `hcounter`, `WriteClaim` the compare-and-swap of the address,
`Alloc`, `Copy` and `Publish` the rest of `write_at`. `FindSame` and `FindFree`
are the two loads of `find_slot`, `MemReady` and `MemTimeout` the ways out of
the busy-wait. A worker that finds the table full (`AddFull`, or the probe is
back where it began, `Advance`) first takes the statistics of
`raise_hash_table_full`: it counts the taken slots and asserts that they are
`hcounter`, and raises `Hash_table_full` (`hash_table_full`) or the failure of the
assertion (`stats_failure`).

`Die` kills a worker inside an operation. An operation that does not return ends in
one of `Raised`; `Leave` drops its locals. Most exceptions are answers (`Reported`),
and the worker runs its next job in a new child (`NextJob`); `Heap_full` and a
signal end the worker itself. The master's operations, and with them everything
that is said of the table between two phases, need only that no worker is inside an
operation (`Quiescent`): all have returned, raised or died, as the server goes on
with its pool after a failed worker (`assert_master`, and the phases of the callers).
What a dead writer leaves behind, a slot with `WRITE_IN_PROGRESS`, is in
the table then: a key in such a slot is never `Readable` for `remove` and `oldify`, and
the assertion of `hh_collect` fails on it, which ends the server (`CollectFails`,
`stopped`).

### SharedTable

Models live in a table of `FirstClassWithKeys`. Here the table below is a map
(what `KeyValueStore` promises) and the OCaml code on top of it is the subject.
`mode` says what the master is doing: between phases it reads, merges, oldifies,
removes old values or cleans up; in a phase each input key is dealt to one
worker (`Deal`), which writes through the handle of the phase: `AddOnlyAdd`,
`set_new` (PreserveKeyOnly) or `add_old_and_accumulate_written_keys`
(`map_parallel`). `FinishJob` reduces the keys a worker answers with;
`from_add_only`, `EndPreserve` and `revive_batch` end the phases. A cache is a
record of its two levels, the queue of the first and both counters; cached reads
are the actions `Get` and `Mem`. The order of the operations is that of the
callers in `fixpointAnalysis.ml`: what is oldified is written again and its old
values are removed before the next batch, only keys the table does not have are
added. Within this order the calls come in any sequence.

### DependencyTable

`BindRead` to `BindCount` are the loop of `add_binding`; `HeadRead`, `HeadCas`,
`alloc_deptbl_node`, `Link` and `Push` are `prepend_to_deptbl_list`; `GetProbe` and
`GetWalk` are the two loops of `hh_get_dep`. Hashes are CONSTANT functions,
chosen to collide. `hh_save_dep_table_sqlite` is the file the master would write
now, as a function of the table: it runs alone. `SavedIsGraph` compares it, in
every state without an operation under way, with the edges that were added.

### WorkerPool

A call begins with the inputs and a bucket size (`map_reduce` takes every size
that one of the scheduling policies gives, `once_per_worker` one job per worker).
The master deals chunks (`DispatchJob`, `OnceCall`), selects (`collect`), reads answers
(`get_result`) and merges. A worker forks (`Fork`); its child answers (`Succeed`,
`Fail`) or dies (`Crash`), and then the worker exits too. The pipes are sequences.
`process_request` is the server, which turns any exception into a response and
goes on with the same pool. `destroy` and `kill` end the pool; a child whose
worker was killed goes on (`OrphanExits`).

### HeapCollection

The heap is a sequence of words: headers, payload and, during the collection,
pointers to slots. Init enumerates all heaps within the bounds. `SavedImage`
writes the slots and the words, chunk by chunk, to a file, drops any end of it
(`SaveEnd`: nobody looks at the result of `fclose`), and lets a process with this
or another revision read it. `before` is what every slot held at first, so that
`ValuesKept` relates a table that was collected, saved, loaded and collected
again to the first one.

### EnvironmentStack, SavedState and Environments

A key is a layer and a module. `work` holds the stack of calls of each process:
`TakeJob` deals a key, `ReadMissing` is the call of `get` for a value that
`produce_value` needs and that is not there, `RawAdd` adds what was read from the
file when the call began (the file may have changed since, another process may
have been faster), `ProduceValue` records an edge for everything that was read,
registers the dependency and adds the value. `FinishJob` is the reduce, which
takes the registered keys to the master, except in `collect_definitions`; the history
variable `lost` has those that were thrown away. `Scratch` is the table of a
server that starts now. `Fresh` compares every value with it, and takes over from
the table only what nothing can be said of: `Unwatched`, the values of which the
dependency on another module is lost (section 6). A value that reads one of them has to be
what is computed from it.

An update parses again what changed (`StartUpdate`, `EndSources`), triggers the
first layers for every invalidated module, and goes through the layers:
`StartLayer` deprecates and recomputes, `EndLayer` compares old and new values and
asks the edges for dependents; `RemoveLazy` is the pessimistic transaction of a
lazy layer. `Dependents` is the way from a key over hashes to the registry.

`SavedState` adds `SaveState`, `LoadState` (edges stay in the file), `FallBack` and
`DoesNotStart`. `Environments` gives the layers of module components, attribute
tables, function definitions and check results; a file is its interface, its
body, its wildcard imports and the modules whose classes it uses.

### ModuleTracker

The file system changes at any time (`ChangeFile`). `ReceiveUpdate` stats the
reported paths, `SkipRebuild`, `Rebuild`, `BuckError` and `LinkTreeError` are the ends of
the build, `UpdateModules` is the rest of the request: artifact events, the
updates of explicit and implicit modules (`update_module_paths` and
`update_children`, each a fold over the events), their merge, and which modules
the environments load again. `mixed` is a history variable: the artifacts of which the
last batch had both a created and a deleted event.

A module path is an artifact together with `should_type_check`, which
`ArtifactPaths.should_type_check` reads *through* the link, or of the link itself if it
is dead (CONSTANT `Internal`). `checked` has the field that is kept for an artifact. It is
set when the artifact enters a list; when an artifact is already there,
`insert_module_path` does nothing and the old field stays (`insert_should_type_check`):
"We don't require the ModulePaths to be the same because filesystem changes and
race conditions can lead to the is_external field - which requires reading a
symlink - being different for ModulePaths created at different times"
(`moduleTracker.ml:403-405`). `ProcessNewOrChanged` compares the head of the new list
with the path of the event in both, as `ModulePath.equal` does. `TrackerExact` is about
artifacts and their order; `ModulesFresh` is about what the environments hold, field
included, and `Outdated` says where the kept field is not the one of now.

## 3. Runs

| Run | Question | Bounds |
|---|---|---|
| `taint_fixpoint` | Does the taint fixpoint of a recursive program with overrides end, and in a fixpoint (`FixpointSound`, `Termination`)? Are models always found (`ModelAvailable`), caches coherent, results complete? Do models only grow (`ModelsGrow`)? | 5 targets in a cycle with an override target and a stub; 2 workers; chunks of 2; 2 labels; 8 iterations, never reached |
| `call_graph_fixpoint` | The same for targets that are discovered on the way (`NoFailure`, `FixpointSound`) | 2 workers, chunks of 1; one parameterized target, one override |
| `call_graph_parameterized` | violation, see section 6 | |
| `hash_table` | `UniqueSlot`, `NoGap`, `AddedIsPresent`, `ReadComplete`, `HeapExact`, `CountExact`; the table implements `KeyValueStore` (`ImplementsStore`) | 3 keys for 2 slots, two with the same home, the last slot, so that probing wraps and the table gets full; 2 values; 2 workers, one may die; a heap of 2 values, so that it gets full; the master goes on after deaths and exceptions |
| `hash_table_liveness` | Every operation that begins returns or raises, also after the death of a writer and in a table that was saved and loaded | 2 keys, 1 death |
| `shared_table` | `CachesCoherent`, `HandleComplete`, `MapApplied`, `CacheAccounting` | 2 keys, 2 values, 2 workers; caches of capacity 1, so that every second read evicts or collects; no read through a cache whose queue has 3 entries |
| `heap_collection` | `ValuesKept`, `NoGarbageLeft`, `LoopsEnd` | every heap of up to 3 values of up to 3 words and every assignment to 3 slots, one save and load with a collection before and after it or not; chunks of 4 words, so that slots and heap and values straddle chunks; 3 revisions, one a prefix of another |
| `dependency_table` | `OneSlotPerEdge`, `OneList`, `ReadsGraph`, `SavedIsGraph`; every add ends, every read ends unless the table is full (`LoopsEnd`) | 4 edges for 3 slots, all hashes collide; 2 processes |
| `worker_pool` | `EachTaskOnce`, `NoStaleAnswer`, `NoSpuriousFailure`, `CollectAlone`, `CallEnds` | 0 or 4 tasks, 2 workers, the policies with numbers 1 to 3 (buckets of 1, 2, 3 and 5, the last one short), 2 calls, 2 failures: one worker can fail in the first call while the other still works in the second |
| `environments` | `Fresh`, `OwnValueIsShared` | 3 modules in 4 layers, one of them a library that may be missing; wildcard imports over two steps; two dependencies with one hash; 2 workers or none; 3 changes of files; 2 sessions |
| `module_tracker` | `TrackerExact`, `ModulesFresh`, `IllegalOnlyIfMixed` | a package and a module, with a stub that shadows it in one of two versions of `TARGETS`, which also link the module to an external or to an internal source; a critical file; 4 changes, 2 failed builds |
| `module_tracker_illegal` | violation, see section 6 | 4 changes |

Two workers are enough for the races the code has: every compare-and-swap and
every read-then-use is between one actor and "somebody else", and what two
others could do in between one other can do in two steps. For the invariants and
action properties the theorems below remove this and the other bounds; of the
liveness properties the bounds are what is checked.

**Fairness.** Weak fairness of each worker inside an operation (the operating
system runs every process), of the master inside a call, and of jobs that end. No
fairness of beginning an operation, of failures, of deaths or of the timeout on
its own: a reader may always leave the busy-wait when the writer has published.
In `SavedImage` the loops of collection, save and load run on once they have
begun; nothing makes the master save or load.
`CHECK_DEADLOCK FALSE` is used where everything may stop: workers that raised or
died, a pool that was destroyed, a server that stopped or has nothing to do.

**Bounds in the modules** are `MaxDeaths`, `MaxCalls`, `MaxFailures`,
`MaxIterations` (a parameter of the program too), `ChunkSize`, `MaxQueue`, `MaxValues`,
`MaxSize`, `MaxLoads`, `MaxChanges` and `MaxSessions`.

## 4. Proofs

### FixpointAnalysisProofs

For every set of targets, domain, analysis, number of workers and chunk size
(`Coherence` and `Soundness` assume `ForkedWorkers`, a process per job, which is
the default):

- `TypeCorrect`: `Spec => []TypeOK`, from `WellTyped`, what the OCaml signatures
  of the functor arguments say.
- `Coherence`: `Spec => []CacheCoherent`. A cache hit needs an entry that was read
  in this iteration; a target gets its new model once per iteration, because
  every input of the map is in one place: undispatched, in one job, or current
  in one worker (`WorkInv`), and exactly these have no new model (`ModelInv`).
- `Soundness`: `Spec => []FixpointSound`, from `WellTyped`, `CompleteGraph` (every
  model an analysis may ask for is of a callee in the initial graph) and
  `NoNewDependencies`. Both are what `taintFixpoint.ml` relies on: it reports no additional
  dependencies. `FixpointSound` is not inductive: in the middle of an
  iteration callables have read models that are already replaced. `StableInv`
  says that each callable is pending, or has itself changed, or is settled: what
  it read is current, except for callees that changed and are reported as such, and its callers are
  in the graph. At the end of the iteration the changed ones and their callers
  are exactly those analyzed again. Neither the order nor the widening needs
  any law for this.

Without `CompleteGraph` the theorem is false, as run `call_graph_parameterized`
shows for the call graph fixpoint; without `ForkedWorkers` both are false (a
constant of the module, see section 6).

### SharedHashTableProofs

For every table and heap size, set of keys, number of workers and deaths, and
hash function with values in the table: `TypeCorrect`, `KeysAreUnique`
(`UniqueSlot`), `ProbingWorks` (`NoGap`), `AddIsVisible` (`AddedIsPresent`) and
`ReadsAreComplete` (`ReadComplete`). The inductive invariant is `TableInv`:

- `ProbeInv`: a writer has passed only slots of *other* keys (a hash, once set,
  stays), and from the compare-and-swap on is at the slot of its key;
- `ReaderInv`: a reader that was told "present" is at the slot of its key;
- `LocalInv`, `ValueInv`: what is about to be published, and what is, is written;
- `AddedInv`: what an add returned for has a slot with an address.

The step that matters is lemma `TakeSlot`: giving the first free slot to a key
keeps `UniqueSlot` and `NoGap`. The key is in none of the slots before it, by
`ProbeInv` for a worker and by `find_slot` for `hh_move`, and is in none after
it, since `NoGap` would then say that the slot is not free. Lemma `ProbeSlots`
(probing is a bijection on slots) and `RelocatedInHeap` (compaction stays in the
heap) are the only arithmetic.

### FixpointAnalysisProofs: what the fixpoint keeps in shared memory

The second part of the module. None of these needs `CompleteGraph` or
`ForkedWorkers`, so they hold for the call graph fixpoint too. The hypotheses on
the arguments are named definitions, and TLC confirms them for the instances
that the runs check (`WideningGrows` for the taint fixpoint only).

- `ModelsAvailable`: `Spec => []ModelAvailable`, from `WellTyped` and
  `InitiallyModelled` (every callable to analyze got an initial model). The
  invariant `ModelsKept` says more, so that callees that are never
  analyzed are covered: whoever was given a model has one, new or old.
- `ModelsOnlyGrow`: the action property `ModelsGrow`, if the widening of the domain
  is an upper bound of its arguments (`WideningGrows`). The step to look at is the end of
  an iteration, which drops the old models: by `ModelInv` each of them was
  replaced.
- `ResultsAreComplete`: `Spec => []ResultsComplete`. `ResultsInv` counts, in the middle
  of an iteration, a callable as done if it has a result or is still pending.
- `NeverFails`: `Spec => []NoFailure`, if override targets have models
  (`OverridesModelled`) and callers in the graph that have a model are analyzed
  (`CallersAnalyzed`). `CallersInv` keeps the latter while edges are added.

### SharedHashTableProofs: the heap and the refinement

On top of `TableInv`, `HeapInv` says who owns what while a value is written:

- `ClaimInv`: a writer that has claimed a slot (`Claimer`) is the only one there, and
  the slot has `WRITE_IN_PROGRESS`; slots that have it and no writer are `Abandoned`;
- `ChunkInv`: a chunk below the heap pointer belongs to one slot or to one writer;
- `WasteInv`: the heap is the chunks of slots and of writers and what is wasted, and
  at most one chunk more for every abandoned slot: its writer was killed with a chunk,
  or before it had one, or moved the heap pointer over the limit;
- `CountInv`: `hcounter` is the number of slots that are taken, less those whose
  writer is about to count, and at most one less for every killed worker;
- `EmptyInv`: a slot without a key has no address.

From it: `HeapIsExact` (`HeapExact`) and `CountIsExact` (`CountExact`), both for a
process that has not loaded a saved table (`~ SavedState`; after a load the code does not restore
the counters, see section 6). Both speak of every state, or of every state between
two phases, also after workers were killed or raised. `CountExact` does not say that
the assertion of `get_slots_stats` holds, which it does not (section 6). It says by how
much `hcounter` can be behind, and so when it fails: while some worker is between the
compare-and-swap and the increment, or after one was killed there. Its other part
is that a worker gets to this assertion only when no slot is free (`FullInv`: who has
come round has passed taken slots only, and `hcounter` is never ahead of them), which
is also why counting the slots in one step is the same as counting them one by one.
Then `Refinement` (`ImplementsStore`): every step is a
step of `KeyValueStore` or changes nothing in the map of keys with an address to
their values. An add takes effect when the address is stored; a collection moves
every value and changes no entry.

### SharedTableProofs

For every set of keys and values, any number of workers and every capacity, with
no hypothesis but that the capacity is positive: `NothingStale`
(`CachesCoherent`), `HandlesAreComplete` (`HandleComplete`), `MapIsApplied`
(`MapApplied`) and `CachesAccount` (`CacheAccounting`). The inductive invariant
is `CacheInv /\ PhaseInv /\ ContentInv`:

- `CacheInv`: on its own, a cache has counters that count and a queue in which
  every entry of the first level is (`CacheOK`, which each cache operation
  keeps, by one lemma per operation); and it agrees with the table. That a
  worker's write does not make another cache wrong is not a property of the
  caches: it needs
- `PhaseInv`: an input of a phase is undealt, in one job, or answered by one worker, and
  a worker that is not in a phase has no cache;
- `ContentInv`: per mode, which keys have new and old values and are listed.
  A key that is still to be written in a phase has no value, so no cache has it.

### DependencyTableProofs

For every table size, set of edges, number of processes and all hash functions
with values in the table: `OneListPerNode` (`OneList`), `SlotsMatchEdges`
(`OneSlotPerEdge`), `ReadersSeeTheGraph` (`ReadsGraph`, if the edge from 0 to 0 is
not added, see section 6) and `AssertionsHold` (neither assertion of the code
fails). The invariants are inductive only together:

- `BindInv`, `HeadInv`: edges and heads are found by probing and are in one slot.
  The argument is that of the hash table: who takes a free slot has passed only
  slots of others, and had its key been further on, the slot would not be free.
- `OwnInv`: an edge that is being prepended, and a cell that is not in a list yet, have one
  owner, and nobody else writes to the cell.
- `ListInv`: there is, for each node, a sequence of values and cells in the order
  in which the list *grew*, which the pointers of the table follow backwards.
  In this order a push only appends, so that what a reader has collected, and
  where it stands, stays true while others push. Values are distinct, are bound
  edges, and every bound edge is in its list or still being prepended.
- `CountInv`: slots of edges, slots of lists and the counter, with the processes
  in between.

They need each other in one place that is easy to miss: a list cell whose value
is 0 and whose `next` is the value 0 has the bit pattern of a free slot. `Link`
would free the cell it has just taken, if 0 could be in a list twice; that it
cannot follows from `ListInv`, which rests on `BindInv` (lemma `LinkNotZero`).

`SavedFileIsTheGraph` (`SavedIsGraph`, under the same hypothesis on 0) takes two
things more. `ReturnInv`: an edge that has taken a slot was returned for or is
still being prepended, so that in a state without an operation under way the
lists are exactly the edges that were returned. And what the saving loop writes:
`hh_save_dep_table_sqlite` is a fold over the slots and a walk through each list;
both are turned into sequences of intermediate results, along which the row of a
node is the list of `ListInv`, read backwards.

### WorkerPoolProofs

For every pool, number of tasks, calls and failures, and every bucket size a
policy gives: `TasksMergedOnce` (`EachTaskOnce`), `AnswersAreFresh`
(`NoStaleAnswer`), `FailuresHaveCauses` (`NoSpuriousFailure`) and `CollectsAlone`
(`CollectAlone`). `busy` is the token that ties the one message of a worker to
its call:

- `PipeInv`: between the master and a worker there is at most one message, a
  request, a job or an answer, and none if the worker is not busy;
- `MessageInv`: the message of a worker that is waited for is of the current call,
  since a worker that is still busy from an earlier one makes the call raise;
- `MasterInv`: which workers are free, waited for or ready at each step;
- `TasksInv`: a task that was dealt is merged once, or with one worker that is
  waited for, and one that was not dealt is nowhere. If that worker
  died, it is waited for until reading its answer raises;
- `OnceInv`, `QuietInv`: what is known in `once_per_worker`, and without failures.

### EnvironmentStackProofs

For every number of layers, set of modules and contents, number of processes,
changes and sessions, and every `Hash`: `IncrementalIsFresh` (`Fresh`) and
`ProcessesAgree` (`OwnValueIsShared`). What is assumed of the layers is
`WellBehavedWith(V)`, for some sets `V[k]` of values: `produce_value` reads lower
layers only; what it reads next and what it computes depends on nothing but what
it has read; and the layer that `collect_definitions` asks for is one that is
computed from sources and triggered for every invalidated module.

`Fresh` is about a server at rest. In the middle of an update values are
outdated, and the invariant says why each of them will be found. A value above
the sources (`ValueInv`) is registered or being registered, and one of:

- `Current`: it is what is computed from the tables as they are, and an edge is
  recorded for all that this reads;
- `WasCurrent`: it was, with the values that the transaction under way has
  deprecated (`Merged`); comparing old and new values at the end of the
  layer then makes it current or triggers it through these edges;
- `Due`: it is triggered, and the update has yet to come to its layer;
- `Overlooked`: its registration was lost in `collect_definitions` and it depends
  on another module. At rest such a value is in `Unwatched`, the exemption of
  `Fresh` (section 6), and by `LostInv` it is of the layer `Listed`.

`SourceInv` and `TrackInv` say the same of sources: what is in the table is what
is in the file, or a change is still to be reported, also for a file that was
read and not yet added (`CallInv`). `SavedInv` is all this for the file of a
session. That several processes compute a value is harmless because tables only
grow between two updates: what a computation has read stays what it was
(`JustifiedGrows`). At rest everything that is watched is current, and `Fresh`
follows layer by layer from the sources up, by induction on the layer as a set of
numbers (`CurrentIsScratch`): a watched value is computed from values that are those
of `Scratch`, be it that `Scratch` computed them or took them over.

`EnvironmentsAreFresh` discharges the hypotheses for the four environments
of `Environments` (`FourEnvironments` says that the CONSTANT operators are those;
`FilesAreClosed`, that files name modules of the program), where the only long step
is that the search for wildcard imports reads what it depends on.

### SavedImageProofs

For every number of slots, every first heap, every chunk size, set of revisions
and number of loads, if `NullIsNew`: `CollectionKeepsValues` (`ValuesKept`) and
`CollectionLeavesNoGarbage` (`NoGarbageLeft`). The heap is described by its blocks:
`Layout` says that they fill it without overlap, `Owner` which block each slot has.

- `MarkInv`: the slots before `i` have swapped their address with the header of
  their block, and the block points back (`Swapped`); the others have not.
- `MoveInv`: two layouts, that of the blocks from `src` on as they were and that of the
  blocks that have been moved before `dest`. The payload of a slot is in one of
  them. `dest <= src`, so that `memmove` to the left overwrites only what was moved
  (lemma `Memmove`). `dest` is the running total of the sizes of slots that have
  moved, which at the end is what `NoGarbageLeft` compares the heap with.
- `SaveInv`, `FileInv`, `LoadInv`: the file is the image in chunks at increasing
  places; a file that lacks its end is a prefix of these; what has been loaded
  is the part of the image before the next chunk.

The words of the first heap and the totals are folds over sequences; they are
turned into sequences of intermediate results as above.

### ModuleTrackerProofs

For any sources, build definitions, modules, packages and priorities and any
number of changes and failed builds: `IncrementalTrackerIsExact`
(`TrackerExact`), `UpdatesAreEnough` (`ModulesFresh`) and `MergeFailsOnlyIfMixed`
(`IllegalOnlyIfMixed`). The argument has three parts.

*The list of a module is determined by its paths.* `insert_module_path` and
`remove_module_path` keep a list ordered and change its set by one path
(`InsertIs`, `RemoveIs`), and two ordered lists with the same paths are equal
(`OneOrder`, since priorities differ). So it is enough to reason about sets, and
the list of a server that starts now is the one that any sequence of updates gives.

*A batch.* `ModuleInv(q, p0, p, u, C, D)` is what holds after the events so far,
which created or changed the paths `C` of module `q` and deleted `D`: the list `p`
has `p0` and `C` without `D`, and the merged update `u` is right: none if the head
is the same and was not touched, or touched and `Outdated` (`Same`), or new, changed or
deleted, or illegal, and then `C` and `D` meet. It is kept because all creations come before all
deletions (`dedup_and_sort`): a deletion never precedes a creation in one batch.
For the same reason a field is set in a batch exactly for the paths that were created and
not in a list before it (`BatchInv`).

*The protocol.* `Inv` is about what the server may be wrong about. A source is
*dirty* when watchman has yet to report it, or an event of it is deferred or under
way. The build map is that of some disk that agrees with the real one on the
existence of clean sources (`BuildInv`); paths and packages are right for the
artifacts of clean sources (`TrackInv`), and so is what the environments hold
(`LoadInv`), as long as an artifact is not in `mixed`: the path that was found with the
field that is kept (`Fields`), and its content, if the kept field is that of
the source it is linked to (`HoldsContent`). An event of a source that has
not changed since is true of it (`EventsTrue`). A change makes a source dirty, a request
moves dirt from `pending` to `events`, a failed build to `deferred`. After a build
(`BuiltOver`) the tracker is behind by the difference of two build maps and the
events, which is what the artifact events say (`EventIs`, `BatchSays`).
Skipping a build is justified by `NeedsBuild`: every reported source existed
for the last build and exists now. TLC confirmed `Inv` on the instance of run
`module_tracker` before it was proved.

### Only model-checked

`Termination`, `OperationsEnd`, `CallEnds` and the two `LoopsEnd`: liveness under
fairness is beyond the prover. The two violations of section 6 are TLC's too.

Theorems of the library that take an operator as a parameter, structural
induction and recursive definitions among them, cannot be used with the
provers. Where a proof needs to know what a fold computes, it shows by hand, from
`WFMin` (a set of numbers has a least one), that the sequence of its
intermediate results exists (lemmas `...FoldExists`), and reasons along it.

## 5. Assumptions

- Stores of one process become visible in order and loads of a word are atomic,
  as on x86-64. `hh_shared.c` publishes an address with a plain store.
- Different keys have different, nonzero hashes (the code uses 64 bits of MD5).
- The hashes of nodes and edges in `DependencyTable` are slots of its tables
  (`HashAssumption`: the code masks them with `dep_size - 1`), and otherwise arbitrary.
- All values have the same size in `SharedHashTable`; sizes vary in
  `HeapCollection`.
- `NULL` of `HeapCollection` is neither an address nor a payload (`NullIsNew`: in C
  it is the address 0, and the heap does not start there). The number of slots
  and the bounds on the first heap are natural numbers (`BoundAssumption`).
- In `ModuleTracker` two paths of one module differ in priority
  (`PriorityAssumption`; "same_module_compare is only zero when the module paths
  are the same", `moduleTracker.ml:402`); `TARGETS` is a source and each version of
  it links artifacts to sources (`SourcesAssumption`); a path is neither NULL nor
  one of the two answers of `look_up_qualifier` that are not paths, and every
  artifact has a module (`ArtifactsAssumption`).
- What `produce_value` of an environment reads is below it, and it computes from
  what it reads and nothing else (`WellBehavedWith`, see section 4).
- Workers fork a child for each job (`worker.ml`, `fork_handler`), which is the
  default. In `SharedTable`, `WorkerPool` and `EnvironmentStack` they always do.
- In a parallel phase of `SharedTable` each key has one writer, as the callers of
  `FirstClassWithKeys` arrange it.
- The analysis of a body reads models and computes a model; it has no other
  effect on shared state.
- Watchman reports every change, at any later time. A server saves its state
  when the files are at rest, and the one that loads it is told exactly which
  files have changed since (`changed_files`).
- In `EnvironmentStack` the module tracker is right about which files exist when
  an update begins; that is what `ModuleTracker` is about.
- `EnvironmentStack` records the edges of everything a value was computed from
  when the value is produced. Tables only grow while values are computed, so
  that the moment does not matter.

## 6. Findings

Each is a run whose property TLC refutes; `PROJECT.json` quotes the lines.

- `call_graph_parameterized`: a parameterized target reports only those callees as
  dependencies that its base target does not have, and the initial graph has
  edges to the base target only. It is not analyzed again when such a callee
  changes, and the iteration ends as a fixpoint that is none.
- `module_tracker_illegal`: a file that was created and removed is seen as deleted
  when the request arrives; if it is created again before Buck builds, the
  artifact is new for the build and deleted for the request, and `merge_updates`
  ends the server with "Illegal state: delete after new module".

Observations without a run: `add_binding` accepts edges until no slot of the
dependency table is free, and then `hh_get_dep` of a node without edges never
returns (`LoopsEnd` says what holds); the entries of removed keys stay in
the queue of an `OrderedCache`, which can then hold more than its capacity; a
bucket size of 1 + tasks / chunks gives a policy that asks for as many chunks as
tasks only half of them; the answer -2 of `hh_mem_status`, which a comment gives to
deleted keys, is also given while a key is being added; an edge from node 0 to
node 0 has the code of an empty slot and is never recorded, hence the hypothesis
of `ReadersSeeTheGraph`; the loser of a race
in `add_binding` returns before the winner has linked the edge; at the end of
a pipe the master asks for the exit code without waiting, and may report
`End_of_file` where the worker had exited with `Heap_full`; `Worker.kill` does not
end the child of the worker.

More of them, met while modelling:

- A worker that finds the table full takes statistics before it raises
  (`raise_hash_table_full`), and asserts that as many slots are taken as `hcounter`
  says. While another worker is between taking a slot and counting it, or after one
  was killed there, the assertion fails, and the master is told of a failed assertion
  in place of `Hash_table_full` (`stats_failure`; `CountExact` says that there is
  no other case).
- A writer that was killed, or ran out of heap, leaves its slot with
  `WRITE_IN_PROGRESS`. If the server goes on and collects, the assertion of
  `hh_collect` fails with headers and slots half swapped, and nobody catches
  it: the server stops (`CollectFails`; "that is also very bad").
- `hh_load_table` does not restore `hcounter` (nor `wasted_heap_size`), so that the
  assertion of `get_slots_stats` fails after a load. `collect` may have skipped the
  collection before the save, and the garbage it left is then not counted.
- When one job raises, the other workers keep their busy flag; the server goes
  on, and its next `map_reduce` raises `Worker_busy` (`NoSpuriousFailure` is what
  holds).
- With `long_lived_workers` (off by default) a worker keeps its cache from one
  iteration to the next, nothing invalidates it (`oldify_batch` clears the
  master's only), and the fixpoint can end with a model computed from an
  outdated one.
- `once_per_worker` lets a forked child invalidate its caches, which has no effect
  on the worker it was forked from; the worker's own caches are empty.
- `collect_definitions` reads an environment through the plain
  `Scheduler.map_reduce`. The dependencies that its workers register stay in
  children that exit, and an update of a module that another one imports with a
  wildcard then finds no dependent: the function definitions of the importing module stay as
  they were, and so do its check results, against "In order to guarantee that we
  re-check all potentially-changed modules" (`astEnvironment.ml:207`). The exemption
  `Unwatched` of `Fresh` is these values, one by one: those that were registered in such a
  worker and nowhere else since, and that have an edge from the source of another
  module. All other values of the same server are compared. Without the exemption TLC
  refutes `Fresh`.
- A list of the module tracker keeps the module path that was created first. If the
  link of a module comes to lead from internal to external sources or back, or was dead
  when one of the two was looked at, the path of the event differs from the kept one in
  `should_type_check`, and the event of a file that does shadow the others
  is taken for one of "a shadowed file" (`moduleTracker.ml:576`), although "Updating a
  shadowing file means the module gets changed" (574). No update is reported, and
  the environments keep the old content and the old field until the path leaves
  the list or the field is true again and the file changes. The exemption `Outdated` of `ModulesFresh`
  is this case; without it TLC refutes the property, by a change of `TARGETS` that links a
  module to an internal source instead of an external one.
- After a mixed batch that does not fail, a module may be missing although its
  file exists, until the file is touched again (the exemption `Disturbed`).
- The revision in a saved file is compared with `strncmp` over the saved length: a
  saved revision that is a prefix of the running one is accepted. Table sizes
  and addresses are not compared, `configuration_equal` looks at the lengths of
  lists and not at `shared_memory`. `read_all` asks for the whole size again after
  a short read.
- Failures of tar and of SQLite and a table that lacks a serialized value are
  not turned into `SavedStateLoadingFailure`: the server does not start
  (`DoesNotStart`). The query `SaveServerState` saves the memory without the
  registry, the module tracker and the configuration, which gives such a file.
- `pyre_reset` clears the name of the database of saved edges and not the open
  connection. `INSERT` without `OR REPLACE` makes a second save to the same file
  fail.

## 7. Not modelled

The type checker, syntax trees, parsers, call graph construction, the taint domains, the
forward and backward analyses, model parsing, model queries and reporting are
sequential functions on large data; where the core uses them they are CONSTANTS
and the theorems hold for all their values. The protocols of Buck, Watchman and
the saved state service and the client are I/O. Compression, serialization formats, logging,
statistics and the order heuristics of the work list do not change what is
checked here.

Of the modelled parts: overlays of environments and of the module tracker, the
lazy module tracker, new implicit modules in the environments, the error
environment and the layers between the four of `Environments` (class hierarchy,
aliases, metaclasses, globals; each is one more layer of the same kind),
subscriptions, and the build system that tracks unwatched files.

Of the C files: `dictionary_compression_data.c`, three quarters of their lines, is
one array of bytes for ZSTD; `hh_shared_sqlite.c` and the saving of values and file
information in SQLite (`hh_shared.c:1725-1764`, `2033-2060`, `2236-2471`) are
statements of a database, and nothing in OCaml calls the latter. What is left of
`hh_shared.c` maps memory, reports statistics, converts OCaml values or raises
OCaml exceptions. The state of the C code, the hash table, the heap, the
dependency table and their files, is modelled.

## 8. Plan

1. Done: the fixpoint and its two instances, the hash table with its abstract
   specification, heap collection and its saved image, the OCaml tables with
   their caches, the dependency table and its file, the worker pool with its
   policies and its end; theorems on the fixpoint and the hash table.
2. Done: the environment stack with dependency tracked memory, saved states, the
   update requests with the Buck build system and the module tracker.
3. Done: the invariants of the fixpoint, the hash table with its heap and its
   refinement of `KeyValueStore`, the tables over it, the dependency table and
   the worker pool as theorems.
4. Done: theorems for the environment stack and its instance, the saved image
   and the collection, the saved dependency file and the module tracker. Every
   invariant and action property that a run checks is stated by a theorem.
5. Later: overlays as a second stack over the first, the weak topological order
   and pruning against reachability, class intervals.

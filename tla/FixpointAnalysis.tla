--------------------------- MODULE FixpointAnalysis ---------------------------
(***************************************************************************)
(* The global fixpoint of source/interprocedural/fixpointAnalysis.ml: a    *)
(* master iterates; in every iteration worker processes analyze the        *)
(* callables whose model may change, reading the models of the callees     *)
(* from shared memory while other workers are replacing them.              *)
(*                                                                         *)
(* The functor parameters of `Make` (the abstract domain and the           *)
(* intraprocedural analysis) are CONSTANT operators; TaintFixpoint and     *)
(* CallGraphFixpoint give their values for the two analyses of Pysa.       *)
(***************************************************************************)
EXTENDS Naturals, FiniteSets

CONSTANTS
  Target,                \* callables: functions, methods, override targets
  OverrideTarget,        \* the targets of kind Override
  CallablesToAnalyze,    \* `callables_to_analyze` given to `compute`
  SkipTarget,            \* `skip_analysis_targets`
  InitialGraph,          \* `dependency_graph`: pairs <<callee, caller>>
  Model,                 \* the values of the type Model.t
  InitialModels,         \* what `record_initial_models` stored
  NoModel,               \* None, a key without a value
  Query,                 \* the call sites at which an analysis asks for a model
  Unread,                \* a query that was not made (yet)
  NoTarget,              \* a worker that analyzes nothing
  Worker,                \* the worker processes
  MaxIterations,         \* `max_iterations`
  ErrorOnMaxIterations,  \* `error_on_max_iterations`
  LongLivedWorkers,      \* `long_lived_workers` of the configuration
  ChunkSize,             \* bound on the targets given to a worker at a time
  Callee(_),             \* the target whose model a query asks for
  DirectMethod(_),       \* the method an override target stands for
  Queries(_, _),         \* queries an analysis makes, given the answers so far
  Analyze(_, _, _),      \* callable, previous model, answers -> new model
  AdditionalDependencies(_, _),   \* callable, new model -> new callees
  LessOrEqual(_, _),     \* Model.less_or_equal
  Widen(_, _, _),        \* Model.widen: iteration, previous, next
  ForNewDependency(_, _) \* Model.for_new_dependency: target, models

ModelOption == Model \cup {NoModel}
Answers == [Query -> ModelOption \cup {Unread}]
Graph == SUBSET (Target \X Target)

ASSUME TargetAssumption ==
  /\ OverrideTarget \subseteq Target
  /\ CallablesToAnalyze \subseteq Target
  /\ SkipTarget \subseteq Target
  /\ InitialGraph \in Graph
  /\ NoTarget \notin Target
  /\ \A q \in Query : Callee(q) \in Target

ASSUME ModelAssumption ==
  /\ NoModel \notin Model
  /\ Unread \notin ModelOption
  /\ InitialModels \in [Target -> ModelOption]

ASSUME BoundAssumption ==
  /\ MaxIterations \in Nat
  /\ ChunkSize \in Nat
  /\ ErrorOnMaxIterations \in BOOLEAN
  /\ LongLivedWorkers \in BOOLEAN

VARIABLES
  phase,        \* where `iterate` is, or how `compute` ended
  iteration,
  graph,        \* `dependency_graph` of the current iteration
  all,          \* `all_callables`, the keys of the TopologicalOrder
  todo,         \* `callables_to_analyze`
  new, old,     \* SharedModels: the value under the new and the old key
  results,      \* SharedResults: the targets that have a result
  meta,         \* SharedFixpoint: the targets that have meta data
  undispatched, \* inputs of the map_reduce not yet given to a worker
  partial,      \* `partial_callables` reduced so far
  additional,   \* `additional_dependencies` reduced so far
  busy,         \* workers with a job
  job,          \* what is left of a worker's list of callables
  current,      \* the callable a worker is analyzing
  seen,         \* the models this analysis got from `get_callee_model`
  jobPartial,   \* the worker's own partial_callables
  jobAdditional,\* the worker's own additional_dependencies
  cache,        \* the process-local cache of new models
  lastSeen      \* history: what the last analysis of a target had seen

modelVars == <<new, old, results, meta>>
masterVars == <<iteration, graph, all, todo>>
reduceVars == <<undispatched, partial, additional>>
workerVars == <<busy, job, current, seen, jobPartial, jobAdditional, cache>>
vars == <<phase, masterVars, modelVars, reduceVars, workerVars, lastSeen>>

NoAnswer == [q \in Query |-> Unread]
NoModels == [c \in Target |-> NoModel]

(* filter_skip_analysis_targets *)
filter_skip_analysis_targets(S) == S \ SkipTarget

(***************************************************************************)
(* State.get_model: the model of this iteration if it is already there,    *)
(* otherwise the one of the previous iteration.                            *)
(***************************************************************************)
get_old_model(c) == old[c]

(* mutant: the models of the previous iteration are not looked at *)
get_model_new_only(c) == new[c]

get_model(c) == IF new[c] # NoModel THEN new[c] ELSE get_old_model(c)

(* record_initial_models, and the arguments of the first call of iterate *)
Init ==
  /\ phase = "iterate"
  /\ iteration = 0
  /\ graph = InitialGraph
  /\ todo = filter_skip_analysis_targets(CallablesToAnalyze)
  /\ all = todo
  /\ new = InitialModels
  /\ old = NoModels
  /\ results = {}
  /\ meta = {c \in Target : InitialModels[c] # NoModel}
  /\ undispatched = {}
  /\ partial = {}
  /\ additional = {}
  /\ busy = {}
  /\ job = [w \in Worker |-> {}]
  /\ current = [w \in Worker |-> NoTarget]
  /\ seen = [w \in Worker |-> NoAnswer]
  /\ jobPartial = [w \in Worker |-> {}]
  /\ jobAdditional = [w \in Worker |-> {}]
  /\ cache = [w \in Worker |-> NoModels]
  /\ lastSeen = [c \in Target |-> NoAnswer]

(***************************************************************************)
(* iterate, until the map_reduce                                           *)
(***************************************************************************)

(* No callable is left: "Fixpoint." *)
ReachFixpoint ==
  /\ phase = "iterate"
  /\ todo = {}
  /\ phase' = "fixpoint"
  /\ UNCHANGED <<masterVars, modelVars, reduceVars, workerVars, lastSeen>>

ReachMaxIterations ==
  /\ phase = "iterate"
  /\ todo # {}
  /\ iteration >= MaxIterations
  /\ phase' = IF ErrorOnMaxIterations THEN "raised" ELSE "stopped"
  /\ UNCHANGED <<masterVars, modelVars, reduceVars, workerVars, lastSeen>>

(* mutant: the models are removed, not moved *)
oldify_removes(S) ==
  /\ UNCHANGED old
  /\ new' = [c \in Target |-> IF c \in S THEN NoModel ELSE new[c]]
  /\ results' = results \ S
  /\ UNCHANGED meta

(***************************************************************************)
(* State.oldify: models and meta data move to the old keys (oldify_batch   *)
(* removes the old value when there is no new one), results are dropped.   *)
(* Only the master runs.  (meta is the set of targets that have meta data  *)
(* under either key, which is what get_meta_data looks at.)                *)
(***************************************************************************)
oldify(S) ==
  /\ old' = [c \in Target |-> IF c \in S THEN new[c] ELSE old[c]]
  /\ new' = [c \in Target |-> IF c \in S THEN NoModel ELSE new[c]]
  /\ results' = results \ S
  /\ UNCHANGED meta

(* mutant: one iteration too many *)
StartIterationOffByOne ==
  /\ phase = "iterate"
  /\ todo # {}
  /\ iteration <= MaxIterations
  /\ phase' = "map"
  /\ oldify(todo)
  /\ undispatched' = todo
  /\ partial' = {}
  /\ additional' = {}
  /\ UNCHANGED <<masterVars, workerVars, lastSeen>>

StartIteration ==
  /\ phase = "iterate"
  /\ todo # {}
  /\ iteration < MaxIterations
  /\ phase' = "map"
  /\ oldify(todo)
  /\ undispatched' = todo
  /\ partial' = {}
  /\ additional' = {}
  /\ UNCHANGED <<masterVars, workerVars, lastSeen>>

(***************************************************************************)
(* one_analysis_pass, on a worker                                          *)
(***************************************************************************)

(* mutant: the cache is that of the previous job *)
KeptCache(w) == cache[w]

(***************************************************************************)
(* Worker.make: by default a job runs in a process forked for it, whose    *)
(* cache is empty; a long lived worker still has what it read before.      *)
(***************************************************************************)
JobCache(w) == IF LongLivedWorkers THEN cache[w] ELSE NoModels

(* A worker gets some of the targets that are left. *)
TakeJob(w) ==
  /\ phase = "map"
  /\ w \notin busy
  /\ \E chunk \in SUBSET undispatched :
       /\ chunk # {}
       /\ Cardinality(chunk) <= ChunkSize
       /\ job' = [job EXCEPT ![w] = chunk]
       /\ undispatched' = undispatched \ chunk
  /\ busy' = busy \cup {w}
  /\ jobPartial' = [jobPartial EXCEPT ![w] = {}]
  /\ jobAdditional' = [jobAdditional EXCEPT ![w] = {}]
  /\ cache' = [cache EXCEPT ![w] = JobCache(w)]
  /\ UNCHANGED <<phase, masterVars, modelVars, partial, additional, current, seen, lastSeen>>

(***************************************************************************)
(* analyze_callable, up to the previous model.  Without one it fails with  *)
(* "No initial model found", which ends the whole computation.             *)
(***************************************************************************)
BeginCallable(w) ==
  /\ phase = "map"
  /\ current[w] = NoTarget
  /\ \E c \in job[w] :
       IF get_old_model(c) = NoModel
       THEN /\ phase' = "failed"
            /\ UNCHANGED <<job, current, seen>>
       ELSE /\ job' = [job EXCEPT ![w] = @ \ {c}]
            /\ current' = [current EXCEPT ![w] = c]
            /\ seen' = [seen EXCEPT ![w] = NoAnswer]
            /\ UNCHANGED phase
  /\ UNCHANGED <<masterVars, modelVars, reduceVars, busy, jobPartial, jobAdditional, cache, lastSeen>>

(***************************************************************************)
(* get_callee_model: one read of shared memory, through the cache of the   *)
(* process (an entry may have been evicted, then it is a miss).  An        *)
(* override analysis fails when an overriding target has no model.         *)
(***************************************************************************)
CacheHit(w, callee) == cache[w][callee] # NoModel

ReadCallee(w, q) ==
  LET callee == Callee(q)
      c == current[w]
      Answer(m) ==
        IF m = NoModel /\ c \in OverrideTarget /\ callee # DirectMethod(c)
        THEN /\ phase' = "failed"
             /\ UNCHANGED seen
        ELSE /\ seen' = [seen EXCEPT ![w][q] = m]
             /\ UNCHANGED phase
  IN
  /\ phase = "map"
  /\ c # NoTarget
  /\ q \in Queries(c, seen[w])
  /\ seen[w][q] = Unread
  /\ \/ /\ CacheHit(w, callee)
        /\ Answer(cache[w][callee])
        /\ UNCHANGED cache
     \/ /\ Answer(get_model(callee))
        /\ cache' = [cache EXCEPT ![w][callee] = new[callee]]
  /\ UNCHANGED <<masterVars, modelVars, reduceVars, busy, job, current, jobPartial, jobAdditional, lastSeen>>

Answered(c, s) == \A q \in Queries(c, s) : s[q] # Unread

(* widen_if_necessary *)
is_partial(previous, next) == ~ LessOrEqual(next, previous)

widen_if_necessary(previous, next) ==
  IF is_partial(previous, next) THEN Widen(iteration, previous, next) ELSE previous

(* mutant: the result is stored for override targets too *)
set_any_callable_result(w, c, model) ==
  /\ new' = IF new[c] = NoModel THEN [new EXCEPT ![c] = model] ELSE new
  /\ cache' = [cache EXCEPT ![w][c] = model]
  /\ results' = results \cup {c}
  /\ meta' = meta \cup {c}
  /\ UNCHANGED old

(***************************************************************************)
(* set_callable_result: the model (adding to shared memory is a no-op when *)
(* the key is bound), the result unless c is an override, the meta data.   *)
(***************************************************************************)
set_callable_result(w, c, model) ==
  /\ new' = IF new[c] = NoModel THEN [new EXCEPT ![c] = model] ELSE new
  /\ cache' = [cache EXCEPT ![w][c] = model]
  /\ results' = IF c \in OverrideTarget THEN results ELSE results \cup {c}
  /\ meta' = meta \cup {c}
  /\ UNCHANGED old

FinishCallable(w) ==
  LET c == current[w]
      previous == get_old_model(c)
      next == Analyze(c, previous, seen[w])
  IN
  /\ phase = "map"
  /\ c # NoTarget
  /\ Answered(c, seen[w])
  /\ set_callable_result(w, c, widen_if_necessary(previous, next))
  /\ jobPartial' = IF is_partial(previous, next)
                   THEN [jobPartial EXCEPT ![w] = @ \cup {c}]
                   ELSE jobPartial
  /\ jobAdditional' = IF c \in OverrideTarget THEN jobAdditional
                      ELSE [jobAdditional EXCEPT ![w] =
                              @ \cup (AdditionalDependencies(c, next) \X {c})]
  /\ current' = [current EXCEPT ![w] = NoTarget]
  /\ lastSeen' = [lastSeen EXCEPT ![c] = seen[w]]
  /\ UNCHANGED <<phase, masterVars, reduceVars, busy, job, seen>>

(* The worker's result reaches the master, which reduces it. *)
FinishJob(w) ==
  /\ phase = "map"
  /\ w \in busy
  /\ job[w] = {}
  /\ current[w] = NoTarget
  /\ busy' = busy \ {w}
  /\ partial' = partial \cup jobPartial[w]
  /\ additional' = additional \cup jobAdditional[w]
  /\ UNCHANGED <<phase, masterVars, modelVars, undispatched, job, current, seen,
                 jobPartial, jobAdditional, cache, lastSeen>>

(***************************************************************************)
(* iterate, after the map_reduce                                           *)
(***************************************************************************)
dependencies(G, c) == {caller \in Target : <<c, caller>> \in G}

(* mutant: callers are not re-analyzed *)
partial_only == partial

(* compute_callables_to_reanalyze *)
might_change_if_reanalyzed == partial \cup UNION {dependencies(graph, c) : c \in partial}

callables_to_reanalyze == might_change_if_reanalyzed \cap all

check_missing == (might_change_if_reanalyzed \ all) \cap meta = {}

(* Callees found by the analysis that were not known before. *)
new_callables ==
  filter_skip_analysis_targets({e[1] : e \in additional} \ all)

(* mutant: new targets get meta data but no model *)
initialize_meta_data_only(T) ==
  /\ UNCHANGED new
  /\ meta' = meta \cup {c \in T : new[c] = NoModel}

(***************************************************************************)
(* initialize_new_dependencies: a model and meta data for the new targets  *)
(* that have no model yet; the models are read with ~cache:false.          *)
(***************************************************************************)
initialize_new_dependencies(T) ==
  LET targets == {c \in T : new[c] = NoModel} IN
  /\ new' = [c \in Target |-> IF c \in targets THEN ForNewDependency(c, new) ELSE new[c]]
  /\ meta' = meta \cup targets

(* mutant: the graph forgets the dependencies found in this iteration *)
EndIterationSameGraph ==
  /\ phase = "map"
  /\ undispatched = {}
  /\ busy = {}
  /\ old' = [c \in Target |-> IF c \in todo THEN NoModel ELSE old[c]]
  /\ IF check_missing
     THEN /\ phase' = "iterate"
          /\ initialize_new_dependencies(new_callables)
          /\ all' = all \cup new_callables
          /\ todo' = new_callables \cup callables_to_reanalyze
          /\ graph' = graph
          /\ iteration' = iteration + 1
     ELSE /\ phase' = "failed"
          /\ UNCHANGED <<new, meta, masterVars>>
  /\ UNCHANGED <<results, reduceVars, workerVars, lastSeen>>

EndIteration ==
  /\ phase = "map"
  /\ undispatched = {}
  /\ busy = {}
  /\ old' = [c \in Target |-> IF c \in todo THEN NoModel ELSE old[c]]
  /\ IF check_missing
     THEN /\ phase' = "iterate"
          /\ initialize_new_dependencies(new_callables)
          /\ all' = all \cup new_callables
          /\ todo' = new_callables \cup callables_to_reanalyze
          /\ graph' = graph \cup additional
          /\ iteration' = iteration + 1
     ELSE /\ phase' = "failed"
          /\ UNCHANGED <<new, meta, masterVars>>
  /\ UNCHANGED <<results, reduceVars, workerVars, lastSeen>>

Terminated == phase \in {"fixpoint", "stopped", "raised", "failed"}

(* compute returned, or raised *)
Done == Terminated /\ UNCHANGED vars

MasterNext == ReachFixpoint \/ ReachMaxIterations \/ StartIteration \/ EndIteration

WorkerNext(w) ==
  \/ TakeJob(w)
  \/ BeginCallable(w)
  \/ \E q \in Query : ReadCallee(w, q)
  \/ FinishCallable(w)
  \/ FinishJob(w)

Next == MasterNext \/ (\E w \in Worker : WorkerNext(w)) \/ Done

(* The master and every worker keep running. *)
Fairness == WF_vars(MasterNext) /\ \A w \in Worker : WF_vars(WorkerNext(w))

Spec == Init /\ [][Next]_vars

FairSpec == Spec /\ Fairness

-----------------------------------------------------------------------------

(* Every variable stays in its set. *)
TypeOK ==
  /\ phase \in {"iterate", "map", "fixpoint", "stopped", "raised", "failed"}
  /\ iteration \in 0 .. MaxIterations
  /\ graph \in Graph
  /\ all \in SUBSET Target
  /\ todo \in SUBSET Target
  /\ new \in [Target -> ModelOption]
  /\ old \in [Target -> ModelOption]
  /\ results \in SUBSET Target
  /\ meta \in SUBSET Target
  /\ undispatched \in SUBSET Target
  /\ partial \in SUBSET Target
  /\ additional \in Graph
  /\ busy \in SUBSET Worker
  /\ job \in [Worker -> SUBSET Target]
  /\ current \in [Worker -> Target \cup {NoTarget}]
  /\ seen \in [Worker -> Answers]
  /\ jobPartial \in [Worker -> SUBSET Target]
  /\ jobAdditional \in [Worker -> Graph]
  /\ cache \in [Worker -> [Target -> ModelOption]]
  /\ lastSeen \in [Target -> Answers]

(***************************************************************************)
(* What "reaching a fixpoint (i.e, invariants are stables)" means: when    *)
(* iterate finds nothing left to analyze, the last analysis of every       *)
(* callable had read exactly the final models, and what it computed from   *)
(* them is below the model kept for it.  Workers read models while others  *)
(* replace them, so a callable may well have been analyzed with models     *)
(* that changed later: it must then have been analyzed again.              *)
(***************************************************************************)
Stable(c) ==
  /\ \A q \in Query : lastSeen[c][q] # Unread => lastSeen[c][q] = get_model(Callee(q))
  /\ Answered(c, lastSeen[c])
  /\ LessOrEqual(Analyze(c, get_model(c), lastSeen[c]), get_model(c))

FixpointSound == phase = "fixpoint" => \A c \in all : Stable(c)

(***************************************************************************)
(* None of the internal failures of the file happens: a missing initial    *)
(* model, an override without model, a caller to re-analyze that is not    *)
(* part of the epoch.                                                      *)
(***************************************************************************)
NoFailure == phase # "failed"

(***************************************************************************)
(* A callable never loses its model: at every moment, in the middle of an  *)
(* iteration too, a caller finds the old or the new one, and between       *)
(* iterations it is the new one and no old one is left behind.             *)
(***************************************************************************)
ModelAvailable ==
  /\ \A c \in all : get_model(c) # NoModel
  /\ phase \in {"iterate", "fixpoint", "stopped", "raised"} =>
       \A c \in Target : old[c] = NoModel

(***************************************************************************)
(* A worker's cache never answers with a model of an earlier iteration.    *)
(***************************************************************************)
CacheCoherent ==
  phase = "map" =>
    \A w \in busy, c \in Target : CacheHit(w, c) => cache[w][c] = new[c]

(***************************************************************************)
(* Results are dropped at the start of an iteration and written again by   *)
(* the analysis: in the end every analyzed function or method has its own. *)
(***************************************************************************)
ResultsComplete ==
  phase = "fixpoint" => results = all \ OverrideTarget

(***************************************************************************)
(* From one step to the next a model only grows: re-analysis never loses   *)
(* an invariant that callers have already used.                            *)
(***************************************************************************)
ModelsGrow ==
  [][\A c \in all : LessOrEqual(get_model(c), get_model(c)')]_vars

(* The iteration ends, by itself, in a fixpoint. *)
Termination == <>(phase = "fixpoint")

-----------------------------------------------------------------------------
(***************************************************************************)
(* The inductive invariant behind FixpointSound.                           *)
(***************************************************************************)

(* Still to be analyzed in this iteration. *)
Pending(c) ==
  \/ c \in undispatched
  \/ \E w \in Worker : c \in job[w] \/ current[w] = c

(* Analyzed in this iteration, with a model that changed. *)
Changed(c) == c \in partial \/ \E w \in busy : c \in jobPartial[w]

(* Every input is in one place. *)
WorkInv ==
  /\ phase = "iterate" => busy = {} /\ undispatched = {}
  /\ \A w \in Worker : w \notin busy => job[w] = {} /\ current[w] = NoTarget
  /\ undispatched \subseteq todo
  /\ \A w \in Worker : job[w] \subseteq todo /\ job[w] \cap undispatched = {}
  /\ \A w \in Worker : current[w] # NoTarget =>
       /\ current[w] \in todo
       /\ current[w] \notin undispatched
       /\ \A v \in Worker : current[w] \notin job[v]
  /\ \A v, w \in Worker : v # w =>
       /\ job[v] \cap job[w] = {}
       /\ current[v] # NoTarget => current[v] # current[w]
  /\ todo \subseteq all

(* A pending target has no new model, an analyzed one has. *)
ModelInv ==
  /\ phase = "map" => iteration < MaxIterations
  /\ phase = "map" => \A c \in todo : Pending(c) <=> new[c] = NoModel
  /\ phase = "map" => \A w \in Worker : current[w] # NoTarget => old[current[w]] # NoModel
  /\ phase = "iterate" => \A c \in Target : old[c] = NoModel
  /\ phase = "map" => \A c \in Target \ todo : old[c] = NoModel

(* s, read for c, is up to date, except for models that changed since. *)
UpToDate(c, s) ==
  \A q \in Query : s[q] # Unread =>
    /\ <<Callee(q), c>> \in graph
    /\ s[q] = get_model(Callee(q)) \/ Changed(Callee(q))

Settled(c) ==
  /\ UpToDate(c, lastSeen[c])
  /\ Answered(c, lastSeen[c])
  /\ LessOrEqual(Analyze(c, get_model(c), lastSeen[c]), get_model(c))

StableInv ==
  /\ phase = "iterate" => \A c \in all : c \in todo \/ Stable(c)
  /\ phase = "iterate" =>
       \A c \in all, q \in Query : lastSeen[c][q] # Unread => <<Callee(q), c>> \in graph
  /\ phase = "map" =>
       \A w \in Worker : current[w] # NoTarget => UpToDate(current[w], seen[w])
  /\ phase = "map" => \A c \in all : Pending(c) \/ Changed(c) \/ Settled(c)
  /\ phase = "map" =>
       \A c \in all, q \in Query : lastSeen[c][q] # Unread => <<Callee(q), c>> \in graph
  /\ additional = {} /\ \A w \in Worker : jobAdditional[w] = {}
  /\ InitialGraph \subseteq graph

SoundnessInv ==
  TypeOK /\ WorkInv /\ ModelInv /\ CacheCoherent /\ StableInv /\ FixpointSound

=============================================================================

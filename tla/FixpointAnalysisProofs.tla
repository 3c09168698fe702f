------------------------ MODULE FixpointAnalysisProofs ------------------------
(***************************************************************************)
(* Proofs about FixpointAnalysis, for every set of targets, every abstract *)
(* domain and every analysis.                                              *)
(***************************************************************************)
EXTENDS FixpointAnalysis, TLAPS

(***************************************************************************)
(* The functor parameters are well typed, as their OCaml signatures say.   *)
(***************************************************************************)
WellTyped ==
  /\ \A c \in Target, s \in Answers : Queries(c, s) \subseteq Query
  /\ \A c \in Target, p \in Model, s \in Answers : Analyze(c, p, s) \in Model
  /\ \A i \in 0 .. MaxIterations, p \in Model, m \in Model : Widen(i, p, m) \in Model
  /\ \A c \in Target, m \in Model : AdditionalDependencies(c, m) \subseteq Target
  /\ \A c \in Target, m \in [Target -> ModelOption] : ForNewDependency(c, m) \in Model

(* TypeOK with what its induction step needs. *)
TypeInv ==
  /\ TypeOK
  /\ phase = "map" => iteration < MaxIterations
  /\ phase = "iterate" => busy = {}
  /\ \A w \in Worker : w \notin busy => job[w] = {}
  /\ \A w \in Worker : current[w] # NoTarget =>
       w \in busy /\ (phase = "map" => old[current[w]] # NoModel)

LEMMA InitTypeInv == Init => TypeInv
BY TargetAssumption, ModelAssumption, BoundAssumption
DEF Init, TypeInv, TypeOK, Answers, NoAnswer, NoModels, ModelOption, Graph, filter_skip_analysis_targets

(* The master's steps that only decide how the iteration goes on. *)
LEMMA DecideTypeInv ==
  TypeInv /\ (ReachFixpoint \/ ReachMaxIterations \/ Done) => TypeInv'
BY DEF TypeInv, TypeOK, ReachFixpoint, ReachMaxIterations, Done, Terminated, vars, masterVars, modelVars,
       reduceVars, workerVars

LEMMA StartIterationTypeInv == TypeInv /\ StartIteration => TypeInv'
BY DEF TypeInv, TypeOK, StartIteration, oldify, masterVars, workerVars, ModelOption, Graph

LEMMA TakeJobTypeInv == ASSUME NEW w \in Worker PROVE TypeInv /\ TakeJob(w) => TypeInv'
BY DEF TypeInv, TypeOK, TakeJob, JobCache, masterVars, modelVars, NoModels, ModelOption, Graph

LEMMA BeginCallableTypeInv ==
  ASSUME NEW w \in Worker PROVE TypeInv /\ BeginCallable(w) => TypeInv'
<1> SUFFICES ASSUME TypeInv, BeginCallable(w) PROVE TypeInv'
  OBVIOUS
<1>1. PICK c \in job[w] :
        \/ phase' = "failed" /\ UNCHANGED <<job, current, seen>>
        \/ /\ old[c] # NoModel
           /\ job' = [job EXCEPT ![w] = @ \ {c}]
           /\ current' = [current EXCEPT ![w] = c]
           /\ seen' = [seen EXCEPT ![w] = NoAnswer]
           /\ UNCHANGED phase
  BY DEF BeginCallable, get_old_model
<1>2. c \in Target /\ w \in busy /\ NoAnswer \in Answers
  BY DEF TypeInv, TypeOK, NoAnswer, Answers
<1>3. UNCHANGED <<masterVars, modelVars, reduceVars, busy, jobPartial, jobAdditional, cache, lastSeen>>
  BY DEF BeginCallable
<1>4. CASE phase' = "failed" /\ UNCHANGED <<job, current, seen>>
  BY <1>3, <1>4 DEF TypeInv, TypeOK, masterVars, modelVars, reduceVars
<1>5. CASE /\ old[c] # NoModel
           /\ job' = [job EXCEPT ![w] = @ \ {c}]
           /\ current' = [current EXCEPT ![w] = c]
           /\ seen' = [seen EXCEPT ![w] = NoAnswer]
           /\ UNCHANGED phase
  BY <1>2, <1>3, <1>5 DEF TypeInv, TypeOK, masterVars, modelVars, reduceVars
<1> QED
  BY <1>1, <1>4, <1>5

LEMMA ReadCalleeTypeInv ==
  ASSUME NEW w \in Worker, NEW q \in Query PROVE TypeInv /\ ReadCallee(w, q) => TypeInv'
<1> SUFFICES ASSUME TypeInv, ReadCallee(w, q) PROVE TypeInv'
  OBVIOUS
<1>1. /\ Callee(q) \in Target
      /\ get_model(Callee(q)) \in ModelOption
      /\ cache[w][Callee(q)] \in ModelOption
      /\ new[Callee(q)] \in ModelOption
  BY TargetAssumption DEF TypeInv, TypeOK, get_model, get_old_model
<1>2. PICK m \in ModelOption : \/ UNCHANGED seen
                              \/ seen' = [seen EXCEPT ![w][q] = m]
  BY <1>1 DEF ReadCallee
<1>a. seen' \in [Worker -> Answers]
  <2>1. seen[w] \in Answers
    BY DEF TypeInv, TypeOK
  <2>2. [seen[w] EXCEPT ![q] = m] \in Answers
    BY <2>1 DEF Answers
  <2>3. UNCHANGED seen \/ seen' = [seen EXCEPT ![w] = [seen[w] EXCEPT ![q] = m]]
    BY <1>2 DEF TypeInv, TypeOK
  <2> QED BY <2>2, <2>3 DEF TypeInv, TypeOK
<1>b. \/ UNCHANGED cache
      \/ cache' = [cache EXCEPT ![w][Callee(q)] = new[Callee(q)]]
  BY DEF ReadCallee
<1>3. cache' \in [Worker -> [Target -> ModelOption]]
  <2>1. cache[w] \in [Target -> ModelOption]
    BY DEF TypeInv, TypeOK
  <2>2. [cache[w] EXCEPT ![Callee(q)] = new[Callee(q)]] \in [Target -> ModelOption]
    BY <1>1, <2>1
  <2>3. UNCHANGED cache \/ cache' = [cache EXCEPT ![w] = [cache[w] EXCEPT ![Callee(q)] = new[Callee(q)]]]
    BY <1>b DEF TypeInv, TypeOK
  <2> QED BY <2>2, <2>3 DEF TypeInv, TypeOK
<1>4. phase' \in {"map", "failed"}
  BY DEF ReadCallee
<1> QED
  BY <1>a, <1>3, <1>4
  DEF TypeInv, TypeOK, ReadCallee, masterVars, modelVars, reduceVars

(* What FinishCallable computes is a model. *)
LEMMA FinishedModel ==
  ASSUME WellTyped, TypeInv, NEW w \in Worker, phase = "map", current[w] # NoTarget
  PROVE  LET c == current[w]
             previous == get_old_model(c)
             next == Analyze(c, previous, seen[w])
         IN /\ c \in Target
            /\ previous \in Model
            /\ next \in Model
            /\ widen_if_necessary(previous, next) \in Model
<1>1. current[w] \in Target /\ get_old_model(current[w]) \in Model /\ seen[w] \in Answers
  BY DEF TypeInv, TypeOK, get_old_model, ModelOption
<1>2. Analyze(current[w], get_old_model(current[w]), seen[w]) \in Model
  BY <1>1 DEF WellTyped
<1>3. iteration \in 0 .. MaxIterations
  BY DEF TypeInv, TypeOK
<1> QED
  BY <1>1, <1>2, <1>3 DEF WellTyped, widen_if_necessary

LEMMA FinishCallableTypeInv ==
  ASSUME WellTyped, NEW w \in Worker PROVE TypeInv /\ FinishCallable(w) => TypeInv'
<1> SUFFICES ASSUME TypeInv, FinishCallable(w) PROVE TypeInv'
  OBVIOUS
<1> DEFINE c == current[w]
           previous == get_old_model(c)
           next == Analyze(c, previous, seen[w])
           model == widen_if_necessary(previous, next)
<1>1. c \in Target /\ next \in Model /\ model \in ModelOption
  BY FinishedModel DEF FinishCallable, ModelOption
<1>2. set_callable_result(w, c, model)
  BY DEF FinishCallable
<1>3. /\ new' \in [Target -> ModelOption]
      /\ cache' \in [Worker -> [Target -> ModelOption]]
      /\ results' \in SUBSET Target
      /\ meta' \in SUBSET Target
      /\ UNCHANGED old
  <2> HIDE DEF c, model
  <2> QED BY <1>1, <1>2 DEF set_callable_result, TypeInv, TypeOK
<1>4. jobAdditional' \in [Worker -> Graph]
  <2>1. AdditionalDependencies(c, next) \subseteq Target
    <3> HIDE DEF c, next
    <3> QED BY <1>1 DEF WellTyped
  <2>2. jobAdditional' = jobAdditional \/
        jobAdditional' = [jobAdditional EXCEPT ![w] = @ \cup (AdditionalDependencies(c, next) \X {c})]
    BY DEF FinishCallable
  <2> HIDE DEF c, next
  <2>3. (AdditionalDependencies(c, next) \X {c}) \in Graph
    BY <1>1, <2>1 DEF Graph
  <2>4. PICK edges : edges = AdditionalDependencies(c, next) \X {c}
    OBVIOUS
  <2>5. jobAdditional \in [Worker -> Graph] /\ edges \in Graph
    BY <2>3, <2>4 DEF TypeInv, TypeOK
  <2>6. jobAdditional[w] \cup edges \in Graph
    BY <2>5 DEF Graph
  <2>7. jobAdditional' = jobAdditional \/ jobAdditional' = [jobAdditional EXCEPT ![w] = @ \cup edges]
    BY <2>2, <2>4
  <2> QED BY <2>5, <2>6, <2>7
<1>5. jobPartial' \in [Worker -> SUBSET Target]
  <2>1. jobPartial' = jobPartial \/ jobPartial' = [jobPartial EXCEPT ![w] = @ \cup {c}]
    BY DEF FinishCallable
  <2> HIDE DEF c
  <2> QED BY <1>1, <2>1 DEF TypeInv, TypeOK
<1>6. /\ current' = [current EXCEPT ![w] = NoTarget]
      /\ lastSeen' = [lastSeen EXCEPT ![c] = seen[w]]
      /\ UNCHANGED <<phase, masterVars, reduceVars, busy, job, seen>>
  BY DEF FinishCallable
<1>7. lastSeen' \in [Target -> Answers]
  <2> HIDE DEF c
  <2> QED BY <1>1, <1>6 DEF TypeInv, TypeOK
<1> HIDE DEF c, previous, next, model
<1> QED
  BY <1>3, <1>4, <1>5, <1>6, <1>7 DEF TypeInv, TypeOK, masterVars, reduceVars

LEMMA FinishJobTypeInv ==
  ASSUME NEW w \in Worker PROVE TypeInv /\ FinishJob(w) => TypeInv'
BY DEF TypeInv, TypeOK, FinishJob, masterVars, modelVars, Graph

LEMMA EndIterationTypeInv == ASSUME WellTyped PROVE TypeInv /\ EndIteration => TypeInv'
<1> SUFFICES ASSUME TypeInv, EndIteration PROVE TypeInv'
  OBVIOUS
<1>1. old' \in [Target -> ModelOption]
  BY DEF TypeInv, TypeOK, EndIteration, ModelOption
<1>2. new_callables \subseteq Target
  BY DEF TypeInv, TypeOK, new_callables, filter_skip_analysis_targets, Graph
<1>3. callables_to_reanalyze \subseteq Target
  BY DEF TypeInv, TypeOK, callables_to_reanalyze
<1>4. CASE check_missing
  <2>1. initialize_new_dependencies(new_callables)
    BY <1>4 DEF EndIteration
  <2>2. new' \in [Target -> ModelOption] /\ meta' \in SUBSET Target
    BY <1>2, <2>1 DEF initialize_new_dependencies, WellTyped, TypeInv, TypeOK, ModelOption
  <2>3. iteration' = iteration + 1 /\ iteration < MaxIterations
    BY <1>4 DEF EndIteration, TypeInv
  <2>4. iteration' \in 0 .. MaxIterations
    BY <2>3, BoundAssumption DEF TypeInv, TypeOK
  <2> QED
    BY <1>1, <1>2, <1>3, <1>4, <2>2, <2>4
    DEF EndIteration, TypeInv, TypeOK, reduceVars, workerVars, Graph
<1>5. CASE ~check_missing
  BY <1>1, <1>5 DEF EndIteration, TypeInv, TypeOK, reduceVars, workerVars, masterVars
<1> QED
  BY <1>4, <1>5

LEMMA NextTypeInv == ASSUME WellTyped PROVE TypeInv /\ [Next]_vars => TypeInv'
<1> SUFFICES ASSUME TypeInv, [Next]_vars PROVE TypeInv'
  OBVIOUS
<1>1. CASE UNCHANGED vars
  BY <1>1 DEF TypeInv, TypeOK, vars, masterVars, modelVars, reduceVars, workerVars
<1>2. CASE MasterNext
  BY <1>2, DecideTypeInv, StartIterationTypeInv, EndIterationTypeInv DEF MasterNext
<1>3. ASSUME NEW w \in Worker, WorkerNext(w) PROVE TypeInv'
  BY <1>3, TakeJobTypeInv, BeginCallableTypeInv, ReadCalleeTypeInv, FinishCallableTypeInv,
     FinishJobTypeInv DEF WorkerNext
<1>4. CASE Done
  BY <1>4, DecideTypeInv
<1> QED
  BY <1>1, <1>2, <1>3, <1>4 DEF Next

(***************************************************************************)
(* Type correctness: whatever the analysis and the interleaving of the     *)
(* workers, shared memory holds models under model keys, and the iteration *)
(* count stays within max_iterations.                                      *)
(***************************************************************************)
THEOREM TypeCorrect == ASSUME WellTyped PROVE Spec => []TypeOK
<1>1. Init => TypeInv
  BY InitTypeInv
<1>2. TypeInv /\ [Next]_vars => TypeInv'
  BY NextTypeInv
<1>3. TypeInv => TypeOK
  BY DEF TypeInv
<1> QED
  BY <1>1, <1>2, <1>3, PTL DEF Spec

-----------------------------------------------------------------------------
(***************************************************************************)
(* Every input of the map_reduce is in one place.                          *)
(***************************************************************************)
LEMMA InitWorkInv == Init => WorkInv
BY DEF Init, WorkInv

LEMMA NextWorkInv == ASSUME TypeInv, WorkInv, [Next]_vars PROVE WorkInv'
<1>1. CASE UNCHANGED vars \/ ReachFixpoint \/ ReachMaxIterations \/ Done
  BY <1>1 DEF WorkInv, ReachFixpoint, ReachMaxIterations, Done, Terminated, vars, masterVars,
              modelVars, reduceVars, workerVars
<1>2. CASE StartIteration
  BY <1>2 DEF WorkInv, TypeInv, StartIteration, masterVars, workerVars
<1>3. CASE EndIteration
  <2>1. UNCHANGED <<busy, job, current, undispatched>> /\ busy = {} /\ undispatched = {}
    BY <1>3 DEF EndIteration, reduceVars, workerVars
  <2>2. todo' \subseteq all'
    BY <1>3 DEF EndIteration, WorkInv, masterVars, callables_to_reanalyze
  <2> QED
    BY <2>1, <2>2 DEF WorkInv
<1>4. ASSUME NEW w \in Worker, TakeJob(w) PROVE WorkInv'
  <2>1. PICK chunk \in SUBSET undispatched :
          job' = [job EXCEPT ![w] = chunk] /\ undispatched' = undispatched \ chunk
    BY <1>4 DEF TakeJob
  <2>2. /\ busy' = busy \cup {w}
        /\ w \notin busy
        /\ phase = "map"
        /\ UNCHANGED <<phase, todo, all, current>>
    BY <1>4 DEF TakeJob, masterVars
  <2> QED
    BY <2>1, <2>2 DEF WorkInv, TypeInv, TypeOK
<1>5. ASSUME NEW w \in Worker, BeginCallable(w) PROVE WorkInv'
  <2>1. PICK c \in job[w] :
          \/ phase' = "failed" /\ UNCHANGED <<job, current>>
          \/ /\ job' = [job EXCEPT ![w] = @ \ {c}]
             /\ current' = [current EXCEPT ![w] = c]
             /\ UNCHANGED phase
    BY <1>5 DEF BeginCallable
  <2>2. UNCHANGED <<busy, todo, all, undispatched>> /\ current[w] = NoTarget /\ phase = "map"
    BY <1>5 DEF BeginCallable, masterVars, reduceVars
  <2>3. w \in busy /\ c \in todo
    BY DEF WorkInv
  <2>4. CASE phase' = "failed" /\ UNCHANGED <<job, current>>
    BY <2>2, <2>4 DEF WorkInv
  <2>5. CASE /\ job' = [job EXCEPT ![w] = @ \ {c}]
             /\ current' = [current EXCEPT ![w] = c]
             /\ UNCHANGED phase
    <3>1. \A v \in Worker : job'[v] \subseteq job[v] /\ c \notin job'[v]
      BY <2>5 DEF WorkInv, TypeInv, TypeOK
    <3>2. \A v \in Worker : current'[v] = IF v = w THEN c ELSE current[v]
      BY <2>5 DEF TypeInv, TypeOK
    <3>3. \A v \in Worker : current[v] # c
      BY TargetAssumption DEF WorkInv, TypeInv, TypeOK
    <3> QED
      BY <2>2, <2>3, <2>5, <3>1, <3>2, <3>3 DEF WorkInv
  <2> QED
    BY <2>1, <2>4, <2>5
<1>6. ASSUME NEW w \in Worker, NEW q \in Query, ReadCallee(w, q) PROVE WorkInv'
  <2>1. phase = "map" /\ phase' \in {"map", "failed"}
    BY <1>6 DEF ReadCallee
  <2> QED
    BY <1>6, <2>1 DEF WorkInv, ReadCallee, masterVars, reduceVars
<1>7. ASSUME NEW w \in Worker, FinishCallable(w) PROVE WorkInv'
  <2>1. /\ current' = [current EXCEPT ![w] = NoTarget]
        /\ phase = "map"
        /\ UNCHANGED <<phase, todo, all, busy, job, undispatched>>
    BY <1>7 DEF FinishCallable, masterVars, reduceVars
  <2> QED
    BY <2>1 DEF WorkInv, TypeInv, TypeOK
<1>8. ASSUME NEW w \in Worker, FinishJob(w) PROVE WorkInv'
  BY <1>8 DEF WorkInv, FinishJob, masterVars
<1> QED
  BY <1>1, <1>2, <1>3, <1>4, <1>5, <1>6, <1>7, <1>8 DEF Next, MasterNext, WorkerNext

-----------------------------------------------------------------------------
(***************************************************************************)
(* What the steps of the iteration do to the sets the invariant is about.  *)
(***************************************************************************)
LEMMA NewPending ==
  ASSUME NEW c, UNCHANGED <<undispatched, job, current>> PROVE Pending(c)' = Pending(c)
BY DEF Pending

LEMMA FinishCallablePending ==
  ASSUME TypeInv, WorkInv, NEW w \in Worker, FinishCallable(w), NEW c \in Target
  PROVE  Pending(c)' <=> Pending(c) /\ c # current[w]
<1>1. /\ current[w] # NoTarget
      /\ current' = [current EXCEPT ![w] = NoTarget]
      /\ UNCHANGED <<job, undispatched>>
  BY DEF FinishCallable, reduceVars
<1>2. \A v \in Worker : current'[v] = IF v = w THEN NoTarget ELSE current[v]
  BY <1>1 DEF TypeInv, TypeOK
<1>3. c # NoTarget
  BY TargetAssumption
<1>4. CASE c = current[w]
  <2>1. c \notin undispatched /\ \A v \in Worker : c \notin job[v] /\ (v # w => current[v] # c)
    BY <1>1, <1>4 DEF WorkInv
  <2> QED BY <1>1, <1>2, <1>3, <1>4, <2>1 DEF Pending
<1>5. CASE c # current[w]
  BY <1>1, <1>2, <1>3, <1>5 DEF Pending
<1> QED
  BY <1>4, <1>5

LEMMA BeginCallablePending ==
  ASSUME TypeInv, NEW w \in Worker, BeginCallable(w), NEW c \in Target
  PROVE  Pending(c)' <=> Pending(c)
<1>1. PICK d \in job[w] :
        \/ UNCHANGED <<job, current>>
        \/ /\ job' = [job EXCEPT ![w] = @ \ {d}]
           /\ current' = [current EXCEPT ![w] = d]
  BY DEF BeginCallable
<1>2. current[w] = NoTarget /\ UNCHANGED undispatched /\ c # NoTarget
  BY TargetAssumption DEF BeginCallable, reduceVars
<1>3. CASE UNCHANGED <<job, current>>
  BY <1>2, <1>3 DEF Pending
<1>4. CASE /\ job' = [job EXCEPT ![w] = @ \ {d}]
           /\ current' = [current EXCEPT ![w] = d]
  <2>1. \A v \in Worker : /\ job'[v] = IF v = w THEN job[v] \ {d} ELSE job[v]
                         /\ current'[v] = IF v = w THEN d ELSE current[v]
    BY <1>4 DEF TypeInv, TypeOK
  <2> QED BY <1>2, <2>1 DEF Pending
<1> QED
  BY <1>1, <1>3, <1>4

LEMMA TakeJobPending ==
  ASSUME TypeInv, WorkInv, NEW w \in Worker, TakeJob(w), NEW c \in Target
  PROVE  Pending(c)' <=> Pending(c)
<1>1. PICK chunk \in SUBSET undispatched :
        job' = [job EXCEPT ![w] = chunk] /\ undispatched' = undispatched \ chunk
  BY DEF TakeJob
<1>2. UNCHANGED current /\ job[w] = {}
  BY DEF TakeJob, WorkInv
<1>3. \A v \in Worker : job'[v] = IF v = w THEN chunk ELSE job[v]
  BY <1>1 DEF TypeInv, TypeOK
<1> QED
  BY <1>1, <1>2, <1>3 DEF Pending

(* The worker's own list and the master's are one set of changed targets. *)
LEMMA TakeJobChanged ==
  ASSUME TypeInv, NEW w \in Worker, TakeJob(w), NEW c PROVE Changed(c)' <=> Changed(c)
<1>1. /\ w \notin busy
      /\ busy' = busy \cup {w}
      /\ jobPartial' = [jobPartial EXCEPT ![w] = {}]
      /\ UNCHANGED partial
  BY DEF TakeJob
<1>2. \A v \in busy' : jobPartial'[v] = IF v = w THEN {} ELSE jobPartial[v]
  BY <1>1 DEF TypeInv, TypeOK
<1> QED
  BY <1>1, <1>2 DEF Changed

LEMMA FinishJobChanged ==
  ASSUME NEW w \in Worker, FinishJob(w), NEW c PROVE Changed(c)' <=> Changed(c)
BY DEF FinishJob, Changed

LEMMA FinishCallableChanged ==
  ASSUME TypeInv, NEW w \in Worker, FinishCallable(w), NEW c
  PROVE  Changed(c)' <=>
           \/ Changed(c)
           \/ /\ c = current[w]
              /\ is_partial(get_old_model(c), Analyze(c, get_old_model(c), seen[w]))
<1>1. /\ current[w] # NoTarget
      /\ jobPartial' = IF is_partial(get_old_model(current[w]),
                                     Analyze(current[w], get_old_model(current[w]), seen[w]))
                       THEN [jobPartial EXCEPT ![w] = @ \cup {current[w]}]
                       ELSE jobPartial
      /\ UNCHANGED <<partial, busy>>
  BY DEF FinishCallable, reduceVars
<1>2. w \in busy
  BY <1>1 DEF TypeInv
<1>3. CASE is_partial(get_old_model(current[w]),
                      Analyze(current[w], get_old_model(current[w]), seen[w]))
  <2>1. \A v \in Worker : jobPartial'[v] = IF v = w THEN jobPartial[v] \cup {current[w]}
                                                   ELSE jobPartial[v]
    BY <1>1, <1>3 DEF TypeInv, TypeOK
  <2> QED BY <1>1, <1>2, <1>3, <2>1 DEF Changed, TypeInv, TypeOK
<1>4. CASE ~is_partial(get_old_model(current[w]),
                       Analyze(current[w], get_old_model(current[w]), seen[w]))
  BY <1>1, <1>4 DEF Changed
<1> QED
  BY <1>3, <1>4

(***************************************************************************)
(* The new model is written exactly when the callable stops being pending. *)
(***************************************************************************)
LEMMA FinishCallableNew ==
  ASSUME WellTyped, TypeInv, WorkInv, ModelInv, NEW w \in Worker, FinishCallable(w)
  PROVE  LET c == current[w]
             previous == get_old_model(c)
             next == Analyze(c, previous, seen[w])
         IN /\ c \in Target /\ c \in todo
            /\ new[c] = NoModel
            /\ new' = [new EXCEPT ![c] = widen_if_necessary(previous, next)]
            /\ new'[c] # NoModel
            /\ new'[c] = widen_if_necessary(previous, next)
            /\ UNCHANGED old
<1> DEFINE c == current[w]
           model == widen_if_necessary(get_old_model(c), Analyze(c, get_old_model(c), seen[w]))
<1>1. phase = "map" /\ c # NoTarget /\ set_callable_result(w, c, model)
  BY DEF FinishCallable
<1>2. c \in Target /\ model \in Model
  BY <1>1, FinishedModel
<1> HIDE DEF model
<1>3. c \in todo /\ new[c] = NoModel
  BY <1>1 DEF WorkInv, ModelInv, Pending
<1>4. new' = [new EXCEPT ![c] = model] /\ UNCHANGED old
  BY <1>1, <1>3 DEF set_callable_result
<1>5. new'[c] = model /\ model # NoModel
  BY <1>2, <1>4, ModelAssumption DEF TypeInv, TypeOK
<1> QED
  BY <1>2, <1>3, <1>4, <1>5 DEF model

LEMMA InitModelInv == Init => ModelInv
BY DEF Init, ModelInv, NoModels

LEMMA NextModelInv ==
  ASSUME WellTyped, TypeInv, WorkInv, ModelInv, [Next]_vars PROVE ModelInv'
<1>0. TypeInv'
  BY NextTypeInv
<1>1. CASE UNCHANGED vars
  BY <1>1, NewPending DEF ModelInv, vars, masterVars, modelVars, reduceVars, workerVars
<1>2. CASE ReachFixpoint \/ ReachMaxIterations \/ Done
  BY <1>2 DEF ModelInv, ReachFixpoint, ReachMaxIterations, Done, Terminated, vars
<1>3. CASE StartIteration
  <2>1. \A c \in todo : new'[c] = NoModel /\ Pending(c)'
    BY <1>3 DEF StartIteration, oldify, Pending, TypeInv, TypeOK
  <2>2. UNCHANGED <<todo, iteration, current>> /\ iteration < MaxIterations
    BY <1>3 DEF StartIteration, masterVars, workerVars
  <2>3. \A w \in Worker : current[w] = NoTarget
    BY <1>3 DEF StartIteration, WorkInv
  <2>4. phase' = "map" /\ \A c \in Target \ todo : old'[c] = NoModel
    BY <1>3 DEF StartIteration, oldify, ModelInv
  <2> QED BY <2>1, <2>2, <2>3, <2>4 DEF ModelInv
<1>4. CASE EndIteration
  <2>1. \A c \in Target : old'[c] = NoModel
    BY <1>4 DEF EndIteration, ModelInv
  <2> QED BY <1>4, <2>1 DEF EndIteration, ModelInv
<1>5. ASSUME NEW w \in Worker, TakeJob(w) PROVE ModelInv'
  <2>1. \A c \in todo : Pending(c)' <=> Pending(c)
    BY <1>5, TakeJobPending DEF TypeInv, TypeOK
  <2> QED BY <1>5, <2>1 DEF TakeJob, ModelInv, masterVars, modelVars
<1>6. ASSUME NEW w \in Worker, BeginCallable(w) PROVE ModelInv'
  <2>1. \A c \in todo : Pending(c)' <=> Pending(c)
    BY <1>6, BeginCallablePending DEF TypeInv, TypeOK
  <2>2. \A v \in Worker : phase' = "map" /\ current'[v] # NoTarget => old'[current'[v]] # NoModel
    BY <1>0 DEF TypeInv
  <2> QED BY <1>6, <2>1, <2>2 DEF BeginCallable, ModelInv, masterVars, modelVars
<1>7. ASSUME NEW w \in Worker, NEW q \in Query, ReadCallee(w, q) PROVE ModelInv'
  <2>1. phase = "map" /\ UNCHANGED <<masterVars, modelVars, undispatched, job, current>>
    BY <1>7 DEF ReadCallee, reduceVars
  <2>2. phase' \in {"map", "failed"}
    BY <1>7 DEF ReadCallee
  <2> QED BY <2>1, <2>2, NewPending DEF ModelInv, masterVars, modelVars
<1>8. ASSUME NEW w \in Worker, FinishCallable(w) PROVE ModelInv'
  <2>1. \A c \in todo : Pending(c)' <=> Pending(c) /\ c # current[w]
    BY <1>8, FinishCallablePending DEF TypeInv, TypeOK
  <2>2. \A c \in todo : new'[c] = NoModel <=> new[c] = NoModel /\ c # current[w]
    BY <1>8, FinishCallableNew DEF TypeInv, TypeOK
  <2>3. \A v \in Worker : phase' = "map" /\ current'[v] # NoTarget => old'[current'[v]] # NoModel
    BY <1>0 DEF TypeInv
  <2>4. UNCHANGED old
    BY <1>8, FinishCallableNew
  <2> QED BY <1>8, <2>1, <2>2, <2>3, <2>4 DEF FinishCallable, ModelInv, masterVars
<1>9. ASSUME NEW w \in Worker, FinishJob(w) PROVE ModelInv'
  BY <1>9, NewPending DEF FinishJob, ModelInv, masterVars, modelVars
<1> QED
  BY <1>1, <1>2, <1>3, <1>4, <1>5, <1>6, <1>7, <1>8, <1>9 DEF Next, MasterNext, WorkerNext

-----------------------------------------------------------------------------
(***************************************************************************)
(* A process-local cache agrees with shared memory.                        *)
(***************************************************************************)
(* The default: every job runs in a process of its own. *)
ForkedWorkers == ~ LongLivedWorkers

LEMMA InitCacheCoherent == Init => CacheCoherent
BY DEF Init, CacheCoherent

LEMMA NextCacheCoherent ==
  ASSUME WellTyped, ForkedWorkers, TypeInv, WorkInv, ModelInv, CacheCoherent, [Next]_vars
  PROVE  CacheCoherent'
<1>1. CASE UNCHANGED vars \/ ReachFixpoint \/ ReachMaxIterations \/ Done
  BY <1>1 DEF CacheCoherent, CacheHit, ReachFixpoint, ReachMaxIterations, Done, Terminated, vars,
              modelVars, workerVars
<1>2. CASE StartIteration
  BY <1>2 DEF CacheCoherent, StartIteration, WorkInv, workerVars
<1>3. CASE EndIteration
  BY <1>3 DEF CacheCoherent, EndIteration
<1>4. ASSUME NEW w \in Worker, TakeJob(w) PROVE CacheCoherent'
  <2>1. \A v \in Worker : cache'[v] = IF v = w THEN NoModels ELSE cache[v]
    BY <1>4 DEF TakeJob, JobCache, ForkedWorkers, TypeInv, TypeOK
  <2>2. UNCHANGED new /\ busy' = busy \cup {w} /\ phase = "map"
    BY <1>4 DEF TakeJob, modelVars
  <2> QED
    BY <2>1, <2>2 DEF CacheCoherent, CacheHit, NoModels, TypeInv, TypeOK
<1>5. ASSUME NEW w \in Worker, BeginCallable(w) PROVE CacheCoherent'
  BY <1>5 DEF CacheCoherent, CacheHit, BeginCallable, modelVars
<1>6. ASSUME NEW w \in Worker, NEW q \in Query, ReadCallee(w, q) PROVE CacheCoherent'
  <2>1. \/ UNCHANGED cache
        \/ cache' = [cache EXCEPT ![w][Callee(q)] = new[Callee(q)]]
    BY <1>6 DEF ReadCallee
  <2>2. Callee(q) \in Target /\ phase = "map" /\ UNCHANGED <<new, busy>>
    BY <1>6, TargetAssumption DEF ReadCallee, modelVars
  <2>3. \A v \in Worker, c \in Target : cache'[v][c] = cache[v][c] \/ cache'[v][c] = new[c]
    <3>1. cache \in [Worker -> [Target -> ModelOption]]
      BY DEF TypeInv, TypeOK
    <3> QED
      BY <2>1, <2>2, <3>1
  <2> QED
    BY <2>2, <2>3 DEF CacheCoherent, CacheHit, TypeInv, TypeOK
<1>7. ASSUME NEW w \in Worker, FinishCallable(w) PROVE CacheCoherent'
  <2> DEFINE c == current[w]
             model == widen_if_necessary(get_old_model(c), Analyze(c, get_old_model(c), seen[w]))
  <2>1. c \in Target /\ new[c] = NoModel /\ new' = [new EXCEPT ![c] = model]
    BY <1>7, FinishCallableNew
  <2>2. cache' = [cache EXCEPT ![w][c] = model] /\ UNCHANGED busy /\ phase = "map"
    BY <1>7 DEF FinishCallable, set_callable_result
  <2> HIDE DEF model
  <2>3. \A d \in Target : new'[d] = IF d = c THEN model ELSE new[d]
    BY <2>1 DEF TypeInv, TypeOK
  <2>4. \A v \in Worker, d \in Target :
          cache'[v][d] = IF v = w /\ d = c THEN model ELSE cache[v][d]
    BY <2>1, <2>2 DEF TypeInv, TypeOK
  <2> QED
    BY <2>1, <2>2, <2>3, <2>4 DEF CacheCoherent, CacheHit, TypeInv, TypeOK
<1>8. ASSUME NEW w \in Worker, FinishJob(w) PROVE CacheCoherent'
  BY <1>8 DEF CacheCoherent, CacheHit, FinishJob, modelVars
<1> QED
  BY <1>1, <1>2, <1>3, <1>4, <1>5, <1>6, <1>7, <1>8 DEF Next, MasterNext, WorkerNext

(***************************************************************************)
(* Coherence: whatever the interleaving, a worker's cache of models agrees *)
(* with shared memory (adding to shared memory never overwrites, so the    *)
(* model a worker has cached is the one every other worker sees).          *)
(***************************************************************************)
THEOREM Coherence == ASSUME WellTyped, ForkedWorkers PROVE Spec => []CacheCoherent
<1> DEFINE I == TypeInv /\ WorkInv /\ ModelInv /\ CacheCoherent
<1>1. Init => I
  BY InitTypeInv, InitWorkInv, InitModelInv, InitCacheCoherent
<1>2. I /\ [Next]_vars => I'
  BY NextTypeInv, NextWorkInv, NextModelInv, NextCacheCoherent
<1> QED
  BY <1>1, <1>2, PTL DEF Spec

-----------------------------------------------------------------------------
(***************************************************************************)
(* What the steps of the iteration do to the model a caller finds.         *)
(***************************************************************************)
LEMMA StartIterationModel ==
  ASSUME TypeInv, ModelInv, StartIteration, NEW c \in Target PROVE get_model(c)' = get_model(c)
BY DEF StartIteration, oldify, get_model, get_old_model, ModelInv, TypeInv, TypeOK

LEMMA EndIterationPending ==
  ASSUME TypeInv, WorkInv, EndIteration, NEW c \in Target PROVE ~ Pending(c)
BY TargetAssumption DEF EndIteration, WorkInv, Pending

LEMMA EndIterationModel ==
  ASSUME TypeInv, WorkInv, ModelInv, EndIteration, check_missing, new_callables = {},
         NEW c \in Target
  PROVE  get_model(c)' = get_model(c)
<1>1. c \in todo => new[c] # NoModel
  BY EndIterationPending DEF ModelInv, EndIteration
<1>2. new'[c] = new[c]
  BY DEF EndIteration, initialize_new_dependencies
<1>3. old'[c] = IF c \in todo THEN NoModel ELSE old[c]
  BY DEF EndIteration
<1> QED
  BY <1>1, <1>2, <1>3 DEF get_model, get_old_model

(***************************************************************************)
(* A finished callable that is not partial keeps its model, and no other   *)
(* model changes.                                                          *)
(***************************************************************************)
LEMMA FinishCallableModel ==
  ASSUME WellTyped, TypeInv, WorkInv, ModelInv, NEW w \in Worker, FinishCallable(w)
  PROVE  LET c == current[w]
             previous == get_old_model(c)
             next == Analyze(c, previous, seen[w])
         IN /\ \A d \in Target : d # c => get_model(d)' = get_model(d)
            /\ get_model(c) = previous
            /\ ~ is_partial(previous, next) =>
                 \A d \in Target : d = c => get_model(d)' = previous
<1> DEFINE c == current[w]
           previous == get_old_model(c)
           next == Analyze(c, previous, seen[w])
           model == widen_if_necessary(previous, next)
<1>1. /\ c \in Target
      /\ new[c] = NoModel
      /\ new' = [new EXCEPT ![c] = model]
      /\ new'[c] # NoModel
      /\ new'[c] = model
      /\ UNCHANGED old
  BY FinishCallableNew
<1>2. ~ is_partial(previous, next) => model = previous
  BY DEF widen_if_necessary
<1> HIDE DEF model
<1>3. get_model(c) = previous /\ \A d \in Target : d = c => get_model(d)' = model
  BY <1>1 DEF get_model, get_old_model
<1>4. \A d \in Target : d # c => get_model(d)' = get_model(d)
  BY <1>1 DEF get_model, get_old_model, TypeInv, TypeOK
<1> QED
  BY <1>2, <1>3, <1>4

(* An answer stays up to date when the models that change are reported. *)
LEMMA UpToDateKept ==
  ASSUME NEW c, NEW s, UpToDate(c, s), graph \subseteq graph',
         \A d \in Target : get_model(d)' = get_model(d) \/ Changed(d)',
         \A d \in Target : Changed(d) => Changed(d)'
  PROVE  \A q \in Query : s[q] # Unread =>
           /\ <<Callee(q), c>> \in graph'
           /\ s[q] = get_model(Callee(q))' \/ Changed(Callee(q))'
BY TargetAssumption DEF UpToDate

(* The callers of every target are known before the fixpoint starts... *)
CompleteGraph ==
  \A c \in Target, s \in Answers : \A q \in Queries(c, s) : <<Callee(q), c>> \in InitialGraph

(* ...so that the analysis has none to report: taintFixpoint.ml's case. *)
NoNewDependencies ==
  \A c \in Target, m \in Model : AdditionalDependencies(c, m) = {}

LEMMA InitStableInv == Init => StableInv
BY TargetAssumption DEF Init, StableInv, NoAnswer, filter_skip_analysis_targets

LEMMA DecideStableInv ==
  ASSUME StableInv, UNCHANGED vars \/ ReachFixpoint \/ ReachMaxIterations \/ Done
  PROVE  StableInv'
<1>1. CASE UNCHANGED vars
  BY <1>1 DEF StableInv, Stable, Settled, Answered, UpToDate, Pending, Changed, get_model, get_old_model,
              vars, masterVars, modelVars, reduceVars, workerVars
<1>2. CASE ReachFixpoint \/ ReachMaxIterations
  BY <1>2 DEF StableInv, ReachFixpoint, ReachMaxIterations, masterVars, reduceVars, workerVars
<1>3. CASE Done
  BY <1>1, <1>3 DEF Done
<1> QED
  BY <1>1, <1>2, <1>3

LEMMA StartIterationStableInv ==
  ASSUME TypeInv, WorkInv, ModelInv, StableInv, StartIteration PROVE StableInv'
<1>1. /\ phase = "iterate" /\ phase' = "map"
      /\ undispatched' = todo
      /\ additional' = {}
      /\ UNCHANGED <<graph, all, todo, current, jobAdditional, lastSeen>>
  BY DEF StartIteration, masterVars, workerVars
<1>2. \A w \in Worker : current[w] = NoTarget
  BY <1>1 DEF WorkInv
<1>3. \A c \in Target : get_model(c)' = get_model(c)
  BY StartIterationModel
<1>4. ASSUME NEW c \in all, c \notin todo PROVE Settled(c)'
  <2>1. Stable(c) /\ \A q \in Query : lastSeen[c][q] # Unread => <<Callee(q), c>> \in graph
    BY <1>1, <1>4 DEF StableInv
  <2>2. get_model(c)' = get_model(c)
    BY <1>3 DEF TypeInv, TypeOK
  <2>3. UpToDate(c, lastSeen[c])'
    BY <1>1, <1>3, <2>1, TargetAssumption DEF UpToDate, Stable
  <2>4. Answered(c, lastSeen[c])'
    BY <1>1, <2>1 DEF Answered, Stable
  <2>5. LessOrEqual(Analyze(c, get_model(c)', lastSeen[c]'), get_model(c)')
    BY <1>1, <2>1, <2>2 DEF Stable
  <2> QED BY <2>3, <2>4, <2>5 DEF Settled
<1> QED
  BY <1>1, <1>2, <1>4 DEF StableInv, Pending

LEMMA EndIterationStableInv ==
  ASSUME TypeInv, WorkInv, ModelInv, StableInv, EndIteration PROVE StableInv'
<1>1. /\ phase = "map"
      /\ busy = {}
      /\ UNCHANGED <<additional, jobAdditional, lastSeen>>
  BY DEF EndIteration, reduceVars, workerVars
<1>2. CASE ~ check_missing
  BY <1>1, <1>2 DEF EndIteration, StableInv, masterVars
<1>3. CASE check_missing
  <2>1. new_callables = {}
    BY DEF StableInv, new_callables, filter_skip_analysis_targets
  <2>2. /\ phase' = "iterate"
        /\ all' = all
        /\ todo' = callables_to_reanalyze
        /\ graph' = graph
    BY <1>3, <2>1 DEF EndIteration, StableInv
  <2>3. \A c \in Target : get_model(c)' = get_model(c)
    BY <1>3, <2>1, EndIterationModel
  <2>4. ASSUME NEW c \in all, c \notin todo' PROVE Stable(c)'
    <3>1. c \in Target /\ c \notin might_change_if_reanalyzed
      BY <2>2, <2>4 DEF callables_to_reanalyze, TypeInv, TypeOK
    <3>2. ~ Changed(c) /\ ~ Pending(c)
      BY <1>1, <3>1, EndIterationPending DEF Changed, might_change_if_reanalyzed
    <3>3. Settled(c)
      BY <1>1, <3>2 DEF StableInv
    <3>4. ASSUME NEW q \in Query, lastSeen[c][q] # Unread
          PROVE  lastSeen[c][q] = get_model(Callee(q))
      <4>1. <<Callee(q), c>> \in graph /\ (lastSeen[c][q] = get_model(Callee(q)) \/ Changed(Callee(q)))
        BY <3>3, <3>4 DEF Settled, UpToDate
      <4>2. c \in dependencies(graph, Callee(q))
        BY <3>1, <4>1 DEF dependencies
      <4>3. Callee(q) \notin partial
        BY <3>1, <4>2 DEF might_change_if_reanalyzed
      <4> QED BY <1>1, <4>1, <4>3 DEF Changed
    <3>5. \A q \in Query : lastSeen'[c][q] # Unread => lastSeen'[c][q] = get_model(Callee(q))'
      BY <1>1, <2>3, <3>4, TargetAssumption
    <3>6. Answered(c, lastSeen[c])'
      BY <1>1, <3>3 DEF Settled, Answered
    <3>7. LessOrEqual(Analyze(c, get_model(c)', lastSeen[c]'), get_model(c)')
      BY <1>1, <2>3, <3>1, <3>3 DEF Settled
    <3> QED BY <3>5, <3>6, <3>7 DEF Stable
  <2>5. \A c \in all, q \in Query : lastSeen'[c][q] # Unread => <<Callee(q), c>> \in graph'
    BY <1>1, <2>2 DEF StableInv
  <2> QED
    BY <1>1, <2>2, <2>4, <2>5 DEF StableInv
<1> QED
  BY <1>2, <1>3

LEMMA TakeJobStableInv ==
  ASSUME TypeInv, WorkInv, StableInv, NEW w \in Worker, TakeJob(w) PROVE StableInv'
<1>1. /\ phase = "map"
      /\ UNCHANGED <<phase, graph, all, todo, new, old, additional, current, seen, lastSeen>>
      /\ jobAdditional' = [jobAdditional EXCEPT ![w] = {}]
  BY DEF TakeJob, masterVars, modelVars
<1>2. \A c \in Target : Pending(c)' <=> Pending(c)
  BY TakeJobPending
<1>3. \A c \in Target : Changed(c)' <=> Changed(c)
  BY TakeJobChanged
<1>4. \A c \in Target : get_model(c)' = get_model(c)
  BY <1>1 DEF get_model, get_old_model
<1>5. ASSUME NEW c \in Target, NEW s, UpToDate(c, s)
      PROVE  \A q \in Query : s[q] # Unread =>
               /\ <<Callee(q), c>> \in graph'
               /\ s[q] = get_model(Callee(q))' \/ Changed(Callee(q))'
  BY <1>1, <1>3, <1>4, <1>5, UpToDateKept
<1>6. ASSUME NEW v \in Worker, current[v] # NoTarget PROVE UpToDate(current[v], seen[v])'
  <2>1. current[v] \in Target
    BY <1>6 DEF TypeInv, TypeOK
  <2>2. UpToDate(current[v], seen[v])
    BY <1>1, <1>6 DEF StableInv
  <2>3. PICK c, s : c = current[v] /\ s = seen[v]
    OBVIOUS
  <2>4. \A q \in Query : s[q] # Unread =>
          /\ <<Callee(q), c>> \in graph'
          /\ s[q] = get_model(Callee(q))' \/ Changed(Callee(q))'
    <3>1. c \in Target /\ UpToDate(c, s)
      BY <2>1, <2>2, <2>3
    <3> QED
      BY <1>5, <3>1
  <2>5. current'[v] = c /\ seen'[v] = s
    BY <1>1, <2>3
  <2> QED
    BY <2>4, <2>5 DEF UpToDate
<1>7. \A c \in all : Settled(c) => Settled(c)'
  <2> SUFFICES ASSUME NEW c \in all, Settled(c) PROVE Settled(c)'
    OBVIOUS
  <2>1. c \in Target
    BY DEF TypeInv, TypeOK
  <2>2. UpToDate(c, lastSeen[c])'
    BY <1>1, <1>5, <2>1 DEF UpToDate, Settled
  <2>3. Answered(c, lastSeen[c])'
    BY <1>1 DEF Answered, Settled
  <2>4. LessOrEqual(Analyze(c, get_model(c)', lastSeen[c]'), get_model(c)')
    BY <1>1, <1>4, <2>1 DEF Settled
  <2> QED BY <2>2, <2>3, <2>4 DEF Settled
<1>8. \A v \in Worker : jobAdditional'[v] = {}
  BY <1>1 DEF StableInv, TypeInv, TypeOK
<1>9. \A c \in all : Pending(c)' \/ Changed(c)' \/ Settled(c)'
  BY <1>1, <1>2, <1>3, <1>7 DEF StableInv, TypeInv, TypeOK
<1> QED
  BY <1>1, <1>6, <1>8, <1>9 DEF StableInv

LEMMA FinishJobStableInv ==
  ASSUME TypeInv, StableInv, NEW w \in Worker, FinishJob(w) PROVE StableInv'
<1>1. /\ phase = "map"
      /\ UNCHANGED <<phase, graph, all, todo, new, old, undispatched, job, current, seen,
                     jobAdditional, lastSeen>>
      /\ additional' = additional \cup jobAdditional[w]
  BY DEF FinishJob, masterVars, modelVars
<1>2. \A c \in Target : Changed(c)' <=> Changed(c)
  BY FinishJobChanged
<1>3. \A c \in Target : get_model(c)' = get_model(c) /\ (Pending(c)' <=> Pending(c))
  BY <1>1, NewPending DEF get_model, get_old_model
<1>4. \A v \in Worker : current[v] # NoTarget => UpToDate(current[v], seen[v])'
  BY <1>1, <1>2, <1>3, TargetAssumption DEF StableInv, UpToDate
<1>5. \A c \in all : Settled(c) => Settled(c)'
  BY <1>1, <1>2, <1>3, TargetAssumption DEF Settled, UpToDate, Answered, TypeInv, TypeOK
<1>6. additional' = {} /\ \A v \in Worker : jobAdditional'[v] = {}
  BY <1>1 DEF StableInv
<1>7. \A c \in all : Pending(c)' \/ Changed(c)' \/ Settled(c)'
  BY <1>1, <1>2, <1>3, <1>5 DEF StableInv, TypeInv, TypeOK
<1> QED
  BY <1>1, <1>4, <1>6, <1>7 DEF StableInv

LEMMA BeginCallableStableInv ==
  ASSUME TypeInv, StableInv, NEW w \in Worker, BeginCallable(w) PROVE StableInv'
<1>1. /\ phase = "map"
      /\ UNCHANGED <<graph, all, todo, new, old, partial, additional, busy, jobPartial,
                     jobAdditional, lastSeen>>
  BY DEF BeginCallable, masterVars, modelVars, reduceVars
<1>2. \/ phase' = "failed"
      \/ /\ phase' = "map"
         /\ \A v \in Worker : seen'[v] = NoAnswer \/ (seen'[v] = seen[v] /\ current'[v] = current[v])
  <2>1. PICK c \in job[w] :
          \/ phase' = "failed"
          \/ /\ phase' = phase
             /\ current' = [current EXCEPT ![w] = c]
             /\ seen' = [seen EXCEPT ![w] = NoAnswer]
    BY DEF BeginCallable
  <2> QED BY <1>1, <2>1 DEF TypeInv, TypeOK
<1>3. \A c \in Target : Pending(c)' <=> Pending(c)
  BY BeginCallablePending
<1>4. \A c \in Target : get_model(c)' = get_model(c) /\ (Changed(c)' <=> Changed(c))
  BY <1>1 DEF get_model, get_old_model, Changed
<1>5. phase' = "map" => \A v \in Worker : current'[v] # NoTarget => UpToDate(current[v], seen[v])'
  BY <1>1, <1>2, <1>4, TargetAssumption DEF StableInv, UpToDate, NoAnswer
<1>6. \A c \in all : Settled(c) => Settled(c)'
  BY <1>1, <1>4, TargetAssumption DEF Settled, UpToDate, Answered, TypeInv, TypeOK
<1>7. \A c \in all : Pending(c)' \/ Changed(c)' \/ Settled(c)'
  BY <1>1, <1>3, <1>4, <1>6 DEF StableInv, TypeInv, TypeOK
<1> QED
  BY <1>1, <1>2, <1>5, <1>7 DEF StableInv

(* With a coherent cache, an answer is the model that is current. *)
LEMMA ReadCalleeAnswer ==
  ASSUME TypeInv, CacheCoherent, NEW w \in Worker, NEW q \in Query, ReadCallee(w, q)
  PROVE  \/ phase' = "failed"
         \/ phase' = "map" /\ seen' = [seen EXCEPT ![w][q] = get_model(Callee(q))]
<1>1. Callee(q) \in Target /\ phase = "map" /\ w \in busy
  BY TargetAssumption DEF ReadCallee, TypeInv
<1>2. CacheHit(w, Callee(q)) => cache[w][Callee(q)] = get_model(Callee(q))
  BY <1>1 DEF CacheCoherent, CacheHit, get_model
<1>3. PICK m : /\ m = get_model(Callee(q))
               /\ \/ phase' = "failed"
                  \/ phase' = phase /\ seen' = [seen EXCEPT ![w][q] = m]
  BY <1>2 DEF ReadCallee
<1> QED
  BY <1>1, <1>3

LEMMA ReadCalleeStableInv ==
  ASSUME CompleteGraph, TypeInv, CacheCoherent, StableInv, NEW w \in Worker, NEW q \in Query,
         ReadCallee(w, q)
  PROVE  StableInv'
<1>1. /\ phase = "map"
      /\ UNCHANGED <<graph, all, todo, new, old, undispatched, partial, additional, busy, job, current,
                     jobPartial, jobAdditional, lastSeen>>
  BY DEF ReadCallee, masterVars, modelVars, reduceVars
<1>2. CASE phase' = "failed"
  BY <1>1, <1>2 DEF StableInv
<1>3. CASE phase' = "map" /\ seen' = [seen EXCEPT ![w][q] = get_model(Callee(q))]
  <2>1. \A c \in Target : /\ get_model(c)' = get_model(c)
                          /\ Changed(c)' <=> Changed(c)
                          /\ Pending(c)' <=> Pending(c)
    BY <1>1 DEF get_model, get_old_model, Changed, Pending
  <2>2. <<Callee(q), current[w]>> \in graph
    <3>1. q \in Queries(current[w], seen[w]) /\ current[w] \in Target /\ seen[w] \in Answers
      BY DEF ReadCallee, TypeInv, TypeOK
    <3> QED BY <3>1 DEF CompleteGraph, StableInv
  <2>3. \A v \in Worker, p \in Query :
          seen'[v][p] = IF v = w /\ p = q THEN get_model(Callee(q)) ELSE seen[v][p]
    BY <1>3 DEF TypeInv, TypeOK, Answers
  <2>4. \A v \in Worker : current[v] # NoTarget => UpToDate(current[v], seen[v])'
    BY <1>1, <2>1, <2>2, <2>3, TargetAssumption DEF StableInv, UpToDate
  <2>5. \A c \in all : Settled(c) => Settled(c)'
    BY <1>1, <2>1, TargetAssumption DEF Settled, UpToDate, Answered, TypeInv, TypeOK
  <2>6. \A c \in all : Pending(c)' \/ Changed(c)' \/ Settled(c)'
    BY <1>1, <2>1, <2>5 DEF StableInv, TypeInv, TypeOK
  <2> QED
    BY <1>1, <1>3, <2>4, <2>6 DEF StableInv
<1> QED
  BY <1>2, <1>3, ReadCalleeAnswer

LEMMA FinishCallableStableInv ==
  ASSUME WellTyped, NoNewDependencies, TypeInv, WorkInv, ModelInv, StableInv,
         NEW w \in Worker, FinishCallable(w)
  PROVE  StableInv'
<1> DEFINE c == current[w]
           previous == get_old_model(c)
           next == Analyze(c, previous, seen[w])
<1>1. /\ phase = "map"
      /\ c # NoTarget
      /\ c \in Target
      /\ next \in Model
      /\ current' = [current EXCEPT ![w] = NoTarget]
      /\ lastSeen' = [lastSeen EXCEPT ![c] = seen[w]]
      /\ Answered(c, seen[w])
      /\ UNCHANGED <<phase, graph, all, todo, additional, seen>>
  BY FinishedModel DEF FinishCallable, masterVars, reduceVars
<1>2. \A d \in Target : d # c => get_model(d)' = get_model(d)
  BY FinishCallableModel
<1>3. /\ get_model(c) = previous
      /\ ~ is_partial(previous, next) => \A d \in Target : d = c => get_model(d)' = previous
  BY FinishCallableModel
<1>4. \A d \in Target : Changed(d)' <=> Changed(d) \/ (d = c /\ is_partial(previous, next))
  BY FinishCallableChanged
<1>5. \A d \in Target : Pending(d)' <=> Pending(d) /\ d # c
  BY FinishCallablePending
<1>6. \A v \in Worker : jobAdditional'[v] = {}
  <2>1. AdditionalDependencies(c, next) = {}
    BY <1>1 DEF NoNewDependencies
  <2>2. \/ UNCHANGED jobAdditional
        \/ jobAdditional' = [jobAdditional EXCEPT ![w] = @ \cup (AdditionalDependencies(c, next) \X {c})]
    BY DEF FinishCallable
  <2> HIDE DEF c, next
  <2> QED BY <2>1, <2>2 DEF StableInv, TypeInv, TypeOK
<1>7. \A d \in Target : get_model(d)' = get_model(d) \/ Changed(d)'
  BY <1>2, <1>3, <1>4
<1> HIDE DEF next, previous
<1>8. ASSUME NEW d, NEW s, UpToDate(d, s)
      PROVE  \A q \in Query : s[q] # Unread =>
               /\ <<Callee(q), d>> \in graph'
               /\ s[q] = get_model(Callee(q))' \/ Changed(Callee(q))'
  BY <1>1, <1>4, <1>7, <1>8, UpToDateKept
<1>9. \A v \in Worker : current'[v] # NoTarget => UpToDate(current[v], seen[v])'
  <2>1. \A v \in Worker : current'[v] # NoTarget =>
          UpToDate(current[v], seen[v]) /\ current'[v] = current[v]
    BY <1>1 DEF StableInv, TypeInv, TypeOK
  <2> QED BY <1>1, <1>8, <2>1 DEF UpToDate
<1>10. UpToDate(c, seen[w])
  BY <1>1 DEF StableInv
<1>11. \A d \in Target : lastSeen'[d] = IF d = c THEN seen[w] ELSE lastSeen[d]
  BY <1>1 DEF TypeInv, TypeOK
<1>12. ~ is_partial(previous, next) => \A d \in Target : d = c => Settled(d)'
  <2> SUFFICES ASSUME ~ is_partial(previous, next), NEW d \in Target, d = c PROVE Settled(d)'
    OBVIOUS
  <2>1. lastSeen'[d] = seen[w]
    BY <1>11
  <2>2. UpToDate(d, lastSeen[d])'
    BY <1>8, <1>10, <2>1 DEF UpToDate
  <2>3. Answered(d, lastSeen[d])'
    BY <1>1, <2>1 DEF Answered
  <2>4. LessOrEqual(Analyze(d, get_model(d)', lastSeen[d]'), get_model(d)')
    BY <1>3, <2>1 DEF is_partial, next
  <2> QED BY <2>2, <2>3, <2>4 DEF Settled
<1>13. \A d \in Target : d # c /\ Settled(d) => Settled(d)'
  <2> SUFFICES ASSUME NEW d \in Target, d # c, Settled(d) PROVE Settled(d)'
    OBVIOUS
  <2>1. lastSeen'[d] = lastSeen[d] /\ get_model(d)' = get_model(d)
    BY <1>2, <1>11
  <2>2. UpToDate(d, lastSeen[d])'
    BY <1>8, <2>1 DEF UpToDate, Settled
  <2>3. Answered(d, lastSeen[d])'
    BY <2>1 DEF Answered, Settled
  <2>4. LessOrEqual(Analyze(d, get_model(d)', lastSeen[d]'), get_model(d)')
    BY <2>1 DEF Settled
  <2> QED BY <2>2, <2>3, <2>4 DEF Settled
<1>14. \A d \in all : Pending(d)' \/ Changed(d)' \/ Settled(d)'
  BY <1>1, <1>4, <1>5, <1>12, <1>13 DEF StableInv, TypeInv, TypeOK
<1>15. \A d \in all, q \in Query : lastSeen'[d][q] # Unread => <<Callee(q), d>> \in graph
  BY <1>1, <1>10, <1>11 DEF StableInv, UpToDate, TypeInv, TypeOK
<1> QED
  BY <1>1, <1>6, <1>9, <1>14, <1>15 DEF StableInv

LEMMA NextStableInv ==
  ASSUME WellTyped, CompleteGraph, NoNewDependencies, TypeInv, WorkInv, ModelInv, CacheCoherent,
         StableInv, [Next]_vars
  PROVE  StableInv'
<1>1. CASE UNCHANGED vars \/ ReachFixpoint \/ ReachMaxIterations \/ Done
  BY <1>1, DecideStableInv
<1>2. CASE StartIteration \/ EndIteration
  BY <1>2, StartIterationStableInv, EndIterationStableInv
<1>3. ASSUME NEW w \in Worker, WorkerNext(w) PROVE StableInv'
  BY <1>3, TakeJobStableInv, BeginCallableStableInv, ReadCalleeStableInv, FinishCallableStableInv,
     FinishJobStableInv DEF WorkerNext
<1> QED
  BY <1>1, <1>2, <1>3 DEF Next, MasterNext

LEMMA NextFixpointSound ==
  ASSUME StableInv, FixpointSound, [Next]_vars PROVE FixpointSound'
<1>1. CASE UNCHANGED vars \/ Done
  BY <1>1 DEF FixpointSound, Stable, Answered, get_model, get_old_model, Done, vars, masterVars, modelVars
<1>2. CASE ReachFixpoint
  BY <1>2 DEF StableInv, FixpointSound, Stable, Answered, get_model, get_old_model, ReachFixpoint,
              masterVars, modelVars
<1>3. CASE phase' # "fixpoint"
  BY <1>3 DEF FixpointSound
<1>4. ASSUME NEW w \in Worker, WorkerNext(w) PROVE phase' # "fixpoint"
  <2>1. phase = "map" /\ phase' \in {"map", "failed"}
    BY <1>4 DEF WorkerNext, TakeJob, BeginCallable, ReadCallee, FinishCallable, FinishJob
  <2> QED BY <2>1
<1>5. CASE ReachMaxIterations \/ StartIteration \/ EndIteration
  <2>1. phase' # "fixpoint"
    BY <1>5 DEF ReachMaxIterations, StartIteration, EndIteration
  <2> QED BY <1>3, <2>1
<1> QED
  BY <1>1, <1>2, <1>3, <1>4, <1>5 DEF Next, MasterNext

(***************************************************************************)
(* Soundness of the iteration: when the callers of every target are in the *)
(* dependency graph from the start and the analysis reports no new ones,   *)
(* "fixpoint" means a fixpoint -- for every number of workers, order of    *)
(* analysis, domain, widening, and number of iterations, although workers  *)
(* read models while others replace them.  Neither the order nor the       *)
(* widening needs any algebraic law: a callable that is not re-analyzed    *)
(* has read no model that changed.                                         *)
(***************************************************************************)
THEOREM Soundness ==
  ASSUME WellTyped, ForkedWorkers, CompleteGraph, NoNewDependencies PROVE Spec => []FixpointSound
<1> DEFINE I == TypeInv /\ WorkInv /\ ModelInv /\ CacheCoherent /\ StableInv /\ FixpointSound
<1>1. Init => I
  <2>1. Init => FixpointSound
    BY DEF Init, FixpointSound
  <2> QED
    BY <2>1, InitTypeInv, InitWorkInv, InitModelInv, InitCacheCoherent, InitStableInv
<1>2. I /\ [Next]_vars => I'
  BY NextTypeInv, NextWorkInv, NextModelInv, NextCacheCoherent, NextStableInv, NextFixpointSound
<1> QED
  BY <1>1, <1>2, PTL DEF Spec

-----------------------------------------------------------------------------
(***************************************************************************)
(* What the fixpoint keeps in shared memory: the models, the results and   *)
(* the meta data of the callables.  None of these proofs asks for a        *)
(* complete dependency graph or for forked workers: they are about the     *)
(* higher order call graph fixpoint as much as about the taint fixpoint.   *)
(***************************************************************************)

(* The targets that record_initial_models gave a model. *)
Modelled == {c \in Target : InitialModels[c] # NoModel}

(* Every callable to analyze is among them. *)
InitiallyModelled == filter_skip_analysis_targets(CallablesToAnalyze) \subseteq Modelled

(***************************************************************************)
(* ModelAvailable, also for the targets that have a model and are not      *)
(* analyzed.                                                               *)
(***************************************************************************)
ModelsKept == \A c \in all \cup Modelled : get_model(c) # NoModel

NothingOld ==
  phase \in {"iterate", "fixpoint", "stopped", "raised"} => \A c \in Target : old[c] = NoModel

LEMMA InitModelsKept == ASSUME InitiallyModelled PROVE Init => ModelsKept /\ NothingOld
BY DEF InitiallyModelled, Modelled, Init, ModelsKept, NothingOld, get_model, get_old_model, NoModels

(* At the end of an iteration every model is a new one. *)
LEMMA EndIterationNew ==
  ASSUME TypeInv, WorkInv, ModelInv, EndIteration, NEW c \in Target, get_model(c) # NoModel
  PROVE  new[c] # NoModel
<1>1. c \in todo => new[c] # NoModel
  BY EndIterationPending DEF ModelInv, EndIteration
<1>2. c \notin todo => old[c] = NoModel
  BY DEF ModelInv, EndIteration
<1> QED
  BY <1>1, <1>2 DEF get_model, get_old_model

LEMMA EndIterationKeepsModel ==
  ASSUME TypeInv, WorkInv, ModelInv, EndIteration, NEW c \in Target, get_model(c) # NoModel
  PROVE  get_model(c)' = get_model(c)
<1>1. new[c] # NoModel
  BY EndIterationNew
<1>2. new'[c] = new[c]
  BY <1>1 DEF EndIteration, initialize_new_dependencies, TypeInv, TypeOK
<1> QED
  BY <1>1, <1>2 DEF get_model, get_old_model

(* The steps of a worker that do not finish a callable. *)
WorkerReads(w) ==
  TakeJob(w) \/ BeginCallable(w) \/ (\E q \in Query : ReadCallee(w, q)) \/ FinishJob(w)

LEMMA WorkerReadsFrame ==
  ASSUME NEW w \in Worker, WorkerReads(w)
  PROVE  /\ phase = "map" /\ phase' \in {"map", "failed"}
         /\ UNCHANGED <<iteration, graph, all, todo, new, old, results, meta>>
<1>1. CASE TakeJob(w) \/ FinishJob(w)
  BY <1>1 DEF TakeJob, FinishJob, masterVars, modelVars
<1>2. CASE BeginCallable(w)
  BY <1>2 DEF BeginCallable, masterVars, modelVars
<1>3. ASSUME NEW q \in Query, ReadCallee(w, q)
      PROVE  /\ phase = "map" /\ phase' \in {"map", "failed"}
             /\ UNCHANGED <<iteration, graph, all, todo, new, old, results, meta>>
  <2>1. phase = "map" /\ phase' \in {"map", "failed"}
    BY <1>3 DEF ReadCallee
  <2> QED BY <1>3, <2>1 DEF ReadCallee, masterVars, modelVars
<1> QED
  BY <1>1, <1>2, <1>3 DEF WorkerReads

(* Next, with the steps that change no model put together. *)
LEMMA NextCases ==
  ASSUME [Next]_vars
  PROVE  \/ UNCHANGED vars \/ ReachFixpoint \/ ReachMaxIterations \/ Done
         \/ StartIteration
         \/ EndIteration
         \/ \E w \in Worker : WorkerReads(w) \/ FinishCallable(w)
BY DEF Next, MasterNext, WorkerNext, WorkerReads

LEMMA DecideFrame ==
  ASSUME UNCHANGED vars \/ ReachFixpoint \/ ReachMaxIterations \/ Done
  PROVE  /\ UNCHANGED <<masterVars, modelVars, reduceVars, workerVars, lastSeen>>
         /\ \/ UNCHANGED phase
            \/ phase = "iterate" /\ phase' \in {"stopped", "raised"}
            \/ phase = "iterate" /\ phase' = "fixpoint" /\ todo = {}
BY DEF ReachFixpoint, ReachMaxIterations, Done, vars

(* The model of a callable is the model it had, or the one just computed. *)
LEMMA FinishCallableKeepsModels ==
  ASSUME WellTyped, TypeInv, WorkInv, ModelInv, NEW w \in Worker, FinishCallable(w),
         NEW d \in Target, get_model(d) # NoModel
  PROVE  get_model(d)' # NoModel
<1>1. new'[current[w]] # NoModel /\ UNCHANGED old
  BY FinishCallableNew
<1>2. d # current[w] => get_model(d)' = get_model(d)
  BY FinishCallableModel
<1> QED
  BY <1>1, <1>2 DEF get_model, get_old_model

LEMMA NextModelsKept ==
  ASSUME WellTyped, TypeInv, WorkInv, ModelInv, ModelsKept, NothingOld, [Next]_vars
  PROVE  ModelsKept' /\ NothingOld'
<1>0. all \subseteq Target /\ Modelled \subseteq Target
  BY DEF TypeInv, TypeOK, Modelled
<1>1. CASE UNCHANGED vars \/ ReachFixpoint \/ ReachMaxIterations \/ Done
  <2>1. UNCHANGED <<all, new, old>> /\ (UNCHANGED phase \/ phase = "iterate")
    BY <1>1, DecideFrame DEF masterVars, modelVars
  <2> QED BY <2>1 DEF ModelsKept, NothingOld, get_model, get_old_model
<1>2. CASE StartIteration
  <2>1. UNCHANGED all /\ phase' = "map"
    BY <1>2 DEF StartIteration, masterVars
  <2>2. \A c \in Target : get_model(c)' = get_model(c)
    BY <1>2, StartIterationModel
  <2> QED BY <1>0, <2>1, <2>2 DEF ModelsKept, NothingOld
<1>3. CASE EndIteration
  <2>1. \A c \in all \cup Modelled : get_model(c)' # NoModel
    BY <1>0, <1>3, EndIterationKeepsModel DEF ModelsKept
  <2>2. \A c \in Target : old'[c] = NoModel
    BY <1>3 DEF EndIteration, ModelInv
  <2>3. ASSUME NEW c \in all', c \notin all PROVE get_model(c)' # NoModel
    <3>1. c \in new_callables /\ initialize_new_dependencies(new_callables)
      BY <1>3, <2>3 DEF EndIteration, masterVars
    <3>2. c \in Target
      BY <3>1 DEF new_callables, filter_skip_analysis_targets, TypeInv, TypeOK, Graph
    <3>3. ForNewDependency(c, new) # NoModel
      BY <3>2, ModelAssumption DEF WellTyped, TypeInv, TypeOK
    <3>4. new'[c] # NoModel
      BY <3>1, <3>2, <3>3 DEF initialize_new_dependencies
    <3> QED BY <3>4 DEF get_model
  <2> QED BY <2>1, <2>2, <2>3 DEF ModelsKept, NothingOld
<1>4. ASSUME NEW w \in Worker, WorkerReads(w) PROVE ModelsKept' /\ NothingOld'
  BY <1>4, WorkerReadsFrame DEF ModelsKept, NothingOld, get_model, get_old_model
<1>5. ASSUME NEW w \in Worker, FinishCallable(w) PROVE ModelsKept' /\ NothingOld'
  <2>1. UNCHANGED all /\ phase' = "map"
    BY <1>5 DEF FinishCallable, masterVars
  <2> QED BY <1>0, <1>5, <2>1, FinishCallableKeepsModels DEF ModelsKept, NothingOld
<1> QED
  BY <1>1, <1>2, <1>3, <1>4, <1>5, NextCases

(***************************************************************************)
(* A callable never loses its model: oldify, the analysis and the removal  *)
(* of the old models, interleaved over any number of workers, leave at     *)
(* every moment a model for a caller to find, and no old one between two   *)
(* iterations.                                                             *)
(***************************************************************************)
THEOREM ModelsAvailable ==
  ASSUME WellTyped, InitiallyModelled PROVE Spec => []ModelAvailable
<1> DEFINE I == TypeInv /\ WorkInv /\ ModelInv /\ ModelsKept /\ NothingOld
<1>1. Init => I
  BY InitTypeInv, InitWorkInv, InitModelInv, InitModelsKept
<1>2. I /\ [Next]_vars => I'
  BY NextTypeInv, NextWorkInv, NextModelInv, NextModelsKept
<1>3. I => ModelAvailable
  BY DEF ModelsKept, NothingOld, ModelAvailable
<1> QED
  BY <1>1, <1>2, <1>3, PTL DEF Spec

-----------------------------------------------------------------------------
(***************************************************************************)
(* The order of the domain is reflexive, and widening is above the model   *)
(* it starts from.  The taint domain has both; the call graph domain, in   *)
(* which widening returns its right hand side, has not the second.         *)
(***************************************************************************)
WideningGrows ==
  /\ \A m \in Model : LessOrEqual(m, m)
  /\ \A i \in 0 .. MaxIterations, p \in Model, m \in Model : LessOrEqual(p, Widen(i, p, m))

LEMMA FinishedModelGrows ==
  ASSUME WellTyped, WideningGrows, TypeInv, NEW w \in Worker, FinishCallable(w)
  PROVE  LET previous == get_old_model(current[w])
             next == Analyze(current[w], previous, seen[w])
         IN LessOrEqual(previous, widen_if_necessary(previous, next))
<1> DEFINE previous == get_old_model(current[w])
           next == Analyze(current[w], previous, seen[w])
<1>1. previous \in Model /\ next \in Model
  BY FinishedModel DEF FinishCallable
<1>2. iteration \in 0 .. MaxIterations
  BY DEF TypeInv, TypeOK
<1> HIDE DEF previous, next
<1>3. LessOrEqual(previous, widen_if_necessary(previous, next))
  BY <1>1, <1>2 DEF WideningGrows, widen_if_necessary
<1> QED
  BY <1>3 DEF previous, next

LEMMA FinishCallableGrows ==
  ASSUME WellTyped, WideningGrows, TypeInv, WorkInv, ModelInv, ModelsKept,
         NEW w \in Worker, FinishCallable(w), NEW d \in all
  PROVE  LessOrEqual(get_model(d), get_model(d)')
<1>1. d \in Target /\ get_model(d) \in Model
  BY DEF TypeInv, TypeOK, ModelsKept, get_model, get_old_model, ModelOption
<1>2. CASE d # current[w]
  <2>1. get_model(d)' = get_model(d)
    BY <1>1, <1>2, FinishCallableModel
  <2> QED BY <1>1, <2>1 DEF WideningGrows
<1>3. CASE d = current[w]
  <2> DEFINE previous == get_old_model(current[w])
             next == Analyze(current[w], previous, seen[w])
             model == widen_if_necessary(previous, next)
  <2>1. new'[current[w]] # NoModel /\ new'[current[w]] = model
    BY FinishCallableNew
  <2>2. get_model(d)' = model
    BY <1>3, <2>1 DEF get_model
  <2>3. get_model(d) = previous
    BY <1>3, FinishCallableModel
  <2>4. LessOrEqual(previous, model)
    BY FinishedModelGrows
  <2> QED BY <2>2, <2>3, <2>4
<1> QED
  BY <1>2, <1>3

LEMMA NextGrows ==
  ASSUME WellTyped, WideningGrows, TypeInv, WorkInv, ModelInv, ModelsKept, Next, NEW c \in all
  PROVE  LessOrEqual(get_model(c), get_model(c)')
<1>1. c \in Target /\ get_model(c) \in Model /\ get_model(c) # NoModel
  BY DEF TypeInv, TypeOK, ModelsKept, get_model, get_old_model, ModelOption
<1>2. LessOrEqual(get_model(c), get_model(c))
  BY <1>1 DEF WideningGrows
<1>3. CASE UNCHANGED <<new, old>>
  <2>1. get_model(c)' = get_model(c)
    BY <1>3 DEF get_model, get_old_model
  <2> QED BY <1>2, <2>1
<1>4. CASE UNCHANGED vars \/ ReachFixpoint \/ ReachMaxIterations \/ Done
  BY <1>3, <1>4, DecideFrame DEF modelVars
<1>5. CASE StartIteration
  BY <1>1, <1>2, <1>5, StartIterationModel
<1>6. CASE EndIteration
  BY <1>1, <1>2, <1>6, EndIterationKeepsModel
<1>7. ASSUME NEW w \in Worker, WorkerReads(w) PROVE UNCHANGED <<new, old>>
  BY <1>7, WorkerReadsFrame
<1>8. ASSUME NEW w \in Worker, FinishCallable(w) PROVE LessOrEqual(get_model(c), get_model(c)')
  BY <1>8, FinishCallableGrows
<1> QED
  BY <1>3, <1>4, <1>5, <1>6, <1>7, <1>8, NextCases

(***************************************************************************)
(* Re-analysis never loses what callers have already used: whatever the    *)
(* steps of the master and of the workers, the model that get_model finds  *)
(* for an analyzed callable only grows.                                    *)
(***************************************************************************)
THEOREM ModelsOnlyGrow ==
  ASSUME WellTyped, InitiallyModelled, WideningGrows PROVE Spec => ModelsGrow
<1> DEFINE I == TypeInv /\ WorkInv /\ ModelInv /\ ModelsKept /\ NothingOld
<1>1. Init => I
  BY InitTypeInv, InitWorkInv, InitModelInv, InitModelsKept
<1>2. I /\ [Next]_vars => I'
  BY NextTypeInv, NextWorkInv, NextModelInv, NextModelsKept
<1>3. I /\ [Next]_vars => [\A c \in all : LessOrEqual(get_model(c), get_model(c)')]_vars
  BY NextGrows
<1> QED
  BY <1>1, <1>2, <1>3, PTL DEF Spec, ModelsGrow

-----------------------------------------------------------------------------
(***************************************************************************)
(* A target that is not pending has its result: the ones that are analyzed *)
(* again lose it at the start of the iteration and get it back.            *)
(***************************************************************************)
ResultsInv ==
  /\ results \subseteq all \ OverrideTarget
  /\ phase = "iterate" => all \ (todo \cup OverrideTarget) \subseteq results
  /\ phase = "map" => \A c \in all \ OverrideTarget : Pending(c) \/ c \in results
  /\ ResultsComplete

LEMMA InitResultsInv == Init => ResultsInv
BY DEF Init, ResultsInv, ResultsComplete

LEMMA NextResultsInv ==
  ASSUME TypeInv, WorkInv, ResultsInv, [Next]_vars PROVE ResultsInv'
<1>0. all \subseteq Target
  BY DEF TypeInv, TypeOK
<1>1. CASE UNCHANGED vars \/ ReachFixpoint \/ ReachMaxIterations \/ Done
  <2>1. /\ UNCHANGED <<all, todo, results, undispatched, job, current>>
        /\ \/ UNCHANGED phase
           \/ phase = "iterate" /\ phase' \in {"stopped", "raised"}
           \/ phase = "iterate" /\ phase' = "fixpoint" /\ todo = {}
    BY <1>1, DecideFrame DEF masterVars, modelVars, reduceVars, workerVars
  <2> QED BY <2>1 DEF ResultsInv, ResultsComplete, Pending
<1>2. CASE StartIteration
  <2>1. /\ phase = "iterate" /\ phase' = "map"
        /\ UNCHANGED <<all, todo>>
        /\ undispatched' = todo
        /\ results' = results \ todo
    BY <1>2 DEF StartIteration, oldify, masterVars
  <2> QED BY <2>1 DEF ResultsInv, ResultsComplete, Pending
<1>3. CASE EndIteration
  <2>1. \A c \in all : ~ Pending(c)
    BY <1>0, <1>3, EndIterationPending
  <2>2. all \ OverrideTarget \subseteq results
    BY <1>3, <2>1 DEF ResultsInv, EndIteration
  <2>3. /\ UNCHANGED results
        /\ all \subseteq all'
        /\ all' \ all \subseteq todo'
        /\ phase' \in {"iterate", "failed"}
    BY <1>3 DEF EndIteration, masterVars
  <2> QED BY <2>2, <2>3 DEF ResultsInv, ResultsComplete
<1>4. ASSUME NEW w \in Worker, WorkerReads(w) PROVE ResultsInv'
  <2>1. \A c \in Target : Pending(c)' <=> Pending(c)
    <3>1. ASSUME NEW c \in Target, NEW q \in Query, ReadCallee(w, q) PROVE Pending(c)' <=> Pending(c)
      BY <3>1, NewPending DEF ReadCallee, reduceVars
    <3>2. ASSUME NEW c \in Target, FinishJob(w) PROVE Pending(c)' <=> Pending(c)
      BY <3>2, NewPending DEF FinishJob
    <3> QED BY <1>4, <3>1, <3>2, TakeJobPending, BeginCallablePending DEF WorkerReads
  <2>2. phase = "map" /\ phase' \in {"map", "failed"} /\ UNCHANGED <<all, todo, results>>
    BY <1>4, WorkerReadsFrame
  <2> QED BY <1>0, <2>1, <2>2 DEF ResultsInv, ResultsComplete
<1>5. ASSUME NEW w \in Worker, FinishCallable(w) PROVE ResultsInv'
  <2>1. \A c \in Target : Pending(c)' <=> Pending(c) /\ c # current[w]
    BY <1>5, FinishCallablePending
  <2>2. /\ phase = "map" /\ UNCHANGED <<phase, all, todo>>
        /\ current[w] # NoTarget
        /\ results' = IF current[w] \in OverrideTarget THEN results ELSE results \cup {current[w]}
    BY <1>5 DEF FinishCallable, set_callable_result, masterVars
  <2>3. current[w] \in all
    BY <2>2 DEF WorkInv
  <2> QED BY <1>0, <2>1, <2>2, <2>3 DEF ResultsInv, ResultsComplete
<1> QED
  BY <1>1, <1>2, <1>3, <1>4, <1>5, NextCases

(***************************************************************************)
(* Every analyzed function or method, and nothing else, has its result in  *)
(* shared memory when a fixpoint is reached, although results are dropped  *)
(* and written again in every iteration and callables join on the way.     *)
(***************************************************************************)
THEOREM ResultsAreComplete == ASSUME WellTyped PROVE Spec => []ResultsComplete
<1> DEFINE I == TypeInv /\ WorkInv /\ ResultsInv
<1>1. Init => I
  BY InitTypeInv, InitWorkInv, InitResultsInv
<1>2. I /\ [Next]_vars => I'
  BY NextTypeInv, NextWorkInv, NextResultsInv
<1>3. I => ResultsComplete
  BY DEF ResultsInv
<1> QED
  BY <1>1, <1>2, <1>3, PTL DEF Spec

-----------------------------------------------------------------------------
(***************************************************************************)
(* The failures of the file, and what the caller of compute must provide   *)
(* for none of them to happen.                                             *)
(***************************************************************************)
(* An override target joins overriding targets that have a model... *)
OverridesModelled ==
  \A c \in OverrideTarget, s \in Answers : \A q \in Queries(c, s) :
    Callee(q) # DirectMethod(c) => Callee(q) \in Modelled

(* ...and a caller that has a model is analyzed. *)
CallersAnalyzed ==
  \A e \in InitialGraph : e[2] \in Modelled => e[2] \in filter_skip_analysis_targets(CallablesToAnalyze)

(* What compute_callables_to_reanalyze relies on. *)
CallersInv ==
  /\ meta \subseteq Modelled \cup all
  /\ \A e \in graph \cup additional : e[2] \in Modelled => e[2] \in all
  /\ \A w \in Worker : \A e \in jobAdditional[w] : e[2] \in all
  /\ partial \subseteq all
  /\ \A w \in Worker : jobPartial[w] \subseteq all

LEMMA InitCallersInv == ASSUME CallersAnalyzed PROVE Init => CallersInv
BY DEF CallersAnalyzed, Init, CallersInv, Modelled

LEMMA NextCallersInv ==
  ASSUME TypeInv, WorkInv, CallersInv, [Next]_vars PROVE CallersInv'
<1>1. CASE UNCHANGED vars \/ ReachFixpoint \/ ReachMaxIterations \/ Done
  BY <1>1, DecideFrame DEF CallersInv, masterVars, modelVars, reduceVars, workerVars
<1>2. CASE StartIteration
  BY <1>2 DEF CallersInv, StartIteration, oldify, masterVars, workerVars
<1>3. CASE EndIteration
  <2>1. UNCHANGED <<additional, partial, jobAdditional, jobPartial>>
    BY <1>3 DEF EndIteration, reduceVars, workerVars
  <2>2. /\ all \subseteq all'
        /\ graph' \subseteq graph \cup additional
        /\ meta' \subseteq meta \cup all'
    BY <1>3 DEF EndIteration, initialize_new_dependencies, masterVars
  <2> QED BY <2>1, <2>2 DEF CallersInv
<1>4. ASSUME NEW w \in Worker, TakeJob(w) PROVE CallersInv'
  <2>1. \A v \in Worker : /\ jobPartial'[v] \subseteq jobPartial[v]
                          /\ jobAdditional'[v] \subseteq jobAdditional[v]
    BY <1>4 DEF TakeJob, TypeInv, TypeOK
  <2>2. UNCHANGED <<meta, graph, additional, partial, all>>
    BY <1>4 DEF TakeJob, masterVars, modelVars
  <2> QED BY <2>1, <2>2 DEF CallersInv
<1>5. ASSUME NEW w \in Worker, BeginCallable(w) PROVE CallersInv'
  BY <1>5 DEF CallersInv, BeginCallable, masterVars, modelVars, reduceVars
<1>6. ASSUME NEW w \in Worker, NEW q \in Query, ReadCallee(w, q) PROVE CallersInv'
  BY <1>6 DEF CallersInv, ReadCallee, masterVars, modelVars, reduceVars
<1>7. ASSUME NEW w \in Worker, FinishCallable(w) PROVE CallersInv'
  <2> DEFINE c == current[w]
             A == AdditionalDependencies(c, Analyze(c, get_old_model(c), seen[w]))
  <2>1. /\ c # NoTarget
        /\ UNCHANGED <<graph, additional, partial, all>>
        /\ meta' = meta \cup {c}
        /\ jobPartial' = jobPartial \/ jobPartial' = [jobPartial EXCEPT ![w] = @ \cup {c}]
        /\ \/ jobAdditional' = jobAdditional
           \/ jobAdditional' = [jobAdditional EXCEPT ![w] = @ \cup (A \X {c})]
    BY <1>7 DEF FinishCallable, set_callable_result, masterVars, reduceVars
  <2>2. c \in all
    BY <2>1 DEF WorkInv
  <2> HIDE DEF c, A
  <2>3. \A v \in Worker : jobPartial'[v] \subseteq jobPartial[v] \cup {c}
    BY <2>1 DEF TypeInv, TypeOK
  <2>4. \A v \in Worker : jobAdditional'[v] \subseteq jobAdditional[v] \cup (A \X {c})
    BY <2>1 DEF TypeInv, TypeOK
  <2>5. \A e \in A \X {c} : e[2] \in all
    BY <2>2
  <2> QED BY <2>1, <2>2, <2>3, <2>4, <2>5 DEF CallersInv
<1>8. ASSUME NEW w \in Worker, FinishJob(w) PROVE CallersInv'
  BY <1>8 DEF CallersInv, FinishJob, masterVars, modelVars
<1> QED
  BY <1>1, <1>2, <1>3, <1>4, <1>5, <1>6, <1>7, <1>8 DEF Next, MasterNext, WorkerNext

(* A caller outside the epoch has no meta data. *)
LEMMA NothingMissing == ASSUME CallersInv, TypeInv PROVE check_missing
<1> SUFFICES ASSUME NEW c \in might_change_if_reanalyzed, c \notin all PROVE c \notin meta
  BY DEF check_missing
<1>1. PICK d \in partial : <<d, c>> \in graph
  BY DEF CallersInv, might_change_if_reanalyzed, dependencies
<1>2. c \notin Modelled
  BY <1>1 DEF CallersInv
<1> QED
  BY <1>2 DEF CallersInv

LEMMA NextNoFailure ==
  ASSUME OverridesModelled, TypeInv, WorkInv, ModelInv, ModelsKept, CallersInv, NoFailure, [Next]_vars
  PROVE  NoFailure'
<1>1. CASE UNCHANGED vars \/ ReachFixpoint \/ ReachMaxIterations \/ Done
  BY <1>1, DecideFrame DEF NoFailure
<1>2. CASE StartIteration
  BY <1>2 DEF NoFailure, StartIteration
<1>3. CASE EndIteration
  BY <1>3, NothingMissing DEF NoFailure, EndIteration
<1>4. ASSUME NEW w \in Worker, TakeJob(w) \/ FinishCallable(w) \/ FinishJob(w) PROVE NoFailure'
  BY <1>4 DEF NoFailure, TakeJob, FinishCallable, FinishJob
<1>5. ASSUME NEW w \in Worker, BeginCallable(w) PROVE NoFailure'
  <2>1. PICK c \in job[w] : get_old_model(c) = NoModel \/ phase' = phase
    BY <1>5 DEF BeginCallable
  <2>2. c \in todo /\ c \in all /\ Pending(c) /\ phase = "map"
    BY <1>5 DEF BeginCallable, WorkInv, Pending
  <2>3. get_old_model(c) # NoModel
    BY <2>2 DEF ModelInv, ModelsKept, get_model
  <2> QED BY <2>1, <2>3 DEF NoFailure
<1>6. ASSUME NEW w \in Worker, NEW q \in Query, ReadCallee(w, q) PROVE NoFailure'
  <2> DEFINE c == current[w]
  <2>1. /\ phase = "map"
        /\ c # NoTarget
        /\ q \in Queries(c, seen[w])
        /\ seen[w] \in Answers
    BY <1>6 DEF ReadCallee, TypeInv, TypeOK
  <2>2. c \in OverrideTarget /\ Callee(q) # DirectMethod(c) => get_model(Callee(q)) # NoModel
    BY <2>1 DEF OverridesModelled, ModelsKept
  <2>3. \/ phase' = phase
        \/ /\ c \in OverrideTarget /\ Callee(q) # DirectMethod(c)
           /\ \/ CacheHit(w, Callee(q)) /\ cache[w][Callee(q)] = NoModel
              \/ get_model(Callee(q)) = NoModel
    BY <1>6 DEF ReadCallee
  <2> QED BY <2>1, <2>2, <2>3 DEF NoFailure, CacheHit
<1> QED
  BY <1>1, <1>2, <1>3, <1>4, <1>5, <1>6 DEF Next, MasterNext, WorkerNext

(***************************************************************************)
(* None of the failwith of fixpointAnalysis.ml is reached, in any          *)
(* interleaving and although callables and callers are discovered on the   *)
(* way: it is enough that the caller of compute gave models to what it     *)
(* asks to analyze and to overriding targets, and that the callers it put  *)
(* in the graph are analyzed if they have one.                             *)
(***************************************************************************)
THEOREM NeverFails ==
  ASSUME WellTyped, InitiallyModelled, OverridesModelled, CallersAnalyzed PROVE Spec => []NoFailure
<1> DEFINE I == /\ TypeInv /\ WorkInv /\ ModelInv /\ ModelsKept /\ NothingOld
                /\ CallersInv /\ NoFailure
<1>1. Init => I
  <2>1. Init => NoFailure
    BY DEF Init, NoFailure
  <2> QED
    BY <2>1, InitTypeInv, InitWorkInv, InitModelInv, InitModelsKept, InitCallersInv
<1>2. I /\ [Next]_vars => I'
  BY NextTypeInv, NextWorkInv, NextModelInv, NextModelsKept, NextCallersInv, NextNoFailure
<1> QED
  BY <1>1, <1>2, PTL DEF Spec

=============================================================================

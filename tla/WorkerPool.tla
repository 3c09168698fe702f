------------------------------ MODULE WorkerPool ------------------------------
(***************************************************************************)
(* Scheduler.map_reduce, once_per_worker and destroy over MultiWorker,     *)
(* Bucket and Worker: the master deals chunks of the tasks to worker       *)
(* processes through pipes and merges their answers.  A worker forks a     *)
(* child for every request; the child answers, or dies.  The master may    *)
(* use the pool again after a call that raised, as the server does         *)
(* (Query.process_request catches everything).                             *)
(***************************************************************************)
EXTENDS Naturals, Sequences, FiniteSetsExt

CONSTANTS
  Worker,
  TaskCounts,    \* the lengths of inputs that map_reduce is called with
  ChunkSizes,    \* the numbers that occur in scheduling policies
  MaxCalls,      \* bound: calls of map_reduce and once_per_worker
  MaxFailures    \* bound: jobs that raise or processes that die

ASSUME PoolAssumption ==
  /\ TaskCounts \subseteq Nat /\ ChunkSizes \subseteq Nat \ {0}
  /\ MaxCalls \in Nat /\ MaxFailures \in Nat
  /\ IsFiniteSet(Worker) /\ Worker # {}
  /\ \A n \in TaskCounts : Worker # 1 .. n    \* a worker is not an input

\* What is mapped: elements of the inputs; in once_per_worker, the workers.
Task == Worker \cup UNION {1 .. n : n \in TaskCounts}

VARIABLES
  mpc,        \* where the master is
  call,       \* history: the number of the call
  inputs,     \* the tasks of the call
  bucket_size,
  dealt,      \* how many of them next () has handed out
  free,       \* `workers` of dispatch
  handles,    \* pending jobs
  readys,     \* handles of which the answer is about to be read
  merged,     \* acc: how often each task has been merged
  busy,       \* the field of Worker.t
  request, response,   \* the pipes
  wpc,        \* the worker and its child
  job,        \* what the child works on
  failures

callVars == <<call, inputs, bucket_size>>
master == <<mpc, callVars, dealt, free, handles, readys, merged, busy>>
workers == <<wpc, job>>
vars == <<master, workers, request, response, failures>>

NoJob == [call |-> 0, tasks |-> {}]

Init ==
  /\ mpc = "idle"
  /\ call = 0 /\ inputs = {} /\ bucket_size = 1
  /\ dealt = 0
  /\ free = {} /\ handles = {} /\ readys = {}
  /\ merged = [t \in Task |-> 0]
  /\ busy = [w \in Worker |-> FALSE]
  /\ request = [w \in Worker |-> <<>>]
  /\ response = [w \in Worker |-> <<>>]
  /\ wpc = [w \in Worker |-> "select"]
  /\ job = [w \in Worker |-> NoJob]
  /\ failures = 0

-----------------------------------------------------------------------------
(***************************************************************************)
(* Scheduler.Policy: the number of chunks for n tasks.  A policy's numbers *)
(* are positive (Configuration.SchedulerPolicy.of_yojson).                 *)
(***************************************************************************)
number_of_workers == Cardinality(Worker)

legacy_fixed_chunk_size(n, size) == Max({number_of_workers, n \div size + 1})

legacy_fixed_chunk_count(n) ==
  Max({number_of_workers, number_of_workers * Min({10, 1 + n \div 400})})

fixed_chunk_size(n, minimum_size, minimum_per_worker, preferred_size) ==
  LET preferred == n \div preferred_size + 1
      minimum == minimum_per_worker * number_of_workers
  IN  IF preferred >= minimum THEN preferred
      ELSE IF n \div minimum >= minimum_size THEN minimum ELSE 1

fixed_chunk_count(n, minimum_per_worker, minimum_size, preferred_per_worker) ==
  LET preferred == preferred_per_worker * number_of_workers
      fallback == n \div minimum_size + 1
  IN  IF n \div preferred >= minimum_size THEN preferred
      ELSE IF fallback >= minimum_per_worker * number_of_workers THEN fallback ELSE 1

divide_work(n) ==
  {legacy_fixed_chunk_count(n)}
  \cup {legacy_fixed_chunk_size(n, s) : s \in ChunkSizes}
  \cup {fixed_chunk_size(n, a, b, c) : a, b, c \in ChunkSizes}
  \cup {fixed_chunk_count(n, a, b, c) : a, b, c \in ChunkSizes}

(* Bucket.make_list *)
make_list(n) == {1 + n \div chunks : chunks \in divide_work(n)}

(* min (Array.length jobs - !i) bucket_size *)
next_size == Min({Cardinality(inputs) - dealt, bucket_size})

next_bucket == dealt + 1 .. dealt + next_size

-----------------------------------------------------------------------------
(* The master *)

BeginCall(tasks, size, at) ==
  /\ mpc \in {"idle", "returned"}
  /\ call < MaxCalls
  /\ mpc' = at
  /\ call' = call + 1 /\ inputs' = tasks /\ bucket_size' = size
  /\ dealt' = 0
  /\ free' = Worker
  /\ handles' = {} /\ readys' = {}
  /\ merged' = [t \in Task |-> 0]
  /\ UNCHANGED <<busy, workers, request, response, failures>>

map_reduce == \E n \in TaskCounts : \E size \in make_list(n) : BeginCall(1 .. n, size, "dispatch")

once_per_worker == BeginCall(Worker, 1, "once")

(* The end of the pipe is gone: the worker has left main. *)
Closed(w) == wpc[w] \in {"closing", "zombie", "reaped"}

(* mutant: the flag is not looked at *)
CanCallAlways(w) == ~ Closed(w)

CanCall(w) == ~ busy[w] /\ ~ Closed(w)

(***************************************************************************)
(* Worker.call raises if the worker is busy; it marks the worker as busy   *)
(* and then fails if the pipe is closed.                                   *)
(***************************************************************************)
WorkerCall(w, tasks) ==
  /\ \/ /\ CanCall(w)
        /\ busy' = [busy EXCEPT ![w] = TRUE]
        /\ request' = [request EXCEPT ![w] = Append(@, [call |-> call, tasks |-> tasks])]
        /\ free' = free \ {w}
        /\ handles' = handles \cup {w}
        /\ UNCHANGED mpc
     \/ /\ busy[w] /\ ~ CanCall(w)
        /\ mpc' = "Worker_busy"
        /\ UNCHANGED <<busy, request, free, handles>>
     \/ /\ ~ busy[w] /\ Closed(w)
        /\ mpc' = "Worker_failed_to_send_job"
        /\ busy' = [busy EXCEPT ![w] = TRUE]
        /\ UNCHANGED <<request, free, handles>>
  /\ UNCHANGED <<callVars, readys, merged, workers, response, failures>>

(* A worker is available: deal the next chunk to it. *)
DispatchJob(w) ==
  /\ mpc = "dispatch"
  /\ w \in free
  /\ dealt < Cardinality(inputs)
  /\ dealt' = dealt + next_size
  /\ WorkerCall(w, next_bucket)

(* List.map workers, then collect_all. *)
OnceCall(w) == mpc = "once" /\ w \in free /\ WorkerCall(w, {w}) /\ UNCHANGED dealt

OnceDispatched ==
  /\ mpc = "once" /\ free = {}
  /\ mpc' = "collect"
  /\ dealt' = Cardinality(inputs)
  /\ UNCHANGED <<callVars, free, handles, readys, merged, busy, workers, request, response, failures>>

(* mutant: the result is returned when all chunks are dealt *)
DispatchDoneEarly ==
  /\ mpc = "dispatch"
  /\ dealt >= Cardinality(inputs) \/ free = {}
  /\ mpc' = IF handles = {} \/ dealt >= Cardinality(inputs) THEN "returned" ELSE "collect"
  /\ free' = {}
  /\ UNCHANGED <<callVars, dealt, handles, readys, merged, busy, workers, request, response, failures>>

(* No job left, or no worker: collect what is pending, or return. *)
DispatchDone ==
  /\ mpc = "dispatch"
  /\ dealt >= Cardinality(inputs) \/ free = {}
  /\ mpc' = IF handles = {} THEN "returned" ELSE "collect"
  /\ free' = {}
  /\ UNCHANGED <<callVars, dealt, handles, readys, merged, busy, workers, request, response, failures>>

(* mutant: a worker that exited is not ready *)
ReadyAnswer(w) == response[w] # <<>>

(* What Unix.select reports: an answer, or the end of the pipe. *)
Ready(w) == response[w] # <<>> \/ Closed(w)

collect ==
  /\ mpc = "collect"
  /\ readys' = {w \in handles : Ready(w)}
  /\ readys' # {}
  /\ handles' = handles \ readys'
  /\ free' = free \cup readys'
  /\ mpc' = "merge"
  /\ UNCHANGED <<callVars, dealt, merged, busy, workers, request, response, failures>>

(* mutant: the worker stays marked as busy *)
get_result_busy(w) ==
  /\ mpc = "merge"
  /\ w \in readys
  /\ readys' = readys \ {w}
  /\ response[w] # <<>>
  /\ response' = [response EXCEPT ![w] = Tail(@)]
  /\ mpc' = IF Head(response[w]).ok THEN mpc ELSE "Worker_exception"
  /\ merged' = [t \in Task |-> IF t \in Head(response[w]).tasks THEN merged[t] + 1 ELSE merged[t]]
  /\ UNCHANGED <<callVars, dealt, free, handles, busy, workers, request, failures>>

(***************************************************************************)
(* Worker.get_result.  At the end of the pipe the exit code is asked for   *)
(* without waiting: a process that is not yet a zombie has none, and the   *)
(* master raises End_of_file where it would have raised Heap_full.         *)
(***************************************************************************)
get_result(w) ==
  /\ mpc = "merge"
  /\ w \in readys
  /\ readys' = readys \ {w}
  /\ busy' = [busy EXCEPT ![w] = FALSE]
  /\ \/ /\ response[w] # <<>>
        /\ response' = [response EXCEPT ![w] = Tail(@)]
        /\ \/ /\ Head(response[w]).ok
              /\ merged' = [t \in Task |-> IF t \in Head(response[w]).tasks THEN merged[t] + 1 ELSE merged[t]]
              /\ UNCHANGED mpc
           \/ /\ ~ Head(response[w]).ok
              /\ mpc' = "Worker_exception"
              /\ UNCHANGED merged
        /\ UNCHANGED wpc
     \/ /\ response[w] = <<>>
        /\ mpc' = "worker_exited"
        /\ wpc' = [wpc EXCEPT ![w] = IF @ = "zombie" THEN "reaped" ELSE @]
        /\ UNCHANGED <<response, merged>>
  /\ UNCHANGED <<callVars, dealt, free, handles, job, request, failures>>

(* All answers that were ready are merged. *)
Merged ==
  /\ mpc = "merge" /\ readys = {}
  /\ mpc' = "dispatch"
  /\ UNCHANGED <<callVars, dealt, free, handles, readys, merged, busy, workers, request, response, failures>>

Exceptions == {"Worker_busy", "Worker_failed_to_send_job", "Worker_exception", "worker_exited"}

(* The server turns the exception into an error response and goes on. *)
process_request ==
  /\ mpc \in Exceptions
  /\ mpc' = "idle"
  /\ UNCHANGED <<callVars, dealt, free, handles, readys, merged, busy, workers, request, response, failures>>

(* with_scheduler ends, or the server stops. *)
destroy ==
  /\ mpc \in {"idle", "returned"} \cup Exceptions
  /\ mpc' = "destroy"
  /\ UNCHANGED <<callVars, dealt, free, handles, readys, merged, busy, workers, request, response, failures>>

(* Worker.kill: the worker is killed and waited for, the child it may have *)
(* forked is not.                                                          *)
kill(w) ==
  /\ mpc = "destroy"
  /\ wpc[w] \notin {"orphan", "killed"}
  /\ wpc' = [wpc EXCEPT ![w] = IF @ = "job" THEN "orphan" ELSE "killed"]
  /\ request' = [request EXCEPT ![w] = <<>>]
  /\ response' = [response EXCEPT ![w] = <<>>]
  /\ UNCHANGED <<master, job, failures>>

Destroyed ==
  /\ mpc = "destroy"
  /\ \A w \in Worker : wpc[w] \in {"orphan", "killed"}
  /\ mpc' = "destroyed"
  /\ UNCHANGED <<callVars, dealt, free, handles, readys, merged, busy, workers, request, response, failures>>

-----------------------------------------------------------------------------
(* The workers *)

(* worker_loop: there is something to read; fork, the child reads it. *)
Fork(w) ==
  /\ wpc[w] = "select" /\ request[w] # <<>>
  /\ wpc' = [wpc EXCEPT ![w] = "job"]
  /\ job' = [job EXCEPT ![w] = Head(request[w])]
  /\ request' = [request EXCEPT ![w] = Tail(@)]
  /\ UNCHANGED <<master, response, failures>>

Respond(w, ok) ==
  /\ wpc[w] = "job"
  /\ wpc' = [wpc EXCEPT ![w] = "answered"]
  /\ response' = [response EXCEPT ![w] = Append(@, [call |-> job[w].call, tasks |-> job[w].tasks, ok |-> ok])]
  /\ job' = [job EXCEPT ![w] = NoJob]
  /\ UNCHANGED <<master, request>>

(* send_result *)
Succeed(w) == Respond(w, TRUE) /\ UNCHANGED failures

(* Any exception but the ones worker_job_main exits for *)
Fail(w) == failures < MaxFailures /\ Respond(w, FALSE) /\ failures' = failures + 1

(* fork_handler: the child exited with 0 *)
Waited(w) ==
  /\ wpc[w] = "answered"
  /\ wpc' = [wpc EXCEPT ![w] = "select"]
  /\ UNCHANGED <<master, job, request, response, failures>>

(* The child exits with a code (Heap_full...) or is killed: so does the worker. *)
Crash(w) ==
  /\ failures < MaxFailures
  /\ wpc[w] \in {"job", "answered"}
  /\ wpc' = [wpc EXCEPT ![w] = "closing"]
  /\ job' = [job EXCEPT ![w] = NoJob]
  /\ failures' = failures + 1
  /\ UNCHANGED <<master, request, response>>

(* The files of the process are closed before it can be waited for. *)
Exit(w) ==
  /\ wpc[w] = "closing"
  /\ wpc' = [wpc EXCEPT ![w] = "zombie"]
  /\ UNCHANGED <<master, job, request, response, failures>>

(* A child whose worker is gone ends when its job does: nobody reads. *)
OrphanExits(w) ==
  /\ wpc[w] = "orphan"
  /\ wpc' = [wpc EXCEPT ![w] = "killed"]
  /\ job' = [job EXCEPT ![w] = NoJob]
  /\ UNCHANGED <<master, request, response, failures>>

WorkerStep(w) == Fork(w) \/ Succeed(w) \/ Waited(w) \/ Exit(w) \/ OrphanExits(w)

MasterStep ==
  \/ \E w \in Worker : DispatchJob(w) \/ OnceCall(w) \/ get_result(w) \/ kill(w)
  \/ DispatchDone \/ OnceDispatched \/ collect \/ Merged \/ Destroyed

Next ==
  \/ map_reduce \/ once_per_worker \/ MasterStep \/ process_request \/ destroy
  \/ \E w \in Worker : WorkerStep(w) \/ Fail(w) \/ Crash(w)

Spec == Init /\ [][Next]_vars

(* The processes run and the jobs end. *)
FairSpec == Spec /\ WF_vars(MasterStep) /\ \A w \in Worker : WF_vars(WorkerStep(w))

-----------------------------------------------------------------------------

Calling == {"dispatch", "once", "collect", "merge"}

(***************************************************************************)
(* map_reduce and once_per_worker return only if every task, or every      *)
(* worker, has been mapped and merged once, whatever the processes did and *)
(* whatever the policy says; otherwise they raise.                         *)
(***************************************************************************)
EachTaskOnce ==
  mpc = "returned" => \A t \in Task : merged[t] = (IF t \in inputs THEN 1 ELSE 0)

(***************************************************************************)
(* An answer of a call that raised, which nobody has read, is never merged *)
(* by a later call.                                                        *)
(***************************************************************************)
NoStaleAnswer ==
  mpc = "merge" => \A w \in readys : response[w] # <<>> => Head(response[w]).call = call

(***************************************************************************)
(* Without a failure in a job or a death no call raises: in particular a   *)
(* call leaves no worker marked as busy for the next one.  (After a call   *)
(* that raised, the next one may raise Worker_busy.)  And Worker.kill then *)
(* leaves no job at work: a master that saw all its calls return destroys  *)
(* an idle pool.                                                           *)
(***************************************************************************)
NoSpuriousFailure ==
  failures = 0 => mpc \notin Exceptions /\ \A w \in Worker : wpc[w] # "orphan"

(***************************************************************************)
(* prepare_for_update compacts the heap after once_per_worker has returned *)
(* and hh_collect relies on nobody using it: no job of an earlier call     *)
(* that raised is still at work.                                           *)
(***************************************************************************)
CollectAlone ==
  mpc = "returned" /\ inputs = Worker =>
    \A w \in Worker : wpc[w] # "job" /\ request[w] = <<>>

(* map_reduce and once_per_worker end, they return or raise; destroy ends. *)
CallEnds ==
  /\ (mpc \in Calling) ~> (mpc \notin Calling)
  /\ (mpc = "destroy") ~> (mpc = "destroyed")

=============================================================================

--------------------------- MODULE WorkerPoolProofs ---------------------------
(***************************************************************************)
(* Proofs about WorkerPool, for every number of workers, tasks, calls and  *)
(* failures and every scheduling policy.                                   *)
(***************************************************************************)
EXTENDS WorkerPool, FiniteSetTheorems, TLAPS

(* A job on its way to a worker, and an answer on its way back. *)
Request == [call : Nat, tasks : SUBSET Task]
Response == [call : Nat, tasks : SUBSET Task, ok : BOOLEAN]

(* A pipe never holds more than one message. *)
PipeOf(M) == {<<>>} \cup {<<m>> : m \in M}

(* The pipes hold what they are for, and the other variables are in their sets. *)
TypeOK ==
  /\ mpc \in Calling \cup Exceptions \cup {"idle", "returned", "destroy", "destroyed"}
  /\ call \in Nat
  /\ inputs \in {Worker, {}} \cup {1 .. n : n \in TaskCounts}
  /\ bucket_size \in Nat
  /\ dealt \in Nat
  /\ free \in SUBSET Worker /\ handles \in SUBSET Worker /\ readys \in SUBSET Worker
  /\ merged \in [Task -> Nat]
  /\ busy \in [Worker -> BOOLEAN]
  /\ request \in [Worker -> PipeOf(Request)]
  /\ response \in [Worker -> PipeOf(Response)]
  /\ wpc \in [Worker -> {"select", "job", "answered", "closing", "zombie", "reaped", "orphan", "killed"}]
  /\ job \in [Worker -> Request]
  /\ failures \in Nat

(***************************************************************************)
(* The one message between the master and a worker: in a pipe, or in the   *)
(* hands of the child.                                                     *)
(***************************************************************************)
Outstanding(w) == request[w] # <<>> \/ wpc[w] = "job" \/ response[w] # <<>>

Message(w) ==
  IF request[w] # <<>> THEN Head(request[w])
  ELSE IF wpc[w] = "job" THEN job[w]
  ELSE Head(response[w])

Tasks(w) == IF Outstanding(w) THEN Message(w).tasks ELSE {}

(***************************************************************************)
(* There is one message at most, and none for a worker that is not busy,   *)
(* except for a request that a dead worker will never read.                *)
(***************************************************************************)
PipeInv ==
  /\ \A w \in Worker : request[w] # <<>> => response[w] = <<>> /\ wpc[w] # "job"
  /\ \A w \in Worker : wpc[w] = "job" => response[w] = <<>>
  /\ \A w \in Worker : ~ busy[w] =>
       /\ response[w] = <<>> /\ wpc[w] # "job"
       /\ request[w] = <<>> \/ Closed(w)

(* The steps at which the inputs of the call are dealt and collected. *)
Dealing == {"dispatch", "collect", "merge"}

(* Where a worker is for the master, and how much has been dealt. *)
MasterInv ==
  /\ mpc \in Calling => free \cap handles = {}
  /\ mpc \in {"dispatch", "once", "collect", "returned"} => readys = {}
  /\ mpc = "returned" => handles = {} /\ dealt = Cardinality(inputs)
  /\ mpc = "collect" => free = {}
  /\ mpc = "merge" => readys \subseteq free /\ \A w \in readys : Ready(w)
  /\ mpc \in Dealing => dealt = Cardinality(inputs) \/ free \cup handles = Worker
  /\ mpc = "once" => inputs = Worker /\ free \cup handles = Worker
  /\ mpc \in Dealing \cup {"returned"} => dealt <= Cardinality(inputs)
  /\ mpc \in Dealing /\ inputs = Worker => dealt = Cardinality(inputs)

(* The message of a worker that is waited for belongs to this call. *)
MessageInv ==
  mpc \in Calling => \A w \in handles \cup readys :
    busy[w] /\ (Outstanding(w) => Message(w).call = call)

(* The workers that once_per_worker has heard from are idle. *)
OnceInv ==
  mpc \in Dealing \cup {"returned"} /\ inputs = Worker =>
    \A w \in Worker : w \in handles \cup readys \/ (request[w] = <<>> /\ wpc[w] # "job")

(* Without a failure nobody is dead, and only who is waited for is busy. *)
QuietInv ==
  failures = 0 =>
    /\ mpc \notin Exceptions
    /\ \A w \in Worker : ~ Closed(w) /\ wpc[w] # "orphan"
    /\ \A w \in Worker : response[w] # <<>> => Head(response[w]).ok
    /\ \A w \in Worker : busy[w] => mpc \in Calling /\ w \in handles \cup readys

(* The tasks that have been given to a worker in this call. *)
Dealt == IF mpc = "once" THEN Worker \ free ELSE IF inputs = Worker THEN Worker ELSE 1 .. dealt

(***************************************************************************)
(* A task that was dealt is merged, or waited for (and if the worker died  *)
(* with it, that worker is waited for), and is in one place only.          *)
(***************************************************************************)
Waiting(t) == \E w \in handles \cup readys : t \in Tasks(w) \/ ~ Outstanding(w)

TasksInv ==
  mpc \in Calling \cup {"returned"} =>
    /\ \A w \in handles \cup readys : \A t \in Tasks(w) : merged[t] = 0 /\ t \in Dealt
    /\ \A v, w \in handles \cup readys : v # w => Tasks(v) \cap Tasks(w) = {}
    /\ \A t \in Task : t \notin Dealt => merged[t] = 0
    /\ \A t \in Task : t \in Dealt => merged[t] = 1 \/ (merged[t] = 0 /\ Waiting(t))

PoolInv == PipeInv /\ MasterInv /\ MessageInv /\ OnceInv /\ QuietInv /\ TasksInv

-----------------------------------------------------------------------------
(***************************************************************************)
(* Bucket and the scheduling policies                                      *)
(***************************************************************************)
LEMMA MinOfTwo ==
  ASSUME NEW a \in Int, NEW b \in Int
  PROVE  Min({a, b}) \in {a, b} /\ Min({a, b}) <= a /\ Min({a, b}) <= b
<1>1. \E x \in {a, b} : \A y \in {a, b} : x <= y
  BY SMT
<1> QED
  BY <1>1 DEF Min

LEMMA MaxOfTwo ==
  ASSUME NEW a \in Int, NEW b \in Int
  PROVE  Max({a, b}) \in {a, b} /\ Max({a, b}) >= a /\ Max({a, b}) >= b
<1>1. \E x \in {a, b} : \A y \in {a, b} : x >= y
  BY SMT
<1> QED
  BY <1>1 DEF Max

LEMMA WorkersPositive == number_of_workers \in Nat \ {0}
<1>1. IsFiniteSet(Worker) /\ Worker # {}
  BY PoolAssumption
<1>2. Cardinality(Worker) \in Nat /\ Cardinality(Worker) # 0
  BY <1>1, FS_CardinalityType, FS_EmptySet
<1> QED
  BY <1>2 DEF number_of_workers

LEMMA DivNat == ASSUME NEW n \in Nat, NEW d \in Nat \ {0} PROVE n \div d \in Nat
BY SMT

LEMMA TimesPositive == ASSUME NEW a \in Nat \ {0}, NEW b \in Nat \ {0} PROVE a * b \in Nat \ {0}
BY SMT

(* Every policy asks for at least one chunk... *)
LEMMA ChunksPositive == ASSUME NEW n \in Nat PROVE divide_work(n) \subseteq Nat \ {0}
<1>0. number_of_workers \in Nat \ {0} /\ ChunkSizes \subseteq Nat \ {0}
  BY WorkersPositive, PoolAssumption
<1>a. number_of_workers \in Int
  BY <1>0
<1>b. ASSUME NEW k \in Int PROVE Max({number_of_workers, k}) \in Nat \ {0}
  <2>1. /\ Max({number_of_workers, k}) \in {number_of_workers, k}
        /\ Max({number_of_workers, k}) >= number_of_workers
    BY <1>a, <1>b, MaxOfTwo, Zenon
  <2> QED BY <1>0, <2>1
<1>1. legacy_fixed_chunk_count(n) \in Nat \ {0}
  <2> DEFINE k == 1 + n \div 400
             m == Min({10, k})
             p == number_of_workers * m
  <2>1. k \in Int /\ k >= 0
    BY DivNat
  <2> HIDE DEF k
  <2>2. m \in Int
    <3>1. 10 \in Int
      OBVIOUS
    <3>2. m \in {10, k}
      BY <2>1, <3>1, MinOfTwo, Zenon DEF m
    <3> QED BY <2>1, <3>2
  <2> HIDE DEF m
  <2>3. p \in Int
    BY <1>0, <2>2
  <2> HIDE DEF p
  <2>4. Max({number_of_workers, p}) \in Nat \ {0}
    BY <1>b, <2>3, Zenon
  <2> QED BY <2>4 DEF legacy_fixed_chunk_count, k, m, p
<1>2. ASSUME NEW s \in ChunkSizes PROVE legacy_fixed_chunk_size(n, s) \in Nat \ {0}
  <2> DEFINE k == n \div s + 1
  <2>1. k \in Int
    BY <1>0, DivNat
  <2> HIDE DEF k
  <2>2. Max({number_of_workers, k}) \in Nat \ {0}
    BY <1>b, <2>1, Zenon
  <2> QED BY <2>2 DEF legacy_fixed_chunk_size, k
<1>3. ASSUME NEW a \in ChunkSizes, NEW b \in ChunkSizes, NEW c \in ChunkSizes
      PROVE  fixed_chunk_size(n, a, b, c) \in Nat \ {0}
  <2>1. n \div c + 1 \in Nat \ {0} /\ b * number_of_workers \in Nat \ {0}
    BY <1>0, DivNat, TimesPositive
  <2> QED BY <2>1 DEF fixed_chunk_size
<1>4. ASSUME NEW a \in ChunkSizes, NEW b \in ChunkSizes, NEW c \in ChunkSizes
      PROVE  fixed_chunk_count(n, a, b, c) \in Nat \ {0}
  <2>1. n \div b + 1 \in Nat \ {0} /\ c * number_of_workers \in Nat \ {0}
    BY <1>0, DivNat, TimesPositive
  <2> QED BY <2>1 DEF fixed_chunk_count
<1> QED
  BY <1>1, <1>2, <1>3, <1>4 DEF divide_work

(* ...so that a bucket is never empty. *)
LEMMA BucketPositive == ASSUME NEW n \in Nat PROVE make_list(n) \subseteq Nat \ {0}
<1>1. ASSUME NEW chunks \in divide_work(n) PROVE 1 + n \div chunks \in Nat \ {0}
  <2>1. n \div chunks \in Nat
    BY ChunksPositive, DivNat
  <2> QED BY <2>1
<1> QED
  BY <1>1 DEF make_list

(* The inputs are counted by their cardinality. *)
LEMMA InputsCounted ==
  ASSUME TypeOK
  PROVE  /\ Cardinality(inputs) \in Nat
         /\ inputs # Worker => inputs = 1 .. Cardinality(inputs)
         /\ inputs \subseteq Task
<1>1. CASE inputs = Worker
  <2>1. Cardinality(Worker) \in Nat
    BY PoolAssumption, FS_CardinalityType
  <2>2. Worker \subseteq Task
    BY DEF Task
  <2> QED BY <1>1, <2>1, <2>2
<1>2. CASE inputs = {}
  <2>1. Cardinality({}) = 0 /\ 1 .. 0 = {}
    BY FS_EmptySet
  <2> QED BY <1>2, <2>1
<1>3. ASSUME NEW n \in TaskCounts, inputs = 1 .. n
      PROVE  /\ Cardinality(inputs) \in Nat
             /\ inputs # Worker => inputs = 1 .. Cardinality(inputs)
             /\ inputs \subseteq Task
  <2>1. n \in Nat
    BY PoolAssumption
  <2>2. Cardinality(1 .. n) = n
    BY <2>1, FS_Interval
  <2>3. 1 .. n \subseteq Task
    BY DEF Task
  <2> QED BY <1>3, <2>1, <2>2, <2>3
<1> QED
  BY <1>1, <1>2, <1>3 DEF TypeOK

LEMMA NextBucket ==
  ASSUME TypeOK, MasterInv, mpc = "dispatch", dealt < Cardinality(inputs)
  PROVE  /\ inputs # Worker
         /\ next_size \in Nat
         /\ dealt + next_size \in Nat
         /\ dealt + next_size <= Cardinality(inputs)
         /\ next_bucket \subseteq Task
<1>1. Cardinality(inputs) \in Nat /\ dealt \in Nat /\ bucket_size \in Nat
  BY InputsCounted DEF TypeOK
<1>2. inputs # Worker
  BY <1>1 DEF MasterInv, Dealing
<1>3. next_size \in {Cardinality(inputs) - dealt, bucket_size} /\ next_size <= Cardinality(inputs) - dealt
  <2> DEFINE left == Cardinality(inputs) - dealt
  <2>1. left \in Int
    BY <1>1
  <2>2. next_size = Min({left, bucket_size})
    BY DEF next_size
  <2> HIDE DEF left
  <2>3. bucket_size \in Int
    BY <1>1
  <2>4. next_size \in {left, bucket_size} /\ next_size <= left
    BY <2>1, <2>2, <2>3, MinOfTwo, Zenon
  <2> QED BY <2>4 DEF left
<1>4. next_size \in Nat /\ dealt + next_size <= Cardinality(inputs)
  BY <1>1, <1>3
<1>5. next_bucket \subseteq 1 .. Cardinality(inputs)
  BY <1>1, <1>4 DEF next_bucket
<1> QED
  BY <1>1, <1>2, <1>4, <1>5, InputsCounted

-----------------------------------------------------------------------------
(***************************************************************************)
(* The pipes                                                               *)
(***************************************************************************)
LEMMA PipeRead ==
  ASSUME NEW M, NEW p \in PipeOf(M), p # <<>> PROVE Head(p) \in M /\ Tail(p) = <<>>
<1>1. PICK m \in M : p = <<m>>
  BY DEF PipeOf
<1> QED
  BY <1>1

LEMMA PipeWrite ==
  ASSUME NEW M, NEW m \in M
  PROVE  Append(<<>>, m) \in PipeOf(M) /\ Append(<<>>, m) # <<>> /\ Head(Append(<<>>, m)) = m
<1>1. Append(<<>>, m) = <<m>>
  OBVIOUS
<1> QED
  BY <1>1 DEF PipeOf

(* What Worker.call does, when it does not raise. *)
LEMMA CallSends ==
  ASSUME TypeOK, PipeInv, NEW w \in Worker, NEW tasks \in SUBSET Task, WorkerCall(w, tasks), UNCHANGED mpc,
         mpc \in {"dispatch", "once"}
  PROVE  /\ ~ busy[w] /\ ~ Closed(w)
         /\ request[w] = <<>> /\ response[w] = <<>> /\ wpc[w] # "job"
         /\ busy' = [busy EXCEPT ![w] = TRUE]
         /\ request' \in [Worker -> PipeOf(Request)]
         /\ request'[w] # <<>>
         /\ Head(request'[w]) = [call |-> call, tasks |-> tasks]
         /\ \A v \in Worker : v # w => request'[v] = request[v]
         /\ free' = free \ {w}
         /\ handles' = handles \cup {w}
         /\ UNCHANGED <<callVars, readys, merged, workers, response, failures>>
<1> DEFINE m == [call |-> call, tasks |-> tasks]
<1>1. /\ CanCall(w)
      /\ busy' = [busy EXCEPT ![w] = TRUE]
      /\ request' = [request EXCEPT ![w] = Append(request[w], m)]
      /\ free' = free \ {w}
      /\ handles' = handles \cup {w}
      /\ UNCHANGED <<callVars, readys, merged, workers, response, failures>>
  BY DEF WorkerCall, TypeOK
<1>2. ~ busy[w] /\ ~ Closed(w) /\ request[w] = <<>> /\ response[w] = <<>> /\ wpc[w] # "job"
  BY <1>1 DEF CanCall, PipeInv
<1>3. m \in Request
  BY DEF Request, TypeOK
<1> HIDE DEF m
<1>4. request' = [request EXCEPT ![w] = Append(<<>>, m)]
  BY <1>1, <1>2
<1>5. request'[w] = Append(<<>>, m) /\ \A v \in Worker : v # w => request'[v] = request[v]
  BY <1>4 DEF TypeOK
<1>6. Append(<<>>, m) \in PipeOf(Request) /\ Append(<<>>, m) # <<>> /\ Head(Append(<<>>, m)) = m
  BY <1>3, PipeWrite
<1>7. request' \in [Worker -> PipeOf(Request)]
  BY <1>4, <1>6 DEF TypeOK
<1> QED
  BY <1>1, <1>2, <1>5, <1>6, <1>7 DEF m

(* When it raises, nothing is sent. *)
LEMMA CallRaises ==
  ASSUME TypeOK, NEW w \in Worker, NEW tasks, WorkerCall(w, tasks), mpc' # mpc
  PROVE  /\ mpc' \in Exceptions
         /\ busy' = busy \/ busy' = [busy EXCEPT ![w] = TRUE]
         /\ busy[w] \/ Closed(w)
         /\ UNCHANGED <<callVars, free, handles, readys, merged, workers, request, response, failures>>
BY DEF WorkerCall, Exceptions, CanCall, TypeOK

(* Both, for the tasks of either kind of call. *)
Calls(w, tasks) ==
  \/ DispatchJob(w) /\ tasks = next_bucket
  \/ OnceCall(w) /\ tasks = {w}

LEMMA CallsTasks ==
  ASSUME TypeOK, MasterInv, NEW w \in Worker, NEW tasks, Calls(w, tasks)
  PROVE  /\ tasks \in SUBSET Task
         /\ WorkerCall(w, tasks)
         /\ mpc \in {"dispatch", "once"}
         /\ w \in free
         /\ dealt' \in Nat
<1>1. CASE DispatchJob(w) /\ tasks = next_bucket
  BY <1>1, NextBucket DEF DispatchJob
<1>2. CASE OnceCall(w) /\ tasks = {w}
  <2>1. {w} \subseteq Task
    BY DEF Task
  <2> QED BY <1>2, <2>1 DEF OnceCall, TypeOK
<1> QED
  BY <1>1, <1>2 DEF Calls

-----------------------------------------------------------------------------
(***************************************************************************)
(* The steps, grouped by what they leave alone.                            *)
(***************************************************************************)
(* Steps of the master alone, within a call or between two. *)
Control == OnceDispatched \/ DispatchDone \/ collect \/ Merged \/ process_request \/ destroy \/ Destroyed

LEMMA ControlFrame ==
  ASSUME Control
  PROVE  UNCHANGED <<callVars, merged, busy, workers, request, response, failures>>
BY DEF Control, OnceDispatched, DispatchDone, collect, Merged, process_request, destroy, Destroyed

WorkerMoves(w) ==
  Fork(w) \/ Succeed(w) \/ Fail(w) \/ Waited(w) \/ Crash(w) \/ Exit(w) \/ OrphanExits(w)

LEMMA NextCases ==
  ASSUME [Next]_vars
  PROVE  \/ UNCHANGED vars
         \/ map_reduce \/ once_per_worker
         \/ Control
         \/ \E w \in Worker : \E tasks \in {next_bucket, {w}} : Calls(w, tasks)
         \/ \E w \in Worker : get_result(w)
         \/ \E w \in Worker : kill(w)
         \/ \E w \in Worker : WorkerMoves(w)
<1>1. ASSUME NEW w \in Worker, DispatchJob(w) \/ OnceCall(w)
      PROVE  \E tasks \in {next_bucket, {w}} : Calls(w, tasks)
  BY <1>1, Zenon DEF Calls
<1> QED
  BY <1>1 DEF Next, MasterStep, Control, WorkerMoves, WorkerStep

(* A call starts with nothing dealt and nobody waited for. *)
LEMMA CallBegins ==
  ASSUME map_reduce \/ once_per_worker
  PROVE  /\ mpc \in {"idle", "returned"}
         /\ call' = call + 1
         /\ dealt' = 0
         /\ free' = Worker
         /\ handles' = {} /\ readys' = {}
         /\ merged' = [t \in Task |-> 0]
         /\ bucket_size' \in Nat
         /\ UNCHANGED <<busy, workers, request, response, failures>>
         /\ \/ mpc' = "dispatch" /\ \E n \in TaskCounts : inputs' = 1 .. n
            \/ mpc' = "once" /\ inputs' = Worker
<1>1. CASE once_per_worker
  BY <1>1 DEF once_per_worker, BeginCall
<1>2. CASE map_reduce
  <2>1. PICK n \in TaskCounts : \E size \in make_list(n) : BeginCall(1 .. n, size, "dispatch")
    BY <1>2 DEF map_reduce
  <2>2. PICK size \in make_list(n) : BeginCall(1 .. n, size, "dispatch")
    BY <2>1
  <2>3. size \in Nat
    BY BucketPositive, PoolAssumption
  <2> QED BY <2>2, <2>3 DEF BeginCall
<1> QED
  BY <1>1, <1>2

(* Worker.get_result merges an answer, or raises. *)
LEMMA ResultRead ==
  ASSUME TypeOK, NEW w \in Worker, get_result(w)
  PROVE  /\ mpc = "merge" /\ w \in readys
         /\ readys' = readys \ {w}
         /\ busy' = [busy EXCEPT ![w] = FALSE]
         /\ UNCHANGED <<callVars, dealt, free, handles, job, request, failures>>
         /\ response'[w] = <<>>
         /\ \A v \in Worker : v # w => response'[v] = response[v] /\ wpc'[v] = wpc[v]
         /\ \/ /\ response[w] # <<>> /\ Head(response[w]).ok
               /\ merged' = [t \in Task |-> IF t \in Head(response[w]).tasks THEN merged[t] + 1 ELSE merged[t]]
               /\ UNCHANGED <<mpc, wpc>>
            \/ /\ response[w] # <<>> /\ ~ Head(response[w]).ok
               /\ mpc' = "Worker_exception" /\ UNCHANGED <<merged, wpc>>
            \/ /\ response[w] = <<>>
               /\ mpc' = "worker_exited" /\ UNCHANGED merged
               /\ wpc' = [wpc EXCEPT ![w] = IF @ = "zombie" THEN "reaped" ELSE @]
         /\ response' \in [Worker -> PipeOf(Response)]
<1>1. /\ mpc = "merge" /\ w \in readys
      /\ readys' = readys \ {w}
      /\ busy' = [busy EXCEPT ![w] = FALSE]
      /\ UNCHANGED <<callVars, dealt, free, handles, job, request, failures>>
  BY DEF get_result
<1>2. CASE response[w] # <<>>
  <2>1. /\ response' = [response EXCEPT ![w] = Tail(response[w])]
        /\ UNCHANGED wpc
        /\ \/ /\ Head(response[w]).ok
              /\ merged' = [t \in Task |-> IF t \in Head(response[w]).tasks THEN merged[t] + 1 ELSE merged[t]]
              /\ UNCHANGED mpc
           \/ /\ ~ Head(response[w]).ok
              /\ mpc' = "Worker_exception"
              /\ UNCHANGED merged
    BY <1>2 DEF get_result
  <2>2. Tail(response[w]) = <<>>
    BY <1>2, PipeRead DEF TypeOK
  <2>3. <<>> \in PipeOf(Response)
    BY DEF PipeOf
  <2>4. response'[w] = <<>> /\ \A v \in Worker : v # w => response'[v] = response[v]
    BY <2>1, <2>2 DEF TypeOK
  <2>5. response' \in [Worker -> PipeOf(Response)]
    BY <2>1, <2>2, <2>3 DEF TypeOK
  <2> QED BY <1>1, <1>2, <2>1, <2>4, <2>5
<1>3. CASE response[w] = <<>>
  <2>1. /\ UNCHANGED <<response, merged>>
        /\ mpc' = "worker_exited"
        /\ wpc' = [wpc EXCEPT ![w] = IF @ = "zombie" THEN "reaped" ELSE @]
    BY <1>3 DEF get_result
  <2>2. \A v \in Worker : v # w => wpc'[v] = wpc[v]
    BY <2>1 DEF TypeOK
  <2> QED BY <1>1, <1>3, <2>1, <2>2 DEF TypeOK
<1> QED
  BY <1>2, <1>3

(* A child or its worker moves: the master's variables are left alone. *)
LEMMA RespondWrites ==
  ASSUME TypeOK, PipeInv, NEW w \in Worker, NEW ok \in BOOLEAN, Respond(w, ok)
  PROVE  /\ wpc[w] = "job"
         /\ wpc' = [wpc EXCEPT ![w] = "answered"]
         /\ response' \in [Worker -> PipeOf(Response)]
         /\ response'[w] # <<>>
         /\ Head(response'[w]) = [call |-> job[w].call, tasks |-> job[w].tasks, ok |-> ok]
         /\ \A v \in Worker : v # w => response'[v] = response[v]
         /\ job' = [job EXCEPT ![w] = NoJob]
         /\ UNCHANGED <<master, request>>
<1> DEFINE m == [call |-> job[w].call, tasks |-> job[w].tasks, ok |-> ok]
<1>1. /\ wpc[w] = "job"
      /\ wpc' = [wpc EXCEPT ![w] = "answered"]
      /\ response' = [response EXCEPT ![w] = Append(response[w], m)]
      /\ job' = [job EXCEPT ![w] = NoJob]
      /\ UNCHANGED <<master, request>>
  BY DEF Respond
<1>2. response[w] = <<>>
  BY <1>1 DEF PipeInv
<1>3. m \in Response
  BY DEF TypeOK, Request, Response
<1> HIDE DEF m
<1>4. response' = [response EXCEPT ![w] = Append(<<>>, m)]
  BY <1>1, <1>2
<1>5. Append(<<>>, m) \in PipeOf(Response) /\ Append(<<>>, m) # <<>> /\ Head(Append(<<>>, m)) = m
  BY <1>3, PipeWrite
<1>6. response'[w] = Append(<<>>, m) /\ \A v \in Worker : v # w => response'[v] = response[v]
  BY <1>4 DEF TypeOK
<1>7. response' \in [Worker -> PipeOf(Response)]
  BY <1>4, <1>5 DEF TypeOK
<1> QED
  BY <1>1, <1>5, <1>6, <1>7 DEF m

LEMMA ForkReads ==
  ASSUME TypeOK, NEW w \in Worker, Fork(w)
  PROVE  /\ wpc[w] = "select" /\ request[w] # <<>>
         /\ wpc' = [wpc EXCEPT ![w] = "job"]
         /\ job' = [job EXCEPT ![w] = Head(request[w])]
         /\ Head(request[w]) \in Request
         /\ request' \in [Worker -> PipeOf(Request)]
         /\ request'[w] = <<>>
         /\ \A v \in Worker : v # w => request'[v] = request[v]
         /\ UNCHANGED <<master, response, failures>>
<1>1. /\ wpc[w] = "select" /\ request[w] # <<>>
      /\ wpc' = [wpc EXCEPT ![w] = "job"]
      /\ job' = [job EXCEPT ![w] = Head(request[w])]
      /\ request' = [request EXCEPT ![w] = Tail(request[w])]
      /\ UNCHANGED <<master, response, failures>>
  BY DEF Fork
<1>2. Head(request[w]) \in Request /\ Tail(request[w]) = <<>>
  BY <1>1, PipeRead DEF TypeOK
<1>3. <<>> \in PipeOf(Request)
  BY DEF PipeOf
<1>4. request' = [request EXCEPT ![w] = <<>>]
  BY <1>1, <1>2
<1> QED
  BY <1>1, <1>2, <1>3, <1>4 DEF TypeOK

-----------------------------------------------------------------------------
(***************************************************************************)
(* The type invariant and the pipes                                        *)
(***************************************************************************)
LEMMA NoJobRequest == NoJob \in Request
BY DEF NoJob, Request

LEMMA InitTypeOK == Init => TypeOK /\ PipeInv
<1>1. NoJob \in Request
  BY NoJobRequest
<1> QED
  BY <1>1 DEF Init, TypeOK, PipeInv, PipeOf

LEMMA WorkerMovesType ==
  ASSUME TypeOK, PipeInv, NEW w \in Worker, WorkerMoves(w) PROVE TypeOK' /\ PipeInv'
<1>0. NoJob \in Request
  BY NoJobRequest
<1>1. CASE Fork(w)
  <2>1. TypeOK'
    BY <1>1, ForkReads DEF TypeOK, master, callVars
  <2>2. \A v \in Worker : wpc'[v] = IF v = w THEN "job" ELSE wpc[v]
    BY <1>1, ForkReads DEF TypeOK
  <2>3. busy[w] /\ response[w] = <<>>
    BY <1>1, ForkReads DEF PipeInv, Closed, TypeOK
  <2>4. UNCHANGED <<busy, response>>
    BY <1>1, ForkReads DEF master
  <2>5. PipeInv'
    BY <1>1, <2>2, <2>3, <2>4, ForkReads DEF PipeInv, Closed
  <2> QED BY <2>1, <2>5
<1>2. ASSUME NEW ok \in BOOLEAN, Respond(w, ok), failures' \in Nat PROVE TypeOK' /\ PipeInv'
  <2>0. /\ wpc' = [wpc EXCEPT ![w] = "answered"]
        /\ response' \in [Worker -> PipeOf(Response)]
        /\ job' = [job EXCEPT ![w] = NoJob]
        /\ UNCHANGED <<master, request>>
    BY <1>2, RespondWrites, Zenon
  <2>1. TypeOK'
    BY <1>0, <1>2, <2>0 DEF TypeOK, master, callVars
  <2>2. \A v \in Worker : wpc'[v] = IF v = w THEN "answered" ELSE wpc[v]
    BY <2>0 DEF TypeOK
  <2>3. busy[w] /\ request[w] = <<>>
    <3>1. wpc[w] = "job"
      BY <1>2, RespondWrites, Zenon
    <3> QED BY <3>1 DEF PipeInv
  <2>4. UNCHANGED <<busy, request>>
    BY <1>2, RespondWrites DEF master
  <2>5. PipeInv'
    <3>1. \A v \in Worker : v # w => response'[v] = response[v]
      BY <1>2, RespondWrites, Zenon
    <3> QED BY <2>2, <2>3, <2>4, <3>1 DEF PipeInv, Closed
  <2> QED BY <2>1, <2>5
<1>3. CASE Waited(w) \/ Crash(w) \/ Exit(w) \/ OrphanExits(w)
  <2>1. PICK at : /\ wpc' = [wpc EXCEPT ![w] = at]
                  /\ at \in {"select", "closing", "zombie", "killed"}
                  /\ Closed(w) => at \in {"closing", "zombie"}
    BY <1>3 DEF Waited, Crash, Exit, OrphanExits, Closed
  <2>2. /\ job' = job \/ job' = [job EXCEPT ![w] = NoJob]
        /\ failures' \in Nat
        /\ UNCHANGED <<master, request, response>>
    BY <1>3 DEF Waited, Crash, Exit, OrphanExits, TypeOK
  <2>3. TypeOK'
    BY <1>0, <2>1, <2>2 DEF TypeOK, master, callVars
  <2>4. \A v \in Worker : wpc'[v] = IF v = w THEN at ELSE wpc[v]
    BY <2>1 DEF TypeOK
  <2>5. PipeInv'
    BY <2>1, <2>2, <2>4 DEF PipeInv, Closed, master
  <2> QED BY <2>3, <2>5
<1> QED
  <2>1. Succeed(w) => Respond(w, TRUE) /\ failures' \in Nat
    BY DEF Succeed, TypeOK
  <2>2. Fail(w) => Respond(w, FALSE) /\ failures' \in Nat
    <3>1. Fail(w) => Respond(w, FALSE)
      BY Zenon DEF Fail
    <3>2. Fail(w) => failures' \in Nat
      BY DEF Fail, TypeOK
    <3> QED BY <3>1, <3>2
  <2> QED BY <1>1, <1>2, <1>3, <2>1, <2>2 DEF WorkerMoves

LEMMA NextTypeOK ==
  ASSUME TypeOK, PipeInv, MasterInv, [Next]_vars PROVE TypeOK' /\ PipeInv'
<1>1. CASE UNCHANGED vars
  BY <1>1 DEF TypeOK, PipeInv, Closed, vars, master, callVars, workers
<1>2. CASE map_reduce \/ once_per_worker
  <2>1. TypeOK'
    BY <1>2, CallBegins DEF TypeOK, Calling, workers
  <2>2. PipeInv'
    BY <1>2, CallBegins DEF PipeInv, Closed, workers
  <2> QED BY <2>1, <2>2
<1>3. CASE Control
  <2>1. UNCHANGED <<callVars, merged, busy, workers, request, response, failures>>
    BY <1>3, ControlFrame
  <2>2. /\ mpc' \in {"collect", "returned", "merge", "dispatch", "idle", "destroy", "destroyed"}
        /\ dealt' \in Nat
        /\ free' \in SUBSET Worker /\ handles' \in SUBSET Worker /\ readys' \in SUBSET Worker
    <3>1. Cardinality(inputs) \in Nat
      BY InputsCounted
    <3> QED
      BY <1>3, <3>1 DEF TypeOK, Control, OnceDispatched, DispatchDone, collect, Merged, process_request,
                        destroy, Destroyed
  <2>3. TypeOK'
    BY <2>1, <2>2 DEF TypeOK, Calling, callVars, workers
  <2>4. PipeInv'
    BY <2>1 DEF PipeInv, Closed, workers
  <2> QED BY <2>3, <2>4
<1>4. ASSUME NEW w \in Worker, NEW tasks, Calls(w, tasks) PROVE TypeOK' /\ PipeInv'
  <2>0. /\ tasks \in SUBSET Task
        /\ WorkerCall(w, tasks)
        /\ mpc \in {"dispatch", "once"}
        /\ dealt' \in Nat
    BY <1>4, CallsTasks
  <2>1. CASE UNCHANGED mpc
    <3>0. /\ response[w] = <<>> /\ wpc[w] # "job"
          /\ busy' = [busy EXCEPT ![w] = TRUE]
          /\ request' \in [Worker -> PipeOf(Request)]
          /\ \A v \in Worker : v # w => request'[v] = request[v]
          /\ free' = free \ {w} /\ handles' = handles \cup {w}
          /\ UNCHANGED <<callVars, readys, merged, workers, response, failures>>
      BY <2>0, <2>1, CallSends, Zenon
    <3>1. TypeOK'
      BY <2>0, <2>1, <3>0 DEF TypeOK, callVars, workers
    <3>2. \A v \in Worker : busy'[v] = IF v = w THEN TRUE ELSE busy[v]
      BY <3>0 DEF TypeOK
    <3>3. PipeInv'
      BY <3>0, <3>2 DEF PipeInv, Closed, workers
    <3> QED BY <3>1, <3>3
  <2>2. CASE mpc' # mpc
    <3>1. TypeOK'
      BY <2>0, <2>2, CallRaises DEF TypeOK, callVars, workers
    <3>2. \A v \in Worker : ~ busy'[v] => ~ busy[v]
      BY <2>0, <2>2, CallRaises DEF TypeOK
    <3>3. PipeInv'
      BY <2>0, <2>2, <3>2, CallRaises DEF PipeInv, Closed, workers
    <3> QED BY <3>1, <3>3
  <2> QED BY <2>1, <2>2
<1>5. ASSUME NEW w \in Worker, get_result(w) PROVE TypeOK' /\ PipeInv'
  <2>1. \/ merged' = merged
        \/ merged' = [t \in Task |-> IF t \in Head(response[w]).tasks THEN merged[t] + 1 ELSE merged[t]]
    BY <1>5, ResultRead, Zenon
  <2>2. merged' \in [Task -> Nat]
    BY <2>1 DEF TypeOK
  <2>3. wpc' \in [Worker -> {"select", "job", "answered", "closing", "zombie", "reaped", "orphan", "killed"}]
    BY <1>5, ResultRead DEF TypeOK
  <2>4. TypeOK'
    BY <1>5, <2>2, <2>3, ResultRead DEF TypeOK, Exceptions, callVars
  <2>5. \A v \in Worker : busy'[v] = IF v = w THEN FALSE ELSE busy[v]
    <3>1. busy' = [busy EXCEPT ![w] = FALSE]
      BY <1>5, ResultRead, Zenon
    <3> QED BY <3>1 DEF TypeOK
  <2>6. /\ wpc'[w] # "job"
        /\ wpc'[w] = wpc[w] \/ (wpc[w] = "zombie" /\ wpc'[w] = "reaped")
        /\ request[w] = <<>> \/ Closed(w)
    <3>1. response[w] # <<>> \/ Closed(w)
      BY <1>5, ResultRead DEF MasterInv, Ready
    <3> QED BY <1>5, <3>1, ResultRead DEF PipeInv, Closed, TypeOK
  <2>7. UNCHANGED request /\ response'[w] = <<>>
        /\ \A v \in Worker : v # w => response'[v] = response[v] /\ wpc'[v] = wpc[v]
    BY <1>5, ResultRead
  <2>8. PipeInv'
    BY <2>5, <2>6, <2>7 DEF PipeInv, Closed
  <2> QED BY <2>4, <2>8
<1>6. ASSUME NEW w \in Worker, kill(w) PROVE TypeOK' /\ PipeInv'
  <2>1. <<>> \in PipeOf(Request) /\ <<>> \in PipeOf(Response)
    BY DEF PipeOf
  <2>2. TypeOK'
    BY <1>6, <2>1 DEF TypeOK, kill, master, callVars
  <2>3. \A v \in Worker : IF v = w THEN wpc'[v] \in {"orphan", "killed"} /\ request'[v] = <<>> /\ response'[v] = <<>>
                          ELSE wpc'[v] = wpc[v] /\ request'[v] = request[v] /\ response'[v] = response[v]
    BY <1>6 DEF TypeOK, kill
  <2>4. UNCHANGED busy
    BY <1>6 DEF kill, master
  <2>5. PipeInv'
    BY <2>3, <2>4 DEF PipeInv, Closed
  <2> QED BY <2>2, <2>5
<1> QED
  BY <1>1, <1>2, <1>3, <1>4, <1>5, <1>6, WorkerMovesType, NextCases

-----------------------------------------------------------------------------
(***************************************************************************)
(* Where the message of a worker is                                        *)
(***************************************************************************)
LEMMA SameMessage ==
  ASSUME NEW v \in Worker, request'[v] = request[v], response'[v] = response[v], wpc'[v] = wpc[v],
         job'[v] = job[v]
  PROVE  /\ Outstanding(v)' <=> Outstanding(v)
         /\ Message(v)' = Message(v)
         /\ Tasks(v)' = Tasks(v)
<1>1. Outstanding(v)' <=> Outstanding(v)
  BY DEF Outstanding
<1>2. Message(v)' = Message(v)
  BY DEF Message
<1> QED
  BY <1>1, <1>2 DEF Tasks

(* A message moves on, or is lost with its child. *)
LEMMA MessageMoves ==
  ASSUME TypeOK, PipeInv, NEW w \in Worker, WorkerMoves(w), NEW v \in Worker
  PROVE  /\ UNCHANGED master
         /\ Outstanding(v)' => /\ Outstanding(v)
                               /\ Message(v)'.call = Message(v).call
                               /\ Message(v)'.tasks = Message(v).tasks
         /\ Ready(v) => Ready(v)'
         /\ request[v] = <<>> /\ wpc[v] # "job" => request'[v] = <<>> /\ wpc'[v] # "job"
<1>1. CASE Fork(w)
  <2>1. /\ UNCHANGED <<master, response>>
        /\ request[w] # <<>> /\ request'[w] = <<>>
        /\ wpc[w] = "select" /\ wpc'[w] = "job"
        /\ job'[w] = Head(request[w])
        /\ \A u \in Worker : u # w => request'[u] = request[u] /\ wpc'[u] = wpc[u] /\ job'[u] = job[u]
    BY <1>1, ForkReads DEF TypeOK
  <2>2. CASE v # w
    BY <2>1, <2>2, SameMessage DEF Ready, Closed
  <2>3. CASE v = w
    BY <2>1, <2>3 DEF Outstanding, Message, Ready, Closed
  <2> QED BY <2>2, <2>3
<1>2. ASSUME NEW ok \in BOOLEAN, Respond(w, ok)
      PROVE  /\ UNCHANGED master
             /\ Outstanding(v)' => /\ Outstanding(v)
                                   /\ Message(v)'.call = Message(v).call
                                   /\ Message(v)'.tasks = Message(v).tasks
             /\ Ready(v) => Ready(v)'
             /\ request[v] = <<>> /\ wpc[v] # "job" => request'[v] = <<>> /\ wpc'[v] # "job"
  <2>1. /\ UNCHANGED <<master, request>>
        /\ wpc[w] = "job"
        /\ response'[w] # <<>>
        /\ Head(response'[w]) = [call |-> job[w].call, tasks |-> job[w].tasks, ok |-> ok]
        /\ \A u \in Worker : u # w => response'[u] = response[u]
        /\ wpc' = [wpc EXCEPT ![w] = "answered"]
        /\ job' = [job EXCEPT ![w] = NoJob]
    BY <1>2, RespondWrites, Zenon
  <2>2. Head(response'[w]).call = job[w].call /\ Head(response'[w]).tasks = job[w].tasks
    <3>1. PICK m : m = [call |-> job[w].call, tasks |-> job[w].tasks, ok |-> ok]
      OBVIOUS
    <3>2. m.call = job[w].call /\ m.tasks = job[w].tasks
      BY <3>1
    <3> QED BY <2>1, <3>1, <3>2, Zenon
  <2>3. wpc'[w] = "answered" /\ \A u \in Worker : u # w => wpc'[u] = wpc[u] /\ job'[u] = job[u]
    BY <2>1 DEF TypeOK
  <2>4. request[w] = <<>> /\ response[w] = <<>>
    BY <2>1 DEF PipeInv
  <2>5. CASE v # w
    BY <2>1, <2>3, <2>5, SameMessage DEF Ready, Closed
  <2>6. CASE v = w
    BY <2>1, <2>2, <2>3, <2>4, <2>6 DEF Outstanding, Message, Ready, Closed
  <2> QED BY <2>5, <2>6
<1>3. CASE Waited(w) \/ Crash(w) \/ Exit(w) \/ OrphanExits(w)
  <2>0. PICK at : /\ wpc' = [wpc EXCEPT ![w] = at]
                  /\ at \in {"select", "closing", "zombie", "killed"}
                  /\ Closed(w) => at \in {"closing", "zombie"}
    BY <1>3 DEF Waited, Crash, Exit, OrphanExits, Closed
  <2>a. /\ job' = job \/ job' = [job EXCEPT ![w] = NoJob]
        /\ UNCHANGED <<master, request, response>>
    BY <1>3 DEF Waited, Crash, Exit, OrphanExits
  <2>1. /\ wpc'[w] # "job"
        /\ Closed(w) => Closed(w)'
        /\ UNCHANGED <<master, request, response>>
        /\ \A u \in Worker : u # w => job'[u] = job[u]
    BY <2>0, <2>a DEF Closed, TypeOK
  <2>2. \A u \in Worker : u # w => wpc'[u] = wpc[u]
    BY <2>0 DEF TypeOK
  <2>3. CASE v # w
    BY <2>1, <2>2, <2>3, SameMessage DEF Ready, Closed
  <2>4. CASE v = w
    <3>1. request[w] # <<>> => wpc[w] # "job"
      BY DEF PipeInv
    <3>2. response[w] # <<>> => wpc[w] # "job"
      BY DEF PipeInv
    <3> QED BY <2>1, <2>4, <3>1, <3>2 DEF Outstanding, Message, Ready
  <2> QED BY <2>3, <2>4
<1> QED
  <2>1. Succeed(w) => Respond(w, TRUE)
    BY DEF Succeed
  <2>2. Fail(w) => Respond(w, FALSE)
    BY Zenon DEF Fail
  <2> QED BY <1>1, <1>2, <1>3, <2>1, <2>2 DEF WorkerMoves

LEMMA WorkerMovesMaster == ASSUME NEW w \in Worker, WorkerMoves(w) PROVE UNCHANGED master
BY DEF WorkerMoves, Fork, Succeed, Fail, Respond, Waited, Crash, Exit, OrphanExits

-----------------------------------------------------------------------------
(***************************************************************************)
(* The master                                                              *)
(***************************************************************************)
LEMMA InitMasterInv == Init => MasterInv
BY DEF Init, MasterInv, Calling, Dealing

LEMMA ControlMasterInv == ASSUME TypeOK, MasterInv, Control PROVE MasterInv'
<1>0. Cardinality(inputs) \in Nat /\ dealt \in Nat /\ Worker # {}
  BY InputsCounted, PoolAssumption DEF TypeOK
<1>1. UNCHANGED <<inputs, response, wpc>>
  BY ControlFrame DEF callVars, workers
<1>2. CASE OnceDispatched
  <2>1. /\ mpc = "once" /\ free = {} /\ mpc' = "collect"
        /\ dealt' = Cardinality(inputs)
        /\ UNCHANGED <<free, handles, readys>>
    BY <1>2 DEF OnceDispatched
  <2> QED BY <1>0, <1>1, <2>1 DEF MasterInv, Calling, Dealing
<1>3. CASE DispatchDone
  <2>1. /\ mpc = "dispatch"
        /\ dealt >= Cardinality(inputs) \/ free = {}
        /\ mpc' = IF handles = {} THEN "returned" ELSE "collect"
        /\ free' = {}
        /\ UNCHANGED <<dealt, handles, readys>>
    BY <1>3 DEF DispatchDone
  <2> QED BY <1>0, <1>1, <2>1 DEF MasterInv, Calling, Dealing
<1>4. CASE collect
  <2>1. /\ mpc = "collect" /\ mpc' = "merge"
        /\ readys' = {w \in handles : Ready(w)}
        /\ handles' = handles \ readys'
        /\ free' = free \cup readys'
        /\ UNCHANGED dealt
    BY <1>4 DEF collect
  <2>2. \A w \in readys' : Ready(w)'
    BY <1>1, <2>1 DEF Ready, Closed
  <2> QED BY <1>0, <1>1, <2>1, <2>2 DEF MasterInv, Calling, Dealing
<1>5. CASE Merged
  <2>1. mpc = "merge" /\ readys = {} /\ mpc' = "dispatch" /\ UNCHANGED <<dealt, free, handles, readys>>
    BY <1>5 DEF Merged
  <2> QED BY <1>0, <1>1, <2>1 DEF MasterInv, Calling, Dealing
<1>6. CASE process_request \/ destroy \/ Destroyed
  <2>1. mpc' \in {"idle", "destroy", "destroyed"}
    BY <1>6 DEF process_request, destroy, Destroyed
  <2> QED BY <2>1 DEF MasterInv, Calling, Dealing
<1> QED
  BY <1>2, <1>3, <1>4, <1>5, <1>6 DEF Control

LEMMA CallsMasterInv ==
  ASSUME TypeOK, PipeInv, MasterInv, NEW w \in Worker, NEW tasks, Calls(w, tasks) PROVE MasterInv'
<1>0. /\ tasks \in SUBSET Task
      /\ WorkerCall(w, tasks)
      /\ mpc \in {"dispatch", "once"}
      /\ w \in free
      /\ dealt' \in Nat
  BY CallsTasks
<1>1. CASE mpc' # mpc
  <2>1. mpc' \in Exceptions
    BY <1>0, <1>1, CallRaises
  <2> QED BY <2>1 DEF MasterInv, Exceptions, Calling, Dealing
<1>2. CASE UNCHANGED mpc
  <2>1. free' = free \ {w} /\ handles' = handles \cup {w} /\ UNCHANGED <<inputs, readys>>
    BY <1>0, <1>2, CallSends DEF callVars
  <2>2. CASE mpc = "dispatch"
    <3>1. DispatchJob(w)
      BY <2>2 DEF Calls, OnceCall
    <3>2. dealt' <= Cardinality(inputs) /\ inputs # Worker
      BY <2>2, <3>1, NextBucket DEF DispatchJob
    <3>3. dealt # Cardinality(inputs)
      BY <3>1, InputsCounted DEF DispatchJob, TypeOK
    <3> QED BY <1>0, <1>2, <2>1, <2>2, <3>2, <3>3 DEF MasterInv, Calling, Dealing
  <2>3. CASE mpc = "once"
    BY <1>0, <1>2, <2>1, <2>3 DEF MasterInv, Calling, Dealing
  <2> QED BY <1>0, <2>2, <2>3
<1> QED
  BY <1>1, <1>2

LEMMA NextMasterInv ==
  ASSUME TypeOK, PipeInv, MasterInv, [Next]_vars PROVE MasterInv'
<1>1. CASE UNCHANGED vars
  BY <1>1 DEF MasterInv, Ready, Closed, vars, master, callVars, workers
<1>2. CASE map_reduce \/ once_per_worker
  <2>1. /\ dealt' = 0 /\ free' = Worker /\ handles' = {} /\ readys' = {}
        /\ \/ mpc' = "dispatch" /\ \E n \in TaskCounts : inputs' = 1 .. n
           \/ mpc' = "once" /\ inputs' = Worker
    BY <1>2, CallBegins
  <2>2. ASSUME NEW n \in TaskCounts PROVE 0 <= Cardinality(1 .. n) /\ 1 .. n # Worker
    <3>1. n \in Nat
      BY PoolAssumption
    <3>2. Cardinality(1 .. n) = n
      BY <3>1, FS_Interval
    <3> QED BY <3>1, <3>2, PoolAssumption
  <2> QED BY <2>1, <2>2 DEF MasterInv, Calling, Dealing
<1>3. ASSUME NEW w \in Worker, get_result(w) PROVE MasterInv'
  <2>1. CASE mpc' \in Exceptions
    BY <2>1 DEF MasterInv, Exceptions, Calling, Dealing
  <2>2. CASE UNCHANGED mpc
    <3>1. /\ mpc = "merge" /\ w \in readys /\ readys' = readys \ {w}
          /\ UNCHANGED <<inputs, dealt, free, handles>>
      BY <1>3, ResultRead DEF callVars
    <3>2. \A v \in Worker : v # w /\ Ready(v) => Ready(v)'
      BY <1>3, ResultRead DEF Ready, Closed
    <3>3. readys \subseteq Worker
      BY DEF TypeOK
    <3> QED BY <2>2, <3>1, <3>2, <3>3 DEF MasterInv, Calling, Dealing
  <2> QED BY <1>3, <2>1, <2>2, ResultRead DEF Exceptions
<1>4. ASSUME NEW w \in Worker, kill(w) PROVE MasterInv'
  <2>1. mpc = "destroy" /\ UNCHANGED master
    BY <1>4 DEF kill
  <2> QED BY <2>1 DEF MasterInv, Calling, Dealing, master
<1>5. ASSUME NEW w \in Worker, WorkerMoves(w) PROVE MasterInv'
  <2>1. UNCHANGED master
    BY <1>5, WorkerMovesMaster
  <2>2. \A v \in readys : Ready(v) => Ready(v)'
    BY <1>5, MessageMoves DEF TypeOK
  <2> QED BY <2>1, <2>2 DEF MasterInv, master, callVars
<1> QED
  BY <1>1, <1>2, <1>3, <1>4, <1>5, ControlMasterInv, CallsMasterInv, NextCases

(* The message of a call that was sent. *)
LEMMA CallMessage ==
  ASSUME TypeOK, PipeInv, MasterInv, NEW w \in Worker, NEW tasks, Calls(w, tasks), UNCHANGED mpc
  PROVE  /\ busy' = [busy EXCEPT ![w] = TRUE]
         /\ free' = free \ {w} /\ handles' = handles \cup {w}
         /\ UNCHANGED <<callVars, readys, merged, workers, response, failures>>
         /\ Outstanding(w)' /\ Message(w)'.call = call /\ Tasks(w)' = tasks
         /\ \A v \in Worker : v # w =>
              /\ Outstanding(v)' <=> Outstanding(v)
              /\ Message(v)' = Message(v)
              /\ Tasks(v)' = Tasks(v)
<1>1. tasks \in SUBSET Task /\ WorkerCall(w, tasks) /\ mpc \in {"dispatch", "once"}
  BY CallsTasks
<1>2. /\ busy' = [busy EXCEPT ![w] = TRUE]
      /\ free' = free \ {w} /\ handles' = handles \cup {w}
      /\ UNCHANGED <<callVars, readys, merged, workers, response, failures>>
      /\ request'[w] # <<>>
      /\ Head(request'[w]) = [call |-> call, tasks |-> tasks]
      /\ \A v \in Worker : v # w => request'[v] = request[v]
  BY <1>1, CallSends
<1>3. Outstanding(w)'
  BY <1>2 DEF Outstanding
<1>4. Message(w)' = [call |-> call, tasks |-> tasks]
  BY <1>2 DEF Message
<1>5. Tasks(w)' = tasks
  BY <1>3, <1>4 DEF Tasks
<1>6. ASSUME NEW v \in Worker, v # w
      PROVE  /\ Outstanding(v)' <=> Outstanding(v)
             /\ Message(v)' = Message(v)
             /\ Tasks(v)' = Tasks(v)
  BY <1>2, <1>6, SameMessage DEF workers
<1> QED
  BY <1>2, <1>3, <1>4, <1>5, <1>6

(* The answer that was read was the message of its worker. *)
LEMMA ResultMessage ==
  ASSUME TypeOK, PipeInv, NEW w \in Worker, get_result(w)
  PROVE  /\ response[w] # <<>> =>
              Outstanding(w) /\ Tasks(w) = Head(response[w]).tasks /\ request[w] = <<>> /\ wpc[w] # "job"
         /\ \A v \in Worker : v # w =>
              /\ Outstanding(v)' <=> Outstanding(v)
              /\ Message(v)' = Message(v)
              /\ Tasks(v)' = Tasks(v)
<1>1. response[w] # <<>> => request[w] = <<>> /\ wpc[w] # "job"
  BY DEF PipeInv
<1>2. \A v \in Worker : v # w =>
              /\ Outstanding(v)' <=> Outstanding(v)
              /\ Message(v)' = Message(v)
              /\ Tasks(v)' = Tasks(v)
  BY ResultRead, SameMessage
<1> QED
  BY <1>1, <1>2 DEF Outstanding, Tasks, Message

(* Nothing happens to the messages. *)
LEMMA PipesKept ==
  ASSUME UNCHANGED <<request, response, workers>>, NEW v \in Worker
  PROVE  /\ Outstanding(v)' <=> Outstanding(v)
         /\ Message(v)' = Message(v)
         /\ Tasks(v)' = Tasks(v)
BY SameMessage DEF workers

(* The master goes on to the same workers, or is out of the call. *)
LEMMA ControlWaits ==
  ASSUME MasterInv, Control
  PROVE  \/ mpc' \notin Calling \cup {"returned"}
         \/ /\ mpc \in Calling
            /\ mpc' \in Dealing \cup {"returned"}
            /\ handles' \cup readys' = handles \cup readys
            /\ mpc = "once" => free = {}
<1>1. CASE OnceDispatched \/ DispatchDone \/ Merged
  BY <1>1 DEF OnceDispatched, DispatchDone, Merged, Calling, Dealing
<1>2. CASE collect
  <2>1. readys = {} /\ readys' \subseteq handles /\ handles' = handles \ readys' /\ mpc = "collect" /\ mpc' = "merge"
    BY <1>2 DEF collect, MasterInv
  <2> QED BY <2>1 DEF Calling, Dealing
<1>3. CASE process_request \/ destroy \/ Destroyed
  BY <1>3 DEF process_request, destroy, Destroyed, Calling
<1> QED
  BY <1>1, <1>2, <1>3 DEF Control

-----------------------------------------------------------------------------
LEMMA InitMessageInv == Init => MessageInv
BY DEF Init, MessageInv, Calling

LEMMA NextMessageInv ==
  ASSUME TypeOK, PipeInv, MasterInv, MessageInv, [Next]_vars PROVE MessageInv'
<1>0. handles \cup readys \subseteq Worker
  BY DEF TypeOK
<1>1. CASE UNCHANGED vars
  <2>1. UNCHANGED <<mpc, call, handles, readys, busy>> /\ UNCHANGED <<request, response, workers>>
    BY <1>1 DEF vars, master, callVars
  <2> QED BY <1>0, <2>1, PipesKept DEF MessageInv
<1>2. CASE map_reduce \/ once_per_worker
  BY <1>2, CallBegins DEF MessageInv
<1>3. CASE Control
  <2>1. UNCHANGED <<call, busy>> /\ UNCHANGED <<request, response, workers>>
    BY <1>3, ControlFrame DEF callVars
  <2> QED BY <1>0, <1>3, <2>1, PipesKept, ControlWaits DEF MessageInv
<1>4. ASSUME NEW w \in Worker, NEW tasks, Calls(w, tasks) PROVE MessageInv'
  <2>1. CASE mpc' # mpc
    <3>1. mpc' \in Exceptions
      BY <1>4, <2>1, CallsTasks, CallRaises
    <3> QED BY <3>1 DEF MessageInv, Exceptions, Calling
  <2>2. CASE UNCHANGED mpc
    <3>0. busy' = [busy EXCEPT ![w] = TRUE]
      BY <1>4, <2>2, CallMessage
    <3>1. busy'[w] /\ \A v \in Worker : v # w => busy'[v] = busy[v]
      BY <3>0 DEF TypeOK
    <3>2. UNCHANGED call /\ handles' \cup readys' = (handles \cup readys) \cup {w}
      BY <1>4, <2>2, CallMessage DEF callVars
    <3> QED BY <1>0, <1>4, <2>2, <3>1, <3>2, CallMessage DEF MessageInv
  <2> QED BY <2>1, <2>2
<1>5. ASSUME NEW w \in Worker, get_result(w) PROVE MessageInv'
  <2>1. CASE mpc' \in Exceptions
    BY <2>1 DEF MessageInv, Exceptions, Calling
  <2>2. CASE UNCHANGED mpc
    <3>1. mpc = "merge" /\ w \notin readys' /\ readys' \subseteq readys /\ UNCHANGED <<call, handles>>
      BY <1>5, ResultRead DEF callVars
    <3>2. w \notin handles
      BY <1>5, <3>1, ResultRead DEF MasterInv, Calling
    <3>3. \A v \in Worker : v # w => busy'[v] = busy[v]
      BY <1>5, ResultRead DEF TypeOK
    <3> QED BY <1>0, <1>5, <2>2, <3>1, <3>2, <3>3, ResultMessage DEF MessageInv
  <2> QED BY <1>5, <2>1, <2>2, ResultRead DEF Exceptions
<1>6. ASSUME NEW w \in Worker, kill(w) PROVE MessageInv'
  BY <1>6 DEF kill, master, MessageInv, Calling
<1>7. ASSUME NEW w \in Worker, WorkerMoves(w) PROVE MessageInv'
  <2>1. UNCHANGED <<mpc, call, handles, readys, busy>>
    BY <1>7, WorkerMovesMaster DEF master, callVars
  <2> QED BY <1>0, <1>7, <2>1, MessageMoves DEF MessageInv
<1> QED
  BY <1>1, <1>2, <1>3, <1>4, <1>5, <1>6, <1>7, NextCases

LEMMA InitOnceInv == Init => OnceInv
BY DEF Init, OnceInv, Dealing

LEMMA NextOnceInv ==
  ASSUME TypeOK, PipeInv, MasterInv, OnceInv, [Next]_vars PROVE OnceInv'
<1>1. CASE UNCHANGED vars
  BY <1>1 DEF OnceInv, vars, master, callVars, workers
<1>2. CASE map_reduce \/ once_per_worker
  <2>1. ASSUME NEW n \in TaskCounts PROVE 1 .. n # Worker
    BY PoolAssumption
  <2> QED BY <1>2, <2>1, CallBegins DEF OnceInv, Dealing
<1>3. CASE Control
  <2>1. UNCHANGED <<inputs, request, wpc>>
    BY <1>3, ControlFrame DEF callVars, workers
  <2>2. mpc \in Calling /\ mpc # "once" => mpc \in Dealing
    BY DEF Calling, Dealing
  <2>3. mpc = "once" => free \cup handles = Worker
    BY DEF MasterInv
  <2> QED BY <1>3, <2>1, <2>2, <2>3, ControlWaits DEF OnceInv, Dealing, Calling
<1>4. ASSUME NEW w \in Worker, NEW tasks, Calls(w, tasks) PROVE OnceInv'
  <2>1. mpc' \notin Dealing \cup {"returned"} \/ (UNCHANGED mpc /\ mpc = "dispatch")
    BY <1>4, CallsTasks, CallRaises DEF Exceptions, Dealing
  <2>2. CASE UNCHANGED mpc /\ mpc = "dispatch"
    <3>1. DispatchJob(w)
      BY <1>4, <2>2 DEF Calls, OnceCall
    <3>2. inputs # Worker
      BY <3>1, NextBucket DEF DispatchJob
    <3>3. UNCHANGED inputs
      BY <1>4, <2>2, CallMessage DEF callVars
    <3> QED BY <3>2, <3>3 DEF OnceInv
  <2> QED BY <2>1, <2>2 DEF OnceInv
<1>5. ASSUME NEW w \in Worker, get_result(w) PROVE OnceInv'
  <2>1. CASE mpc' \in Exceptions
    BY <2>1 DEF OnceInv, Exceptions, Dealing
  <2>2. CASE mpc' \notin Exceptions
    <3>1. /\ mpc = "merge" /\ readys' = readys \ {w}
          /\ UNCHANGED <<mpc, wpc, inputs, handles, request>>
          /\ response[w] # <<>>
      BY <1>5, <2>2, ResultRead DEF callVars, Exceptions
    <3>2. request[w] = <<>> /\ wpc[w] # "job"
      BY <1>5, <3>1, ResultMessage
    <3> QED BY <3>1, <3>2 DEF OnceInv
  <2> QED BY <2>1, <2>2
<1>6. ASSUME NEW w \in Worker, kill(w) PROVE OnceInv'
  BY <1>6 DEF kill, master, OnceInv, Dealing
<1>7. ASSUME NEW w \in Worker, WorkerMoves(w) PROVE OnceInv'
  <2>1. UNCHANGED <<mpc, inputs, handles, readys>>
    BY <1>7, WorkerMovesMaster DEF master, callVars
  <2> QED BY <1>7, <2>1, MessageMoves DEF OnceInv
<1> QED
  BY <1>1, <1>2, <1>3, <1>4, <1>5, <1>6, <1>7, NextCases

-----------------------------------------------------------------------------
LEMMA InitQuietInv == Init => QuietInv
BY DEF Init, QuietInv, Exceptions, Closed

LEMMA NextQuietInv ==
  ASSUME TypeOK, PipeInv, MasterInv, QuietInv, [Next]_vars PROVE QuietInv'
<1>1. CASE UNCHANGED vars
  BY <1>1 DEF QuietInv, Closed, vars, master, callVars, workers
<1>2. CASE map_reduce \/ once_per_worker
  <2>1. /\ mpc \in {"idle", "returned"} /\ mpc' \in {"dispatch", "once"}
        /\ UNCHANGED <<busy, wpc, response, failures>>
    BY <1>2, CallBegins DEF workers
  <2> QED BY <2>1 DEF QuietInv, Closed, Calling, Exceptions
<1>3. CASE Control
  <2>1. UNCHANGED <<busy, wpc, response, failures>>
    BY <1>3, ControlFrame DEF workers
  <2>2. mpc' \notin Exceptions
    BY <1>3 DEF Control, OnceDispatched, DispatchDone, collect, Merged, process_request, destroy,
                Destroyed, Exceptions
  <2>3. ASSUME failures = 0, NEW w \in Worker, busy[w]
        PROVE  mpc' \in Calling /\ w \in handles' \cup readys'
    <3>1. mpc \in Calling /\ w \in handles \cup readys
      BY <2>3 DEF QuietInv
    <3>2. mpc' \in Calling \cup {"returned"}
      BY <1>3, <3>1 DEF Control, OnceDispatched, DispatchDone, collect, Merged, process_request, destroy,
                        Destroyed, Exceptions, Calling
    <3>3. handles' \cup readys' = handles \cup readys
      BY <1>3, <3>2, ControlWaits
    <3>4. mpc' # "returned"
      <4>1. SUFFICES ASSUME mpc' = "returned" PROVE FALSE
        OBVIOUS
      <4>2. DispatchDone /\ handles = {}
        BY <1>3, <4>1 DEF Control, OnceDispatched, DispatchDone, collect, Merged, process_request, destroy,
                          Destroyed
      <4>3. readys = {}
        BY <4>2 DEF DispatchDone, MasterInv
      <4> QED BY <3>1, <4>2, <4>3
    <3> QED BY <3>1, <3>2, <3>3, <3>4
  <2> QED BY <2>1, <2>2, <2>3 DEF QuietInv, Closed
<1>4. ASSUME NEW w \in Worker, NEW tasks, Calls(w, tasks) PROVE QuietInv'
  <2>0. WorkerCall(w, tasks) /\ mpc \in {"dispatch", "once"} /\ w \in free /\ tasks \in SUBSET Task
    BY <1>4, CallsTasks
  <2>1. CASE mpc' # mpc
    <3>1. (busy[w] \/ Closed(w)) /\ UNCHANGED failures
      BY <2>0, <2>1, CallRaises
    <3>2. failures = 0 => FALSE
      <4>1. SUFFICES ASSUME failures = 0 PROVE FALSE
        OBVIOUS
      <4>2. w \in handles \cup readys
        BY <3>1, <4>1 DEF QuietInv
      <4>3. readys = {} /\ free \cap handles = {}
        BY <2>0 DEF MasterInv, Calling
      <4> QED BY <2>0, <4>2, <4>3
    <3> QED BY <3>1, <3>2 DEF QuietInv
  <2>2. CASE UNCHANGED mpc
    <3>1. /\ busy' = [busy EXCEPT ![w] = TRUE]
          /\ handles' = handles \cup {w}
          /\ UNCHANGED <<readys, wpc, response, failures>>
      BY <1>4, <2>2, CallMessage DEF workers
    <3>2. \A v \in Worker : v # w => busy'[v] = busy[v]
      BY <3>1 DEF TypeOK
    <3> QED BY <2>0, <2>2, <3>1, <3>2 DEF QuietInv, Closed, Calling
  <2> QED BY <2>1, <2>2
<1>5. ASSUME NEW w \in Worker, get_result(w) PROVE QuietInv'
  <2>1. SUFFICES ASSUME failures = 0 PROVE QuietInv'
    BY <1>5, ResultRead DEF QuietInv
  <2>2. w \in readys /\ mpc = "merge"
    BY <1>5, ResultRead
  <2>3. response[w] # <<>> /\ Head(response[w]).ok
    BY <2>1, <2>2 DEF QuietInv, MasterInv, Ready
  <2>4. /\ UNCHANGED <<mpc, wpc, handles, failures>>
        /\ readys' = readys \ {w}
        /\ busy' = [busy EXCEPT ![w] = FALSE]
        /\ response'[w] = <<>>
        /\ \A v \in Worker : v # w => response'[v] = response[v]
    BY <1>5, <2>3, ResultRead
  <2>5. ~ busy'[w] /\ \A v \in Worker : v # w => busy'[v] = busy[v]
    BY <2>4 DEF TypeOK
  <2> QED BY <2>1, <2>4, <2>5 DEF QuietInv, Closed
<1>6. ASSUME NEW w \in Worker, kill(w) PROVE QuietInv'
  <2>1. SUFFICES ASSUME failures = 0 PROVE QuietInv'
    BY <1>6 DEF kill, QuietInv
  <2>2. mpc = "destroy" /\ UNCHANGED <<master, failures>>
    BY <1>6 DEF kill
  <2>3. \A v \in Worker : ~ busy[v] /\ wpc[v] # "job"
    BY <2>1, <2>2 DEF QuietInv, PipeInv, Calling
  <2>4. /\ wpc' = [wpc EXCEPT ![w] = "killed"]
        /\ response' = [response EXCEPT ![w] = <<>>]
    BY <1>6, <2>3 DEF kill
  <2>5. \A v \in Worker : IF v = w THEN wpc'[v] = "killed" /\ response'[v] = <<>>
                          ELSE wpc'[v] = wpc[v] /\ response'[v] = response[v]
    BY <2>4 DEF TypeOK
  <2> QED BY <2>1, <2>2, <2>3, <2>5 DEF QuietInv, Closed, master
<1>7. ASSUME NEW w \in Worker, WorkerMoves(w) PROVE QuietInv'
  <2>0. UNCHANGED <<mpc, handles, readys, busy>>
    BY <1>7, WorkerMovesMaster DEF master
  <2>1. SUFFICES ASSUME failures' = 0 PROVE QuietInv'
    BY DEF QuietInv
  <2>2. failures = 0 /\ (Fork(w) \/ Succeed(w) \/ Waited(w) \/ Exit(w) \/ OrphanExits(w))
    <3>1. failures \in Nat
      BY DEF TypeOK
    <3>a. Fail(w) \/ Crash(w) => failures' = failures + 1
      BY Zenon DEF Fail, Crash
    <3>2. ~ Fail(w) /\ ~ Crash(w)
      BY <2>1, <3>1, <3>a
    <3>3. UNCHANGED failures
      BY <1>7, <3>2 DEF WorkerMoves, Fork, Succeed, Waited, Exit, OrphanExits
    <3> QED BY <1>7, <2>1, <3>2, <3>3 DEF WorkerMoves
  <2>3. ~ Exit(w) /\ ~ OrphanExits(w)
    BY <2>2 DEF QuietInv, Closed, Exit, OrphanExits
  <2>4. CASE Fork(w) \/ Waited(w)
    <3>1. UNCHANGED response /\ \E at \in {"job", "select"} : wpc' = [wpc EXCEPT ![w] = at]
      BY <2>4 DEF Fork, Waited
    <3>2. \A v \in Worker : wpc'[v] = wpc[v] \/ wpc'[v] \in {"job", "select"}
      BY <3>1 DEF TypeOK
    <3> QED BY <2>0, <2>2, <3>1, <3>2 DEF QuietInv, Closed
  <2>5. CASE Succeed(w)
    <3>1. Respond(w, TRUE)
      BY <2>5 DEF Succeed
    <3>2. /\ wpc' = [wpc EXCEPT ![w] = "answered"]
          /\ Head(response'[w]) = [call |-> job[w].call, tasks |-> job[w].tasks, ok |-> TRUE]
          /\ \A v \in Worker : v # w => response'[v] = response[v]
      BY <3>1, RespondWrites
    <3>3. Head(response'[w]).ok
      BY <3>2
    <3>4. \A v \in Worker : wpc'[v] = wpc[v] \/ wpc'[v] = "answered"
      BY <3>2 DEF TypeOK
    <3> QED BY <2>0, <2>2, <3>2, <3>3, <3>4 DEF QuietInv, Closed
  <2> QED BY <2>2, <2>3, <2>4, <2>5
<1> QED
  BY <1>1, <1>2, <1>3, <1>4, <1>5, <1>6, <1>7, NextCases

-----------------------------------------------------------------------------
(***************************************************************************)
(* Every input is dealt once and merged once.                              *)
(***************************************************************************)
LEMMA InitTasksInv == Init => TasksInv
BY DEF Init, TasksInv, Calling

LEMMA ControlTasksInv ==
  ASSUME TypeOK, MasterInv, TasksInv, Control PROVE TasksInv'
<1>1. CASE mpc' \notin Calling \cup {"returned"}
  BY <1>1 DEF TasksInv
<1>2. CASE /\ mpc \in Calling
           /\ mpc' \in Dealing \cup {"returned"}
           /\ handles' \cup readys' = handles \cup readys
           /\ mpc = "once" => free = {}
  <2>1. handles \cup readys \subseteq Worker
    BY DEF TypeOK
  <2>2. UNCHANGED <<inputs, merged>> /\ UNCHANGED <<request, response, workers>>
    BY ControlFrame DEF callVars
  <2>3. Dealt' = Dealt
    <3>1. mpc # "once" => UNCHANGED dealt
      BY <1>2 DEF Control, OnceDispatched, DispatchDone, collect, Merged, process_request, destroy,
                  Destroyed
    <3>2. mpc' # "once"
      BY <1>2 DEF Dealing
    <3>3. mpc = "once" => inputs = Worker
      BY DEF MasterInv
    <3> QED BY <1>2, <2>2, <3>1, <3>2, <3>3 DEF Dealt
  <2>4. \A v \in handles \cup readys : (Outstanding(v)' <=> Outstanding(v)) /\ Tasks(v)' = Tasks(v)
    BY <2>1, <2>2, PipesKept
  <2>5. \A t \in Task : Waiting(t)' <=> Waiting(t)
    BY <1>2, <2>4 DEF Waiting
  <2> QED BY <1>2, <2>2, <2>3, <2>4, <2>5 DEF TasksInv
<1> QED
  BY <1>1, <1>2, ControlWaits

LEMMA CallsTasksInv ==
  ASSUME TypeOK, PipeInv, MasterInv, TasksInv, NEW w \in Worker, NEW tasks, Calls(w, tasks)
  PROVE  TasksInv'
<1>0. /\ tasks \in SUBSET Task /\ WorkerCall(w, tasks)
      /\ mpc \in {"dispatch", "once"} /\ w \in free /\ dealt' \in Nat
  BY CallsTasks
<1>1. CASE mpc' # mpc
  <2>1. mpc' \in Exceptions
    BY <1>0, <1>1, CallRaises
  <2> QED BY <2>1 DEF TasksInv, Exceptions, Calling
<1>2. CASE UNCHANGED mpc
  <2>1. handles \cup readys \subseteq Worker /\ w \notin handles \cup readys
    BY <1>0 DEF TypeOK, MasterInv, Calling
  <2>2. /\ handles' \cup readys' = (handles \cup readys) \cup {w}
        /\ free' = free \ {w}
        /\ UNCHANGED <<inputs, merged>>
        /\ Outstanding(w)' /\ Tasks(w)' = tasks
    BY <1>2, CallMessage DEF callVars
  <2>3. \A v \in handles \cup readys : (Outstanding(v)' <=> Outstanding(v)) /\ Tasks(v)' = Tasks(v)
    BY <1>2, <2>1, CallMessage
  <2>4. Dealt' = Dealt \cup tasks /\ Dealt \cap tasks = {}
    <3>1. CASE mpc = "dispatch"
      <4>1. DispatchJob(w) /\ tasks = next_bucket
        BY <3>1 DEF Calls, OnceCall
      <4>2. inputs # Worker /\ next_size \in Nat /\ dealt \in Nat /\ dealt' = dealt + next_size
        BY <4>1, NextBucket DEF DispatchJob, TypeOK
      <4>3. Dealt = 1 .. dealt /\ Dealt' = 1 .. dealt'
        BY <1>2, <2>2, <3>1, <4>2 DEF Dealt
      <4>4. tasks = dealt + 1 .. dealt + next_size
        BY <4>1 DEF next_bucket
      <4> QED BY <4>2, <4>3, <4>4
    <3>2. CASE mpc = "once"
      <4>1. tasks = {w}
        BY <3>2 DEF Calls, DispatchJob
      <4> QED BY <1>0, <1>2, <2>2, <3>2, <4>1 DEF Dealt
    <3> QED BY <1>0, <3>1, <3>2
  <2>5. mpc \in Calling
    BY <1>0 DEF Calling
  <2>6. \A v \in (handles \cup readys) \cup {w} : \A t \in Tasks(v)' : merged[t] = 0 /\ t \in Dealt'
    BY <1>0, <2>1, <2>2, <2>3, <2>4, <2>5 DEF TasksInv
  <2>7. \A u, v \in (handles \cup readys) \cup {w} : u # v => Tasks(u)' \cap Tasks(v)' = {}
    BY <2>1, <2>2, <2>3, <2>4, <2>5 DEF TasksInv
  <2>8. \A t \in Task : t \notin Dealt' => merged[t] = 0
    BY <2>4, <2>5 DEF TasksInv
  <2>9. \A t \in Task : t \in Dealt' => merged[t] = 1 \/ (merged[t] = 0 /\ Waiting(t)')
    <3>1. \A t \in Task : Waiting(t) \/ t \in tasks => Waiting(t)'
      BY <2>2, <2>3 DEF Waiting
    <3> QED BY <2>4, <2>5, <3>1 DEF TasksInv
  <2> QED BY <2>2, <2>6, <2>7, <2>8, <2>9 DEF TasksInv
<1> QED
  BY <1>1, <1>2

LEMMA ResultTasksInv ==
  ASSUME TypeOK, PipeInv, MasterInv, TasksInv, NEW w \in Worker, get_result(w) PROVE TasksInv'
<1>1. CASE mpc' \in Exceptions
  BY <1>1 DEF TasksInv, Exceptions, Calling
<1>2. CASE mpc' \notin Exceptions
  <2>1. /\ mpc = "merge" /\ w \in readys
        /\ readys' = readys \ {w}
        /\ UNCHANGED <<mpc, inputs, dealt, free, handles>>
        /\ response[w] # <<>>
        /\ merged' = [t \in Task |-> IF t \in Head(response[w]).tasks THEN merged[t] + 1 ELSE merged[t]]
    BY <1>2, ResultRead DEF callVars, Exceptions
  <2>2. Outstanding(w) /\ Tasks(w) = Head(response[w]).tasks
    BY <2>1, ResultMessage
  <2>3. handles \cup readys \subseteq Worker /\ w \notin handles
    BY <2>1 DEF TypeOK, MasterInv, Calling
  <2>4. handles' \cup readys' = (handles \cup readys) \ {w}
    BY <2>1, <2>3
  <2>5. \A v \in handles' \cup readys' : (Outstanding(v)' <=> Outstanding(v)) /\ Tasks(v)' = Tasks(v)
    BY <2>3, <2>4, ResultMessage
  <2>6. Dealt' = Dealt
    BY <2>1 DEF Dealt
  <2>7. mpc \in Calling
    BY <2>1 DEF Calling
  <2>8. \A t \in Task : merged'[t] = IF t \in Tasks(w) THEN merged[t] + 1 ELSE merged[t]
    BY <2>1, <2>2
  <2>9. \A v \in handles' \cup readys' : \A t \in Tasks(v) : t \notin Tasks(w) /\ t \in Task
    <3>1. \A v \in handles' \cup readys' : Tasks(v) \cap Tasks(w) = {}
      BY <2>1, <2>4, <2>7 DEF TasksInv
    <3>2. \A v \in handles \cup readys : \A t \in Tasks(v) : t \in Dealt
      BY <2>7 DEF TasksInv
    <3>3. Dealt \subseteq Task
      <4>1. CASE inputs = Worker
        BY <2>1, <4>1 DEF Dealt, Task
      <4>2. CASE inputs # Worker
        <5>1. inputs = 1 .. Cardinality(inputs) /\ inputs \subseteq Task /\ Cardinality(inputs) \in Nat
          BY <4>2, InputsCounted
        <5>2. Dealt = 1 .. dealt /\ dealt <= Cardinality(inputs) /\ dealt \in Nat
          BY <2>1, <4>2 DEF Dealt, MasterInv, Dealing, TypeOK
        <5> QED BY <5>1, <5>2
      <4> QED BY <4>1, <4>2
    <3> QED BY <2>4, <3>1, <3>2, <3>3
  <2>10. \A v \in handles' \cup readys' : \A t \in Tasks(v)' : merged'[t] = 0 /\ t \in Dealt'
    BY <2>4, <2>5, <2>6, <2>7, <2>8, <2>9 DEF TasksInv
  <2>11. \A u, v \in handles' \cup readys' : u # v => Tasks(u)' \cap Tasks(v)' = {}
    BY <2>4, <2>5, <2>7 DEF TasksInv
  <2>12. \A t \in Task : t \notin Dealt' => merged'[t] = 0
    BY <2>1, <2>6, <2>7, <2>8 DEF TasksInv
  <2>13. \A t \in Task : t \in Dealt' => merged'[t] = 1 \/ (merged'[t] = 0 /\ Waiting(t)')
    <3> SUFFICES ASSUME NEW t \in Task, t \in Dealt PROVE merged'[t] = 1 \/ (merged'[t] = 0 /\ Waiting(t)')
      BY <2>6
    <3>1. CASE t \in Tasks(w)
      <4>1. merged[t] = 0
        BY <2>1, <2>7, <3>1 DEF TasksInv
      <4> QED BY <2>8, <3>1, <4>1
    <3>2. CASE t \notin Tasks(w)
      <4>1. merged'[t] = merged[t]
        BY <2>8, <3>2
      <4>2. CASE merged[t] = 1
        BY <4>1, <4>2
      <4>3. CASE merged[t] = 0 /\ Waiting(t)
        <5>1. PICK v \in handles \cup readys : t \in Tasks(v) \/ ~ Outstanding(v)
          BY <4>3 DEF Waiting
        <5>2. v # w
          BY <2>2, <3>2, <5>1
        <5>3. v \in handles' \cup readys'
          BY <2>4, <5>2
        <5>4. Waiting(t)'
          BY <2>5, <5>1, <5>3 DEF Waiting
        <5> QED BY <4>1, <4>3, <5>4
      <4> QED BY <2>7, <4>2, <4>3 DEF TasksInv
    <3> QED BY <3>1, <3>2
  <2> QED BY <2>10, <2>11, <2>12, <2>13 DEF TasksInv
<1> QED
  BY <1>1, <1>2

LEMMA MovesTasksInv ==
  ASSUME TypeOK, PipeInv, TasksInv, NEW w \in Worker, WorkerMoves(w) PROVE TasksInv'
<1> SUFFICES ASSUME mpc \in Calling \cup {"returned"} PROVE TasksInv'
  BY WorkerMovesMaster DEF TasksInv, master
<1>1. UNCHANGED <<mpc, inputs, dealt, free, handles, readys, merged>>
  BY WorkerMovesMaster DEF master, callVars
<1>2. handles \cup readys \subseteq Worker
  BY DEF TypeOK
<1>3. Dealt' = Dealt
  BY <1>1 DEF Dealt
<1>4. \A v \in handles \cup readys :
        \/ Outstanding(v) /\ Outstanding(v)' /\ Tasks(v)' = Tasks(v)
        \/ ~ Outstanding(v)' /\ Tasks(v)' = {}
  BY <1>2, MessageMoves DEF Tasks
<1>5. \A t \in Task : Waiting(t) => Waiting(t)'
  BY <1>1, <1>4 DEF Waiting
<1>6. \A v \in handles \cup readys : Tasks(v)' \subseteq Tasks(v)
  BY <1>4
<1>7. \A v \in handles \cup readys : \A t \in Tasks(v)' : merged[t] = 0 /\ t \in Dealt
  BY <1>6 DEF TasksInv
<1>8. \A u, v \in handles \cup readys : u # v => Tasks(u)' \cap Tasks(v)' = {}
  BY <1>6 DEF TasksInv
<1> QED
  BY <1>1, <1>3, <1>5, <1>7, <1>8 DEF TasksInv

LEMMA NextTasksInv ==
  ASSUME TypeOK, PipeInv, MasterInv, TasksInv, [Next]_vars PROVE TasksInv'
<1>1. CASE UNCHANGED vars
  <2>1. UNCHANGED <<mpc, inputs, dealt, free, handles, readys, merged>> /\ UNCHANGED <<request, response, workers>>
    BY <1>1 DEF vars, master, callVars
  <2>2. \A v \in handles \cup readys : (Outstanding(v)' <=> Outstanding(v)) /\ Tasks(v)' = Tasks(v)
    BY <2>1, PipesKept DEF TypeOK
  <2>3. Dealt' = Dealt /\ \A t \in Task : Waiting(t)' <=> Waiting(t)
    BY <2>1, <2>2 DEF Dealt, Waiting
  <2> QED BY <2>1, <2>2, <2>3 DEF TasksInv
<1>2. CASE map_reduce \/ once_per_worker
  <2>1. /\ dealt' = 0 /\ free' = Worker /\ handles' = {} /\ readys' = {}
        /\ merged' = [t \in Task |-> 0]
        /\ \/ mpc' = "dispatch" /\ \E n \in TaskCounts : inputs' = 1 .. n
           \/ mpc' = "once" /\ inputs' = Worker
    BY <1>2, CallBegins
  <2>2. Dealt' = {}
    <3>1. \A n \in TaskCounts : 1 .. n # Worker
      BY PoolAssumption
    <3> QED BY <2>1, <3>1 DEF Dealt
  <2> QED BY <2>1, <2>2 DEF TasksInv
<1>3. ASSUME NEW w \in Worker, kill(w) PROVE TasksInv'
  BY <1>3 DEF kill, master, TasksInv, Calling
<1> QED
  BY <1>1, <1>2, <1>3, ControlTasksInv, CallsTasksInv, ResultTasksInv, MovesTasksInv, NextCases

-----------------------------------------------------------------------------
(* The invariant, and that it is one. *)
Inv == TypeOK /\ PoolInv

LEMMA InvHolds == Spec => []Inv
<1>1. Init => Inv
  BY InitTypeOK, InitMasterInv, InitMessageInv, InitOnceInv, InitQuietInv, InitTasksInv DEF Inv, PoolInv
<1>2. Inv /\ [Next]_vars => Inv'
  BY NextTypeOK, NextMasterInv, NextMessageInv, NextOnceInv, NextQuietInv, NextTasksInv DEF Inv, PoolInv
<1> QED
  BY <1>1, <1>2, PTL DEF Spec

(***************************************************************************)
(* map_reduce and once_per_worker return only when every input has been    *)
(* merged exactly once: no chunk is lost with a dead worker, dealt twice   *)
(* or merged twice, for every policy, pool and interleaving.               *)
(***************************************************************************)
THEOREM TasksMergedOnce == Spec => []EachTaskOnce
<1>1. Inv => EachTaskOnce
  <2> SUFFICES ASSUME Inv, mpc = "returned", NEW t \in Task
               PROVE  merged[t] = (IF t \in inputs THEN 1 ELSE 0)
    BY DEF EachTaskOnce
  <2>1. handles = {} /\ readys = {} /\ dealt = Cardinality(inputs)
    BY DEF Inv, PoolInv, MasterInv
  <2>2. Dealt = inputs
    BY <2>1, InputsCounted DEF Inv, Dealt
  <2>3. ~ Waiting(t)
    BY <2>1 DEF Waiting
  <2> QED BY <2>2, <2>3 DEF Inv, PoolInv, TasksInv
<1> QED
  BY <1>1, InvHolds, PTL

(***************************************************************************)
(* The answer that get_result reads is an answer to the current call: what *)
(* a call that raised left in a pipe is never merged by a later one,       *)
(* because its worker is still marked as busy.                             *)
(***************************************************************************)
THEOREM AnswersAreFresh == Spec => []NoStaleAnswer
<1>1. Inv => NoStaleAnswer
  <2> SUFFICES ASSUME Inv, mpc = "merge", NEW w \in readys, response[w] # <<>>
               PROVE  Head(response[w]).call = call
    BY DEF NoStaleAnswer
  <2>1. w \in Worker /\ request[w] = <<>> /\ wpc[w] # "job"
    BY DEF Inv, TypeOK, PoolInv, PipeInv
  <2>2. Outstanding(w) /\ Message(w) = Head(response[w])
    BY <2>1 DEF Outstanding, Message
  <2> QED BY <2>2 DEF Inv, PoolInv, MessageInv, Calling
<1> QED
  BY <1>1, InvHolds, PTL

(***************************************************************************)
(* Unless a job fails or a process dies, no call raises, and destroy finds *)
(* no child at work.                                                       *)
(***************************************************************************)
THEOREM FailuresHaveCauses == Spec => []NoSpuriousFailure
<1>1. Inv => NoSpuriousFailure
  BY DEF Inv, PoolInv, QuietInv, NoSpuriousFailure
<1> QED
  BY <1>1, InvHolds, PTL

(***************************************************************************)
(* When once_per_worker has returned, no child is at work and no request   *)
(* is waiting, not even one left by a call that raised: the heap may be    *)
(* compacted.                                                              *)
(***************************************************************************)
THEOREM CollectsAlone == Spec => []CollectAlone
<1>1. Inv => CollectAlone
  BY DEF Inv, PoolInv, MasterInv, OnceInv, CollectAlone
<1> QED
  BY <1>1, InvHolds, PTL

=============================================================================

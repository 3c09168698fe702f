----------------------------- MODULE MCWorkerPool -----------------------------
(***************************************************************************)
(* A pool of two workers; no task, or four, which the policies cut into    *)
(* chunks of one (a worker gets a second one), of two, of three (the last  *)
(* chunk is short) and of five (one job for all).                          *)
(***************************************************************************)
EXTENDS WorkerPool

CONSTANTS w1, w2

MCWorker == {w1, w2}

===============================================================================

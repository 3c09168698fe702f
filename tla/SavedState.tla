------------------------------ MODULE SavedState ------------------------------
(***************************************************************************)
(* Sessions of the server (server/start.ml, server/serverState.ml,         *)
(* service/memory.ml).  A server may write its shared memory and its       *)
(* dependency table to a file; a later one starts from that file, is told  *)
(* which files have changed since, and updates itself, or finds the file   *)
(* unusable and starts from nothing, or does not start.                    *)
(***************************************************************************)
EXTENDS EnvironmentStack

CONSTANT MaxSessions \* bound: starts of the server

VARIABLES
  saved,    \* the file, or NULL
  sessions

savedVars == <<saved, sessions>>
allVars == <<vars, savedVars>>

SavedInit ==
  /\ Init
  /\ saved = NULL /\ sessions = 1

(* ServerState.store writes everything; the query SaveServerState writes   *)
(* the shared memory as it is, without what the master keeps for itself.   *)
(* The files are at rest: what has changed since is known exactly.  What   *)
(* the server does until it ends does not concern the next one, files may  *)
(* change until that one starts.                                           *)
SaveState ==
  /\ phase = "idle" /\ pending = {} /\ sessions < MaxSessions
  /\ loaded_edges = {}  \* save_dep_table_sqlite fails otherwise
  /\ \E complete \in BOOLEAN :
       saved' = [table |-> table, edges |-> edges, disk |-> disk, complete |-> complete,
                 registry |-> registry, tracked |-> tracked, lost |-> lost]
  /\ phase' = "stopped"
  /\ UNCHANGED <<fileVars, stackVars, tracked, parallel, layer, scope, invalidated, triggered, todo, work, sessions>>

Start == phase = "stopped" /\ sessions' = sessions + 1 /\ saved' = NULL

(* load_from_saved_state: shared memory, the decoder and the module tracker *)
(* as they were; the edges stay in the file.  The server goes on with an    *)
(* update for the files that have changed.                                  *)
LoadState ==
  /\ Start
  /\ saved.complete
  /\ table' = saved.table /\ old' = NoTable
  /\ edges' = {} /\ loaded_edges' = saved.edges
  /\ registry' = saved.registry /\ lost' = saved.lost /\ tracked' = saved.tracked
  /\ pending' = {m \in Modules : disk[m] # saved.disk[m]}
  /\ phase' = "idle"
  /\ UNCHANGED <<disk, changes, parallel, layer, scope, invalidated, triggered, todo, work>>

(* SavedStateLoadingFailure, or the configuration is not the stored one:   *)
(* reset_shared_memory and build_and_start_from_scratch.                   *)
FallBack ==
  /\ Start
  /\ ColdStart
  /\ UNCHANGED <<disk, changes, parallel, layer, scope, invalidated, triggered, work>>

(* get_exn in Serializer.load, a failure of tar or of sqlite: not caught. *)
DoesNotStart ==
  /\ Start
  /\ phase' = "down"
  /\ UNCHANGED <<fileVars, stackVars, tracked, parallel, layer, scope, invalidated, triggered, todo, work>>

SessionStep == SaveState \/ LoadState \/ FallBack \/ DoesNotStart

SavedNext == (Next /\ UNCHANGED savedVars) \/ SessionStep

SavedSpec == SavedInit /\ [][SavedNext]_allVars

===============================================================================

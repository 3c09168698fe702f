------------------------------ MODULE SavedImage ------------------------------
(***************************************************************************)
(* hh_save_table and hh_load_table (hack_parallel/heap/hh_shared.c): the   *)
(* hash table and the used part of the heap, which follows it in memory,   *)
(* are written in compressed chunks and read back by another process, at   *)
(* the same addresses.  Several sessions follow each other: a session may  *)
(* collect its heap or not, saves it, and the next one loads the file or   *)
(* finds it damaged and starts from an empty table.                        *)
(***************************************************************************)
EXTENDS HeapCollection

CONSTANTS
  LZ4_MAX_INPUT_SIZE, \* words of a chunk
  Revision,           \* what BuildInfo_kRevision may be: sequences of characters
  MaxLoads            \* bound: sessions after the first

ASSUME ChunkAssumption == LZ4_MAX_INPUT_SIZE \in Nat \ {0}

VARIABLES
  revision,    \* BuildInfo_kRevision of the running binary
  file,        \* the saved table, a sequence of cells; reads and writes are in order
  chunk_start, \* position in the image
  loads

fileVars == <<revision, file, chunk_start, loads>>
allVars == <<vars, fileVars>>

Magic == [kind |-> "magic"]
Saved(r) == [kind |-> "revision", of |-> r]
Lz4(ws) == [kind |-> "lz4", of |-> ws]
End == [kind |-> "lz4", of |-> <<>>]     \* compressed_size = 0

(* What lies between save_start() and *heap. *)
Image == field \o SubSeq(word, 1, heap - 1)

SavedInit ==
  /\ Init
  /\ revision \in Revision
  /\ file = <<>> /\ chunk_start = 1 /\ loads = 0

-----------------------------------------------------------------------------
(* hh_save_table, with the heap collected or, if it has little garbage, as it is *)

fwrite_header ==
  /\ Quiet /\ loads < MaxLoads
  /\ phase' = "save"
  /\ file' = <<Magic, Saved(revision)>>
  /\ chunk_start' = 1
  /\ UNCHANGED <<field, word, heap, i, src, dest, before, revision, loads>>

SaveChunk ==
  LET remaining == Len(Image) + 1 - chunk_start
      chunk_size == IF LZ4_MAX_INPUT_SIZE < remaining THEN LZ4_MAX_INPUT_SIZE ELSE remaining
  IN
  /\ phase = "save" /\ chunk_start <= Len(Image)
  /\ file' = Append(file, Lz4(SubSeq(Image, chunk_start, chunk_start + chunk_size - 1)))
  /\ chunk_start' = chunk_start + chunk_size
  /\ UNCHANGED <<vars, revision, loads>>

(* The result of fclose is not looked at: the last writes may be missing. *)
SaveEnd ==
  /\ phase = "save" /\ chunk_start > Len(Image)
  /\ phase' = "saved"
  /\ \E n \in 0 .. Len(file) + 1 : file' = SubSeq(Append(file, End), 1, n)
  /\ UNCHANGED <<field, word, heap, i, src, dest, before, revision, chunk_start, loads>>

-----------------------------------------------------------------------------

(* hh_shared_init, in a process that may run another binary. *)
hh_shared_init ==
  /\ phase = "saved"
  /\ phase' = "load"
  /\ field' = [s \in Slot |-> NULL] /\ word' = <<>> /\ heap' = 1
  /\ revision' \in Revision
  /\ chunk_start' = 1 /\ loads' = loads + 1
  /\ UNCHANGED <<i, src, dest, before, file>>

(* Taking a cell off the file; read_all asserts that there is one. *)
ReadCell(next) == file # <<>> /\ next /\ file' = Tail(file)

(* strncmp(revision, BuildInfo_kRevision, revlen) = 0 *)
HeaderFits == Len(file) >= 2 /\ IsPrefix(file[2].of, revision)

fread_header ==
  /\ phase = "load" /\ HeaderFits
  /\ file' = SubSeq(file, 3, Len(file))
  /\ phase' = "chunks"
  /\ UNCHANGED <<field, word, heap, i, src, dest, before, revision, chunk_start, loads>>

LoadChunk ==
  /\ phase = "chunks"
  /\ ReadCell(Head(file) # End)
  /\ LET chunk == Head(file).of
         end == chunk_start + Len(chunk)
     IN /\ field' = [s \in Slot |-> IF chunk_start <= s /\ s < end THEN chunk[s - chunk_start + 1] ELSE field[s]]
        /\ word' = [w \in 1 .. (IF end > Slots THEN end - 1 - Slots ELSE 0) |->
                     IF w <= Len(word) THEN word[w] ELSE chunk[w + Slots - chunk_start + 1]]
        /\ chunk_start' = end
  /\ UNCHANGED <<heap, phase, i, src, dest, before, revision, loads>>

(* mutant: the end of the file is as good as the terminator *)
LoadAnyEnd ==
  /\ phase = "chunks"
  /\ file \in {<<>>, <<End>>}
  /\ file' = <<>>
  /\ heap' = chunk_start - Slots
  /\ phase' = "mark" /\ i' = 1 /\ src' = 1 /\ dest' = 1
  /\ UNCHANGED <<field, word, before, revision, chunk_start, loads>>

(* *heap = chunk_start: the table is in use again. *)
LoadEnd ==
  /\ phase = "chunks"
  /\ ReadCell(Head(file) = End)
  /\ heap' = chunk_start - Slots
  /\ phase' = "mark" /\ i' = 1 /\ src' = 1 /\ dest' = 1
  /\ UNCHANGED <<field, word, before, revision, chunk_start, loads>>

(* mutant: among the chunks, read_all goes on at the end of the file *)
LoadFailsEarly ==
  /\ \/ phase = "load" /\ ~ HeaderFits /\ phase' = "failed"
     \/ phase = "chunks" /\ file = <<>> /\ phase' = phase
  /\ UNCHANGED <<field, word, heap, i, src, dest, before, fileVars>>

(* An assertion fails in read_all or on the revision. *)
LoadFails ==
  /\ \/ phase = "load" /\ ~ HeaderFits
     \/ phase = "chunks" /\ file = <<>>
  /\ phase' = "failed"
  /\ UNCHANGED <<field, word, heap, i, src, dest, before, fileVars>>

(* Memory.reset_shared_memory: a cold start with an empty table; the words *)
(* of the heap stay as they are.                                           *)
pyre_reset ==
  /\ phase = "failed"
  /\ field' = [s \in Slot |-> NULL] /\ heap' = 1
  /\ before' = [s \in Slot |-> NULL]
  /\ phase' = "mark" /\ i' = 1 /\ src' = 1 /\ dest' = 1
  /\ UNCHANGED <<word, fileVars>>

SaveStep == fwrite_header \/ SaveChunk \/ SaveEnd
LoadStep == hh_shared_init \/ fread_header \/ LoadChunk \/ LoadEnd \/ LoadFails \/ pyre_reset
Collect == Next /\ UNCHANGED fileVars

SavedNext == Collect \/ SaveStep \/ LoadStep

(* The calls are synchronous; every loop runs on. *)
SavedSpec ==
  /\ SavedInit /\ [][SavedNext]_allVars
  /\ WF_allVars(Collect) /\ WF_allVars(SaveChunk \/ SaveEnd \/ LoadStep)

-----------------------------------------------------------------------------

(***************************************************************************)
(* A collection that has begun ends, and a load ends, whatever is left of  *)
(* the file: with the whole image or with a failure and an empty table,    *)
(* and ValuesKept holds of either.                                         *)
(***************************************************************************)
LoopsEnd ==
  /\ phase = "move" ~> phase = "done"
  /\ phase = "load" ~> (phase = "mark" /\ i = 1)

===============================================================================

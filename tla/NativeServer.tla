---------------------------- MODULE NativeServer ----------------------------
(***************************************************************************)
(* The Bedrock server as Chunklet sees it: the columns it keeps resident,  *)
(* the ChunkLoadEvents it still owes the plugin, the server thread's       *)
(* LevelDB write batch and the database behind it.  None of this code is   *)
(* in the repository; every operator is modelled from the way              *)
(* native/chunk_source.cpp, render/job.cpp and the plugin's event handler  *)
(* use it.                                                                 *)
(***************************************************************************)
EXTENDS FiniteSets

CONSTANTS
  Columns,      \* the columns of the world: <<dimension, position>> pairs
  Frontier,     \* Frontier[c]: the columns that must be resident before c
                \* can leave generation (light and post-processing)
  Visited,      \* the columns that users other than Chunklet request
  Faults        \* the native failures the server may show, a subset of
                \* FaultKinds

(***************************************************************************)
(* null: a request returns a null chunk.  throw: a native call throws.     *)
(* early: ChunkLoadEvent for a column below the loaded state.  crash: the  *)
(* process dies at any point.                                              *)
(***************************************************************************)
FaultKinds == {"null", "throw", "early", "crash"}

ASSUME ServerAssumption ==
  /\ \A c \in Columns : c = <<c[1], c[2]>>
  /\ Frontier \in [Columns -> SUBSET Columns]
  /\ Visited \subseteq Columns
  /\ Faults \subseteq FaultKinds

VARIABLES
  chunk,        \* native state of each column
  announce,     \* loaded columns whose ChunkLoadEvent has not been emitted
  batch,        \* finalized records in the server thread's write batch
  db            \* finalized records in LevelDB

serverVars == <<chunk, announce, batch, db>>

(***************************************************************************)
(* kLoadedState is "loaded"; every smaller state is "generating"; a column *)
(* the server holds no chunk for is "absent".                              *)
(***************************************************************************)
ChunkState == {"absent", "generating", "loaded"}

ServerTypeOK ==
  /\ chunk \in [Columns -> ChunkState]
  /\ announce \subseteq Columns
  /\ batch \subseteq Columns
  /\ db \subseteq Columns

(* A fresh process over an existing database: nothing is resident.         *)
ServerInit ==
  /\ chunk = [c \in Columns |-> "absent"]
  /\ announce = {}
  /\ batch = {}
  /\ db = {}

-----------------------------------------------------------------------------
(* What the plugin asks of the server.                                     *)

(* getOrLoad in deferred mode: the column becomes resident at once and is   *)
(* generated later, by the server's workers.                               *)
ResidentAfterRequest(c) ==
  [chunk EXCEPT ![c] = IF @ = "absent" THEN "generating" ELSE @]

(* flushThreadBatch: every record of the thread's batch becomes durable.   *)
FlushThreadBatch ==
  /\ db' = db \cup batch
  /\ batch' = {}

-----------------------------------------------------------------------------
(* What the server does on its own.                                        *)

(* Another user of the world (a player, the spawn area) requests a column. *)
Visit(c) ==
  /\ c \in Visited
  /\ chunk[c] = "absent"
  /\ chunk' = ResidentAfterRequest(c)
  /\ UNCHANGED <<announce, batch, db>>

(* A worker finishes a column once its whole frontier is resident; the     *)
(* event follows later, on the server thread.                              *)
Generate(c) ==
  /\ chunk[c] = "generating"
  /\ \A n \in Frontier[c] : chunk[n] # "absent"
  /\ chunk' = [chunk EXCEPT ![c] = "loaded"]
  /\ announce' = announce \cup {c}
  /\ UNCHANGED <<batch, db>>

(* The server unloads a column nobody holds a reference to.                *)
Evict(c, leased) ==
  /\ c \notin leased
  /\ chunk[c] # "absent"
  /\ chunk' = [chunk EXCEPT ![c] = "absent"]
  /\ announce' = announce \ {c}
  /\ UNCHANGED <<batch, db>>

(* The server flushes its thread batch for reasons of its own.             *)
ServerFlush ==
  /\ batch # {}
  /\ FlushThreadBatch
  /\ UNCHANGED <<chunk, announce>>

(* The process ends: what is only in memory is gone, LevelDB stays.        *)
ServerRestart(lastBatch) ==
  /\ chunk' = [c \in Columns |-> "absent"]
  /\ announce' = {}
  /\ batch' = {}
  /\ db' = db \cup lastBatch
=============================================================================

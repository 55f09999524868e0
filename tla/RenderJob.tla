----------------------------- MODULE RenderJob -----------------------------
(***************************************************************************)
(* One render: the RenderJob class (render/job.cpp, render/persistence.cpp)*)
(* and the plugin handlers that drive it (plugin/commands.cpp and          *)
(* plugin/chunklet_plugin.cpp) on the server of NativeServer.              *)
(*                                                                         *)
(* Every handler runs on the server thread.  A handler that makes several  *)
(* native calls takes one step per call, because the server's workers go   *)
(* on generating columns, and the process may die, between two of them; pc *)
(* says where the server thread is, and only at "idle" can it enter        *)
(* another handler.                                                        *)
(*                                                                         *)
(* A definition whose comment starts with "Slip:" is no part of the model: *)
(* it is a mistake the definition after it could hold, kept to show which  *)
(* property would notice.                                                  *)
(***************************************************************************)
EXTENDS NativeServer, PlanPromise

CONSTANTS
  Plans,        \* the renders the console may start
  FlushBatch,   \* kFlushBatch: serialized columns per commit
  NoJob         \* job_ is empty

(* A plan is what handleStart computes before it creates the job.          *)
(* RenderPlan computes plans as PlanPromise says.                          *)
IsPlan(p) ==
  /\ WellPlanned(p)
  /\ \A i \in 1..Len(p.order) : <<p.dim, p.order[i]>> \in Columns

ColumnsOf(plan, S) == {<<plan.dim, p>> : p \in S}

ASSUME RenderAssumption ==
  /\ FlushBatch \in Nat \ {0}
  /\ \A p \in Plans : IsPlan(p)
  /\ NoJob \notin Plans
  /\ \A p \in Plans : ColumnsOf(p, p.target) # NoJob

VARIABLES
  enabled,      \* the plugin's event handlers are registered
  job,          \* job_: the plan of the active render, or NoJob
  cursor,       \* cursor_: positions requested so far
  active,       \* active_: positions leased and awaited
  loaded,       \* loaded_: positions leased and loaded
  completed,    \* completed_: targets counted
  pending,      \* persistence_pending_: serialized since the last commit
  awaiting,     \* awaiting_persistence_
  last,         \* last_: how the last render ended
  pc,           \* the server thread's place in the plugin's code
  caller        \* who called fill_window: "start" or "event"

jobVars == <<job, cursor, active, loaded, completed, pending, awaiting>>
vars == <<serverVars, jobVars, enabled, last, pc, caller>>

NoRun == [outcome |-> "none", plan |-> NoJob]
Outcomes == {"complete", "failed", "stopped"}

Column(p) == <<job.dim, p>>
Position(c) == c[2]
Leased == IF job = NoJob THEN {} ELSE ColumnsOf(job, active \cup loaded)

TypeOK ==
  /\ ServerTypeOK
  /\ enabled \in BOOLEAN
  /\ job \in Plans \cup {NoJob}
  /\ cursor \in Nat
  /\ job # NoJob => cursor <= Len(job.order)
  /\ completed \in Nat
  /\ pending \in 0..(FlushBatch - 1)
  /\ awaiting \in BOOLEAN
  /\ last \in [outcome : Outcomes, plan : Plans] \cup {NoRun}
  /\ pc \in {"idle", "begin", "fill", "finalize"}
  /\ caller \in {"start", "event"}

Init ==
  /\ ServerInit
  /\ enabled = TRUE
  /\ job = NoJob
  /\ cursor = 0
  /\ active = {}
  /\ loaded = {}
  /\ completed = 0
  /\ pending = 0
  /\ awaiting = FALSE
  /\ last = NoRun
  /\ pc = "idle"
  /\ caller = "start"

-----------------------------------------------------------------------------
(* Pieces of the handlers.                                                 *)

(* job_.reset(): the leases go with the job.                               *)
ResetJob ==
  /\ job' = NoJob
  /\ cursor' = 0
  /\ active' = {}
  /\ loaded' = {}
  /\ completed' = 0
  /\ pending' = 0
  /\ awaiting' = FALSE

(* The end of every render: snapshot to last_, then reset.  Records still  *)
(* in the write batch stay there.                                          *)
EndJob(outcome) ==
  /\ ResetJob
  /\ last' = [outcome |-> outcome, plan |-> job]
  /\ pc' = "idle"
  /\ UNCHANGED <<enabled, caller>>

(* Slip: the batch is committed one record too late.                       *)
BatchFullLate == pending = FlushBatch

(* persist: serialize into the thread's batch, and commit a full one.      *)
BatchFull == pending + 1 = FlushBatch

Persist(c) ==
  /\ pending' = IF BatchFull THEN 0 ELSE pending + 1
  /\ batch' = IF BatchFull THEN {} ELSE batch \cup {c}
  /\ db' = IF BatchFull THEN db \cup batch \cup {c} ELSE db

(* persist throws in serialize, or in the commit of a full batch.          *)
PersistThrows(c) ==
  /\ "throw" \in Faults
  /\ batch' \in {batch} \cup (IF BatchFull THEN {batch \cup {c}} ELSE {})
  /\ UNCHANGED db

(* Slip: a halo column is let go as soon as it is loaded.                  *)
AccountReleasingHalo(p) ==
  IF p \in job.target
    THEN /\ loaded' = loaded \cup {p}
         /\ Persist(Column(p))
         /\ completed' = completed + 1
    ELSE UNCHANGED <<loaded, batch, db, pending, completed>>

(* A leased column is loaded: count it, and persist it when it is a target.*)
Account(p) ==
  /\ loaded' = loaded \cup {p}
  /\ IF p \in job.target
       THEN Persist(Column(p)) /\ completed' = completed + 1
       ELSE UNCHANGED <<batch, db, pending, completed>>

-----------------------------------------------------------------------------
(* handleStart and RenderJob::start.                                       *)

HandleStart(plan) ==
  /\ enabled
  /\ pc = "idle"
  /\ job = NoJob
  /\ job' = plan
  /\ pc' = "begin"
  /\ caller' = "start"
  /\ UNCHANGED <<serverVars, cursor, active, loaded, completed, pending,
                 awaiting, enabled, last>>

(* Slip: the batch is taken over with what an earlier render left in it.   *)
BeginWithoutFlush ==
  /\ pc = "begin"
  /\ pc' = "fill"
  /\ UNCHANGED <<serverVars, jobVars, enabled, last, caller>>

(* Flush what the thread's batch already holds, then take the batch over.  *)
BeginPersistence ==
  /\ pc = "begin"
  /\ FlushThreadBatch
  /\ pc' = "fill"
  /\ UNCHANGED <<chunk, announce, jobVars, enabled, last, caller>>

(* begin_persistence throws before the flush or after it.                  *)
BeginFails ==
  /\ pc = "begin"
  /\ "throw" \in Faults
  /\ FlushThreadBatch \/ UNCHANGED <<batch, db>>
  /\ EndJob("failed")
  /\ UNCHANGED <<chunk, announce>>

-----------------------------------------------------------------------------
(* fill_window: one request per step.                                      *)

WindowOpen == cursor < Len(job.order) /\ Cardinality(active) < job.window
NextPosition == job.order[cursor + 1]

(* The column was not loaded when the request returned: wait for its event.*)
RequestDeferred ==
  /\ pc = "fill"
  /\ WindowOpen
  /\ chunk[Column(NextPosition)] # "loaded"
  /\ chunk' = ResidentAfterRequest(Column(NextPosition))
  /\ cursor' = cursor + 1
  /\ active' = active \cup {NextPosition}
  /\ UNCHANGED <<announce, batch, db, job, loaded, completed, pending,
                 awaiting, enabled, last, pc, caller>>

(* Slip: a target that was already loaded is counted and not persisted.    *)
RequestPreloadedUnsaved ==
  /\ pc = "fill"
  /\ WindowOpen
  /\ chunk[Column(NextPosition)] = "loaded"
  /\ cursor' = cursor + 1
  /\ loaded' = loaded \cup {NextPosition}
  /\ completed' = completed + (IF NextPosition \in job.target THEN 1 ELSE 0)
  /\ awaiting' = (completed' = Cardinality(job.target))
  /\ UNCHANGED <<serverVars, job, active, pending, enabled, last, pc, caller>>

(* The column was already loaded: no event is awaited for it.              *)
RequestPreloaded ==
  /\ pc = "fill"
  /\ WindowOpen
  /\ chunk[Column(NextPosition)] = "loaded"
  /\ cursor' = cursor + 1
  /\ Account(NextPosition)
  /\ awaiting' = (completed' = Cardinality(job.target))
  /\ UNCHANGED <<chunk, announce, job, active, enabled, last, pc, caller>>

(* The request returns null or throws, or persisting the column throws.    *)
RequestFails ==
  /\ pc = "fill"
  /\ WindowOpen
  /\ LET c == Column(NextPosition) IN
       \/ /\ Faults \cap {"null", "throw"} # {}
          /\ UNCHANGED <<chunk, batch, db>>
       \/ /\ NextPosition \in job.target
          /\ chunk[c] = "loaded"
          /\ PersistThrows(c)
          /\ UNCHANGED chunk
  /\ EndJob("failed")
  /\ UNCHANGED <<announce>>

(* Slip: start's caller waits for an event in every case.                  *)
WindowFilledIdle ==
  /\ pc = "fill"
  /\ ~WindowOpen
  /\ pc' = "idle"
  /\ UNCHANGED <<serverVars, jobVars, enabled, last, caller>>

(* fill_window returns.  start's caller looks at awaiting_persistence_;    *)
(* on_chunk_loaded answers Progressed, and its caller does nothing.        *)
WindowFilled ==
  /\ pc = "fill"
  /\ ~WindowOpen
  /\ pc' = IF caller = "start" /\ awaiting THEN "finalize" ELSE "idle"
  /\ UNCHANGED <<serverVars, jobVars, enabled, last, caller>>

-----------------------------------------------------------------------------
(* onChunkLoad and RenderJob::on_chunk_loaded.                             *)

(* The server emits a ChunkLoadEvent for c.                                *)
Emits(c) ==
  /\ enabled
  /\ pc = "idle"
  /\ c \in announce \/ ("early" \in Faults /\ chunk[c] = "generating")
  /\ announce' = announce \ {c}

(* Slip: any leased column will do, loaded already or not.                 *)
AwaitedOrLoaded(c) ==
  /\ job # NoJob
  /\ c[1] = job.dim
  /\ ~awaiting
  /\ Position(c) \in active \cup loaded

(* Slip: the event's dimension is not compared with the job's.             *)
AwaitedAnywhere(c) ==
  /\ job # NoJob
  /\ ~awaiting
  /\ Position(c) \in active

(* The event is about a column this job still waits for.                   *)
Awaited(c) ==
  /\ job # NoJob
  /\ c[1] = job.dim
  /\ ~awaiting
  /\ Position(c) \in active

IgnoreChunkLoad(c) ==
  /\ Emits(c)
  /\ ~Awaited(c)
  /\ UNCHANGED <<chunk, batch, db, jobVars, enabled, last, pc, caller>>

(* Slip: the event is trusted without a look at the native state.          *)
ColumnLoadedUnchecked(c) ==
  /\ Emits(c)
  /\ Awaited(c)
  /\ Account(Position(c))
  /\ active' = active \ {Position(c)}
  /\ awaiting' = (completed' = Cardinality(job.target))
  /\ pc' = IF awaiting' THEN "finalize" ELSE "fill"
  /\ caller' = "event"
  /\ UNCHANGED <<chunk, job, cursor, enabled, last>>

ColumnLoaded(c) ==
  /\ Emits(c)
  /\ Awaited(c)
  /\ chunk[Column(Position(c))] = "loaded"
  /\ Account(Position(c))
  /\ active' = active \ {Position(c)}
  /\ awaiting' = (completed' = Cardinality(job.target))
  /\ pc' = IF awaiting' THEN "finalize" ELSE "fill"
  /\ caller' = "event"
  /\ UNCHANGED <<chunk, job, cursor, enabled, last>>

(* The event came before the loaded state, or persisting the target throws.*)
ColumnLoadFails(c) ==
  /\ Emits(c)
  /\ Awaited(c)
  /\ \/ /\ chunk[Column(Position(c))] # "loaded"
        /\ UNCHANGED <<batch, db>>
     \/ /\ chunk[Column(Position(c))] = "loaded"
        /\ Position(c) \in job.target
        /\ PersistThrows(Column(Position(c)))
  /\ EndJob("failed")
  /\ UNCHANGED chunk

OnChunkLoad(c) == IgnoreChunkLoad(c) \/ ColumnLoaded(c) \/ ColumnLoadFails(c)

-----------------------------------------------------------------------------
(* persistActive and RenderJob::finalize_persistence.                      *)

(* Slip: a last batch of a single record is taken for an empty one.        *)
FinalizeSkipsOne ==
  /\ pc = "finalize"
  /\ IF pending > 1 THEN FlushThreadBatch ELSE UNCHANGED <<batch, db>>
  /\ EndJob("complete")
  /\ UNCHANGED <<chunk, announce>>

FinalizePersistence ==
  /\ pc = "finalize"
  /\ IF pending # 0 THEN FlushThreadBatch ELSE UNCHANGED <<batch, db>>
  /\ EndJob("complete")
  /\ UNCHANGED <<chunk, announce>>

FinalizeFails ==
  /\ pc = "finalize"
  /\ "throw" \in Faults
  /\ pending # 0
  /\ EndJob("failed")
  /\ UNCHANGED serverVars

-----------------------------------------------------------------------------
(* handleStop, onDisable, and the end of the process.                      *)

HandleStop ==
  /\ enabled
  /\ pc = "idle"
  /\ job # NoJob
  /\ EndJob("stopped")
  /\ UNCHANGED serverVars

OnDisable ==
  /\ enabled
  /\ pc = "idle"
  /\ enabled' = FALSE
  /\ ResetJob
  /\ last' = IF job = NoJob THEN last ELSE [outcome |-> "stopped", plan |-> job]
  /\ UNCHANGED <<serverVars, pc, caller>>

(* A new process with a new plugin instance.                               *)
NewProcess ==
  /\ ResetJob
  /\ enabled' = TRUE
  /\ last' = NoRun
  /\ pc' = "idle"
  /\ caller' = "start"

(* The server stops after it disabled the plugin; its own shutdown flushes.*)
CleanRestart ==
  /\ ~enabled
  /\ ServerRestart(batch)
  /\ NewProcess

Crash ==
  /\ "crash" \in Faults
  /\ ServerRestart({})
  /\ NewProcess

-----------------------------------------------------------------------------
ServerThread ==
  \/ BeginPersistence
  \/ BeginFails
  \/ RequestDeferred
  \/ RequestPreloaded
  \/ RequestFails
  \/ WindowFilled
  \/ FinalizePersistence
  \/ FinalizeFails

ServerStep ==
  /\ \/ \E c \in Columns : Visit(c) \/ Generate(c) \/ Evict(c, Leased)
     \/ ServerFlush
  /\ UNCHANGED <<jobVars, enabled, last, pc, caller>>

Next ==
  \/ \E plan \in Plans : HandleStart(plan)
  \/ ServerThread
  \/ \E c \in Columns : OnChunkLoad(c)
  \/ HandleStop
  \/ OnDisable
  \/ CleanRestart
  \/ Crash
  \/ ServerStep

(***************************************************************************)
(* The server thread returns from a handler it is in; a worker finishes a  *)
(* column whose frontier stays resident; an event that is due is emitted.  *)
(* Nothing makes the console start or stop a render, a player visit a      *)
(* column, or a fault happen.                                              *)
(***************************************************************************)
Fairness ==
  /\ WF_vars(ServerThread)
  /\ \A c \in Columns :
       /\ WF_vars(Generate(c) /\ UNCHANGED <<jobVars, enabled, last, pc, caller>>)
       /\ WF_vars(c \in announce /\ OnChunkLoad(c))

Spec == Init /\ [][Next]_vars
FairSpec == Spec /\ Fairness

-----------------------------------------------------------------------------
(* Safety.                                                                 *)

Requested == {job.order[i] : i \in 1..cursor}
Serialized == job.target \cap loaded

(* "Complete" is only ever reported when every target column of that render *)
(* is in LevelDB, and stays true after it (finalize_persistence).          *)
CompleteIsDurable ==
  last.outcome = "complete" =>
    ColumnsOf(last.plan, last.plan.target) \subseteq db

(* While a render runs it holds a lease on everything it has requested,    *)
(* awaited and loaded apart, and no more columns are awaited than the      *)
(* window allows.                                                          *)
LeasesHeld ==
  job # NoJob =>
    /\ active \cup loaded = Requested
    /\ active \cap loaded = {}
    /\ Cardinality(active) <= job.window

(* completed_ is the number of targets loaded, whichever way each of them  *)
(* was found to be loaded, so each is counted once.                        *)
CountIsExact ==
  job # NoJob => completed = Cardinality(Serialized)

(* finalize_persistence skips the commit when persistence_pending_ is 0:   *)
(* then nothing this render serialized may be uncommitted; and the write   *)
(* batch never holds more records than the counter says.                   *)
PendingCoversBatch ==
  (job # NoJob /\ pc # "begin") =>
    /\ ColumnsOf(job, Serialized) \subseteq db \cup batch
    /\ Cardinality(batch) <= pending

(* A column is written as finalized only while it is in the loaded state,  *)
(* never half generated.                                                   *)
OnlyFinishedStored ==
  [][ \A c \in Columns :
        c \in (batch' \cup db') \ (batch \cup db) => chunk[c] = "loaded" ]_vars

(* A target is serialized at most once by a render: once it is leased as   *)
(* loaded, no later event or request writes it again.                      *)
SerializedOnce ==
  [][ \A p \in loaded :
        (job' = job /\ Column(p) \notin batch) => Column(p) \notin batch' ]_vars

(* Only a native fault makes a render fail.                                *)
NoFailureWithoutFault == Faults = {} => last.outcome # "failed"

(* No render is left waiting for an event when all its targets are in:     *)
(* awaiting_persistence_ makes on_chunk_loaded ignore every later event,   *)
(* so whoever sets it must be inside a handler that goes on to finalize.   *)
(* fill_window's own caller only looks at the flag on the way from start.  *)
NeverStranded == (job # NoJob /\ pc = "idle") => ~awaiting

-----------------------------------------------------------------------------
(* Liveness.                                                               *)

(* A render that is not stopped is reported: it never stays active for     *)
(* ever.  (True only when the window outgrows the columns that may never   *)
(* load: see the run that refutes it.)                                     *)
RenderEnds == job # NoJob ~> job = NoJob
-----------------------------------------------------------------------------
(* The render implements what the README promises of it.                   *)

RequestColumns(plan) ==
  IF plan = NoJob THEN NoJob ELSE ColumnsOf(plan, plan.target)

Promise == INSTANCE RenderPromise WITH
  Requests <- {RequestColumns(plan) : plan \in Plans},
  None <- NoJob,
  request <- RequestColumns(job),
  report <- [outcome |-> last.outcome, columns |-> RequestColumns(last.plan)],
  durable <- db

(* Every behaviour of the code is one the promise allows.                  *)
KeepsPromise == Promise!PromiseSpec
=============================================================================

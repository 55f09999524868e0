-------------------------- MODULE RenderJobProofs --------------------------
(***************************************************************************)
(* What RenderJob guarantees for every world, every set of plans, every    *)
(* batch size and every set of native faults.                              *)
(*                                                                         *)
(* The argument: completed_ counts the leased targets exactly (it is the   *)
(* size of a set of distinct positions, since positions_ never repeats     *)
(* one), so completed_ = target_.count() means that every target has been  *)
(* serialized; what is serialized is in the batch or in LevelDB; and       *)
(* persistence_pending_ bounds the batch, so a skipped commit has nothing  *)
(* to commit.                                                              *)
(***************************************************************************)
EXTENDS RenderJob, FiniteSetTheorems, TLAPS

-----------------------------------------------------------------------------
(* The inductive invariant.                                                *)

(* No render: nothing is left of the last one.                             *)
IdleInv ==
  job = NoJob =>
    /\ active = {} /\ loaded = {}
    /\ cursor = 0 /\ completed = 0 /\ pending = 0
    /\ awaiting = FALSE
    /\ pc = "idle"

(* A render that has not begun to request columns.                         *)
BeginInv ==
  pc = "begin" =>
    /\ job # NoJob
    /\ active = {} /\ loaded = {}
    /\ cursor = 0 /\ completed = 0 /\ pending = 0
    /\ awaiting = FALSE

FiniteInv ==
  /\ IsFiniteSet(active)
  /\ IsFiniteSet(loaded)
  /\ IsFiniteSet(batch)

(* The decision to finish is taken on a full count.                        *)
FinishInv ==
  (job # NoJob /\ (awaiting \/ pc = "finalize")) =>
    completed = Cardinality(job.target)

IInv ==
  /\ TypeOK
  /\ IdleInv
  /\ BeginInv
  /\ FiniteInv
  /\ FinishInv
  /\ LeasesHeld
  /\ CountIsExact
  /\ PendingCoversBatch
  /\ CompleteIsDurable

-----------------------------------------------------------------------------
(* Facts about finite sets and plans.                                      *)

(* A full count of the targets is all of them.                             *)
LEMMA FullCount ==
  ASSUME NEW T, NEW L, IsFiniteSet(T), Cardinality(T \cap L) = Cardinality(T)
  PROVE  T \subseteq L
<1>1. T \cap L \in SUBSET T
  OBVIOUS
<1>2. T = T \cap L
  BY <1>1, FS_Subset
<1>3. QED
  BY <1>2

(* The plan of an active render is a plan.                                 *)
LEMMA ActivePlan ==
  ASSUME TypeOK, job # NoJob
  PROVE  job \in Plans /\ IsPlan(job)
BY RenderAssumption DEF TypeOK

(* An empty batch is not a full one.                                       *)
LEMMA ZeroPending == 0 \in 0..(FlushBatch - 1)
BY RenderAssumption

(* The next position to request is a new one, and a column.                *)
LEMMA NextIsNew ==
  ASSUME TypeOK, LeasesHeld, job # NoJob, WindowOpen
  PROVE  /\ NextPosition \notin active \cup loaded
         /\ Column(NextPosition) \in Columns
         /\ cursor + 1 \in 1..Len(job.order)
         /\ {job.order[i] : i \in 1..(cursor + 1)} = Requested \cup {NextPosition}
<1>1. job \in Plans /\ IsPlan(job)
  BY ActivePlan
<1>2. cursor + 1 \in 1..Len(job.order) /\ cursor \in Nat
  BY <1>1 DEF TypeOK, WindowOpen, IsPlan, WellPlanned
<1>3. NextPosition \notin Requested
  <2>1. SUFFICES ASSUME NEW i \in 1..cursor, job.order[i] = job.order[cursor + 1]
                 PROVE  FALSE
    BY DEF NextPosition, Requested
  <2>2. i \in 1..Len(job.order) /\ i # cursor + 1
    BY <1>2
  <2>3. QED
    BY <1>1, <1>2, <2>1, <2>2 DEF IsPlan, WellPlanned
<1>4. Column(NextPosition) \in Columns
  BY <1>1, <1>2 DEF IsPlan, WellPlanned, Column, NextPosition
<1>5. {job.order[i] : i \in 1..(cursor + 1)} = Requested \cup {NextPosition}
  <2>1. 1..(cursor + 1) = (1..cursor) \cup {cursor + 1}
    BY <1>2
  <2>2. QED
    BY <2>1 DEF Requested, NextPosition
<1>6. QED
  BY <1>2, <1>3, <1>4, <1>5 DEF LeasesHeld

(* Accounting for a newly loaded column keeps the count exact and every    *)
(* serialized target in the batch or in LevelDB.                           *)
LEMMA AccountStep ==
  ASSUME IInv, job # NoJob, pc # "begin", job' = job,
         NEW p, p \notin loaded, Column(p) \in Columns, Account(p)
  PROVE  /\ loaded' = loaded \cup {p}
         /\ IsFiniteSet(loaded')
         /\ completed' \in Nat
         /\ completed' = Cardinality(Serialized')
         /\ pending' \in 0..(FlushBatch - 1)
         /\ batch' \subseteq Columns /\ IsFiniteSet(batch')
         /\ db' \subseteq Columns /\ db \subseteq db'
         /\ Cardinality(batch') <= pending'
         /\ ColumnsOf(job, Serialized') \subseteq db' \cup batch'
<1> USE DEF IInv
<1>1. /\ loaded' = loaded \cup {p}
      /\ IsFiniteSet(loaded')
  BY FS_AddElement DEF Account, FiniteInv
<1>2. /\ IsFiniteSet(Serialized)
      /\ completed = Cardinality(Serialized)
      /\ ColumnsOf(job, Serialized) \subseteq db \cup batch
      /\ Cardinality(batch) <= pending
      /\ IsFiniteSet(batch) /\ Cardinality(batch) \in Nat
      /\ pending \in 0..(FlushBatch - 1) /\ completed \in Nat
      /\ batch \subseteq Columns /\ db \subseteq Columns
  <2>1. IsFiniteSet(Serialized)
    BY FS_Subset DEF Serialized, FiniteInv
  <2>2. QED
    BY <2>1, FS_CardinalityType
       DEF CountIsExact, PendingCoversBatch, FiniteInv, TypeOK, ServerTypeOK
<1>3. CASE p \notin job.target
  <2>1. UNCHANGED <<batch, db, pending, completed>>
    BY <1>3 DEF Account
  <2>2. Serialized' = Serialized
    BY <1>1, <1>3 DEF Serialized
  <2>3. QED
    BY <1>1, <1>2, <2>1, <2>2
<1>4. CASE p \in job.target
  <2>1. /\ Persist(Column(p))
        /\ completed' = completed + 1
    BY <1>4 DEF Account
  <2>2. Serialized' = Serialized \cup {p} /\ p \notin Serialized
    BY <1>1, <1>4 DEF Serialized
  <2>3. completed' = Cardinality(Serialized') /\ completed' \in Nat
    <3>1. Cardinality(Serialized \cup {p}) = Cardinality(Serialized) + 1
      BY <1>2, <2>2, FS_AddElement
    <3>2. QED
      BY <1>2, <2>1, <2>2, <3>1
  <2>4. ColumnsOf(job, Serialized') = ColumnsOf(job, Serialized) \cup {Column(p)}
    BY <2>2 DEF ColumnsOf, Column
  <2>5. /\ IsFiniteSet(batch \cup {Column(p)})
        /\ Cardinality(batch \cup {Column(p)}) <= Cardinality(batch) + 1
        /\ Cardinality(batch \cup {Column(p)}) \in Nat
    BY <1>2, FS_AddElement, FS_CardinalityType
  <2>6. CASE BatchFull
    <3>1. pending' = 0 /\ batch' = {} /\ db' = db \cup batch \cup {Column(p)}
      BY <2>1, <2>6 DEF Persist
    <3>2. IsFiniteSet(batch') /\ Cardinality(batch') = 0
      BY <3>1, FS_EmptySet
    <3>3. pending' \in 0..(FlushBatch - 1)
      BY <3>1, RenderAssumption
    <3>4. QED
      BY <1>1, <1>2, <2>3, <2>4, <3>1, <3>2, <3>3
  <2>7. CASE ~BatchFull
    <3>1. /\ pending' = pending + 1
          /\ batch' = batch \cup {Column(p)}
          /\ db' = db
      BY <2>1, <2>7 DEF Persist
    <3>2. pending' \in 0..(FlushBatch - 1)
      BY <1>2, <2>7, <3>1, RenderAssumption DEF BatchFull
    <3>3. Cardinality(batch') <= pending'
      BY <1>2, <2>5, <3>1
    <3>4. QED
      BY <1>1, <1>2, <2>3, <2>4, <2>5, <3>1, <3>2, <3>3
  <2>8. QED
    BY <2>6, <2>7
<1>5. QED
  BY <1>3, <1>4

-----------------------------------------------------------------------------
(* One lemma per kind of step.                                             *)

(* A step that touches no plugin state and loses no record.                *)
LEMMA ServerKeepsInv ==
  ASSUME IInv, UNCHANGED <<jobVars, enabled, last, pc, caller>>,
         ServerTypeOK', IsFiniteSet(batch'),
         db \subseteq db', db \cup batch \subseteq db' \cup batch',
         batch' \subseteq batch
  PROVE  IInv'
<1> USE DEF IInv
<1>1. TypeOK' /\ IdleInv' /\ BeginInv' /\ FinishInv' /\ LeasesHeld' /\ CountIsExact'
  BY DEF TypeOK, IdleInv, BeginInv, FinishInv, LeasesHeld, Requested,
         CountIsExact, Serialized, jobVars
<1>2. FiniteInv'
  BY DEF FiniteInv, jobVars
<1>3. PendingCoversBatch'
  <2>1. Cardinality(batch') <= Cardinality(batch)
        /\ Cardinality(batch') \in Nat /\ Cardinality(batch) \in Nat
    BY FS_Subset, FS_CardinalityType DEF FiniteInv
  <2>2. QED
    BY <2>1 DEF PendingCoversBatch, Serialized, ColumnsOf, jobVars, TypeOK
<1>4. CompleteIsDurable'
  BY DEF CompleteIsDurable, ColumnsOf
<1>5. QED
  BY <1>1, <1>2, <1>3, <1>4

(* The end of a render, however it ends.                                   *)
LEMMA EndKeepsInv ==
  ASSUME IInv, job # NoJob, NEW outcome \in Outcomes, EndJob(outcome),
         ServerTypeOK', IsFiniteSet(batch'), db \subseteq db',
         outcome = "complete" => ColumnsOf(job, job.target) \subseteq db'
  PROVE  IInv'
<1> USE DEF IInv
<1>1. job' = NoJob /\ pc' = "idle" /\ enabled' = enabled /\ caller' = caller
      /\ active' = {} /\ loaded' = {} /\ cursor' = 0 /\ completed' = 0
      /\ pending' = 0 /\ awaiting' = FALSE
      /\ last' = [outcome |-> outcome, plan |-> job]
  BY DEF EndJob, ResetJob
<1>2. TypeOK'
  <2>1. last' \in [outcome : Outcomes, plan : Plans]
    BY <1>1, ActivePlan
  <2>2. QED
    BY <1>1, <2>1, ZeroPending DEF TypeOK
<1>3. IdleInv' /\ BeginInv' /\ FinishInv' /\ LeasesHeld' /\ CountIsExact'
      /\ PendingCoversBatch'
  BY <1>1 DEF IdleInv, BeginInv, FinishInv, LeasesHeld, CountIsExact,
              PendingCoversBatch
<1>4. FiniteInv'
  BY <1>1, FS_EmptySet DEF FiniteInv
<1>5. CompleteIsDurable'
  BY <1>1 DEF CompleteIsDurable
<1>6. QED
  BY <1>2, <1>3, <1>4, <1>5

(* A new process.                                                          *)
LEMMA RestartKeepsInv ==
  ASSUME IInv, NewProcess, ServerTypeOK', IsFiniteSet(batch')
  PROVE  IInv'
<1> USE DEF IInv
<1>1. job' = NoJob /\ pc' = "idle" /\ enabled' = TRUE /\ caller' = "start"
      /\ active' = {} /\ loaded' = {} /\ cursor' = 0 /\ completed' = 0
      /\ pending' = 0 /\ awaiting' = FALSE /\ last' = NoRun
  BY DEF NewProcess, ResetJob
<1>2. TypeOK'
  BY <1>1, ZeroPending DEF TypeOK
<1>3. IdleInv' /\ BeginInv' /\ FinishInv' /\ LeasesHeld' /\ CountIsExact'
      /\ PendingCoversBatch'
  BY <1>1 DEF IdleInv, BeginInv, FinishInv, LeasesHeld, CountIsExact,
              PendingCoversBatch
<1>4. FiniteInv'
  BY <1>1, FS_EmptySet DEF FiniteInv
<1>5. CompleteIsDurable'
  BY <1>1 DEF CompleteIsDurable, NoRun
<1>6. QED
  BY <1>2, <1>3, <1>4, <1>5

(* Flushing the batch loses nothing and leaves it empty.                   *)
LEMMA FlushFacts ==
  ASSUME IInv, FlushThreadBatch
  PROVE  /\ db' = db \cup batch /\ batch' = {}
         /\ batch' \subseteq Columns /\ db' \subseteq Columns
         /\ IsFiniteSet(batch') /\ Cardinality(batch') = 0
BY FS_EmptySet DEF IInv, TypeOK, ServerTypeOK, FlushThreadBatch

(* What one request does to the server's types.                            *)
LEMMA RequestType ==
  ASSUME ServerTypeOK, NEW c
  PROVE  ResidentAfterRequest(c) \in [Columns -> ChunkState]
<1>1. \A d \in Columns : ResidentAfterRequest(c)[d] \in ChunkState
  BY DEF ServerTypeOK, ResidentAfterRequest, ChunkState
<1>2. QED
  BY <1>1 DEF ServerTypeOK, ResidentAfterRequest

-----------------------------------------------------------------------------
(* The steps of a render.                                                  *)

LEMMA StartKeepsInv ==
  ASSUME IInv, NEW plan \in Plans, HandleStart(plan)
  PROVE  IInv'
<1> USE DEF IInv
<1>1. /\ job' = plan /\ job' # NoJob /\ job' \in Plans /\ pc' = "begin"
      /\ active' = {} /\ loaded' = {} /\ cursor' = 0 /\ completed' = 0
      /\ pending' = 0 /\ awaiting' = FALSE
      /\ UNCHANGED <<serverVars, enabled, last>> /\ caller' = "start"
  BY RenderAssumption DEF HandleStart, IdleInv
<1>2. IsPlan(plan)
  BY RenderAssumption
<1>3. TypeOK'
  <2>1. ServerTypeOK'
    BY <1>1 DEF TypeOK, ServerTypeOK, serverVars
  <2>2. cursor' \in Nat /\ cursor' <= Len(job'.order) /\ completed' \in Nat
    BY <1>1, <1>2 DEF IsPlan, WellPlanned
  <2>3. QED
    BY <1>1, <2>1, <2>2, ZeroPending DEF TypeOK
<1>4. IdleInv' /\ BeginInv' /\ FinishInv' /\ PendingCoversBatch'
  BY <1>1 DEF IdleInv, BeginInv, FinishInv, PendingCoversBatch
<1>5. FiniteInv'
  BY <1>1, FS_EmptySet DEF FiniteInv, serverVars
<1>6. LeasesHeld'
  <2>1. Requested' = {}
    BY <1>1 DEF Requested
  <2>2. Cardinality(active') <= job'.window
    BY <1>1, <1>2, FS_EmptySet DEF IsPlan, WellPlanned
  <2>3. QED
    BY <1>1, <2>1, <2>2 DEF LeasesHeld
<1>7. CountIsExact'
  BY <1>1, FS_EmptySet DEF CountIsExact, Serialized
<1>8. CompleteIsDurable'
  BY <1>1 DEF CompleteIsDurable, serverVars
<1>9. QED
  BY <1>3, <1>4, <1>5, <1>6, <1>7, <1>8

LEMMA BeginKeepsInv ==
  ASSUME IInv, BeginPersistence
  PROVE  IInv'
<1> USE DEF IInv
<1>1. /\ job # NoJob /\ pc' = "fill"
      /\ active = {} /\ loaded = {} /\ pending = 0 /\ awaiting = FALSE
      /\ UNCHANGED <<chunk, announce, jobVars, enabled, last, caller>>
      /\ FlushThreadBatch
  BY DEF BeginPersistence, BeginInv
<1>2. /\ db' = db \cup batch /\ batch' = {} /\ batch' \subseteq Columns
      /\ db' \subseteq Columns /\ IsFiniteSet(batch') /\ Cardinality(batch') = 0
  BY <1>1, FlushFacts
<1>3. TypeOK'
  BY <1>1, <1>2 DEF TypeOK, ServerTypeOK, jobVars
<1>4. IdleInv' /\ BeginInv' /\ FinishInv' /\ LeasesHeld' /\ CountIsExact'
  BY <1>1 DEF IdleInv, BeginInv, FinishInv, LeasesHeld, Requested,
              CountIsExact, Serialized, jobVars
<1>5. FiniteInv'
  BY <1>1, <1>2 DEF FiniteInv, jobVars
<1>6. PendingCoversBatch'
  BY <1>1, <1>2 DEF PendingCoversBatch, Serialized, ColumnsOf, jobVars
<1>7. CompleteIsDurable'
  BY <1>1, <1>2 DEF CompleteIsDurable
<1>8. QED
  BY <1>3, <1>4, <1>5, <1>6, <1>7

LEMMA DeferredKeepsInv ==
  ASSUME IInv, job # NoJob, RequestDeferred
  PROVE  IInv'
<1> USE DEF IInv
<1> DEFINE p == NextPosition
<1>1. /\ WindowOpen /\ pc = "fill"
      /\ chunk' = ResidentAfterRequest(Column(p))
      /\ cursor' = cursor + 1 /\ active' = active \cup {p}
      /\ UNCHANGED <<announce, batch, db, job, loaded, completed, pending,
                     awaiting, enabled, last, pc, caller>>
  BY DEF RequestDeferred
<1>2. /\ p \notin active \cup loaded
      /\ cursor + 1 \in 1..Len(job.order)
      /\ {job.order[i] : i \in 1..(cursor + 1)} = Requested \cup {p}
  BY <1>1, NextIsNew
<1>3. /\ IsFiniteSet(active') /\ Cardinality(active) \in Nat
      /\ Cardinality(active') = Cardinality(active) + 1
  BY <1>1, <1>2, FS_AddElement, FS_CardinalityType DEF FiniteInv
<1>4. TypeOK'
  <2>1. ServerTypeOK'
    BY <1>1, RequestType DEF TypeOK, ServerTypeOK
  <2>2. cursor' \in Nat /\ cursor' <= Len(job'.order)
    BY <1>1, <1>2 DEF TypeOK
  <2>3. QED
    BY <1>1, <2>1, <2>2 DEF TypeOK
<1>5. IdleInv' /\ BeginInv' /\ FinishInv' /\ PendingCoversBatch' /\ CountIsExact'
  BY <1>1 DEF IdleInv, BeginInv, FinishInv, PendingCoversBatch, CountIsExact,
              Serialized, ColumnsOf
<1>6. FiniteInv'
  BY <1>1, <1>3 DEF FiniteInv
<1>7. LeasesHeld'
  <2>1. Cardinality(active') <= job.window
    BY <1>1, <1>3, ActivePlan DEF WindowOpen, IsPlan, WellPlanned
  <2>2. Requested' = Requested \cup {p}
    BY <1>1, <1>2 DEF Requested
  <2>3. QED
    BY <1>1, <1>2, <2>1, <2>2 DEF LeasesHeld
<1>8. CompleteIsDurable'
  BY <1>1 DEF CompleteIsDurable, ColumnsOf
<1>9. QED
  BY <1>4, <1>5, <1>6, <1>7, <1>8

LEMMA PreloadedKeepsInv ==
  ASSUME IInv, job # NoJob, RequestPreloaded
  PROVE  IInv'
<1> USE DEF IInv
<1> DEFINE p == NextPosition
<1>1. /\ WindowOpen /\ pc = "fill" /\ pc' = pc
      /\ cursor' = cursor + 1 /\ Account(p)
      /\ awaiting' = (completed' = Cardinality(job.target))
      /\ UNCHANGED <<chunk, announce, job, active, enabled, last, caller>>
  BY DEF RequestPreloaded
<1>2. /\ p \notin active \cup loaded
      /\ Column(p) \in Columns
      /\ cursor + 1 \in 1..Len(job.order)
      /\ {job.order[i] : i \in 1..(cursor + 1)} = Requested \cup {p}
  BY <1>1, NextIsNew
<1>3. /\ loaded' = loaded \cup {p} /\ IsFiniteSet(loaded')
      /\ completed' \in Nat /\ completed' = Cardinality(Serialized')
      /\ pending' \in 0..(FlushBatch - 1)
      /\ batch' \subseteq Columns /\ IsFiniteSet(batch')
      /\ db' \subseteq Columns /\ db \subseteq db'
      /\ Cardinality(batch') <= pending'
      /\ ColumnsOf(job, Serialized') \subseteq db' \cup batch'
  BY <1>1, <1>2, AccountStep
<1>4. TypeOK'
  <2>1. ServerTypeOK'
    BY <1>1, <1>3 DEF TypeOK, ServerTypeOK
  <2>2. cursor' \in Nat /\ cursor' <= Len(job'.order)
    BY <1>1, <1>2 DEF TypeOK
  <2>3. awaiting' \in BOOLEAN
    BY <1>1
  <2>4. QED
    BY <1>1, <1>3, <2>1, <2>2, <2>3 DEF TypeOK
<1>5. IdleInv' /\ BeginInv' /\ FinishInv'
  BY <1>1 DEF IdleInv, BeginInv, FinishInv
<1>6. PendingCoversBatch' /\ CountIsExact'
  BY <1>1, <1>3 DEF PendingCoversBatch, CountIsExact, ColumnsOf
<1>7. FiniteInv'
  BY <1>1, <1>3 DEF FiniteInv
<1>8. LeasesHeld'
  <2>1. Requested' = Requested \cup {p}
    BY <1>1, <1>2 DEF Requested
  <2>2. QED
    BY <1>1, <1>2, <1>3, <2>1 DEF LeasesHeld
<1>9. CompleteIsDurable'
  BY <1>1, <1>3 DEF CompleteIsDurable, ColumnsOf
<1>10. QED
  BY <1>4, <1>5, <1>6, <1>7, <1>8, <1>9

LEMMA FilledKeepsInv ==
  ASSUME IInv, job # NoJob, WindowFilled
  PROVE  IInv'
<1> USE DEF IInv
<1>1. /\ pc' \in {"idle", "finalize"} /\ pc = "fill"
      /\ pc' = "finalize" => awaiting
      /\ UNCHANGED <<serverVars, jobVars, enabled, last, caller>>
  BY DEF WindowFilled
<1>2. TypeOK' /\ IdleInv' /\ BeginInv' /\ FiniteInv' /\ LeasesHeld'
  BY <1>1 DEF TypeOK, ServerTypeOK, IdleInv, BeginInv, FiniteInv, LeasesHeld,
              Requested, jobVars, serverVars
<1>3. FinishInv' /\ CountIsExact' /\ PendingCoversBatch' /\ CompleteIsDurable'
  BY <1>1 DEF FinishInv, CountIsExact, Serialized, PendingCoversBatch,
              CompleteIsDurable, ColumnsOf, jobVars, serverVars
<1>4. QED
  BY <1>2, <1>3

(* An awaited position is leased, so it is a column and not yet loaded.    *)
LEMMA AwaitedFacts ==
  ASSUME IInv, NEW c \in Columns, Awaited(c)
  PROVE  LET p == Position(c) IN
         /\ job # NoJob /\ ~awaiting
         /\ p \in active /\ p \notin loaded
         /\ Column(p) \in Columns
         /\ pc # "begin"
<1> USE DEF IInv
<1> DEFINE p == Position(c)
<1>1. job # NoJob /\ ~awaiting /\ p \in active
  BY DEF Awaited
<1>2. p \in Requested /\ p \notin loaded
  BY <1>1 DEF LeasesHeld
<1>3. Column(p) \in Columns
  <2>1. PICK i \in 1..cursor : p = job.order[i]
    BY <1>2 DEF Requested
  <2>2. IsPlan(job) /\ i \in 1..Len(job.order)
    BY <1>1, <2>1, ActivePlan DEF TypeOK, IsPlan, WellPlanned
  <2>3. QED
    BY <2>1, <2>2 DEF IsPlan, WellPlanned, Column
<1>4. pc # "begin"
  BY <1>1 DEF BeginInv
<1>5. QED
  BY <1>1, <1>2, <1>3, <1>4

LEMMA LoadedKeepsInv ==
  ASSUME IInv, NEW c \in Columns, ColumnLoaded(c)
  PROVE  IInv'
<1> USE DEF IInv
<1> DEFINE p == Position(c)
<1>1. /\ Awaited(c) /\ pc = "idle" /\ announce' = announce \ {c}
      /\ Account(p) /\ active' = active \ {p}
      /\ awaiting' = (completed' = Cardinality(job.target))
      /\ pc' = (IF awaiting' THEN "finalize" ELSE "fill")
      /\ caller' = "event"
      /\ UNCHANGED <<chunk, job, cursor, enabled, last>>
  BY DEF ColumnLoaded, Emits
<1>2. /\ job # NoJob /\ p \in active /\ p \notin loaded
      /\ Column(p) \in Columns /\ pc # "begin"
  BY <1>1, AwaitedFacts
<1>3. /\ loaded' = loaded \cup {p} /\ IsFiniteSet(loaded')
      /\ completed' \in Nat /\ completed' = Cardinality(Serialized')
      /\ pending' \in 0..(FlushBatch - 1)
      /\ batch' \subseteq Columns /\ IsFiniteSet(batch')
      /\ db' \subseteq Columns /\ db \subseteq db'
      /\ Cardinality(batch') <= pending'
      /\ ColumnsOf(job, Serialized') \subseteq db' \cup batch'
  BY <1>1, <1>2, AccountStep
<1>4. /\ IsFiniteSet(active') /\ Cardinality(active') <= Cardinality(active)
      /\ Cardinality(active') \in Nat /\ Cardinality(active) \in Nat
  <2>1. active' \in SUBSET active
    BY <1>1
  <2>2. QED
    BY <2>1, FS_Subset, FS_CardinalityType DEF FiniteInv
<1>5. awaiting' \in BOOLEAN /\ pc' \in {"finalize", "fill"}
  BY <1>1
<1>6. TypeOK'
  <2>1. ServerTypeOK'
    BY <1>1, <1>3 DEF TypeOK, ServerTypeOK
  <2>2. QED
    BY <1>1, <1>3, <1>5, <2>1 DEF TypeOK
<1>7. IdleInv' /\ BeginInv' /\ FinishInv'
  BY <1>1, <1>2, <1>5 DEF IdleInv, BeginInv, FinishInv
<1>8. PendingCoversBatch' /\ CountIsExact'
  BY <1>1, <1>3 DEF PendingCoversBatch, CountIsExact, ColumnsOf
<1>9. FiniteInv'
  BY <1>3, <1>4 DEF FiniteInv
<1>10. LeasesHeld'
  <2>1. Requested' = Requested
    BY <1>1 DEF Requested
  <2>2. Cardinality(active') <= job.window
    BY <1>2, <1>4, ActivePlan DEF LeasesHeld, IsPlan, WellPlanned
  <2>3. QED
    BY <1>1, <1>2, <1>3, <2>1, <2>2 DEF LeasesHeld
<1>11. CompleteIsDurable'
  BY <1>1, <1>3 DEF CompleteIsDurable, ColumnsOf
<1>12. QED
  BY <1>6, <1>7, <1>8, <1>9, <1>10, <1>11

(* What a throwing persist leaves in the batch is a column of the world.   *)
LEMMA ThrowFacts ==
  ASSUME IInv, NEW c \in Columns, PersistThrows(c)
  PROVE  batch' \subseteq Columns /\ IsFiniteSet(batch') /\ db' = db
<1>1. batch' = batch \/ batch' = batch \cup {c}
  BY DEF PersistThrows
<1>2. batch \subseteq Columns /\ IsFiniteSet(batch)
  BY DEF IInv, TypeOK, ServerTypeOK, FiniteInv
<1>3. QED
  BY <1>1, <1>2, FS_AddElement DEF PersistThrows

(* Every failure ends the render as "failed".                              *)
LEMMA FailuresKeepInv ==
  ASSUME IInv,
         \/ BeginFails
         \/ job # NoJob /\ RequestFails
         \/ \E c \in Columns : ColumnLoadFails(c)
         \/ job # NoJob /\ FinalizeFails
  PROVE  IInv'
<1> USE DEF IInv
<1>a. "failed" \in Outcomes
  BY DEF Outcomes
<1>b. /\ chunk \in [Columns -> ChunkState] /\ announce \subseteq Columns
      /\ batch \subseteq Columns /\ db \subseteq Columns /\ IsFiniteSet(batch)
  BY DEF TypeOK, ServerTypeOK, FiniteInv
<1>1. CASE BeginFails
  <2>1. job # NoJob /\ EndJob("failed") /\ UNCHANGED <<chunk, announce>>
        /\ (FlushThreadBatch \/ UNCHANGED <<batch, db>>)
    BY <1>1 DEF BeginFails, BeginInv
  <2>2. batch' \subseteq Columns /\ IsFiniteSet(batch')
        /\ db' \subseteq Columns /\ db \subseteq db'
    BY <1>b, <2>1, FlushFacts
  <2>3. QED
    BY <1>a, <1>b, <2>1, <2>2, EndKeepsInv DEF ServerTypeOK
<1>2. CASE job # NoJob /\ RequestFails
  <2>1. EndJob("failed") /\ UNCHANGED <<chunk, announce>> /\ WindowOpen
        /\ (UNCHANGED <<batch, db>> \/ PersistThrows(Column(NextPosition)))
    BY <1>2 DEF RequestFails
  <2>2. Column(NextPosition) \in Columns
    BY <1>2, <2>1, NextIsNew
  <2>3. batch' \subseteq Columns /\ IsFiniteSet(batch') /\ db' = db
    BY <1>b, <2>1, <2>2, ThrowFacts
  <2>4. QED
    BY <1>a, <1>b, <1>2, <2>1, <2>3, EndKeepsInv DEF ServerTypeOK
<1>3. CASE \E c \in Columns : ColumnLoadFails(c)
  <2>1. PICK c \in Columns : ColumnLoadFails(c)
    BY <1>3
  <2>2. Awaited(c) /\ EndJob("failed") /\ UNCHANGED chunk
        /\ announce' = announce \ {c}
        /\ (UNCHANGED <<batch, db>> \/ PersistThrows(Column(Position(c))))
    BY <2>1 DEF ColumnLoadFails, Emits
  <2>3. job # NoJob /\ Column(Position(c)) \in Columns
    BY <2>2, AwaitedFacts
  <2>4. batch' \subseteq Columns /\ IsFiniteSet(batch') /\ db' = db
    BY <1>b, <2>2, <2>3, ThrowFacts
  <2>5. QED
    BY <1>a, <1>b, <2>2, <2>3, <2>4, EndKeepsInv DEF ServerTypeOK
<1>4. CASE job # NoJob /\ FinalizeFails
  <2>1. EndJob("failed") /\ UNCHANGED serverVars
    BY <1>4 DEF FinalizeFails
  <2>2. QED
    BY <1>a, <1>b, <1>4, <2>1, EndKeepsInv DEF ServerTypeOK, serverVars
<1>5. QED
  BY <1>1, <1>2, <1>3, <1>4

(* The final commit makes the last serialized targets durable, and when it *)
(* is skipped there are none.                                              *)
LEMMA FinalizeFacts ==
  ASSUME IInv, job # NoJob, FinalizePersistence
  PROVE  /\ ColumnsOf(job, job.target) \subseteq db'
         /\ db \subseteq db' /\ db' \subseteq Columns
         /\ batch' \subseteq Columns /\ IsFiniteSet(batch')
<1> USE DEF IInv
<1>1. pc = "finalize"
  BY DEF FinalizePersistence
<1>2. job.target \subseteq loaded
  <2>1. IsFiniteSet(job.target)
    BY ActivePlan DEF IsPlan, WellPlanned
  <2>2. Cardinality(job.target \cap loaded) = Cardinality(job.target)
    BY <1>1 DEF FinishInv, CountIsExact, Serialized
  <2>3. QED
    BY <2>1, <2>2, FullCount
<1>3. ColumnsOf(job, job.target) \subseteq db \cup batch
      /\ Cardinality(batch) <= pending
  <2>1. Serialized = job.target
    BY <1>2 DEF Serialized
  <2>2. QED
    BY <1>1, <2>1 DEF PendingCoversBatch
<1>4. CASE pending # 0
  <2>1. FlushThreadBatch
    BY <1>4 DEF FinalizePersistence
  <2>2. QED
    BY <1>3, <2>1, FlushFacts
<1>5. CASE pending = 0
  <2>1. UNCHANGED <<batch, db>>
    BY <1>5 DEF FinalizePersistence
  <2>2. batch = {}
    BY <1>3, <1>5, FS_EmptySet, FS_CardinalityType DEF FiniteInv
  <2>3. QED
    BY <1>3, <2>1, <2>2 DEF TypeOK, ServerTypeOK, FiniteInv
<1>6. QED
  BY <1>4, <1>5

LEMMA EndsKeepInv ==
  ASSUME IInv,
         \/ job # NoJob /\ FinalizePersistence
         \/ HandleStop
         \/ OnDisable
         \/ CleanRestart
         \/ Crash
  PROVE  IInv'
<1> USE DEF IInv
<1>a. "complete" \in Outcomes /\ "stopped" \in Outcomes
  BY DEF Outcomes
<1>b. /\ chunk \in [Columns -> ChunkState] /\ announce \subseteq Columns
      /\ batch \subseteq Columns /\ db \subseteq Columns /\ IsFiniteSet(batch)
  BY DEF TypeOK, ServerTypeOK, FiniteInv
<1>1. CASE job # NoJob /\ FinalizePersistence
  <2>1. EndJob("complete") /\ UNCHANGED <<chunk, announce>>
    BY <1>1 DEF FinalizePersistence
  <2>2. QED
    BY <1>a, <1>b, <1>1, <2>1, FinalizeFacts, EndKeepsInv DEF ServerTypeOK
<1>2. CASE HandleStop
  <2>1. job # NoJob /\ EndJob("stopped") /\ UNCHANGED serverVars
    BY <1>2 DEF HandleStop
  <2>2. QED
    BY <1>a, <1>b, <2>1, EndKeepsInv DEF ServerTypeOK, serverVars
<1>3. CASE OnDisable
  <2>1. /\ job' = NoJob /\ pc' = "idle" /\ enabled' = FALSE /\ caller' = caller
        /\ active' = {} /\ loaded' = {} /\ cursor' = 0 /\ completed' = 0
        /\ pending' = 0 /\ awaiting' = FALSE
        /\ UNCHANGED serverVars
        /\ last' = IF job = NoJob THEN last
                   ELSE [outcome |-> "stopped", plan |-> job]
    BY <1>3 DEF OnDisable, ResetJob
  <2>2. last' \in [outcome : Outcomes, plan : Plans] \cup {NoRun}
    BY <1>a, <2>1, ActivePlan DEF TypeOK
  <2>3. TypeOK'
    BY <1>b, <2>1, <2>2, ZeroPending DEF TypeOK, ServerTypeOK, serverVars
  <2>4. IdleInv' /\ BeginInv' /\ FinishInv' /\ LeasesHeld' /\ CountIsExact'
        /\ PendingCoversBatch'
    BY <2>1 DEF IdleInv, BeginInv, FinishInv, LeasesHeld, CountIsExact,
                PendingCoversBatch
  <2>5. FiniteInv'
    BY <1>b, <2>1, FS_EmptySet DEF FiniteInv, serverVars
  <2>6. CompleteIsDurable'
    BY <2>1 DEF CompleteIsDurable, ColumnsOf, serverVars
  <2>7. QED
    BY <2>3, <2>4, <2>5, <2>6
<1>4. ASSUME NEW S \in {batch, {}}, ServerRestart(S), NewProcess
      PROVE  IInv'
  <2>1. ServerTypeOK' /\ IsFiniteSet(batch')
    BY <1>b, <1>4, FS_EmptySet DEF ServerRestart, ServerTypeOK, ChunkState
  <2>2. QED
    BY <1>4, <2>1, RestartKeepsInv
<1>5. CASE CleanRestart
  BY <1>4, <1>5 DEF CleanRestart
<1>6. CASE Crash
  BY <1>4, <1>6 DEF Crash
<1>7. QED
  BY <1>1, <1>2, <1>3, <1>5, <1>6

LEMMA ServerStepKeepsInv ==
  ASSUME IInv, ServerStep
  PROVE  IInv'
<1> USE DEF IInv
<1>a. /\ chunk \in [Columns -> ChunkState] /\ announce \subseteq Columns
      /\ batch \subseteq Columns /\ db \subseteq Columns /\ IsFiniteSet(batch)
  BY DEF TypeOK, ServerTypeOK, FiniteInv
<1>b. UNCHANGED <<jobVars, enabled, last, pc, caller>>
  BY DEF ServerStep
<1>1. CASE ServerFlush
  <2>1. FlushThreadBatch /\ UNCHANGED <<chunk, announce>>
    BY <1>1 DEF ServerFlush
  <2>2. db' = db \cup batch /\ batch' = {} /\ IsFiniteSet(batch')
        /\ batch' \subseteq Columns /\ db' \subseteq Columns
    BY <2>1, FlushFacts
  <2>3. QED
    BY <1>a, <1>b, <2>1, <2>2, ServerKeepsInv DEF ServerTypeOK
<1>2. ASSUME NEW c \in Columns, Visit(c) \/ Generate(c) \/ Evict(c, Leased)
      PROVE  IInv'
  <2>1. UNCHANGED <<batch, db>>
    BY <1>2 DEF Visit, Generate, Evict
  <2>2. announce' \subseteq Columns
    BY <1>a, <1>2 DEF Visit, Generate, Evict
  <2>3. chunk' \in [Columns -> ChunkState]
    <3>1. CASE Visit(c)
      BY <3>1, RequestType DEF Visit, TypeOK
    <3>2. CASE Generate(c)
      BY <1>a, <3>2 DEF Generate, ChunkState
    <3>3. CASE Evict(c, Leased)
      BY <1>a, <3>3 DEF Evict, ChunkState
    <3>4. QED
      BY <1>2, <3>1, <3>2, <3>3
  <2>4. ServerTypeOK' /\ IsFiniteSet(batch')
    BY <1>a, <2>1, <2>2, <2>3 DEF ServerTypeOK
  <2>5. QED
    BY <1>b, <2>1, <2>4, ServerKeepsInv
<1>3. QED
  BY <1>1, <1>2 DEF ServerStep

LEMMA IgnoredKeepsInv ==
  ASSUME IInv, NEW c \in Columns, IgnoreChunkLoad(c)
  PROVE  IInv'
<1>1. /\ announce' = announce \ {c}
      /\ UNCHANGED <<chunk, batch, db>>
      /\ UNCHANGED <<jobVars, enabled, last, pc, caller>>
  BY DEF IgnoreChunkLoad, Emits
<1>2. ServerTypeOK' /\ IsFiniteSet(batch')
  BY <1>1 DEF IInv, TypeOK, ServerTypeOK, FiniteInv
<1>3. QED
  BY <1>1, <1>2, ServerKeepsInv

-----------------------------------------------------------------------------
(* The invariant holds initially and every step keeps it.                  *)

LEMMA InitInv == Init => IInv
<1> SUFFICES ASSUME Init PROVE IInv
  OBVIOUS
<1>1. TypeOK
  BY ZeroPending DEF Init, ServerInit, TypeOK, ServerTypeOK, ChunkState
<1>2. FiniteInv
  BY FS_EmptySet DEF Init, ServerInit, FiniteInv
<1>3. IdleInv /\ BeginInv /\ FinishInv /\ LeasesHeld /\ CountIsExact
      /\ PendingCoversBatch /\ CompleteIsDurable
  BY DEF Init, IdleInv, BeginInv, FinishInv, LeasesHeld, CountIsExact,
         PendingCoversBatch, CompleteIsDurable, NoRun
<1>4. QED
  BY <1>1, <1>2, <1>3 DEF IInv

(* Outside "idle" there is a render.                                       *)
LEMMA BusyHasJob ==
  ASSUME IInv, pc # "idle"
  PROVE  job # NoJob
BY DEF IInv, IdleInv

LEMMA NextInv == IInv /\ [Next]_vars => IInv'
<1> SUFFICES ASSUME IInv, [Next]_vars PROVE IInv'
  OBVIOUS
<1>1. ASSUME NEW plan \in Plans, HandleStart(plan) PROVE IInv'
  BY <1>1, StartKeepsInv
<1>2. CASE ServerThread
  <2>1. job # NoJob
    BY <1>2, BusyHasJob DEF ServerThread, BeginPersistence, BeginFails,
         RequestDeferred, RequestPreloaded, RequestFails, WindowFilled,
         FinalizePersistence, FinalizeFails
  <2>2. CASE BeginPersistence
    BY <2>2, BeginKeepsInv
  <2>3. CASE RequestDeferred
    BY <2>1, <2>3, DeferredKeepsInv
  <2>4. CASE RequestPreloaded
    BY <2>1, <2>4, PreloadedKeepsInv
  <2>5. CASE WindowFilled
    BY <2>1, <2>5, FilledKeepsInv
  <2>6. CASE FinalizePersistence
    BY <2>1, <2>6, EndsKeepInv
  <2>7. CASE BeginFails \/ RequestFails \/ FinalizeFails
    BY <2>1, <2>7, FailuresKeepInv
  <2>8. QED
    BY <1>2, <2>2, <2>3, <2>4, <2>5, <2>6, <2>7 DEF ServerThread
<1>3. ASSUME NEW c \in Columns, OnChunkLoad(c) PROVE IInv'
  BY <1>3, IgnoredKeepsInv, LoadedKeepsInv, FailuresKeepInv DEF OnChunkLoad
<1>4. CASE HandleStop \/ OnDisable \/ CleanRestart \/ Crash
  BY <1>4, EndsKeepInv
<1>5. CASE ServerStep
  BY <1>5, ServerStepKeepsInv
<1>6. CASE UNCHANGED vars
  BY <1>6, ServerKeepsInv DEF vars, serverVars, IInv, TypeOK, ServerTypeOK, FiniteInv
<1>7. QED
  BY <1>1, <1>2, <1>3, <1>4, <1>5, <1>6 DEF Next

(* The inductive invariant holds in every reachable state.                 *)
LEMMA Inductive == Spec => []IInv
BY InitInv, NextInv, PTL DEF Spec

(* The state of a render always has its type: in particular the number of  *)
(* pending records stays below a full batch.                               *)
THEOREM TypeCorrect == Spec => []TypeOK
<1>1. IInv => TypeOK
  BY DEF IInv
<1>2. QED
  BY <1>1, Inductive, PTL

(* A render reported as Complete has every target column in LevelDB.       *)
THEOREM CompleteIsAlwaysDurable == Spec => []CompleteIsDurable
<1>1. IInv => CompleteIsDurable
  BY DEF IInv
<1>2. QED
  BY <1>1, Inductive, PTL

(* completed_ counts each loaded target exactly once.                      *)
THEOREM CountIsAlwaysExact == Spec => []CountIsExact
<1>1. IInv => CountIsExact
  BY DEF IInv
<1>2. QED
  BY <1>1, Inductive, PTL

(* Nothing a render serialized is lost behind a skipped commit.            *)
THEOREM PendingAlwaysCovers == Spec => []PendingCoversBatch
<1>1. IInv => PendingCoversBatch
  BY DEF IInv
<1>2. QED
  BY <1>1, Inductive, PTL

(* A render holds a lease on all it has requested, within its window.      *)
THEOREM LeasesAlwaysHeld == Spec => []LeasesHeld
<1>1. IInv => LeasesHeld
  BY DEF IInv
<1>2. QED
  BY <1>1, Inductive, PTL

-----------------------------------------------------------------------------
(* A window that outgrows the halo never strands a render.                 *)
(*                                                                         *)
(* An event takes one column out of a full window, so while fill_window    *)
(* runs for it, at least window - 1 columns are awaited.  Were the last    *)
(* target found loaded by that fill_window, everything still awaited would *)
(* be halo requested before that target; there is less of it.              *)

(* The window is as full as the requests left allow: but for the column an *)
(* event has just brought in.                                              *)
WindowFull ==
  job # NoJob =>
    /\ pc = "idle" => (cursor = Len(job.order) \/ Cardinality(active) >= job.window)
    /\ (pc = "fill" /\ caller = "event") =>
         \/ cursor = Len(job.order)
         \/ (Cardinality(active) + 1 >= job.window /\ job.window < Len(job.order))

(* fill_window on behalf of an event still has targets to wait for.        *)
TargetsMissing ==
  (job # NoJob /\ pc = "fill" /\ caller = "event") =>
    completed # Cardinality(job.target)

(* Only start's fill_window begins with an empty window.                   *)
BegunByStart == pc = "begin" => caller = "start"

WindowInv == WindowFull /\ TargetsMissing /\ NeverStranded /\ BegunByStart

(* The halo ahead of the targets is finite.                                *)
LEMMA HaloFinite ==
  ASSUME NEW plan, IsPlan(plan)
  PROVE  /\ IsFiniteSet({plan.order[i] : i \in 1..Len(plan.order)})
         /\ Cardinality({plan.order[i] : i \in 1..Len(plan.order)}) <= Len(plan.order)
         /\ IsFiniteSet(HaloAhead(plan))
<1> DEFINE n == Len(plan.order)
           planned == {plan.order[i] : i \in 1..n}
           f == [i \in 1..n |-> plan.order[i]]
<1>1. n \in Nat /\ IsFiniteSet(1..n) /\ Cardinality(1..n) = n
  <2>1. n \in Nat
    BY DEF IsPlan, WellPlanned
  <2>2. QED
    BY <2>1, FS_Interval
<1>2. f \in Surjection(1..n, planned)
  BY DEF Surjection
<1>3. IsFiniteSet(planned) /\ Cardinality(planned) <= n
  BY <1>1, <1>2, FS_Surjection
<1>4. HaloAhead(plan) \subseteq planned
  BY DEF HaloAhead
<1>5. QED
  BY <1>3, <1>4, FS_Subset

(* No more positions are awaited than were requested.                      *)
LEMMA AwaitedWereRequested ==
  ASSUME IInv, job # NoJob
  PROVE  Cardinality(active) <= cursor
<1> USE DEF IInv
<1> DEFINE f == [i \in 1..cursor |-> job.order[i]]
<1>1. cursor \in Nat /\ IsFiniteSet(1..cursor) /\ Cardinality(1..cursor) = cursor
  <2>1. cursor \in Nat
    BY DEF TypeOK
  <2>2. QED
    BY <2>1, FS_Interval
<1>2. f \in Surjection(1..cursor, Requested)
  BY DEF Surjection, Requested
<1>3. IsFiniteSet(Requested) /\ Cardinality(Requested) <= cursor
  BY <1>1, <1>2, FS_Surjection
<1>4. active \subseteq Requested
  BY DEF LeasesHeld
<1>5. /\ Cardinality(active) <= Cardinality(Requested)
      /\ Cardinality(active) \in Nat /\ Cardinality(Requested) \in Nat
  BY <1>3, <1>4, FS_Subset, FS_CardinalityType
<1>6. QED
  BY <1>1, <1>3, <1>5

(* The case the window rules out: a fill_window for an event does not find *)
(* the last target already loaded.                                         *)
LEMMA LastTargetAwaited ==
  ASSUME IInv, WindowInv, \A plan \in Plans : WindowOutgrows(plan),
         job # NoJob, RequestPreloaded, caller = "event"
  PROVE  completed' # Cardinality(job.target)
<1> USE DEF IInv
<1> DEFINE p == NextPosition
           halo == HaloAhead(job)
<1>1. SUFFICES ASSUME completed' = Cardinality(job.target) PROVE FALSE
  OBVIOUS
<1>2. /\ WindowOpen /\ pc = "fill" /\ job' = job /\ Account(p)
  BY DEF RequestPreloaded
<1>3. /\ p \notin active \cup loaded /\ Column(p) \in Columns
      /\ cursor + 1 \in 1..Len(job.order)
  BY <1>2, NextIsNew
<1>4. /\ loaded' = loaded \cup {p}
      /\ completed' = Cardinality(Serialized')
  BY <1>2, <1>3, AccountStep
<1>5. job \in Plans /\ IsPlan(job)
  BY ActivePlan
<1>6. job.target \subseteq loaded \cup {p}
  BY <1>1, <1>2, <1>4, <1>5, FullCount DEF Serialized, IsPlan, WellPlanned
<1>7. p \in job.target
  <2>1. SUFFICES ASSUME p \notin job.target PROVE FALSE
    OBVIOUS
  <2>2. completed' = completed
    BY <1>2, <2>1 DEF Account
  <2>3. QED
    BY <1>1, <1>2, <2>2 DEF WindowInv, TargetsMissing
<1>8. active \subseteq halo
  <2>1. SUFFICES ASSUME NEW q \in active PROVE q \in halo
    OBVIOUS
  <2>2. q \in Requested /\ q \notin loaded /\ q # p
    BY <1>3 DEF LeasesHeld
  <2>3. q \notin job.target
    BY <1>6, <2>2
  <2>4. PICK i \in 1..cursor : q = job.order[i]
    BY <2>2 DEF Requested
  <2>5. i \in 1..Len(job.order) /\ i < cursor + 1
    BY <1>2, <1>5 DEF TypeOK, IsPlan, WellPlanned, WindowOpen
  <2>6. job.order[cursor + 1] \in job.target
    BY <1>7 DEF NextPosition
  <2>7. QED
    BY <1>3, <2>3, <2>4, <2>5, <2>6 DEF HaloAhead
<1>9. /\ Cardinality(active) <= Cardinality(halo)
      /\ Cardinality(active) \in Nat /\ Cardinality(halo) \in Nat
  <2>1. IsFiniteSet(halo)
    BY <1>5, HaloFinite
  <2>2. QED
    BY <1>8, <2>1, FS_Subset, FS_CardinalityType
<1>10. Cardinality(active) + 1 >= job.window /\ job.window < Len(job.order)
  BY <1>2, <1>5 DEF WindowInv, WindowFull, WindowOpen, TypeOK, IsPlan, WellPlanned
<1>11. /\ Cardinality(halo) + 1 < job.window /\ job.window \in Nat
       /\ Len(job.order) \in Nat
  BY <1>5, <1>10 DEF WindowOutgrows, IsPlan, WellPlanned
<1>12. QED
  BY <1>9, <1>10, <1>11

(* fill_window keeps the window as full as it found it.                    *)
LEMMA RequestKeepsWindow ==
  ASSUME IInv, WindowInv, \A plan \in Plans : WindowOutgrows(plan),
         job # NoJob, RequestDeferred \/ RequestPreloaded
  PROVE  WindowInv'
<1> USE DEF IInv
<1>1. /\ pc = "fill" /\ pc' = pc /\ caller' = caller /\ job' = job
      /\ WindowOpen /\ cursor' = cursor + 1
  BY DEF RequestDeferred, RequestPreloaded
<1>2. NeverStranded' /\ BegunByStart'
  BY <1>1 DEF NeverStranded, BegunByStart
<1>3. CASE caller = "start"
  BY <1>1, <1>2, <1>3 DEF WindowInv, WindowFull, TargetsMissing
<1>4. CASE caller = "event"
  <2>1. /\ cursor # Len(job.order) /\ Cardinality(active) + 1 >= job.window
        /\ job.window < Len(job.order)
    BY <1>1, <1>4, ActivePlan DEF WindowInv, WindowFull, WindowOpen, TypeOK, IsPlan, WellPlanned
  <2>2. Cardinality(active') + 1 >= job.window
    <3>1. CASE RequestPreloaded
      BY <2>1, <3>1 DEF RequestPreloaded
    <3>2. CASE RequestDeferred
      <4>1. active' = active \cup {NextPosition} /\ NextPosition \notin active
        BY <1>1, <3>2, NextIsNew DEF RequestDeferred
      <4>2. Cardinality(active') = Cardinality(active) + 1 /\ Cardinality(active) \in Nat
        BY <4>1, FS_AddElement, FS_CardinalityType DEF FiniteInv
      <4>3. job.window \in Nat
        BY ActivePlan DEF IsPlan, WellPlanned
      <4>4. QED
        BY <2>1, <4>2, <4>3
    <3>3. QED
      BY <3>1, <3>2
  <2>3. completed' # Cardinality(job.target)
    <3>1. CASE RequestPreloaded
      BY <1>4, <3>1, LastTargetAwaited
    <3>2. CASE RequestDeferred
      BY <1>1, <1>4, <3>2 DEF RequestDeferred, WindowInv, TargetsMissing
    <3>3. QED
      BY <3>1, <3>2
  <2>4. WindowFull' /\ TargetsMissing'
    BY <1>1, <2>1, <2>2, <2>3 DEF WindowFull, TargetsMissing
  <2>5. QED
    BY <1>2, <2>4 DEF WindowInv
<1>5. QED
  BY <1>3, <1>4 DEF TypeOK

(* An event takes one column out of a full window.                         *)
LEMMA LoadedKeepsWindow ==
  ASSUME IInv, WindowInv, NEW c \in Columns, ColumnLoaded(c)
  PROVE  WindowInv'
<1> USE DEF IInv
<1> DEFINE p == Position(c)
<1>1. /\ Awaited(c) /\ pc = "idle" /\ caller' = "event" /\ Account(p)
      /\ active' = active \ {p}
      /\ awaiting' = (completed' = Cardinality(job.target))
      /\ pc' = (IF awaiting' THEN "finalize" ELSE "fill")
      /\ UNCHANGED <<job, cursor>>
  BY DEF ColumnLoaded, Emits
<1>2. job # NoJob /\ p \in active
  BY <1>1, AwaitedFacts
<1>3. cursor = Len(job.order) \/ Cardinality(active) >= job.window
  BY <1>1, <1>2 DEF WindowInv, WindowFull
<1>8. cursor # Len(job.order) => job.window < Len(job.order)
  <2>1. /\ cursor \in Nat /\ cursor <= Len(job.order) /\ Len(job.order) \in Nat
        /\ job.window \in Nat /\ Cardinality(active) \in Nat
    BY <1>2, ActivePlan, FS_CardinalityType DEF TypeOK, IsPlan, WellPlanned, FiniteInv
  <2>2. Cardinality(active) <= cursor
    BY <1>2, AwaitedWereRequested
  <2>3. QED
    BY <1>3, <2>1, <2>2
<1>4. /\ Cardinality(active \ {p}) = Cardinality(active) - 1
      /\ Cardinality(active) \in Nat
  BY <1>2, FS_RemoveElement, FS_CardinalityType DEF FiniteInv
<1>5. \/ cursor' = Len(job'.order)
      \/ (Cardinality(active') + 1 >= job'.window /\ job'.window < Len(job'.order))
  BY <1>1, <1>3, <1>4, <1>8
<1>6. /\ pc' \in {"finalize", "fill"}
      /\ pc' = "fill" => completed' # Cardinality(job'.target)
  BY <1>1
<1>7. QED
  BY <1>5, <1>6 DEF WindowInv, WindowFull, TargetsMissing, NeverStranded, BegunByStart

(* fill_window returns to the event loop with a full window.               *)
LEMMA FilledKeepsWindow ==
  ASSUME IInv, WindowInv, job # NoJob, WindowFilled
  PROVE  WindowInv'
<1> USE DEF IInv
<1>1. /\ pc = "fill" /\ ~WindowOpen
      /\ pc' = (IF caller = "start" /\ awaiting THEN "finalize" ELSE "idle")
      /\ UNCHANGED <<job, cursor, active, completed, awaiting, caller>>
  BY DEF WindowFilled, jobVars
<1>2. cursor = Len(job.order) \/ Cardinality(active) >= job.window
  <2>1. /\ cursor \in Nat /\ cursor <= Len(job.order) /\ Len(job.order) \in Nat
        /\ job.window \in Nat /\ Cardinality(active) \in Nat
    BY ActivePlan, FS_CardinalityType DEF TypeOK, IsPlan, WellPlanned, FiniteInv
  <2>2. QED
    BY <1>1, <2>1 DEF WindowOpen
<1>3. CASE caller = "start"
  BY <1>1, <1>2, <1>3
     DEF WindowInv, WindowFull, TargetsMissing, NeverStranded, BegunByStart
<1>4. CASE caller = "event"
  <2>1. ~awaiting
    BY <1>1, <1>4 DEF WindowInv, TargetsMissing, FinishInv
  <2>2. QED
    BY <1>1, <1>2, <1>4, <2>1
       DEF WindowInv, WindowFull, TargetsMissing, NeverStranded, BegunByStart
<1>5. QED
  BY <1>3, <1>4 DEF TypeOK

LEMMA WindowStep ==
  ASSUME IInv, WindowInv, [Next]_vars, \A plan \in Plans : WindowOutgrows(plan)
  PROVE  WindowInv'
<1> USE DEF WindowInv, WindowFull, TargetsMissing, NeverStranded, BegunByStart
<1>1. CASE ServerThread
  <2>1. job # NoJob
    BY <1>1, BusyHasJob DEF ServerThread, BeginPersistence, BeginFails,
         RequestDeferred, RequestPreloaded, RequestFails, WindowFilled,
         FinalizePersistence, FinalizeFails
  <2>2. CASE BeginPersistence
    BY <2>2 DEF BeginPersistence, jobVars
  <2>3. CASE RequestDeferred \/ RequestPreloaded
    BY <2>1, <2>3, RequestKeepsWindow
  <2>4. CASE WindowFilled
    BY <2>1, <2>4, FilledKeepsWindow
  <2>5. CASE BeginFails \/ RequestFails \/ FinalizePersistence \/ FinalizeFails
    BY <2>5 DEF BeginFails, RequestFails, FinalizePersistence, FinalizeFails,
                EndJob, ResetJob
  <2>6. QED
    BY <1>1, <2>2, <2>3, <2>4, <2>5 DEF ServerThread
<1>2. ASSUME NEW plan \in Plans, HandleStart(plan) PROVE WindowInv'
  BY <1>2 DEF HandleStart
<1>3. ASSUME NEW c \in Columns, OnChunkLoad(c) PROVE WindowInv'
  <2>1. CASE IgnoreChunkLoad(c)
    BY <2>1 DEF IgnoreChunkLoad, jobVars
  <2>2. CASE ColumnLoaded(c)
    BY <2>2, LoadedKeepsWindow
  <2>3. CASE ColumnLoadFails(c)
    BY <2>3 DEF ColumnLoadFails, EndJob, ResetJob
  <2>4. QED
    BY <1>3, <2>1, <2>2, <2>3 DEF OnChunkLoad
<1>4. CASE HandleStop \/ OnDisable
  BY <1>4 DEF HandleStop, OnDisable, EndJob, ResetJob, Emits
<1>5. CASE CleanRestart \/ Crash
  BY <1>5 DEF CleanRestart, Crash, NewProcess, ResetJob
<1>6. CASE ServerStep
  BY <1>6 DEF ServerStep, jobVars
<1>7. CASE UNCHANGED vars
  BY <1>7 DEF vars, jobVars
<1>8. QED
  BY <1>1, <1>2, <1>3, <1>4, <1>5, <1>6, <1>7 DEF Next

(* Where every plan's window takes the whole plan or outgrows its halo, no *)
(* render is ever left waiting for an event it would ignore.               *)
THEOREM NeverAlwaysStranded ==
  ASSUME \A plan \in Plans : WindowOutgrows(plan)
  PROVE  Spec => []NeverStranded
<1>1. Init => WindowInv
  BY DEF Init, WindowInv, WindowFull, TargetsMissing, NeverStranded, BegunByStart
<1>2. IInv /\ WindowInv /\ [Next]_vars => WindowInv'
  BY WindowStep
<1>3. WindowInv => NeverStranded
  BY DEF WindowInv
<1>4. QED
  BY <1>1, <1>2, <1>3, Inductive, PTL DEF Spec

-----------------------------------------------------------------------------
(* Who makes a render fail.                                                *)

(* The server owes events for loaded columns only, however a column comes  *)
(* and goes between a request and its event; and no render has failed.     *)
NoFailureInv ==
  /\ announce \subseteq {c \in Columns : chunk[c] = "loaded"}
  /\ NoFailureWithoutFault

(* An awaited column whose event is due can be counted.                    *)
LEMMA DueIsLoaded ==
  ASSUME NoFailureInv, Faults = {}, NEW c \in Columns, Emits(c), Awaited(c)
  PROVE  chunk[Column(Position(c))] = "loaded"
<1>1. c = Column(Position(c))
  BY ServerAssumption DEF Awaited, Column, Position
<1>2. chunk[c] = "loaded"
  BY DEF Emits, NoFailureInv
<1>3. QED
  BY <1>1, <1>2

LEMMA NoFailureStep == IInv /\ NoFailureInv /\ [Next]_vars => NoFailureInv'
<1> SUFFICES ASSUME IInv, NoFailureInv, [Next]_vars PROVE NoFailureInv'
  OBVIOUS
<1> USE DEF NoFailureInv
<1>1. CASE \E plan \in Plans : HandleStart(plan)
  BY <1>1 DEF HandleStart, serverVars, NoFailureWithoutFault
<1>2. CASE ServerThread
  <2>1. CASE RequestDeferred
    <3>1. \A c \in Columns : chunk[c] = "loaded" => chunk'[c] = "loaded"
      <4>1. chunk \in [Columns -> ChunkState]
        BY DEF IInv, TypeOK, ServerTypeOK
      <4>2. QED
        BY <2>1, <4>1 DEF RequestDeferred, ResidentAfterRequest
    <3>2. UNCHANGED <<announce, last>>
      BY <2>1 DEF RequestDeferred
    <3>3. QED
      BY <3>1, <3>2 DEF NoFailureWithoutFault
  <2>2. CASE BeginPersistence \/ RequestPreloaded \/ WindowFilled
    BY <2>2 DEF BeginPersistence, RequestPreloaded, WindowFilled, serverVars,
                NoFailureWithoutFault
  <2>3. CASE FinalizePersistence
    <3>1. last'.outcome = "complete" /\ UNCHANGED <<chunk, announce>>
      BY <2>3 DEF FinalizePersistence, EndJob
    <3>2. QED
      BY <3>1 DEF NoFailureWithoutFault
  <2>4. CASE BeginFails \/ RequestFails \/ FinalizeFails
    <3>1. Faults # {}
      BY <2>4 DEF BeginFails, RequestFails, FinalizeFails, PersistThrows
    <3>2. UNCHANGED <<chunk, announce>>
      BY <2>4 DEF BeginFails, RequestFails, FinalizeFails, serverVars
    <3>3. QED
      BY <3>1, <3>2 DEF NoFailureWithoutFault
  <2>5. QED
    BY <1>2, <2>1, <2>2, <2>3, <2>4 DEF ServerThread
<1>3. ASSUME NEW c \in Columns, OnChunkLoad(c) PROVE NoFailureInv'
  <2>1. announce' \subseteq announce /\ UNCHANGED chunk
    BY <1>3 DEF OnChunkLoad, IgnoreChunkLoad, ColumnLoaded, ColumnLoadFails, Emits
  <2>2. CASE IgnoreChunkLoad(c) \/ ColumnLoaded(c)
    BY <2>1, <2>2 DEF IgnoreChunkLoad, ColumnLoaded, NoFailureWithoutFault
  <2>3. CASE ColumnLoadFails(c)
    <3>1. Faults # {}
      <4>1. Emits(c) /\ Awaited(c)
        BY <2>3 DEF ColumnLoadFails
      <4>2. chunk[Column(Position(c))] # "loaded" \/ "throw" \in Faults
        BY <2>3 DEF ColumnLoadFails, PersistThrows
      <4>3. QED
        BY <4>1, <4>2, DueIsLoaded
    <3>2. QED
      BY <2>1, <3>1 DEF NoFailureWithoutFault
  <2>4. QED
    BY <1>3, <2>2, <2>3 DEF OnChunkLoad
<1>4. CASE HandleStop
  <2>1. last'.outcome = "stopped" /\ UNCHANGED <<chunk, announce>>
    BY <1>4 DEF HandleStop, EndJob, serverVars
  <2>2. QED
    BY <2>1 DEF NoFailureWithoutFault
<1>5. CASE OnDisable
  <2>1. (last' = last \/ last'.outcome = "stopped") /\ UNCHANGED <<chunk, announce>>
    BY <1>5 DEF OnDisable, serverVars
  <2>2. QED
    BY <2>1 DEF NoFailureWithoutFault
<1>6. CASE CleanRestart \/ Crash
  <2>1. last'.outcome = "none" /\ announce' = {}
    BY <1>6 DEF CleanRestart, Crash, NewProcess, ServerRestart, NoRun
  <2>2. QED
    BY <2>1 DEF NoFailureWithoutFault
<1>7. CASE ServerStep
  <2>0. chunk \in [Columns -> ChunkState] /\ announce \subseteq Columns
    BY DEF IInv, TypeOK, ServerTypeOK
  <2>1. ASSUME NEW c \in Columns, Visit(c)
        PROVE  announce' \subseteq {d \in Columns : chunk'[d] = "loaded"}
    BY <2>0, <2>1 DEF Visit, ResidentAfterRequest
  <2>2. ASSUME NEW c \in Columns, Generate(c)
        PROVE  announce' \subseteq {d \in Columns : chunk'[d] = "loaded"}
    BY <2>0, <2>2 DEF Generate
  <2>3. ASSUME NEW c \in Columns, Evict(c, Leased)
        PROVE  announce' \subseteq {d \in Columns : chunk'[d] = "loaded"}
    BY <2>0, <2>3 DEF Evict
  <2>4. ASSUME ServerFlush
        PROVE  announce' \subseteq {d \in Columns : chunk'[d] = "loaded"}
    BY <2>4 DEF ServerFlush
  <2>5. last' = last
    BY <1>7 DEF ServerStep
  <2>6. announce' \subseteq {d \in Columns : chunk'[d] = "loaded"}
    BY <1>7, <2>1, <2>2, <2>3, <2>4 DEF ServerStep, NoFailureInv
  <2>7. QED
    BY <2>5, <2>6 DEF NoFailureWithoutFault
<1>8. CASE UNCHANGED vars
  BY <1>8 DEF vars, serverVars, NoFailureWithoutFault
<1>9. QED
  BY <1>1, <1>2, <1>3, <1>4, <1>5, <1>6, <1>7, <1>8 DEF Next

(* Without native faults no render fails: an event that was overtaken by   *)
(* an eviction, a second request or another dimension is ignored.          *)
THEOREM NeverFailsWithoutFault == Spec => []NoFailureWithoutFault
<1>1. Init => NoFailureInv
  BY DEF Init, ServerInit, NoRun, NoFailureInv, NoFailureWithoutFault
<1>2. NoFailureInv => NoFailureWithoutFault
  BY DEF NoFailureInv
<1>3. QED
  BY <1>1, <1>2, NoFailureStep, Inductive, PTL DEF Spec

-----------------------------------------------------------------------------
(* What a step may do to the stored records.                               *)

(* The step stores nothing new and loses nothing durable.                  *)
QuietStorage ==
  /\ db \subseteq db'
  /\ batch' \subseteq batch
  /\ batch' \cup db' \subseteq batch \cup db

(* The step stores one record, of a leased column that has just been found *)
(* loaded.                                                                 *)
StoresOne(p) ==
  /\ p \notin loaded
  /\ chunk[Column(p)] = "loaded"
  /\ db \subseteq db'
  /\ batch' \subseteq batch \cup {Column(p)}
  /\ batch' \cup db' \subseteq batch \cup db \cup {Column(p)}

(* A full batch or not, accounting for a column stores at most its record. *)
LEMMA AccountStores ==
  ASSUME NEW p, Account(p)
  PROVE  /\ db \subseteq db'
         /\ batch' \subseteq batch \cup {Column(p)}
         /\ batch' \cup db' \subseteq batch \cup db \cup {Column(p)}
BY DEF Account, Persist

LEMMA ThrowStores ==
  ASSUME NEW c, PersistThrows(c)
  PROVE  /\ db' = db
         /\ batch' \subseteq batch \cup {c}
BY DEF PersistThrows

(* Every step is of one of the two kinds.                                  *)
LEMMA StorageStep ==
  ASSUME IInv, [Next]_vars
  PROVE  QuietStorage \/ \E p : StoresOne(p)
<1> USE DEF QuietStorage, StoresOne
<1>1. CASE ServerThread
  <2>1. job # NoJob
    BY <1>1, BusyHasJob DEF ServerThread, BeginPersistence, BeginFails,
         RequestDeferred, RequestPreloaded, RequestFails, WindowFilled,
         FinalizePersistence, FinalizeFails
  <2>2. CASE RequestPreloaded
    <3>1. NextPosition \notin loaded /\ chunk[Column(NextPosition)] = "loaded"
          /\ Account(NextPosition)
      BY <2>1, <2>2, NextIsNew DEF RequestPreloaded, IInv
    <3>2. QED
      BY <3>1, AccountStores
  <2>3. CASE RequestFails
    <3>1. NextPosition \notin loaded
      BY <2>1, <2>3, NextIsNew DEF RequestFails, IInv
    <3>2. \/ UNCHANGED <<batch, db>>
          \/ /\ chunk[Column(NextPosition)] = "loaded"
             /\ PersistThrows(Column(NextPosition))
      BY <2>3 DEF RequestFails
    <3>3. QED
      BY <3>1, <3>2, ThrowStores
  <2>4. CASE BeginPersistence \/ BeginFails \/ FinalizePersistence
    BY <2>4 DEF BeginPersistence, BeginFails, FinalizePersistence,
                FlushThreadBatch
  <2>5. CASE RequestDeferred \/ WindowFilled \/ FinalizeFails
    BY <2>5 DEF RequestDeferred, WindowFilled, FinalizeFails, serverVars
  <2>6. QED
    BY <1>1, <2>2, <2>3, <2>4, <2>5 DEF ServerThread
<1>2. ASSUME NEW c \in Columns, OnChunkLoad(c)
      PROVE  QuietStorage \/ \E p : StoresOne(p)
  <2>1. CASE IgnoreChunkLoad(c)
    BY <2>1 DEF IgnoreChunkLoad
  <2>2. CASE ColumnLoaded(c)
    <3>1. Position(c) \notin loaded /\ chunk[Column(Position(c))] = "loaded"
          /\ Account(Position(c))
      BY <2>2, AwaitedFacts DEF ColumnLoaded
    <3>2. QED
      BY <3>1, AccountStores
  <2>3. CASE ColumnLoadFails(c)
    <3>1. Position(c) \notin loaded
      BY <2>3, AwaitedFacts DEF ColumnLoadFails
    <3>2. \/ UNCHANGED <<batch, db>>
          \/ /\ chunk[Column(Position(c))] = "loaded"
             /\ PersistThrows(Column(Position(c)))
      BY <2>3 DEF ColumnLoadFails
    <3>3. QED
      BY <3>1, <3>2, ThrowStores
  <2>4. QED
    BY <1>2, <2>1, <2>2, <2>3 DEF OnChunkLoad
<1>3. CASE \E plan \in Plans : HandleStart(plan)
  BY <1>3 DEF HandleStart, serverVars
<1>4. CASE HandleStop \/ OnDisable
  BY <1>4 DEF HandleStop, OnDisable, serverVars
<1>5. CASE CleanRestart \/ Crash
  BY <1>5 DEF CleanRestart, Crash, ServerRestart
<1>6. CASE ServerStep
  BY <1>6 DEF ServerStep, Visit, Generate, Evict, ServerFlush, FlushThreadBatch
<1>7. CASE UNCHANGED vars
  BY <1>7 DEF vars, serverVars
<1>8. QED
  BY <1>1, <1>2, <1>3, <1>4, <1>5, <1>6, <1>7 DEF Next

(* Only loaded columns are written as finalized.                           *)
THEOREM OnlyFinishedAlwaysStored == Spec => OnlyFinishedStored
<1>1. IInv /\ [Next]_vars =>
        [\A c \in Columns :
           c \in (batch' \cup db') \ (batch \cup db) => chunk[c] = "loaded"]_vars
  <2>1. SUFFICES ASSUME IInv, [Next]_vars, NEW c \in Columns,
                        c \in (batch' \cup db') \ (batch \cup db)
                 PROVE  chunk[c] = "loaded"
    OBVIOUS
  <2>2. QED
    BY <2>1, StorageStep DEF QuietStorage, StoresOne
<1>2. QED
  BY <1>1, Inductive, PTL DEF Spec, OnlyFinishedStored

(* No column a render has leased as loaded is serialized again by it.      *)
THEOREM AlwaysSerializedOnce == Spec => SerializedOnce
<1>1. IInv /\ [Next]_vars =>
        [\A p \in loaded : (job' = job /\ Column(p) \notin batch)
                             => Column(p) \notin batch']_vars
  <2>1. SUFFICES ASSUME IInv, [Next]_vars, NEW p \in loaded,
                        Column(p) \notin batch, Column(p) \in batch'
                 PROVE  FALSE
    OBVIOUS
  <2>2. PICK q : StoresOne(q)
    BY <2>1, StorageStep DEF QuietStorage
  <2>3. Column(p) = Column(q) /\ p # q
    BY <2>1, <2>2 DEF StoresOne
  <2>4. QED
    BY <2>3 DEF Column
<1>2. QED
  BY <1>1, Inductive, PTL DEF Spec, SerializedOnce

-----------------------------------------------------------------------------
(* RenderJob implements RenderPromise.                                     *)

LEMMA PromiseInitially == Init => Promise!PromiseInit
BY DEF Init, ServerInit, NoRun, RequestColumns, Promise!PromiseInit,
       Promise!NoReport

(* An active render is a request.                                          *)
LEMMA ActiveRequest ==
  ASSUME TypeOK, job # NoJob
  PROVE  /\ RequestColumns(job) # NoJob
         /\ RequestColumns(job) = ColumnsOf(job, job.target)
BY ActivePlan, RenderAssumption DEF RequestColumns

(* The end of a render gives up the request.                               *)
LEMMA EndGivesUp ==
  ASSUME IInv, job # NoJob, NEW outcome \in {"failed", "stopped"},
         db \subseteq db', job' = NoJob,
         last' = [outcome |-> outcome, plan |-> job]
  PROVE  Promise!PromiseNext
BY ActiveRequest
   DEF IInv, RequestColumns, Promise!PromiseNext, Promise!GiveUp,
       Promise!Grows, Promise!Report

LEMMA PromiseStep ==
  ASSUME IInv, [Next]_vars
  PROVE  [Promise!PromiseNext]_(Promise!promiseVars)
<1> USE DEF Promise!promiseVars
<1>1. db \subseteq db'
  BY StorageStep DEF QuietStorage, StoresOne
<1>2. ASSUME UNCHANGED <<job, last>>
      PROVE  Promise!PromiseNext
  BY <1>1, <1>2 DEF Promise!PromiseNext, Promise!Store, Promise!Grows
<1>3. CASE ServerThread
  <2>1. job # NoJob
    BY <1>3, BusyHasJob DEF ServerThread, BeginPersistence, BeginFails,
         RequestDeferred, RequestPreloaded, RequestFails, WindowFilled,
         FinalizePersistence, FinalizeFails
  <2>2. CASE BeginFails \/ RequestFails \/ FinalizeFails
    <3>1. EndJob("failed")
      BY <2>2 DEF BeginFails, RequestFails, FinalizeFails
    <3>2. QED
      BY <1>1, <2>1, <3>1, EndGivesUp DEF EndJob, ResetJob
  <2>3. CASE FinalizePersistence
    <3>1. EndJob("complete") /\ ColumnsOf(job, job.target) \subseteq db'
      BY <2>1, <2>3, FinalizeFacts DEF FinalizePersistence
    <3>2. QED
      BY <1>1, <2>1, <3>1, ActiveRequest
         DEF EndJob, ResetJob, IInv, RequestColumns, Promise!PromiseNext,
             Promise!Complete, Promise!Grows, Promise!Report
  <2>4. CASE BeginPersistence \/ RequestDeferred \/ RequestPreloaded \/ WindowFilled
    <3>1. UNCHANGED <<job, last>>
      BY <2>4 DEF BeginPersistence, RequestDeferred, RequestPreloaded,
                  WindowFilled, jobVars
    <3>2. QED
      BY <3>1, <1>2
  <2>5. QED
    BY <1>3, <2>2, <2>3, <2>4 DEF ServerThread
<1>4. ASSUME NEW plan \in Plans, HandleStart(plan)
      PROVE  Promise!PromiseNext
  <2>1. job = NoJob /\ job' = plan /\ last' = last /\ db' = db
    BY <1>4 DEF HandleStart, serverVars
  <2>2. RequestColumns(job) = NoJob
        /\ RequestColumns(job)' = RequestColumns(plan)
    BY <2>1 DEF RequestColumns
  <2>3. QED
    BY <2>1, <2>2 DEF Promise!PromiseNext, Promise!Accept, RequestColumns
<1>5. ASSUME NEW c \in Columns, OnChunkLoad(c)
      PROVE  Promise!PromiseNext
  <2>1. CASE ColumnLoadFails(c)
    <3>1. job # NoJob /\ EndJob("failed")
      BY <2>1 DEF ColumnLoadFails, Awaited
    <3>2. QED
      BY <1>1, <3>1, EndGivesUp DEF EndJob, ResetJob
  <2>2. CASE IgnoreChunkLoad(c) \/ ColumnLoaded(c)
    <3>1. UNCHANGED <<job, last>>
      BY <2>2 DEF IgnoreChunkLoad, ColumnLoaded, jobVars
    <3>2. QED
      BY <3>1, <1>2
  <2>3. QED
    BY <1>5, <2>1, <2>2 DEF OnChunkLoad
<1>6. CASE HandleStop
  BY <1>1, <1>6, EndGivesUp DEF HandleStop, EndJob, ResetJob
<1>7. CASE OnDisable
  <2>1. CASE job = NoJob
    <3>1. UNCHANGED <<job, last>>
      BY <1>7, <2>1 DEF OnDisable, ResetJob
    <3>2. QED
      BY <3>1, <1>2
  <2>2. CASE job # NoJob
    <3>1. job' = NoJob /\ last' = [outcome |-> "stopped", plan |-> job]
      BY <1>7, <2>2 DEF OnDisable, ResetJob
    <3>2. QED
      BY <1>1, <2>2, <3>1, EndGivesUp
  <2>3. QED
    BY <2>1, <2>2
<1>8. CASE CleanRestart \/ Crash
  <2>1. job' = NoJob /\ last' = NoRun
    BY <1>8 DEF CleanRestart, Crash, NewProcess, ResetJob
  <2>2. QED
    BY <1>1, <2>1 DEF NoRun, RequestColumns, Promise!PromiseNext,
                      Promise!Restart, Promise!Grows, Promise!NoReport
<1>9. CASE ServerStep
  <2>1. UNCHANGED <<job, last>>
    BY <1>9 DEF ServerStep, jobVars
  <2>2. QED
    BY <2>1, <1>2
<1>10. CASE UNCHANGED vars
  BY <1>10 DEF vars, jobVars, serverVars, RequestColumns
<1>11. QED
  BY <1>3, <1>4, <1>5, <1>6, <1>7, <1>8, <1>9, <1>10 DEF Next

(* Everything a render does is what the README promises: a request is      *)
(* reported complete only once it is durable, and what is durable stays.   *)
THEOREM RenderKeepsPromise == Spec => KeepsPromise
BY PromiseInitially, PromiseStep, Inductive, PTL
   DEF Spec, KeepsPromise, Promise!PromiseSpec
=============================================================================

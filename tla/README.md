# A verification of Chunklet

Chunklet is a plugin for the Bedrock Dedicated Server (BDS) under Endstone. On a
console command it asks the server to generate every column of a square, waits
for the columns to load, writes them to LevelDB as finalized, and reports
`Complete`. Beside that it patches a dozen hot functions of the server with
faster ones, each checked against the original before it is trusted.

This directory holds TLA+ models of that code, the TLC runs that check them on
small instances, and TLAPS proofs of the most important properties for every
instance. Paths below are relative to the repository.

## 1. The system

| component | state | operations | talks to | what makes it correct |
|---|---|---|---|---|
| render plan (`src/render/plan.cpp`) | none | `square_bounds`, `generation_bounds`, `morton_order`, `center_out`, `chunk_key` | called by `handleStart` and the job | targets are the columns the square touches; the halo is requested whole and once; keys do not collide |
| render job (`src/render/job.cpp`, `persistence.cpp`) | cursor, awaited and loaded leases, counters, `awaiting_persistence_` | `start`, `on_chunk_loaded`, `fill_window`, `persist`, `finalize_persistence`, `fail`, `cancel` | the chunk source; called by the plugin | `Complete` means durable; each target counted and written once, finished, under a lease; the render ends |
| plugin (`src/plugin/`) | `job_`, `last_` | `handleStart`, `handleStop`, `handleStatus`, `onChunkLoad`, `onLoad`, `onEnable`, `onDisable` | Endstone commands and events; the job; the hooks | one render at a time; a late event finds no job |
| chunk source (`src/native/chunk_source.cpp`) | resolved pointers, thread batch | `resolve`, `request`, `begin_persistence`, `serialize`, `commit_persistence` | BDS virtual calls | what is flushed is what was serialized |
| native layout (`src/native/layout.cpp`) | none | `verify_layout`, `chunk_state`, `executable_base` | BDS image | refuses another build |
| validation gates (`noise/area`, `spatial/containment`, `timing/monotonic`, `noise/construction`) | state 0 validating, 1 fast, -1 disabled; counters | the hooked function | called by every server thread | a mismatch disables for good; the fast path opens only after N matches |
| compression sampler (`compression/zlib/leveldb_optimizer.cpp`) | `disabled`, `validations`, `sample_slots` | `checked_compress` | LevelDB threads | at most 16 samples; failed ones give their slot back; a mismatch never reaches the database |
| shuffle optimizer (`noise/shuffle`) | like a gate, decided by one comparison | `shuffle_values` | worker threads | the same generator state and values as the native shuffle |
| shared mutex (`synchronization/shared_mutex`) | registry of locks, a cache per thread | lock, try-lock and unlock, exclusive and shared | every server thread | one lock per key: a reader-writer lock to its users |
| transient objects (`allocation/transient`) | 256 slots with owners | `prepare_thread_object` | worker threads | a slot has one owner for ever |
| clock scale (`timing/monotonic/scale.h`) | none | `make_clock_scale`, `scale_ticks` | the clock hook | exact floor of ticks * 1e9 / frequency |
| hook lifecycle (`install`/`remove` of every hook, `onLoad`) | patched bytes, trampolines | install in order, roll back in reverse | BDS code pages | all hooks or none; no jump to freed code |
| dormant optimizers (`noise/perlin`, `noise/interpolation`, `noise/distance`, `compression/zlib/optimizer.cpp`, `stream_pool.cpp`) | gates with claims or two stages, caches, a pool | the hooked function; not installed by `onLoad` | nobody yet | as for the gates; a decision that nothing can take back is right |
| numeric kernels | none | AVX2 evaluators | behind the gates | bit equality with the native code |
| database inspector (`tools/database`) | what it has read of each column | `inspect_columns`, `decode_section` | the database of a stopped server | it passes a square only if every column is finalized, and complete as documented; what a render stores passes |
| other tools, tests | - | offline | - | - |

What is hard here. Everything in the render runs on the server thread, in short
handlers, but the columns it waits for are finished, announced and evicted by
others between any two of its calls; the same column may be reported twice, once
as the answer to a request and once as an event; the bounded window makes
progress depend on the order of requests; a commit happens every 4096 records
and once at the end, and a failure, a stop or a crash may come between a
record and its commit. The hooks are called by every thread of the server at
once and switch from validating to trusted while calls are in flight.
`PROJECT.json` lists each hazard at its line.

## 2. Modules

| module | models |
|---|---|
| `RenderPlan` | `plan.cpp` and the plan `handleStart` makes |
| `PlanPromise` | what a plan owes the job that carries it out: what `RenderJob` assumes and `RenderPlan` keeps |
| `PlannedRender` | a square, its plan, and the database after its render, with the properties of all three |
| `NativeServer` | BDS as the plugin sees it (external) |
| `RenderJob` | the render job and the handlers that drive it, on `NativeServer` |
| `RenderPromise` | what the README promises about a render, abstractly |
| `CompressionSampler` | the compression hook: samples, validation, fallback |
| `TransientSlots` | the buffers per thread, claimed by compare-and-swap |
| `ValidationGate` | the hooks that compare themselves with the native code first: area, containment, clock, construction, shuffle, and the dormant sample, octaves and interpolation |
| `ChunkRecords` | the database records of a column: those a render writes, those BDS does (external) |
| `ColumnInspector` | the offline inspector of those records |
| `InspectorPromise` | what `tools/database/README.md` promises of a column that passes |
| `ClockScale` | the clock's conversion of ticks to nanoseconds |
| `SharedMutex` | the replacement of the server's shared mutexes: caches, registry, pthread locks |
| `ReaderWriterLocks` | what the server relies on a shared mutex for, abstractly |
| `HookLifecycle` | `onLoad`: the ten installs, the failures, the rollback |
| `RenderJobProofs`, `PlannedRenderProofs`, `CompressionSamplerProofs`, `TransientSlotsProofs`, `ValidationGateProofs`, `ClockScaleProofs`, `SharedMutexProofs`, `HookLifecycleProofs` | the theorems |
| `MCRenderPlan` with `MCColumns`, `MCRenderJob`, `MCRenderLive`, `MCRefillHang`, `MCCompressionSampler`, `MCTransientSlots`, `MCValidationGate`, `MCClockScale`, `MCSharedMutex`, `MCHookLifecycle` | small instances for TLC |

### RenderPlan and PlannedRender

Pure operators, one per function of `plan.cpp`, with the code's names. A 32-bit
number whose bits are spread is the set of its one bits, so that `SpreadBits` is
the code's five shift-or-mask steps; keys are compared as such sets, because a
Morton key needs 64 bits. Only bounded plans are sorted by Morton keys, and no
offset in one needs more than 30 bits (`PlanAssumption`: 4096 + 12 <= 2^30).
`Sorted` is what `std::sort` promises: a position is at the place that the number
of keys before its own says. The keys are distinct, so that is one order. The
checks that throw at the ends of the 32-bit range are left out: no command
reaches them (`PlanNeverOverflows`).

`PlannedRender` takes a center, a radius and a dimension as `handleStart` does,
plans, and says what the database holds when the render is complete: the
records of `ChunkRecords` for each column of the plan, finalized if it is a
target. One target may hold anything else instead (`odd`). Its behaviours do not
move; its properties relate the plan to the square and the database to the
inspector. What it takes from BDS, that generation leaves complete columns, is
`ColumnAssumption`.

### ChunkRecords and ColumnInspector

A key is its 32-bit words and its last bytes: the inspector goes by the size and
by what is at an offset, and so do the models. `FinalizedRecord` is
`write_finalized_record`, which builds the key by itself from the dimension's
vtable and RTTI name; `BedrockRecord` is a key as BDS writes it, from its own
number of the dimension. They must meet. `resolve` refuses every dimension it
does not know (`KnownDimension`); if it did not, another plugin's dimension would
be written as the End.

| code | definition |
|---|---|
| `known_dimension` | `KnownDimension` |
| `write_finalized_record`, `serialize` | `FinalizedRecord`, `SerializedRecords` |
| `matches_dimension`, the range check of `main` | `MatchesDimension`, `RecordsAt` |
| the three tags `main` looks at | `Finalized`, `Sections` and `ValidSection`, `Heights` and `HeightValid` |
| `decode_section` | `DecodeSection`, `DecodesLayer`, `DecodedFields` |
| the bit masks, `serviceable`, `complete` | `RequiredSections`, `DecodedSections`, `Serviceable`, `AllServiceable` |

A stored section is what `decode_section` tells apart: version, index, the number
of layers it declares and the layers there are. Of a layer's packed fields at
most one is not zero, at any place, padding included. A palette entry is well
formed or not: the NBT parser is not modelled. The inspector is said as sets
where the code has loops and masks: BDS stores one record of a kind, so the order
of the records does not matter. `InspectorPromise` says the same without sections'
masks and packed words: block by block, and height by height.

### NativeServer

`chunk` is each column's state, the eleven native states folded into "absent",
"generating" (the server holds a chunk below `kLoadedState`) and "loaded";
`announce` the loaded columns whose `ChunkLoadEvent` is still due; `batch` and
`db` the finalized records in the server thread's write batch and in LevelDB. A
column leaves generation only when its `Frontier` is resident. Anybody may
request a column (`Visit`); a column nobody leases may be unloaded (`Evict`); the
server may flush for reasons of its own. `Faults` chooses the failures it may
show: a null chunk, an exception, an early event, a crash.

### RenderJob

| code | definition |
|---|---|
| `handleStart` up to `job_.emplace` | `HandleStart` |
| `ChunkSource::begin_persistence` in `start` | `BeginPersistence`, `BeginFails` |
| one turn of `fill_window`'s loop | `RequestDeferred`, `RequestPreloaded`, `RequestFails` |
| the return from `fill_window` and what its caller does next | `WindowFilled` |
| `onChunkLoad` and `on_chunk_loaded` | `IgnoreChunkLoad`, `ColumnLoaded`, `ColumnLoadFails` |
| `persist` | `Persist`, `PersistThrows`, inside the actions that call it |
| `persistActive`, `finalize_persistence`, `finishActive`, `failActive` | `FinalizePersistence`, `FinalizeFails` |
| `handleStop`, `onDisable` | `HandleStop`, `OnDisable` |
| the process's end and its successor | `CleanRestart`, `Crash` |

`job` is `job_`, and `cursor`, `active`, `loaded`, `completed`, `pending` and
`awaiting` are its members; `last` is `last_`, reduced to how the render ended.
`finished_` and `failed_` are not kept: the handler that sets one destroys the
job before it returns, so no other handler ever reads them. All handlers run on
the server thread; a handler that makes several native calls is several steps,
and `pc` keeps every other handler out while the server's workers go on. A request
and the look at the state of what it returned are one step: a worker that finishes
the column in between leaves what it would have left had somebody else requested the
column just before (`Visit`) and the worker finished it then. The theorems hold
whichever columns others visit.
`preloaded_`, timings and texts are left out.

A definition commented "Slip:" is a plausible mistake in the definition that
follows it. It is not part of the model; each property is checked to fail when
the slip takes the definition's place (`PROJECT.json`, "mutants").

### RenderPromise

Three variables: what is being rendered, how the last render ended, what is
durable. `Complete` requires every requested column to be durable in that step;
durable columns never disappear, through stops, failures and restarts.
`RenderJob` implements it under the mapping in its last lines (`KeepsPromise`), with
every fault and crash: it is checked in `render_safety` and proved for every instance.

### CompressionSampler

`checked_compress` of `compression/zlib/leveldb_optimizer.cpp`, called by any
number of threads at once. `disabled`, `validations` and `slots` (the code's
`sample_slots`) are the shared atomics; `seen` (the loop's `slots`), `sample` and
`candidate` a call's locals; `output` what a thread's last call returned.

| code | definition |
|---|---|
| the checks on entry (63-64) | `Call`, `CallNative` |
| the read of `validations` (66) | `ReadValidations` |
| the compare-and-exchange loop (67-70) | `LoadSlots`, `Reserve`, `ReserveAgain`, `NoSlot` |
| `~Reservation` (73-76) | `Return`, at the end of every path |
| `compress_leveldb` (79, 98-99) | `Compress`, `CompressFails` |
| the comparison of a sample (83-91) | `Accept`, `Count`, `Reject`, `Disable`, `FallBack`, `Throw` |

Data is reduced to whether the server's inflater gives the input back ("good",
"bad"). A native call may fail or throw at any time. One step is one access to a
shared atomic, so every interleaving of loads, exchanges and stores is there; a
spurious failure of the weak exchange changes nothing and is left out.

### TransientSlots

`slot_for_thread` of `allocation/transient/object_copy.cpp`, with `Home[t]` for
the hash and `probe` for the loop's counter; the load of an owner is `FindOwn`,
`FindFree` or `FindTaken`, the compare-and-exchange `Claim` or `ClaimLost`, the
end of the loop `Abort`. `Prepare` is the native code's allocation, `Release` the
patched deallocation, which frees nothing. A thread that ends keeps its slot: a
new thread at the same address is the same identity.

### ValidationGate

Eight hooks, nine gates: construction has one for each of its modes. They share no
state, so a behaviour is about one of them, chosen in `Init` (`hook`). A gate's
`state` is 0 while calls are compared, 1 once the fast code is trusted, -1 once it
is off; one step is one access to a shared atomic. Three of the hooks are in the
tree but `onLoad` does not install them; they are modelled as if it did. `sample`
and `octaves` claim each comparison first (`claims`, saturated at the limit: the
code only compares it with that) and, once decided, point their patch past the
gate (`active`). `interpolation` opens in two stages, its kernel first (1), then
its cache (2), and a call keeps the stage it read on entry (`stage`).

| code | definition |
|---|---|
| the reads of the state on entry | `ReadOnce` (containment, clock), `ReadArea` and `ReadAreaAgain`, `ReadConstruction` and `ReadConstructionAgain`, `ReadShuffle`, `ReadClaimed` (sample, octaves), `ReadInterpolation` |
| `validation_claims.fetch_add` | `Claim` |
| `active_sample`, `active_octaves` | `Activate`, and `Call`, which no longer reads the gate |
| a trusted call; `run_candidate` failing | `Fast`, `CandidateFails` |
| `std::call_once(tables_once, prepare_tables)` | `PrepareTables`, `PrepareThrows` |
| the comparison of a candidate with the native result | `Compare`, `CompareClocks`, `CompareShuffles` |
| `record_maximum` | `LoadMaximum`, `RaiseMaximum`, `RaiseAgain`, `MaximumHigher` |
| `fetch_add` of the counters, opening and closing | `Count`, `Open`, `CountMismatch`, `Close` |
| `shuffle_values` publishing and reloading its verdict | `Publish`, `Reload` |

The outcome of a comparison is a free choice. Calls a hook does not apply to go
straight to the native code and are left out.

### ClockScale

`make_clock_scale` and `scale_ticks`, with `Word` for 2^64 and `Billion` for 10^9;
`Wide` and `Narrow` wrap around as a double word and a word do. A behaviour
installs the clock with some usable frequency and reads it at growing tick counts.

### SharedMutex and ReaderWriterLocks

The six functions that replace the server's (`lock`, `try lock`, their reader
forms and the two unlocks) resolve an address to a lock and hand it to pthread.
Every call resolves anew.

| code | definition |
|---|---|
| the look into the thread's cache (46-51) | `LookInCache`, in `Call` |
| `pthread_mutex_lock(&registry_mutex)` (52) | `Enter` |
| `find` (58), `emplace` (60), its failure (63-66) | `Find`, `Emplace`, `EmplaceFails` |
| the unlock and the cache's new entry (67-69) | `Leave` |
| `pthread_rwlock_*` | `WriteLock`, `ReadLock`, `Unlock`, and `TryLockFails`, `TryLockReaderFails`, `LockThrows` |

`writer` and `readers` are the pthread locks', `held` is what the callers believe:
the properties compare the two. The callers are the server's: they unlock what
they hold and do not lock again what they hold (`Proper`). A `Lock` is known by
the address and the thread it was made for, so that two locks for one address
would be two. Where `pthread_mutex_lock` and `pthread_rwlock_wrlock` can only
fail by misuse, they do not fail here. `ReaderWriterLocks` is the reader-writer
lock to which `SharedMutex` is refined (`ImplementsLocks`).

### HookLifecycle

`onLoad` with the hooks as they are, in its order. Each hook is a record that says
in what its `install` and `remove` differ from the others'; one step is one call
that may fail: a check, the trampoline or the registry, `mprotect`, the patch,
`mprotect` again, and for a rollback each `remove`. `patched` is what is in the
server's code; `backed` says which hooks have what that code jumps to or uses;
`based` which have set the base others' code reads.

| code | definition |
|---|---|
| the static flag, `verify_layout` | `OnLoad`, `OnLoadAgain` |
| the checks before a patch | `Check`, `CheckFails` |
| `create_trampoline`, `registry.reserve` | `Prepare`, `PrepareFails` |
| `mprotect`, the patch, `mprotect` | `Unprotect`, `Patch`, `Protect` and their failures |
| undoing a patch that could not be protected | `Restore`, `Discard` |
| `remove` in the rollback, and leveldb's own | `NotInstalled`, `Unhook`, `UnhookFails`, `UnhookForgets`, `GiveUp` |

The ten records are read off the hooks' `install` and `remove`. The actions are the
same for all; `PROJECT.json` maps each to the hook that shows it best.
`verify_layout` only accepts or throws.

Three details matter: shuffle does not look at the result of its last
`mprotect`; leveldb sets `installed` before it and calls `remove` when it fails,
so its `remove` may run twice; area's install is outside the `try`.
Other threads may run into the hooked code between any two steps; the
invariants say what they find. That they are in the middle of the bytes being
replaced is left out: the server loads plugins before the world starts.

## 3. Runs

| run | instance | shows |
|---|---|---|
| `render_plan` (75 s) | every square with center in 7 x 7 blocks around the origin and 5 radii, columns of 3 blocks, halo 2, both orders, each of the three dimensions; in the smallest square, 5890 odd contents of one target | targets are exactly the touched columns; the halo is whole and requested once; Morton quadrants are contiguous, center-out is by distance; keys differ; a complete render passes the inspector, as that square of that dimension and no more; the inspector answers as documented |
| `render_safety` | a strip of 4 columns and a Nether column at one of its positions; two plans; flush batch 2; windows 2 and 3; others visit a halo column, a target and the Nether's; all faults and crashes | the safety invariants and action properties below, and that the render keeps its promise |
| `render_live` | two targets between two halo columns, land beyond the halo that only a visitor brings in, window 3; no faults | a render ends, and never as failed |
| `compression_sampler` | 3 threads (symmetric), 2 samples | slots exact, nothing unchecked before the samples have passed |
| `transient_slots` | 4 threads, 3 slots, colliding hashes | one slot per thread, one thread per buffer, abort only when full, every search ends |
| `validation_gates` | 3 threads (symmetric), 2 comparisons to open a gate, errors of 0 to 2 with 1 allowed, all eight hooks | a gate opens only on enough equal calls of each stage and closes for good on a mismatch; sample and octaves decide once |
| `shuffle_mismatch` | the same | **violation**: a shuffle whose own comparison failed uses the fast code |
| `clock_scale` | words of 7 bits, a billion of 5, every frequency from 5 to 50, every pair of readings | the conversion is exact and never goes back |
| `shared_mutex` | 3 threads, 2 addresses (both symmetric) in one cache entry | one lock per address, the locks know their holders, and each mutex is a reader-writer lock |
| `hook_lifecycle` | the ten hooks, whole | all hooks or none, and none without what it needs, unless `remove` forgot it |
| `rollback_half_hook` | the same | **violation**: a rollback leaves a hook that jumps to unmapped code |
| `refill_hang` | the plan of one target, halo 1, window 3, no frontier at all | **violation**: the render stays active for ever |

Why the bounds are enough. A flush batch of 2 with three targets crosses a full
commit and ends with a partial one; with two targets it ends exactly at a full
batch, so the final commit is skipped. The window of 2 makes a refill after
every load; the window of 3 equals its plan. The Nether column has an
Overworld target's position. A halo column, an early event, an event for a column found
loaded by a request, an eviction before the request, a failure at every native
call and a crash at every step all occur, and a second render starts on what
the first one left in the batch. In `render_plan` squares fall on both sides of zero and
of a column's edge, targets on both sides of the limit between the two orders.
For the inspector a height map has 3 entries and a section 7 blocks, so that
words of 32, 10, 6 and 2 fields end with padding or not. One target at a time is
odd, in one of three ways: its state and its map's size; the heights of its
surface (none, the first, at and after a multiple of 16, the top, beyond) with any
of the sections at and beyond both ends of the dimension; or one section's bytes.
The sampler needs two samples so that one can be in progress while another is
counted, and a third thread that finds no slot or arrives late. The slots need
one thread more than there are slots for the abort, two threads with one hash
for the race, and one whose probing wraps around the table.
The gates need two required comparisons so that one thread can count the last
while another finds a mismatch, and a third thread that reads the gate between
them; a maximum that two threads raise at once needs two different errors above
zero. `mismatches` and `validated` stay finite because comparing stops when a gate opens or closes.
Rounding in `clock_scale` only depends on the ratios of word, billion and
frequency, and the instance has the real ones' order (ten billions fit a word);
the proof covers the rest.
Two addresses in one cache entry make every lookup of one lose the other, and
the third thread is there while two contend for a lock or for the registry; more
of either is proved. `hook_lifecycle` has no bounds: it is the program's only
instance. `shared_mutex` does not check for
deadlock: callers that take two mutexes in different orders wait for each other,
with the replacement as with the original.
Nothing is capped by a state constraint: the state spaces are finite as they are.

The safety properties:

- `CompleteIsDurable`: a reported Complete means every target is in LevelDB, now and later.
- `LeasesHeld`: leases cover exactly what was requested; awaited columns fit the window.
- `CountIsExact`: each target is counted once, whether an event or a request found it loaded.
- `PendingCoversBatch`: the counter that decides whether to commit covers the batch.
- `OnlyFinishedStored`: a column is written only in the loaded state.
- `SerializedOnce`: a target is serialized once per render.
- `KeepsPromise`: the render does nothing that `RenderPromise` does not allow,
  through faults, stops, restarts and crashes.
- `NoFailureWithoutFault`: without native faults no render fails, whatever another
  dimension's columns do.
- `NeverStranded`: between two handlers no active render has
  `awaiting_persistence_` set, so whoever found the last target loaded went on to
  finalize. It holds of plans whose window is larger than the halo columns before
  a target (`WindowOutgrows`), as those of `render_safety` are; `refill_hang` is
  about the others.
- `RenderPassesInspection`: what a complete render has stored passes the offline
  inspector in its own dimension and in no other, for the square that was asked
  for and for no column more.
- `VerdictAsDocumented`: whatever a column holds, the inspector passes it exactly
  if it is as `tools/database/README.md` promises, in heights and blocks.
- `SlotsExact`: `sample_slots` counts the samples in progress and those passed.
- `UncheckedOnlyWhenTrusted`, `BadOnlyWhenTrusted`: no candidate goes unchecked,
  and none that does not decode is returned, before every sample has passed. What
  comes after is unchecked by design.
- `UniqueSlot`, `ExclusiveUse`, `AbortOnlyWhenFull`: a thread never gets a second
  slot, a buffer never a second user, and the process stops only for a thread
  that finds every slot owned by others.

- `TrustedAfterValidation`: no gate is open and no call trusted before enough
  calls of that same gate were compared and equal. Threads may all count at once.
- `NeverReopens`, `MismatchCloses`: a closed gate stays closed, though threads that
  compared earlier are still on their way to open it; a mismatch closes a gate
  another thread has just opened.
- `MaximumCovers`: the logged maximum covers every error recorded, though several
  threads raise it at once.
- `TablesPrepared`: whoever trusts containment finds its tables.
- `VerdictIsFinal`: once sample or octaves point past their gate, no comparison was
  or will be unequal; and when every claim is used up they have decided.
- `OneLockPerKey`: cache, registry and a lock just made agree on the lock of an
  address, whoever asks; no two addresses share one.
- `ImplementsLocks`: to its callers each mutex is a reader-writer lock.
- `LockKnowsHolders`: a lock's writer and number of readers are exactly those who
  hold its mutex, though each call finds the lock anew.
- `AllOrNothing`: loaded means every hook is in; failed means none is, except one
  whose page could not be made writable.
- `BackedUnlessForgotten`: at every moment of loading and rollback, code in the
  server has its trampoline or registry, unless `remove` has forgotten the hook.
- `AllocatorReady`: direct construction never runs before the base its allocator
  uses is set.
- `Exact`, `NeverBack`: `scale_ticks` is the division; a later reading is not smaller.

### Fairness

`RenderEnds` is checked under `FairSpec`. The server thread returns from the
handler it is in (`WF(ServerThread)`): every handler is a loop over the plan with
finite native calls. A worker finishes a column whose frontier stays resident,
and an event that is due is emitted (`WF` per column): this is what the code
relies on the server for, and weak fairness asks nothing once a column is evicted
before its event. No command, visit, eviction, flush or fault is fair.

`SearchEnds` asks only that a thread in `slot_for_thread` is scheduled again
(`WF(Search(t))`), which the operating system sees to. The search is bounded by the table,
whatever the others do.

### The hang

`fill_window` sets `awaiting_persistence_` when a request finds the last target
already loaded (`job.cpp:108`). If `handleStart` made the call it looks at the
flag (`commands.cpp:153`); if an event did, `on_chunk_loaded` answers
`Progressed` (`job.cpp:85`) and nobody finalizes: later events are ignored
because the flag is set (`job.cpp:57`). The render stays active, its records
uncommitted, until it is stopped. It takes a target T that somebody else loads
just before it is requested, in a refill, when every other target is loaded. A
refill follows an event that left room in a full window, so at least window - 1
columns are awaited at that moment, and all of them are halo. So only plans with
that many halo columns before the last target are exposed: with the real
constants (halo 6, window 1536, Morton order, at most 4096 targets) they are the
squares of 61 to 64 columns a side, 1540 to 1588 halo columns before the last
target, and nearly all of those must be awaited still. It is a narrow door, in
the largest bounded tiles; `refill_hang` walks through it with a window of 3.
`NeverAlwaysStranded` proves that there is no other: where the window takes the
whole plan, or outgrows the halo before a target, no world and no fault strands a
render. `PlanOutgrowsHalo` proves of which plans `handleStart` makes that holds: of
those with more than 4096 targets, which have no window, and in any order if the
window outgrows the whole halo, of which W by D targets have 12 (W + D) + 144
columns. Every square of up to 57 columns a side is safe without a look at the
order; for those of 58 to 64 it is the order that counts. In
`render_live` one halo column comes before the last target, fewer than window -
1 = 2, and every render ends.

### The half-removed hook

`docs/native-compatibility.md:34` says that a failed installation retains its
rollback path. In `rollback_half_hook` a later install fails and the rollback
cannot make the page of the area hook writable. Its `remove` then skips the
restoring of the bytes, clears `installed` and unmaps the trampoline
(`noise/area/optimizer.cpp:172`): the server goes on with a jump into
`checked_area`, whose way to the original is gone, and a second `remove` would do
nothing. The clock, ownership and containment do the same, shared_mutex clears
its registry; direct construction, reserve, shuffle and leveldb return early and
keep everything. `BackedUnlessForgotten` says that this is the only way to it.

### The mismatch that is not final

`docs/leveldb-zlib-candidate.md:63` says that any mismatch permanently falls back
to the original helper. `disabled` is read only on entry (line 63 of the hook). When
three calls have passed that check, one may find a mismatch and set `disabled`,
another pass the last sample, and the third then read `validations` at its limit
and return its candidate unchecked (`ReadValidations` in `CompressionSampler` does
not look at `disabled`). The candidate is off and yet used, by a call that was
already inside. Later calls do fall back.

### The failed shuffle

`docs/native-compatibility.md:31` says that a failed comparison uses the original
virtual calls. In `shuffle_mismatch` two first calls compare at once. One fails,
one passes and publishes its verdict first; the one that failed loses the
compare-and-swap, reloads the state (`noise/shuffle/optimizer.cpp:203`), finds 1
and shuffles with the code its own comparison has just rejected. The first verdict
is everybody's; the other hooks let a mismatch win whenever it comes
(`MismatchCloses`).

## 4. Proofs

`RenderJobProofs` proves, for every set of columns, frontier, plan, window,
flush batch and choice of faults that satisfies `ServerAssumption` and
`RenderAssumption`:

- `TypeCorrect`, `CompleteIsAlwaysDurable`, `CountIsAlwaysExact`,
  `PendingAlwaysCovers`, `LeasesAlwaysHeld`: `Spec => []Inv` for each invariant
  of `render_safety`;
- `OnlyFinishedAlwaysStored`, `AlwaysSerializedOnce`: its action properties;
- `RenderKeepsPromise`: `RenderJob` implements `RenderPromise`;
- `NeverFailsWithoutFault`: `NoFailureWithoutFault`, because the server owes events
  for loaded columns only, however they come and go before the event;
- `NeverAlwaysStranded`: `NeverStranded`, if every plan's window outgrows its halo.

`CompleteIsDurable` is not inductive: that a render may complete depends on the
counter reaching the number of targets, on the counter being exact, and on every
serialized target being in the batch or the database while `pending` is zero only
if the batch adds nothing. The argument goes in layers, each inductive relative
to the one before: types; the shape of a running job (leases are what the cursor
passed, apart from each other, finite; the job is empty when `job_` is and before
its first request); exact counting; the batch covered by the counter; then
durability, where a completing render has `completed` equal to the number of
targets, hence every target is among the loaded ones (a finite set with a subset of the
same size), hence in the database after the last commit.
`NeverStranded` needs the window: a refill that finds the last target loaded
follows an event that left the window one short of full, and every column still
awaited then is halo, ahead of that target (`WindowInv`, on the cardinality of what
is awaited). What the job assumes of a plan is `WellPlanned` in `PlanPromise`:
positions distinct, targets among them, window positive. `PlanKeepsPromise` proves
it of every plan that `handleStart` makes, so that the job's theorems are about
the program's plans and not only about plans as they should be.

`PlannedRenderProofs` proves all seven properties of `render_plan`, for every size of
column, halo and window, every center and radius a command can name, and every
column BDS may leave. It goes in steps.

Columns: `BlockInItsColumn` (`block_to_chunk` is floor division on both sides of
zero), `TargetsTouchTheSquare` (the targets are exactly the columns that hold a
block of the square), `KeysNeverCollide` (`chunk_key` is injective on any world no
wider than the coordinate span). `PlanNeverOverflows` joins them at the ends of the
range: whatever center and radius the command reads as 32-bit integers, the halo's
coordinates are in that range and its columns' keys differ, because 16 blocks to a
column leave more than the 6 columns of the halo free. Hence `DistinctKeys`, and
`TouchedTargets`, of every plan.

Orders: where keys are ordered strictly and totally, the number of keys before
one's own is a different one for each and all of 0 to n - 1 occur (`Ranks`), so
`Sorted` is a sequence of every position, once, with growing keys
(`SortedSequence`, `SortedPositions`). For the distance keys that is `CenterOutSorted`
and `OutwardPlan`. For the Morton keys it takes the bits: a number below 2^30 is
known by its bits (`BitsFrom`), sets of bits are ordered by the highest they differ
in (`BelowOrders`), and the five steps of `spread_bits` move bit i to 2 i and
leave nothing else (`SpreadBitsDoubles`), so that different columns have different
keys (`MortonKeysDiffer`). A key between two that agree above bit 2 k agrees with
them there (`BetweenAgrees`), and keys agree there exactly if their columns are in
one block of side 2^k (`KeysAgree`): a block is requested in one run
(`PlannedByQuadrant`).

Plans: `PlanShape` puts the orders, the halo and the window together;
`FrontierRequested`, `PlanKeepsPromise` and `PlanOutgrowsHalo` follow, the last by
counting the halo (`HaloCounted`).

The inspector: `EveryBlockDecoded` (the fields `decode_section` looks at are those
of the blocks, for every width, padding left out) and `SurfaceInItsSection` (the
section required for a surface is the one of the block below it, at every height)
give `ServiceableAsDocumented`: the inspector passes a column exactly if it is as
documented. Since a key's size and words tell its dimension and position,
`RectangleAsDocumented`: it passes a rectangle exactly if each position has a
documented column of that dimension. `RenderWritesBedrocksKey` says that the record
a render writes is the one BDS would. `CompleteRenderPasses` joins this to the
plan: what a complete render leaves is a documented column at each target, a
column without a state at each halo position and nothing elsewhere, so the
inspector passes that square, in that dimension, and nothing wider.
`DocumentedVerdict` is the same with one target arbitrary.

These properties are of states that do not change, so their invariant is `Init`
itself (`AlwaysPlanned`): all the weight is in the operators.

`CompressionSamplerProofs` proves the four invariants of `compression_sampler`
for every finite set of threads and every number of samples. What makes them
inductive is that a sample is held only between its reservation and its end
(`HeldInCall`): then each change of `slots` goes with one of `validations` or one
of the finite set of holders, and `validations` at its limit leaves no holder.

`TransientSlotsProofs` proves the safety of `transient_slots` for every number of
threads and slots and every hash. `UniqueSlot` is not inductive: a thread claims
the first free slot it meets, and why it has none beyond is history. Since no
slot is freed, what a thread has passed belongs to another for ever
(`Passed`), and so everything before its own slot on its way (`OwnFirst`): two
slots of one thread would have the nearer one belong to somebody else.
`AbortsOnlyWhenFull` adds that a round of probing visits every slot
(`RoundVisitsAll`, on residues).

`ValidationGateProofs` proves the seven safety properties of `validation_gates` for
every finite set of threads, every required number of comparisons and every
allowed error. The invariant says where each thread is in which hook
(`WellPlaced`), that a thread about to open a gate, or trusting it, has seen
enough equal calls (`Counted`; the counters only grow), and that what a thread
has seen of the maximum is not above it (`ObservedLow`). A mismatch is counted
before its gate is closed, so the mismatches without a closed gate are those of
the threads in between: that is the cardinality in `MismatchCloses`. `VerdictIsFinal` counts as well: each
claim is a thread in its comparison or a result counted, so with every claim
equal nobody is left to find a mismatch. So does `GateTypeCorrect`, which bounds what
a gate counts: a count and the threads on their way to one stay below what the
gate's stages require and what the threads at work may add after it is decided
(`Bounded`).

`ClockScaleProofs` proves `Exact` and `NeverBack` for every word size, every
`Billion` of which ten fit a word, every usable frequency f and every tick count t.
With q the reciprocal, q f <= Billion Word < (q + 1) f, and with a the estimate,
a Word <= t q < (a + 1) Word, so a f <= t Billion < (a + 2) f: the quotient is a or
a + 1, and one comparison of products that do not wrap decides which. The instance
of the real program is Word = 2^64 and Billion = 10^9.

`SharedMutexProofs` proves the invariants of `shared_mutex` and the refinement for
every finite set of threads, any addresses and any cache. `OneLockPerKey` alone
is not inductive: that a lock just made does not replace another needs that its
maker is alone behind the registry's mutex and that nobody has an entry, or a
result, for an address without a lock (`Placed`, `Cached`); that the new lock is
free needs that nobody touched it before (`Fresh`). With `Known`, per address, the
refinement follows: a lock without writer and readers has no holders.

`HookLifecycleProofs` proves the three invariants of `hook_lifecycle`. TLC has seen
all of this program's states; what the proof adds is why, and what another hook
must keep. Of the order it uses four facts only (`OrderFacts`): there is a hook, no
hook comes twice, one that is installed early does not forget itself, and the
direct constructor comes after the reserve hook. While `onLoad` installs, the hooks
before the current one, and no others, are in the server and have set `installed`,
except between two named calls of the current one (`Loading`); a rollback finds in
the server only what is installed or stuck, and leaves behind it only what is stuck
(`RollingBack`); a hook gives up its trampoline when it is out of the server or
forgotten there (`GivingUp`). The third fact is about leveldb, whose install calls
its own `remove`: that either puts the bytes back or keeps the hook whole.

The type invariants of the sampler, the slots and the shared mutex are proved
and so not checked again by runs.

Only model-checked: `RenderEnds` and `SearchEnds`, because liveness is beyond the
prover. Every safety property of a passing run is a theorem.

## 5. Not modelled, and the plan

Not modelled for good: floating point and SIMD kernels (their outputs are
compared bit for bit at run time), byte layouts, build ids and patch bytes,
parsing and formatting of commands and status, metrics, scripts and packaging.

The transient object's bytes, the sampler's startup check of six streams, the
kernel's report of the frequency and the figures kept for logs are left out.
Of the database inspector the parser of palette entries (NBT) is
a yes or no, and its diagnostics are left out.

Hazards without a property, by design or outside the model: the clock's step at
the switch of its source, caches that outlive a rollback's registry, a patch
copied over code in execution, and a compression already past its check when
another finds a mismatch (`PROJECT.json` has the reasons).

Planned next:

1. The other checks of `ChunkSource::resolve`, as failures of a start, and the
   status command's figures.
2. The dormant optimizers' own state, if they are installed one day: `StreamPool`,
   interpolation's sample cache and its addresses, their `install` and `remove`.
3. The NBT reader of the inspector, as a machine on the palette's tags.

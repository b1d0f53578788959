# LMCache-das: formal model

TLA+ models of LMCache-das, the overlay that makes LMCache run on Hygon
accelerators, with TLC configurations that check them on small instances and
TLAPS proofs of the properties that matter most. The code is the reference:
every definition was translated from the source lines `PROJECT.json` gives for
it under `map`. Paths below are relative to `src/lmcache_hcu/`.

## 1. The system

LMCache stores the key/value tensors of a language model in chunks of tokens, so
that a later request with the same prefix loads them instead of computing them.
An adapter inside vLLM calls an engine, which asks a storage manager, which asks
a list of tiers (CPU memory, disk, GDS, XDS). This repository replaces parts of
that program.

### Inventory

| Component | State | Operations | What is hard |
|---|---|---|---|
| XDS tier, `v1/storage_backend/xds_backend.py` | index `hot_cache`, pin counts, byte counter, `put_tasks`, the files | put, direct put, eviction, remove, staged and direct load, pin, startup scan, close | the lock covers the index and not the files; failures between two file operations; the scan runs beside the first stores; restarts |
| HyFile transfers, same file, `v1/hipfile.py`, `v1/memory_management.py` | readers, writer flag, condition; driver, file handles, registered buffers, allocator count | guarded read and write, CPU copy, open, register, close | exclusion, lost wake-ups, who may close the driver, every foreign call may fail |
| Direct I/O plans and block-first format, `direct_io.py`, `block_first_disk.py` | registrations, one edge buffer | plan runs and segments, validate, transfer, fall back | strides of three cache layouts, cut chunks, transfers cut half-way |
| GDS tier, `gds_backend.py` | index, `put_tasks`, staging buffer and lock, files | as the XDS tier, without cap | shared temporary names, close beside puts, restarts |
| Local disk patches, `local_disk_backend.py` | two byte totals, pins, put tasks, files | save, read, remove, batched load, close | files change under a reader, partial failure of a batch |
| Storage manager, `storage_manager.py` | tiers, serializers, weighted semaphore, freeze flag | batched put, get, contains, asynchronous lookup and prefetch, recreate, close | chunks evicted between lookup and load, one tier of several failing, order of closing |
| Cache engine, `v1/cache_engine.py` | `lookup_pins`, the LOADING events | store, retrieve, lookup, unpin, clear, layerwise generators | a load failing in the middle, several places that release one object |
| vLLM adapter, `integration/vllm/` | request trackers, load and save specifications, invalid blocks | scheduler and worker callbacks | roll-back, preemption, resumption between the callbacks |
| GPU connectors, `v1/gpu_connector/`, `v1/hcu_connector.py` | streams, two blending buffers | layerwise copies to and from the paged memory | generators only queue work; streams run it later |
| Service manager, `v1/manager.py` | services and health | start, degrade, stop | partial start, closes that raise or run out of time |
| Patching, configuration, observability, kernels, CI | import-time state | | none that a model would show |

How they interact: the adapter's scheduler calls lookup, its worker calls the
engine's store and retrieve, per request or per layer; the engine's event loop
runs `async_lookup_and_prefetch` and answers through the lookup server. The
manager calls the tiers. The tiers run file transactions on executors, whose
threads go through the driver guard; results come back by callbacks (staged
stores) or by joining futures (direct stores). Shared state is protected by
`hot_lock` (index and counter), `put_lock` (registrations), the driver
condition, `disk_lock`, and otherwise by running on one event loop or thread.

What makes each correct:

- *XDS tier*: the counter covers what is indexed and reserved; the cap holds;
  `put_tasks` lists the stores in flight; an indexed entry has its files; pins
  protect; what is left after a crash can be indexed and read; eviction ends.
- *HyFile*: writes are exclusive; nobody sleeps for ever; the driver is open while
  anything is registered with it; everything is given back; a transfer that
  reports success has moved everything.
- *Direct I/O*: every token lands in the cells its block table names, and nothing
  else changes.
- *GDS tier*: the files of an indexed chunk have their names and keep them;
  references and registrations follow the stores in flight; close waits and ends.
- *Local disk*: what is stored and reserved stays within the configured size;
  references and pins are those of operations under way.
- *Storage manager*: loads stay within the allocator's budget; a lookup is
  answered, with a prefix that was really loaded.
- *Engine and adapter*: what vLLM is told was loaded is in its blocks; what is
  stored is what its key says; pins and objects are given back.
- *Layerwise passes*: loaded before used, computed before copied, copied before
  put; the pass ends.
- *Service*: storage outlives its users; a stop ends unless a close never returns.

## 2. Modules

| Module | Models | Composes |
|---|---|---|
| `ByteTotals`, `ByteTotalsProofs` | the sum of a function, as the size of a set | |
| `XdsBackend`, `MCXdsBackend`, `XdsBackendProofs` | the XDS tier | `ByteTotals` |
| `DriverGuard` | the guard around the hipFile driver | |
| `HyFile`, `HyFileProofs` | transfers, file handles, pools and the backend's life | extends `DriverGuard`, which it implements |
| `DirectIO`, `MCDirectIO` | plan builders and the execution of plans | |
| `DurableTier` | abstract: a tier finds only chunks whose files are in place | |
| `GdsBackend`, `GdsBackendProofs` | the GDS tier | implements `DurableTier` (`Tier == INSTANCE ...`) |
| `WeightedSemaphore` | the semaphore with its serializer | `ByteTotals` |
| `AsyncLoading`, `AsyncLoadingProofs` (also of the semaphore) | prefetch from lookup to release, over manager and engine | extends `WeightedSemaphore`, which it implements |
| `CacheEngine` | synchronous lookup, retrieve, store, unpin, clear over the tiers | |
| `VllmAdapter`, `MCVllmAdapter`, `VllmAdapterProofs` | a request's way through vLLM | extends `CacheEngine` |
| `Layerwise`, `MCLayerwise`, `LayerwiseProofs` | a forward pass with layerwise loading and saving | |
| `LocalDisk` | the local disk tier | |
| `Service`, `MCService`, `ServiceProofs` | start, degradation, recreation and stop | extends `LocalDisk` |

Variables keep the names of the code. What runs under a lock, or between two
awaits of one event loop, is one step; file operations and foreign calls outside
a lock are steps of their own, so that another thread, a failure or a crash may
come between any two of them. Bytes of a chunk are its key, except in `DirectIO`
where the place of every head vector is the point.

### `XdsBackend`

Callers are threads that enter the backend, each with a `Role`; jobs are executor
slots that carry out file transactions; one scanner rebuilds the index.

| Variable | Code |
|---|---|
| `hot_cache`, `pin_count` | `self.hot_cache`: an entry is its layout (`disk_metadata` set or not) and its `pin_count` |
| `current_cache_size`, `hot_lock` | the counter and the lock; the lock is a variable because the eviction loop holds it over several rounds |
| `put_tasks` | `XdsWorker.put_tasks`, a list: the count of each key |
| `disk` | the files of the store: data, sidecar, block-first file, temporary file |
| `caller`, `job`, `scan` | where each thread is |
| `pinned` | pins handed out: what the requests believe |

A `submit_put_task` is `SubmitPutTask`, `Lookup`, `InsertPutTask`, then the
eviction loop (`BeginEviction`, `EvictOne`..., `ReserveEvicted` or
`EvictionFails`), `Unlink`, and `Spawn` or `RemovePutTask`. Without a cap the
counter is added to outside the lock, which is a read and a write
(`ReadCounter`, `WriteCounter`). The transaction is `WriteTmp`, `Rename`,
`SaveMetadata`, `InsertKey`, `FinishSave`, each with its failure, and
`CleanupSave`, `CleanupData`, `UndoReservation` on the way back. A direct put
adds `DropLegacy`, `CheckPutTasks` and the collection of results in order
(`InsertDirectKey`, `RollbackDirectStore`, `FinishDirectJob`). The cache policy
belongs to LMCache and is any choice among the entries that can be evicted.

### `DriverGuard` and `HyFile`

`DriverGuard` is the condition variable with its readers and writer flag. A
sleeper moves only when `notify_all` wakes it, and then tests again. `HyFile`
puts the calls inside it: `OpenFile`, `RegisterFileHandle`, `Transfer`,
`CloseFile`, then outside it `CopyByCpu`; around them the backend is built
(`Build`, `OpenDriverOrPool`, `OpenStaging`, `Rollback`), registers the KV cache
(`RegisterDirect`) and is closed (`Close`, `Drain`, `Unregister`,
`ReleaseStaging`, `ReleasePool`, `ReleaseDriver`; `Finalize` is `__del__`).
Every call of the library may fail, `MaxFaults` times. The flag `_driver_opened`
is `driver`, and each pool has the flags `_registered` and `_counted` of
`HyFileMemoryAllocator`, whose class-wide count is `active`.

### `DirectIO`

A cell is one (token, layer, key or value, head). `Plan` builds the plans of a
request's chunks for its layout (block-first, one tensor per layer, separate keys
and values; with shared storage or not, token-major or head-major) from slots
to runs (`Runs`) or byte segments (`PerLayerSegments`, `AsymmetricSegments`), with
the leading edge when vLLM has cached part of a block. `Store` writes the chunks
through their own plan or staged; retrieval is `Begin`, `Prepare`,
`EnsureDirectRegistration`, `ReadEdge`, `CopyDirectLeadingEdge` and one
`ReadNext` per run or segment, serial or overlapping as
`_can_parallel_direct_retrieve` allows, and `Staged` for whatever was refused or
cut. The reference the result is compared with is the block table itself
(`CellOf(Slot(...))`).

### `GdsBackend` and `DurableTier`

`DurableTier` has two sets, `durable` and `indexed`: a chunk is indexed only when
it is durable, takes the place of its key's other layout, may be forgotten, and
all are after a restart. `GdsBackend` maps a chunk to durable when its files have
their final names; a legacy data file may then be short (`short`), since
`_save_gds` does not look at how much was written (`gds_backend.py:1586`), while a
block-first file that got its name before it was whole (`torn`) is not durable. Staged puts are coroutines whose file work is
on threads (`PreparePut`, `SaveBlockFirst`, `ReplaceBlockFirst`, `SaveGds`,
`SaveMetadata`, `InsertKey`, `FinishPut`); one engine thread stores and loads
directly, loads staged, and closes. A put may raise before the `try` that gives its
reference and registration back (`PutRaises`, lines 1129 to 1143: the directory
cannot be made); `abandoned` counts those puts, `MaxAbandoned` at a time. All writers of a block-first key share one
temporary name and truncate it first (`Opened`): keys of `Resubmitted` may be put
while they are being stored, and the runs resubmit only keys whose temporary
names are random.

### `WeightedSemaphore` and `AsyncLoading`

`_current_chunks` and what each coroutine asks for and holds. `AsyncLoading` adds,
per request, the tiers asked, the expected chunks and the source of each loading
task, what each has returned, the LOADING event, the answer sent, and the
references held on each chunk's memory object. Tiers are external: any number of
hits; the tiers of `ShortTiers` may return a shorter prefix, those of
`RaisingTiers` may raise. A task is admitted by the single serializer's lock or
by the semaphore. The manager constructs `AsyncSingleSerializer` only
(`storage_manager.py:293`); the weighted semaphore belongs to
`AsyncMultiSerializer`, the other member of the union type, which nothing in this
repository constructs, and is modelled as it stands. A reference count may become
negative: `ref_count_down` has no floor.
`Retrieve` models `retrieve` with `_async_process_tokens_internal`; `LookupUnpin`
models `lookup_unpin` with `cleanup_memory_objs`.

### `CacheEngine` and `VllmAdapter`

All requests are prefixes of one token sequence, so a chunk's key is the number
of tokens it ends at, and its content is right when it is the KV of those
positions. `Lookup` pins what it finds; `Retrieve` follows
`_process_tokens_internal`: a mapping of chunks to tiers (`BlockMappings`, of
which there is one: the mapping in which every tier takes the leading chunks it
holds of those the tiers before it leave), direct and staged loads per tier, the first failure of each tier, the mask and the list of chunks
to copy. The adapter's actions are the callbacks: `GetNumNewMatchedTokens`,
`UpdateStateAfterAlloc`, `BuildConnectorMeta` (new, resumed, running and
rolled-back requests), `StartLoadKv` with `FailedBlocks`, `WaitForSave`,
`RequestFinished`; vLLM's own steps are external. `gpu` has the tokens whose KV
was loaded or computed into the request's blocks; a step computes its tokens only
if those before it are all there. `wrong` collects the keys under which a chunk was
stored with a token that is neither in its block nor behind one reported as
failed (`Accounted`). The resume assertion at
`vllm_v1_adapter.py:1690`, which a completely cached resumed request fails, leads
to the phase `crashed`, of which nothing more is claimed.

### `Layerwise`

The host's pass is a fixed sequence of advances of generators. Its position `pc`
is where in the adapter or the blender the host is, the layer, and which of the
pass's requests; `After` is the next position (`StartLoadKv`, `Blend`,
`WaitForLayerLoad`, `SaveKvLayer`, `WaitForSave`). A generator is the number of
its advances and the path it took (`kind`). Advances
queue operations on three streams, which run them later (`Run`); `wait` is
`wait_stream`. Both classes are modelled: the paged connector and the buffer
connector used for blending.

### `LocalDisk` and `Service`

`LocalDisk` has one action per step of the patched methods. Files are left out: a
write, a read or an unlink may fail at any time (`WriteFails`, `ReadFile`,
`LoadFails`, `UnlinkUnread`, `UnlinkUnloaded`), since the file may be short,
replaced or gone, and `os.remove` may raise more than `FileNotFoundError`, the only
error that is caught (lines 333 to 336). A load may find no memory (`Allocate`). A
batched load goes over its keys one by one: the entry is read without the lock
(`LoadNext`, line 293), then unpinned under it (`UnpinNext`, lines 296 to 298), and
when it was removed in between, a `KeyError` leaves the lock held for good
(`disk_lock` is `"lost"`). A batch that raises leaves its references and pins behind;
`stranded` counts them, and no load begins once a key has `MaxStranded` of them. The
reported `usage` is left out: it is added to without the lock (lines 220 and 225,
beside the debit at 325), so that it may drift, and only a monitor reads it.

`Service` creates the parts of a role (`InitComponent`), starts them, runs
`post_init` (`PostInit`) with its degradation, also when the health monitor fails
after the engine's storage is open (`manager.py:529`), serves from the disk
tier, recreates it or the lookup part, and stops part by part, each close on a
thread of its own with a timeout (`StartClose`, `CloseTimesOut`, `CloseReturns`);
the close of one of `Hangs` may never return (`CloseHangs`). The engine's close
includes the storage manager's reverse walk over its backends (`SkipBackend`,
`CloseBackend`, `CloseRaises`). What is stopped is the parts
that exist, in the order of `stop_services` (`StopOrder`). A key may stand more
than once in a batched load; it then has one pin and one reference for each
time (`Times`).

## 3. Runs

Passing runs; state counts are of distinct states. Invariants that belong
together are checked as one named conjunction; where a module has a type
invariant it is part of one of them.

| Run | Shows | Bounds |
|---|---|---|
| `xds` | `TypeOK`, `NeverUndercounts`, `PutTasksMatch`, `CapacityRespected`: stores, direct stores, removals and loads beside the scan of any left-over files; unlinks fail; the process dies anywhere and the next one scans what it left | 1 key in both layouts, cap 3, 2 threads, 2 jobs, 1 crash; 495 000 |
| `xds_uncapped` | `SidecarHasData` without a cap, over left-over files and a crash | 2 keys (one of each layout), 1 storing thread, 1 job; 800 000 |
| `xds_pins` | `PinCountsMatch`, `ExactAccounting`, `IndexedIsOnDisk`, `EvictionTerminates` | 3 keys of 1 or 2 units, cap 3, 2 pins each, 2 jobs; 5600 |
| `transfer` | `WritesExclusive`, `SleepersHaveReason`, `DriverOpenWhileUsed`, `NothingLeaks`, `ResultHonest`, `TransfersEnd` | 3 threads, 1 transfer each, 2 modes, 2 failing calls, 1 build; 235 000 |
| `loading` | `AnswerIsLoadedPrefix`, `ReferencesCover`, `WithinBudget`, `OversizedExclusive`, `AnsweredUnlessBroken` | 2 requests, 2 tiers that come short, one that raises, 2 chunks, budget 2, both serializers; 39 000 |
| `gds` | `StoresAccounted`, `StagingOutlives`, `ImplementsTier`, `CloseCompletes` | 2 keys (one of each layout), 2 puts in flight, the legacy key put again while it is stored, 1 put that raises before its save, 1 crash; 558 000 |
| `storage` | `DiskCapRespected`, `HeldMatches`, `StorageLife`, `StopsUnlessStuck` | 2 keys, capacity 2, 2 workers, 1 load that raises per key, 3 backends, both roles, a close that runs out of time and one that hangs; 673 000 |
| `requests` | `TrackersMatch`, `PinsRemembered`, `ReportedUnlessDropped`, `ValidUnlessDropped`, `PinsReleased` | 1 request of 4 tokens that grows to 6, chunks of 2, 2 tiers, every load of the second of which may fail, 1 preemption; 571 000 |
| `layerwise` | `LoadsInTime`, `StoresInOrder`, `PassEnds` | 2 loading and 2 saving requests, one of them both, 4 layers, 3 chunks; 94 000 |
| `plans` | `TokensLand`, `OthersUntouched`, `PlansExecutable` | 2 chunks of 2 blocks of 2 tokens, 2 layers, 6 layouts, 2 tables, 3 cuts, 4 prefixes, 1 fault; 81 000 |

Why the bounds are enough. Two callers and two jobs are what a race on one key
needs, and the cap is below the working set, so that eviction, refusal and the
late unlink all happen. Three threads at the guard are a writer behind readers
and a reader behind a writer at once; two faults are one in a call and one in
its clean-up. A budget of two has an oversized load and two that fit together.
Two tiers are a gap with chunks before and after it. Four to six tokens
in chunks of two have a partial last chunk, a local hit inside a chunk, and a boundary
crossed by decoding; one request meets every failure of a load, and the proofs of
section 4 are for any number at once. Four layers use both buffers twice. Two chunks of two
blocks have a leading edge, a full block after it, a run that merges and one
that does not. `MaxPins`, `MaxCrashes`, `MaxTransfers`, `MaxFaults`,
`MaxBuilds`, `MaxComputed`, `MaxPreemptions`, `MaxTokens`, `MaxAbandoned`,
`MaxStranded` and `CounterBound` bound the counters, each in the guards of the actions that raise it.

`CHECK_DEADLOCK FALSE` is given where the system may stop: all transfers made,
all requests closed, the service stopped, the pass over, the tier closed, or,
in `xds_uncapped`, a counter out of its bound.

Disagreements between the code and what its comments say, each a run that TLC
refutes:

- `loading_unanswered`: if a tier before the last comes short and a later one
  loads something, the release loop calls `ref_count_down` on a pair of key and
  object; the exception leaves the callback before the scheduler is answered.
- `retrieve_mask`: when a chunk other than a tier's first cannot be loaded, the
  chunk that ends exactly where it starts is dropped from the list of chunks to
  copy (`end <` where `end <=` is meant) and its object is not released, while
  the returned mask still counts it as retrieved. Its block is then not among
  those reported, and vLLM computes on a block that was never filled.
  `requests` states the property, and that of the stored chunks, as long as no
  retrieve has dropped a chunk so (`ReportedUnlessDropped`,
  `ValidUnlessDropped`).

Further behaviours met while modelling, which the properties above are stated
around and which a maintainer may want to know:

- A store of a resident *legacy* chunk reserves again (`xds_backend.py:2645`) and
  its bytes stay counted twice; the counter never undercounts.
- Files of evicted entries are unlinked after the lock is released
  (`xds_backend.py:2720`) and may be those of a later store of the key: an
  entry without a file until a load drops it. `IndexedIsOnDisk` therefore is
  checked for one storing thread.
- Prefetched chunks a request does not use are released by the retrieve and once
  more by the clean-up (`cache_engine.py:1626` and `1343`): `ReferencesCover` allows
  this second release, of these chunks only, and shows that nothing else is released
  too often, too early or never.
- `wait_for_save` does not look at `_invalid_block_ids` (`vllm_v1_adapter.py:1211`): in
  the step in which a load fails, the chunks the step completes are stored, computed
  on KV that never arrived. vLLM takes the request back only afterwards, and when it
  computes the tokens again the key is already stored, so that the wrong copy stays.
  `ValidUnlessDropped` sets these chunks apart, and shows that no other stored chunk
  has a token that is not in its block; what a later load of such a copy spreads is
  not followed.
- `_safe_close` and the engine's destruction (`manager.py:541`, `590`) leave a
  `with ThreadPoolExecutor`, whose exit waits for the close that timed out: a close
  that never returns keeps the stop for ever. `StopsUnlessStuck` names that case.
- A batched disk load whose entry is removed during the read raises `KeyError`. At
  `local_disk_backend.py:293` it keeps the pins and references of the rest of the
  batch; at line 297 it also leaves `disk_lock` held, after which every put, removal
  and close of the tier waits for good: the other case of `StopsUnlessStuck`. An
  `os.remove` that fails otherwise than with `FileNotFoundError` (lines 333 to 336)
  ends the batch in the same way, without the lock.
- A staged GDS put that raises before its `try` (`gds_backend.py:1129`) keeps its
  reference and its registration: later direct stores of the key are refused.
- A short legacy write of the GDS tier is renamed and indexed all the same
  (`gds_backend.py:1586`, `1618`); loads of the chunk return nothing, and its entry
  stays (lines 1346 to 1361).
- Two writers of one block-first key of the GDS tier share a temporary name
  (`gds_backend.py:894`, `1459`).
- Without a cap the XDS counter may lose an update (`xds_backend.py:2664`);
  nothing reads it then.
- A layerwise pass whose first saver has nothing to store never synchronizes for
  the others (`PutAfterCopy`). With an odd number of layers a second blended
  request starts on the buffer the first still uses: whether that is ever seen
  depends on `torch.where(gap_mask)` (`gpu_connectors.py:1071`), which waits for the
  current stream on a GPU and is not modelled, so that nothing is concluded here.

### Fairness

`xds_pins`: the eviction loop, whose thread holds the lock and waits for nothing.
`transfer`: a thread that is not asleep runs, since transfers end and the
condition's lock is held for a few instructions; a close that raised is tried
again; transfers are finite, since the guard lets readers overtake a writer for
ever. `loading`: coroutines that are ready run and loads end; strong fairness of
admission, because `asyncio.Lock` hands over in order and the requests are
finite. An endless stream of small loads would starve an oversized one; the code
does not exclude that and nothing here claims it. `gds`: threads, coroutines and
the scan run; strong fairness of taking the staging lock, which is released
again and again. `storage`: threads run, a close given a time runs out of it, and
closes return unless they hang. `requests`: a scheduled step is carried out. `layerwise`: the host goes
on when it can, streams run what is queued, loads complete.

### Sensitivity

For every property of a passing run `PROJECT.json` names a variant of one
definition, a slip one could make in that code, under which TLC finds the
property violated by the same configuration. Variants stand before the
definition they vary, are marked "Variant", and are used by nothing else.

## 4. Proofs

All theorems hold for every value of the constants that satisfies the named
assumptions of the modules (finite sets of keys, threads, slots and loads;
natural sizes), and, where the table gives one, under a hypothesis on the
constants that the configuration of the run satisfies too.

| Theorem | States | Along |
|---|---|---|
| `XdsBackendProofs!TypeCorrect` | `Spec => []TypeOK` | `TypeOK` is inductive; one lemma for callers, jobs and the scan, one step per action |
| `!CounterSafe` | with a cap, `[]NeverUndercounts` | `AccountingInv` |
| `!CapRespected` | with a cap, `CapacityRespected` | every action raises the counter after the test in the same step, or is the scan's |
| `!TasksListed` | `[]PutTasksMatch` | the list counts each key once per caller and job that registered it |
| `!PinsCounted`, `!CounterExact`, `!VisibleIsOnDisk` | with `OneStorer`: `[]PinCountsMatch`, `[]ExactAccounting`, `[]IndexedIsOnDisk` | `StorerInv` |
| `!SidecarsReadable` | with `OneSubmitter`: `[]SidecarHasData` | `SidecarInv` |
| `HyFileProofs!DriverExclusive`, `!NoLostWakeup` | `[]WritesExclusive`, `[]SleepersHaveReason` | `GuardInv` |
| `!TransfersImplementGuard`, `!TransfersKeepGuard` | `TransferSpec => Spec` of the guard, and so its properties | every step of a transfer or of the backend is a step of the guard or leaves it alone |
| `!DriverOutlives`, `!NothingIsLeaked` | `[](DriverOpenWhileUsed /\ NoHandleLeft)`, `[]NothingLeaks` | `LifeInv` |
| `!ResultsAreHonest` | `[]ResultHonest` | what a thread has moved goes with where it is in its transfer |
| `GdsBackendProofs!StoresGiveBack` | `[]StoresAccounted` | `StoreInv` |
| `!StagingHeld` | `[]StagingOutlives` | a close that waits has closed the door first |
| `!GdsTierIsDurable` | with `BlockFirst \cap Resubmitted = {}`: `Spec => Tier!Spec` | the writer of a temporary file is alone with it |
| `AsyncLoadingProofs!LoadsWithinBudget` | with `Budget >= 2`, loads stay within it, an oversized one is alone, shares add up | `SemaphoreInv` |
| `!LoadingImplementsSemaphore`, `!LookupsWithinBudget` | `LoadingSpec => Spec` of the semaphore, and so its properties | `TasksInv`: a request never has more tasks than tiers, so that every task is one of the semaphore's loads |
| `!AnswersAreLoaded` | `[]AnswerIsLoadedPrefix` | `LookupInv` |
| `!ReferencesReleased` | with `Budget >= 2`: `[]ReferencesCover` | `LookupInv` |
| `ServiceProofs!DiskTotals`, `!HeldGivenBack` | `[]DiskCapRespected`, `[]HeldMatches` | `DiskInv` |
| `!StorageOutlives` | with `DependencyFirst`: `[]StorageLife` | `DiskInv` and `CloseInv` |
| `VllmAdapterProofs!TrackersFollow` | `[]TrackersMatch` | `AdapterInv` |
| `!PinsKept` | `[]PinsRemembered` | `PinInv` |
| `!LoadFailuresReported`, `!SavesValid` | with full chunks only (`~SaveUnfull`): `[]ReportedUnlessDropped`, `[]ValidUnlessDropped` | `SafeInv` |
| `LayerwiseProofs!LayersStoredInOrder` | `[]StoresInOrder` | `LayerInv` |
| `!LayersLoadedInTime` | `[](BuffersAlternate => LoadsInTime)` | `LayerInv` and `LoadInv` |
| `ByteTotalsProofs!TotalUpdate` | a sum changes by what one value changes by | cardinality of the units |

**XDS tier.** `AccountingInv` is `NeverUndercounts` with the types and two facts:
with a cap no caller is inside the unlocked addition (its stale read would write
the counter back), and a direct store's key is one that is stored block-first
(otherwise `_insert_direct_key` would publish more than was reserved). The
argument is a balance: every action changes the counter by at least as much as it
changes the bytes indexed plus reserved. The sums are sizes of sets of units, so
the library's theorems on cardinality apply and no induction over data is needed.

Exactness, pins and files need more, because the code gives them only as long as
stores do not cross one another (section 3). `OneStorer` is the situation of
`xds_pins`: one thread that stores block-first chunks under a cap, evicting for
room, no scan. `StorerInv` says that the store in flight is the only one of its
key, that it began for a key the index does not hold, and that what the thread
has yet to unlink are files of entries no longer indexed and not being stored:
hence the late unlink cannot hit a new file. `OneSubmitter` is the situation of
`xds_uncapped`: one storing thread, no eviction, no removal, deletions that
succeed; threads that load or look up are free. `SidecarInv` follows the order
of the file operations of a store and of a dropped legacy chunk, crashes
included.

**HyFile.** `GuardInv` ties the counter and the flag to the threads inside: an
entering thread tests those, and not the other threads. `LifeInv` says who relies
on an open driver and who could close it: a thread is at work only while the
backend serves or drains (`AtWork`), holds a file or handle only inside the
driver while it is open (`HandlesHeld`), direct registrations are gone before
pools are (`DirectHeld`), and a counted pool keeps the driver open and is covered
by the count, while pools are closed in turn (`PoolsHeld`). `DriverOpenWhileUsed`
alone is not inductive, because the last pool's close looks at the count only.

**GDS tier.** That what is indexed has its files, and a block-first file whole, needs
the temporary names:
a put renames the file it wrote, so nobody else may truncate it in between. For a
block-first key that is put again while it is stored the code does not give
that, and the hypothesis excludes it; data and sidecar have random names, and
for them it is proved without one. The refinement is of a specification without
fairness.

**Loading.** `SemaphoreInv` needs exclusion and `SharesAddUp` together, because a
load is let in by what is left; a budget of one makes the concurrent half zero, so
that every load is oversized and its condition always holds: two loads of one
chunk then run at once, and `Budget >= 2` cannot be dropped. `LookupInv` says of
every request that its three lists of tasks are aligned and that the tasks'
chunks follow one another without gap or overlap up to what was promised
(`Aligned`), that a task is running exactly while its result is pending
(`RunningInv`), which chunks hold a reference at each stage and which are released twice
(`RefsExact`), and that an
answer counts loaded chunks only (`AnswerLoaded`). The sums of expected chunks
are sizes of sets, as above.

**Disk and service.** `DiskInv` is the types, `DiskCapRespected` and `HeldInv`, which
counts for each key the puts, the load and the batched load that hold it, and what
loads that raised have left; a key that is not in the index has no pins, or a load
that finds its entry gone would leave one. Files are not needed: whatever a write, a
read or an unlink comes to, the accounts are those of the steps before and after it.
`CloseInv` has the order of the close: `storage_manager.py` says that "backends
are created dependency-first", which is the hypothesis `DependencyFirst` (a
shared allocator comes before the disk tier that borrows from it, and is not
itself recreated while the service runs: that would put it last, and it would be
closed first). Then, while the tier has work, it is open, or yet to be closed, or
a close has raised, after which no shared allocator is closed (`Lingers`).
`AllocatorOutlives` alone says nothing about the next backend to be closed.

**Adapter.** `RolledBack` cuts a tracker that is ahead of its request; one that is
behind would get tokens appended after a gap. `TokensMatch` therefore depends on
where both are, and `AdapterInv` says so for each phase of a request
(`RequestInv`): in a step the tracker has exactly the tokens
the step brings the request to, and at least their blocks (`Stepping`); between
steps it has no fewer than vLLM takes for computed. What ties the two together
is a bound on failures: blocks reported as failed are among those of the step's
own tokens, because no load is expected to bring more than one token beyond what
was allocated for it (`Expected`, from `Matched` and `Allocated`), and so a
roll-back never leaves the request ahead of its tracker. That a table sent whole
is told from a difference is `TableGrows`. `PinInv` adds when a request may hold
pins (`PinnedWhen`: from its lookup to the end of the step it is scheduled in, and
never when it may look up again) and that a chunk that is gone has none
(`PinsStored`), without which `lookup_unpin`, which passes over what is gone,
would forget the request before the pin. Both hold for any number of requests
at once, where the run has one.

What is in vLLM's blocks needs the tiers. `SafeInv` adds to `AdapterInv` that `KvSound`
holds as long as every memory object of a retrieve has been given back
(`ObjectsReturned`). `KvInv` follows a hit from the lookup to the step that relies on
it: what the load is to bring is made of whole chunks and is what vLLM lacks
(`HitMatched`, `HitAllocated`, `LoadReady`); after it every token that is taken for
computed and is not in a block has a reported block at or before it (`Reported`), and
so has every token that is computed behind such a gap. That the chunks are still
there is not needed: a chunk may be missing, evicted, cleared or fail at any place of
any tier. One lemma about the retrieve itself ties the two ends (`LoadReports`): if no
loaded chunk is dropped, a token that was not copied is not in the mask, which then
counts fewer tokens than were expected. A retrieve that drops a chunk forgets its
memory object (`NothingForgotten`), and what is forgotten is never given back
(`RefsGrow`): hence the condition, which `retrieve_mask` shows cannot be dropped. The
theorems hold for any number of requests at once. Their hypothesis `~SaveUnfull` is
that only full chunks are saved (`save_unfull_chunk` is off).

**Layerwise passes.** A generator's count of advances follows from the host's
position (`Counted`), and with it which layers were queued, launched and put; this
is `HostInv`, and it is where the requests of a pass being different matters. An
operation on a stream has a number, counted from the start of the pass (`Live`,
`Nth`), that it keeps while the stream runs, and a wait names such a number: so
what is before what can be stated without looking at the queues' shape. A step
leaves a stream alone, adds one or two operations at its end, or runs its first
(`Same`, `Grew`, `GrewTwo`, `Ran`), and the lemmas about the invariant's parts
speak of these only.

`StoreInv` says that a queued copy has a wait before it on its stream for the
attention of its layer (`CopiesWait`), that every launched layer is computed or on
the stream (`AttentionsIssued`), every layer a saver is past is copied or on the
stream (`CopiesIssued`), and, which is the heart of `PutAfterCopy`, that what the
first saver waited for has been copied for all others too, as long as the host is
among them (`FirstWaited`). `LoadInv` says for the paged connector that a layer a
loader is past is in memory or on the load stream (`PagedIssued`) and that the
model's stream waits for it before the attention (`AttentionsReady`,
`LaunchReady`); for blending, that whatever is taken from a buffer is in it and
nothing that is queued overwrites it (`Held`), with the buffer of the next layer at
each position (`Draining`, `NotDraining`, `Blending`). The two buffers alternate
within a request and start at the first again with the next request, while the last
layer of the one before may still be on its way from its buffer: with an odd number
of layers that is the same buffer. `BuffersAlternate` excludes this, since the wait of
`torch.where` that may cover it (section 3) is not modelled: blending with an odd
number of layers is for one request. The paged connector needs no
hypothesis.

Only model-checked:

- the liveness properties (`EvictionTerminates`, `TransfersEnd`,
  `AnsweredUnlessBroken`, `CloseCompletes`, `StopsUnlessStuck`, `PinsReleased`,
  `PassEnds`): the prover does not handle fairness and `ENABLED`;
- `DirectIO`: offsets are products of constants, and runs and segments are
  sequences of any length.

## 5. Not modelled, and what could follow

Device kernels and the copies of the batch connectors are arithmetic on device
memory; the SGLang connector is a third copy of the layerwise ones. Of the engine,
`move`, `compress` and `decompress`, the broadcast among ranks and the events to
a controller; of the adapter, disaggregated prefill, multimodal hashes and the
`kv_consumer` role, whose `wait_for_save` returns before it unpins
(`vllm_v1_adapter.py:1192`). Lookups of layerwise keys, which pin layers of a
partial hit that nobody remembers (`cache_engine.py:1158`). The memory objects of
staged XDS loads, of which one is left to the caller when its entry vanishes before
the read (`xds_backend.py:2954`), and the policy's `update_on_hit` outside the lock
(`xds_backend.py:2646`), belong to LMCache. Temporary GPU buffers that a connector
frees while copies from them are still queued: their reuse is up to PyTorch's
allocator. The `usage` gauge of the disk tier. The encoding of the block-first
header; the CPU read that maps a file without comparing its size with what is
copied (`xds_backend.py:836`). Observability, configuration, patching at import
and CI have no state a model would show.

Next: `DurableTier` as the abstraction of `XdsBackend` with one storing thread; the
wrong copies that a failing step leaves in a tier, followed through later loads; the
offsets of `DirectIO` as an
injection of cells, proved apart from the sequences they are built into.

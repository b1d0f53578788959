----------------------------- MODULE XdsBackend -----------------------------
(***************************************************************************)
(* The XDS storage tier (lmcache_hcu/v1/storage_backend/xds_backend.py):   *)
(* an in-memory index of chunks kept as files, a byte counter that caps    *)
(* them, and the threads that change both.                                 *)
(*                                                                         *)
(* Callers are the threads that enter the backend: the engine's store      *)
(* thread (submit_put_task, batched_direct_put), the retrieve path         *)
(* (get_blocking, batched_get_blocking) and whoever removes keys.  Jobs    *)
(* are the slots of the two executors that carry out file transactions.    *)
(* One scanner rebuilds the index from the files at start.  Everything the *)
(* code does under hot_lock is one step, except the eviction loop, which   *)
(* holds the lock over several.                                            *)
(*                                                                         *)
(* The cache policy is external: a candidate is any entry that can be      *)
(* evicted.  Payloads are left out: a chunk's bytes are those of its key.  *)
(*                                                                         *)
(* A definition marked "Variant" is the one after it with a slip; nothing  *)
(* uses it but the sensitivity checks of the README.                       *)
(***************************************************************************)
EXTENDS Integers, Sequences, FiniteSets, ByteTotals

CONSTANTS
  Keys,            \* cache keys of this worker
  BlockFirst,      \* the keys of complete chunks stored as block_first_v1
  LegacySize,      \* physical size of a key's .kvdata file
  BlockFirstSize,  \* header plus aligned payload of its block_first_v1 file
  MaxSize,         \* max_xds_size
  Eviction,        \* whether max_xds_size is configured
  Callers,         \* threads that call into the backend
  Role,            \* the operations each of them performs
  Jobs,            \* executor slots: bounds the puts in flight
  ScanAtStart,     \* whether files found at start are indexed
  MaxPins,         \* bounds outstanding pins of one key
  MaxCrashes,      \* bounds process crashes
  UnlinksFail,     \* whether the deletion of a file may fail
  CounterBound     \* bounds the byte counter when nothing evicts

Layout == {"legacy", "block_first"}
Operation == {"submit", "direct", "remove", "load"}

ASSUME ConstantsAssumption ==
  /\ Keys # {} /\ IsFiniteSet(Keys)
  /\ IsFiniteSet(Callers) /\ IsFiniteSet(Jobs)
  /\ BlockFirst \subseteq Keys
  /\ LegacySize \in [Keys -> Nat]
  /\ BlockFirstSize \in [Keys -> Nat]
  /\ MaxSize \in Nat
  /\ Eviction \in BOOLEAN /\ ScanAtStart \in BOOLEAN /\ UnlinksFail \in BOOLEAN
  /\ Role \in [Callers -> SUBSET Operation]
  /\ MaxPins \in Nat /\ MaxCrashes \in Nat /\ CounterBound \in Nat

VARIABLES
  hot_cache,           \* key -> layout of its index entry, or "absent"
  pin_count,           \* key -> pin_count of its index entry
  current_cache_size,  \* the byte counter
  hot_lock,            \* the caller in the eviction loop, or "free"
  put_tasks,           \* key -> occurrences in XdsWorker.put_tasks
  disk,                \* the files of the store
  caller,              \* state of each calling thread
  job,                 \* state of each executor slot
  scan,                \* progress of the startup scan over the files
  pinned,              \* key -> pins handed out and not yet given back
  crashes              \* process crashes so far

vars == <<hot_cache, pin_count, current_cache_size, hot_lock, put_tasks,
          disk, caller, job, scan, pinned, crashes>>
-----------------------------------------------------------------------------
(* Files.  A legacy chunk is a data file and a metadata sidecar, a block-  *)
(* first chunk is one self-describing file; both are written under a name  *)
(* of their own first, which is the same for every put of the key.         *)

File == Keys \X {"data", "metadata", "block_first", "tmp"}

\* _use_block_first_for_tensor: only complete chunks are block-first.
LayoutOf(k) == IF k \in BlockFirst THEN "block_first" ELSE "legacy"

\* Variant: the path keeps the layout's name and misses the data suffix.
DataFileBySuffix(k, l) == <<k, l>>

DataFile(k, l) == IF l = "block_first" THEN <<k, "block_first">> ELSE <<k, "data">>

\* Variant: the data file goes before its sidecar.
UnlinkDataFirst(k, l) ==
  IF l = "block_first" THEN <<DataFile(k, l)>> ELSE <<DataFile(k, l), <<k, "metadata">>>>

\* The files unlinked with an entry, sidecar first.
UnlinkOrder(k, l) ==
  IF l = "block_first" THEN <<DataFile(k, l)>> ELSE <<<<k, "metadata">>, DataFile(k, l)>>

\* Deletions that fail are logged and passed over.
Delete(F) ==
  \/ disk' = disk \ F
  \/ UnlinksFail /\ UNCHANGED disk

SizeOf(k, l) == IF l = "block_first" THEN BlockFirstSize[k] ELSE LegacySize[k]

\* _required_store_size
Required(k) == SizeOf(k, LayoutOf(k))

EntrySize(k) == IF hot_cache[k] = "absent" THEN 0 ELSE SizeOf(k, hot_cache[k])

Free == "free"
Resident(k) == hot_cache[k] # "absent"

\* Variant: pins are not looked at.
CanEvictPinned(k) == Resident(k)

\* XDSCacheMetadata.can_evict
CanEvict(k) == Resident(k) /\ pin_count[k] <= 0
-----------------------------------------------------------------------------
(* Thread states *)

CallerPC == {"idle", "lookup", "drop", "check", "register", "reserve", "evict",
             "add", "spawn", "unregister", "batch", "collect", "load", "read",
             "discard"}

JobPC == {"idle", "write", "rename", "sidecar", "publish", "written",
          "failed", "cleanup", "wipe", "undo", "finish"}

AnyKey == CHOOSE k \in Keys : TRUE

CallerState ==
  [pc : CallerPC, direct : BOOLEAN, key : Keys, path : Layout, seen : Int,
   unlink : Seq(File), batch : Seq(Jobs)]

JobState == [pc : JobPC, key : Keys, direct : BOOLEAN]

IdleCaller ==
  [pc |-> "idle", direct |-> FALSE, key |-> AnyKey, path |-> "legacy", seen |-> 0,
   unlink |-> <<>>, batch |-> <<>>]

IdleJob == [pc |-> "idle", key |-> AnyKey, direct |-> FALSE]

ScanFile == Keys \X Layout

ScanStart ==
  [f \in ScanFile |->
     IF ScanAtStart /\ (f[2] = "block_first" => BlockFirst # {}) THEN "todo" ELSE "done"]

TypeOK ==
  /\ hot_cache \in [Keys -> Layout \cup {"absent"}]
  /\ pin_count \in [Keys -> Int]
  /\ current_cache_size \in Int
  /\ hot_lock \in Callers \cup {Free}
  /\ put_tasks \in [Keys -> Nat]
  /\ disk \in SUBSET File
  /\ caller \in [Callers -> CallerState]
  /\ job \in [Jobs -> JobState]
  /\ scan \in [ScanFile -> {"todo", "read", "done"}]
  /\ pinned \in [Keys -> Nat]
  /\ crashes \in Nat

\* The caller is between two of its steps and holds up no unlink.
At(c, pc) == caller[c].pc = pc /\ caller[c].unlink = <<>>

\* Where a caller goes when it is done with a key.
Rest(c) == IF caller[c].batch = <<>> THEN "idle" ELSE "batch"
NextKey(c) ==
  caller' = [caller EXCEPT ![c] = [IdleCaller EXCEPT !.pc = Rest(c),
                                                     !.batch = caller[c].batch]]

Goto(c, pc) == caller' = [caller EXCEPT ![c].pc = pc]

\* XdsWorker.remove_put_task: nothing but a warning when the key is not listed.
TasksWithout(k) == [put_tasks EXCEPT ![k] = IF @ > 0 THEN @ - 1 ELSE @]
-----------------------------------------------------------------------------
(* What the code does to the index under hot_lock.                         *)

\* hot_cache.pop with its size credited back.
PopAndCredit(k) ==
  /\ hot_cache' = [hot_cache EXCEPT ![k] = "absent"]
  /\ pin_count' = [pin_count EXCEPT ![k] = 0]
  /\ current_cache_size' = current_cache_size - EntrySize(k)

\* A new XDSCacheMetadata takes the key's place in the index: its pin_count is 0.
SetEntry(k, l) ==
  /\ hot_cache' = [hot_cache EXCEPT ![k] = l]
  /\ pin_count' = [pin_count EXCEPT ![k] = 0]
-----------------------------------------------------------------------------
(* submit_put_task                                                         *)

\* Without a cap nothing bounds the counter: stores start only within this bound.
InCounterBound == ~Eviction => current_cache_size \in -CounterBound .. CounterBound

\* exists_in_put_tasks: a key already being stored is skipped.
SubmitPutTask(c, k) ==
  /\ "submit" \in Role[c] /\ At(c, "idle")
  /\ put_tasks[k] = 0 /\ InCounterBound
  /\ caller' = [caller EXCEPT ![c].pc = "lookup", ![c].key = k]
  /\ UNCHANGED <<hot_cache, pin_count, current_cache_size, hot_lock, put_tasks,
                 disk, job, scan, pinned, crashes>>

\* Only a block-first entry makes the store a duplicate.
Lookup(c) ==
  /\ At(c, "lookup") /\ hot_lock = Free
  /\ IF hot_cache[caller[c].key] = "block_first" THEN NextKey(c) ELSE Goto(c, "register")
  /\ UNCHANGED <<hot_cache, pin_count, current_cache_size, hot_lock, put_tasks,
                 disk, job, scan, pinned, crashes>>

InsertPutTask(c) ==
  /\ At(c, "register")
  /\ put_tasks' = [put_tasks EXCEPT ![caller[c].key] = @ + 1]
  /\ Goto(c, "reserve")
  /\ UNCHANGED <<hot_cache, pin_count, current_cache_size, hot_lock,
                 disk, job, scan, pinned, crashes>>

\* _eviction: the loop runs under hot_lock ...
BeginEviction(c) ==
  /\ Eviction /\ At(c, "reserve") /\ hot_lock = Free
  /\ hot_lock' = c
  /\ Goto(c, "evict")
  /\ UNCHANGED <<hot_cache, pin_count, current_cache_size, put_tasks,
                 disk, job, scan, pinned, crashes>>

\* Variant: the bytes about to be stored are not counted.
FitsNow(c) == current_cache_size <= MaxSize

Fits(c) == current_cache_size + Required(caller[c].key) <= MaxSize

\* Variant: the candidate stays in the index.
EvictNothing(c, v) ==
  caller[c].pc = "evict" /\ ~Fits(c) /\ CanEvict(v) /\ UNCHANGED vars

\* ... pops one candidate of the policy at a time ...
EvictOne(c, v) ==
  /\ caller[c].pc = "evict" /\ ~Fits(c)
  /\ CanEvict(v)
  /\ PopAndCredit(v)
  /\ caller' = [caller EXCEPT ![c].unlink = @ \o UnlinkOrder(v, hot_cache[v])]
  /\ UNCHANGED <<hot_lock, put_tasks, disk, job, scan, pinned, crashes>>

\* Variant: the lock is given back with nothing reserved.
ReserveNothing(c) ==
  /\ caller[c].pc = "evict" /\ Fits(c)
  /\ hot_lock' = Free
  /\ Goto(c, "spawn")
  /\ UNCHANGED <<hot_cache, pin_count, current_cache_size, put_tasks,
                 disk, job, scan, pinned, crashes>>

\* ... and reserves the bytes before it lets go of the lock,
ReserveEvicted(c) ==
  /\ caller[c].pc = "evict" /\ Fits(c)
  /\ current_cache_size' = current_cache_size + Required(caller[c].key)
  /\ hot_lock' = Free
  /\ Goto(c, "spawn")
  /\ UNCHANGED <<hot_cache, pin_count, put_tasks, disk, job, scan, pinned, crashes>>

\* or gives up when nothing more can be evicted.
EvictionFails(c) ==
  /\ caller[c].pc = "evict" /\ ~Fits(c)
  /\ \A v \in Keys : ~CanEvict(v)
  /\ hot_lock' = Free
  /\ Goto(c, "unregister")
  /\ UNCHANGED <<hot_cache, pin_count, current_cache_size, put_tasks,
                 disk, job, scan, pinned, crashes>>

\* Without a cap submit_put_task adds to the counter outside the lock: it reads ...
ReadCounter(c) ==
  /\ ~Eviction /\ At(c, "reserve") /\ ~caller[c].direct
  /\ caller' = [caller EXCEPT ![c].pc = "add", ![c].seen = current_cache_size]
  /\ UNCHANGED <<hot_cache, pin_count, current_cache_size, hot_lock, put_tasks,
                 disk, job, scan, pinned, crashes>>

\* ... and then writes what it read plus the size.
WriteCounter(c) ==
  /\ At(c, "add")
  /\ current_cache_size' = caller[c].seen + Required(caller[c].key)
  /\ Goto(c, "spawn")
  /\ UNCHANGED <<hot_cache, pin_count, hot_lock, put_tasks,
                 disk, job, scan, pinned, crashes>>

\* _reserve_direct_size takes the lock.
ReserveDirectSize(c) ==
  /\ ~Eviction /\ At(c, "reserve") /\ caller[c].direct /\ hot_lock = Free
  /\ current_cache_size' = current_cache_size + Required(caller[c].key)
  /\ Goto(c, "spawn")
  /\ UNCHANGED <<hot_cache, pin_count, hot_lock, put_tasks,
                 disk, job, scan, pinned, crashes>>

\* Popped entries' files are unlinked outside the lock, one at a time.
Unlink(c) ==
  /\ caller[c].unlink # <<>> /\ hot_lock # c
  /\ Delete({Head(caller[c].unlink)})
  /\ caller' = [caller EXCEPT ![c].unlink = Tail(@)]
  /\ UNCHANGED <<hot_cache, pin_count, current_cache_size, hot_lock, put_tasks,
                 job, scan, pinned, crashes>>

\* Variant: a put that found no room stays registered.
LeavePutTask(c) ==
  /\ At(c, "unregister")
  /\ NextKey(c)
  /\ UNCHANGED <<hot_cache, pin_count, current_cache_size, hot_lock, put_tasks,
                 disk, job, scan, pinned, crashes>>

RemovePutTask(c) ==
  /\ At(c, "unregister")
  /\ put_tasks' = TasksWithout(caller[c].key)
  /\ NextKey(c)
  /\ UNCHANGED <<hot_cache, pin_count, current_cache_size, hot_lock,
                 disk, job, scan, pinned, crashes>>

\* The file transaction is handed to an executor; a direct store waits for it.
Spawn(c, j) ==
  /\ At(c, "spawn") /\ job[j].pc = "idle"
  /\ job' = [job EXCEPT ![j] = [pc |-> "write", key |-> caller[c].key,
                                direct |-> caller[c].direct]]
  /\ IF caller[c].direct
       THEN caller' = [caller EXCEPT ![c] = [IdleCaller EXCEPT
                         !.pc = "batch", !.batch = Append(caller[c].batch, j)]]
       ELSE NextKey(c)
  /\ UNCHANGED <<hot_cache, pin_count, current_cache_size, hot_lock, put_tasks,
                 disk, scan, pinned, crashes>>
-----------------------------------------------------------------------------
(* batched_direct_put: keys are taken one after the other, their file      *)
(* transactions queued, and the results collected in order at the end (a   *)
(* batch of one when stores are not pipelined).                            *)

DirectPut(c, k) ==
  /\ "direct" \in Role[c] /\ (At(c, "idle") \/ At(c, "batch")) /\ InCounterBound
  /\ k \in BlockFirst /\ hot_lock = Free /\ hot_cache[k] # "block_first"
  /\ caller' = [caller EXCEPT ![c].pc = IF Resident(k) THEN "drop" ELSE "check",
                              ![c].key = k, ![c].direct = TRUE]
  /\ UNCHANGED <<hot_cache, pin_count, current_cache_size, hot_lock, put_tasks,
                 disk, job, scan, pinned, crashes>>

\* The legacy entry found is removed, whatever has become of it meanwhile.
DropLegacy(c) ==
  LET k == caller[c].key IN
  /\ At(c, "drop") /\ hot_lock = Free
  /\ IF Resident(k)
       THEN /\ PopAndCredit(k)
            /\ caller' = [caller EXCEPT ![c].pc = "check",
                                        ![c].unlink = UnlinkOrder(k, hot_cache[k])]
       ELSE Goto(c, "check") /\ UNCHANGED <<hot_cache, pin_count, current_cache_size>>
  /\ UNCHANGED <<hot_lock, put_tasks, disk, job, scan, pinned, crashes>>

CheckPutTasks(c) ==
  /\ At(c, "check")
  /\ IF put_tasks[caller[c].key] > 0 THEN NextKey(c) ELSE Goto(c, "register")
  /\ UNCHANGED <<hot_cache, pin_count, current_cache_size, hot_lock, put_tasks,
                 disk, job, scan, pinned, crashes>>

Oldest(c) == Head(caller[c].batch)

Collecting(c) ==
  /\ At(c, "batch") \/ At(c, "collect")
  /\ caller[c].batch # <<>>

\* _insert_direct_key replaces the key's entry without looking at it.
InsertDirectKey(c) ==
  LET j == Oldest(c) IN
  /\ Collecting(c) /\ job[j].pc = "written" /\ hot_lock = Free
  /\ SetEntry(job[j].key, "block_first")
  /\ job' = [job EXCEPT ![j].pc = "finish"]
  /\ Goto(c, "collect")
  /\ UNCHANGED <<current_cache_size, hot_lock, put_tasks, disk, scan, pinned, crashes>>

RollbackDirectStore(c) ==
  LET j == Oldest(c) IN
  /\ Collecting(c) /\ job[j].pc = "failed" /\ hot_lock = Free
  /\ current_cache_size' = current_cache_size - Required(job[j].key)
  /\ job' = [job EXCEPT ![j].pc = "finish"]
  /\ Goto(c, "collect")
  /\ UNCHANGED <<hot_cache, pin_count, hot_lock, put_tasks, disk, scan, pinned, crashes>>

FinishDirectJob(c) ==
  LET j == Oldest(c) IN
  /\ Collecting(c) /\ job[j].pc = "finish"
  /\ put_tasks' = TasksWithout(job[j].key)
  /\ job' = [job EXCEPT ![j] = IdleJob]
  /\ caller' = [caller EXCEPT
       ![c] = [IdleCaller EXCEPT
                 !.pc = IF Tail(caller[c].batch) = <<>> THEN "idle" ELSE "collect",
                 !.batch = Tail(caller[c].batch)]]
  /\ UNCHANGED <<hot_cache, pin_count, current_cache_size, hot_lock,
                 disk, scan, pinned, crashes>>
-----------------------------------------------------------------------------
(* The file transactions: _async_save_bytes_to_storage with _save_xds,     *)
(* _save_posix, _save_block_first_xds and _save_cpu_block_first_xds, and   *)
(* _save_direct_xds for direct stores.                                     *)

JobStep(j, pc) == job' = [job EXCEPT ![j].pc = pc]
OnError(j) == IF job[j].direct THEN "failed" ELSE "cleanup"

WriteTmp(j) ==
  /\ job[j].pc = "write"
  /\ disk' = disk \cup {<<job[j].key, "tmp">>}
  /\ JobStep(j, "rename")
  /\ UNCHANGED <<hot_cache, pin_count, current_cache_size, hot_lock, put_tasks,
                 caller, scan, pinned, crashes>>

\* A failed or short write removes the temporary file.
WriteFails(j) ==
  /\ job[j].pc = "write"
  /\ Delete({<<job[j].key, "tmp">>})
  /\ JobStep(j, OnError(j))
  /\ UNCHANGED <<hot_cache, pin_count, current_cache_size, hot_lock, put_tasks,
                 caller, scan, pinned, crashes>>

\* The rename publishes the file; it fails when another put of the key took the tmp.
Rename(j) ==
  LET k == job[j].key IN
  /\ job[j].pc = "rename"
  /\ IF <<k, "tmp">> \in disk
       THEN /\ disk' = (disk \ {<<k, "tmp">>}) \cup {DataFile(k, LayoutOf(k))}
            /\ JobStep(j, IF job[j].direct THEN "written"
                          ELSE IF LayoutOf(k) = "legacy" THEN "sidecar" ELSE "publish")
       ELSE JobStep(j, OnError(j)) /\ UNCHANGED disk
  /\ UNCHANGED <<hot_cache, pin_count, current_cache_size, hot_lock, put_tasks,
                 caller, scan, pinned, crashes>>

\* save_metadata
SaveMetadata(j) ==
  /\ job[j].pc = "sidecar"
  /\ \/ JobStep(j, "publish") /\ disk' = disk \cup {<<job[j].key, "metadata">>}
     \/ JobStep(j, "cleanup") /\ UNCHANGED disk
  /\ UNCHANGED <<hot_cache, pin_count, current_cache_size, hot_lock, put_tasks,
                 caller, scan, pinned, crashes>>

\* Variant: the entry is published before the file has its name.
InsertKeyEarly(j) ==
  LET k == job[j].key IN
  /\ job[j].pc = "rename" /\ hot_lock = Free
  /\ IF Resident(k) THEN UNCHANGED <<hot_cache, pin_count>> ELSE SetEntry(k, LayoutOf(k))
  /\ JobStep(j, "finish")
  /\ UNCHANGED <<current_cache_size, hot_lock, put_tasks, disk, caller, scan,
                 pinned, crashes>>

\* insert_key leaves an entry that is already there alone.
InsertKey(j) ==
  LET k == job[j].key IN
  /\ job[j].pc = "publish" /\ hot_lock = Free
  /\ IF Resident(k) THEN UNCHANGED <<hot_cache, pin_count>> ELSE SetEntry(k, LayoutOf(k))
  /\ JobStep(j, "finish")
  /\ UNCHANGED <<current_cache_size, hot_lock, put_tasks, disk, caller, scan,
                 pinned, crashes>>

\* The handler of a failed save deletes what it may have left: the temporary file and
\* the sidecar, ...
CleanupSave(j) ==
  LET k == job[j].key IN
  /\ job[j].pc = "cleanup"
  /\ Delete(IF LayoutOf(k) = "legacy" THEN {<<k, "tmp">>, <<k, "metadata">>}
            ELSE {<<k, "tmp">>})
  /\ JobStep(j, IF LayoutOf(k) = "legacy" THEN "wipe" ELSE "undo")
  /\ UNCHANGED <<hot_cache, pin_count, current_cache_size, hot_lock, put_tasks,
                 caller, scan, pinned, crashes>>

\* ... then a legacy chunk's data; a block-first file stays.
CleanupData(j) ==
  /\ job[j].pc = "wipe"
  /\ Delete({<<job[j].key, "data">>})
  /\ JobStep(j, "undo")
  /\ UNCHANGED <<hot_cache, pin_count, current_cache_size, hot_lock, put_tasks,
                 caller, scan, pinned, crashes>>

\* Variant: the reservation is kept.
UndoNothing(j) ==
  /\ job[j].pc = "undo" /\ hot_lock = Free
  /\ SetEntry(job[j].key, "absent")
  /\ JobStep(j, "finish")
  /\ UNCHANGED <<current_cache_size, hot_lock, put_tasks, disk, caller, scan,
                 pinned, crashes>>

\* Under the lock it pops the key, whoever published it, and returns its reservation.
UndoReservation(j) ==
  LET k == job[j].key IN
  /\ job[j].pc = "undo" /\ hot_lock = Free
  /\ SetEntry(k, "absent")
  /\ current_cache_size' = current_cache_size - Required(k)
  /\ JobStep(j, "finish")
  /\ UNCHANGED <<hot_lock, put_tasks, disk, caller, scan, pinned, crashes>>

FinishSave(j) ==
  /\ job[j].pc = "finish" /\ ~job[j].direct
  /\ put_tasks' = TasksWithout(job[j].key)
  /\ job' = [job EXCEPT ![j] = IdleJob]
  /\ UNCHANGED <<hot_cache, pin_count, current_cache_size, hot_lock,
                 disk, caller, scan, pinned, crashes>>
-----------------------------------------------------------------------------
(* remove, and the load path                                               *)

Remove(c, k) ==
  /\ "remove" \in Role[c] /\ At(c, "idle") /\ hot_lock = Free
  /\ Resident(k)
  /\ PopAndCredit(k)
  /\ caller' = [caller EXCEPT ![c].unlink = UnlinkOrder(k, hot_cache[k])]
  /\ UNCHANGED <<hot_lock, put_tasks, disk, job, scan, pinned, crashes>>

\* get_blocking, batched_get_blocking: the path is taken from the entry ...
GetBlocking(c, k) ==
  /\ "load" \in Role[c] /\ At(c, "idle") /\ hot_lock = Free
  /\ Resident(k)
  /\ caller' = [caller EXCEPT ![c].pc = "load", ![c].key = k, ![c].path = hot_cache[k]]
  /\ UNCHANGED <<hot_cache, pin_count, current_cache_size, hot_lock, put_tasks,
                 disk, job, scan, pinned, crashes>>

\* ... and the entry is looked up again before the file is read: a legacy file is not
\* accepted as a block-first one.
LoadLookup(c) ==
  LET l == hot_cache[caller[c].key] IN
  /\ At(c, "load") /\ hot_lock = Free
  /\ IF l = "absent" THEN NextKey(c)
     ELSE Goto(c, IF l = "block_first" /\ caller[c].path = "legacy" THEN "discard" ELSE "read")
  /\ UNCHANGED <<hot_cache, pin_count, current_cache_size, hot_lock, put_tasks,
                 disk, job, scan, pinned, crashes>>

\* A file that is there is read in full, or the read fails.
ReadFile(c) ==
  /\ At(c, "read")
  /\ \/ DataFile(caller[c].key, caller[c].path) \in disk /\ NextKey(c)
     \/ Goto(c, "discard")
  /\ UNCHANGED <<hot_cache, pin_count, current_cache_size, hot_lock, put_tasks,
                 disk, job, scan, pinned, crashes>>

\* A failed load drops the key's entry and leaves the files.
DiscardEntry(c) ==
  /\ At(c, "discard") /\ hot_lock = Free
  /\ PopAndCredit(caller[c].key)
  /\ NextKey(c)
  /\ UNCHANGED <<hot_lock, put_tasks, disk, job, scan, pinned, crashes>>
-----------------------------------------------------------------------------
(* contains(pin), batched_async_contains(pin), pin; unpin                  *)

Pin(k) ==
  /\ hot_lock = Free /\ Resident(k) /\ pinned[k] < MaxPins
  /\ pin_count' = [pin_count EXCEPT ![k] = @ + 1]
  /\ pinned' = [pinned EXCEPT ![k] = @ + 1]
  /\ UNCHANGED <<hot_cache, current_cache_size, hot_lock, put_tasks, disk, caller,
                 job, scan, crashes>>

\* The request that pinned the key gives the pin back, if the key is still there.
Unpin(k) ==
  /\ hot_lock = Free /\ pinned[k] > 0
  /\ pin_count' = [pin_count EXCEPT ![k] = IF Resident(k) THEN @ - 1 ELSE @]
  /\ pinned' = [pinned EXCEPT ![k] = @ - 1]
  /\ UNCHANGED <<hot_cache, current_cache_size, hot_lock, put_tasks, disk, caller,
                 job, scan, crashes>>
-----------------------------------------------------------------------------
(* _scan_metadata, which runs beside everything else                       *)

ScanName(f) == IF f[2] = "block_first" THEN <<f[1], "block_first">> ELSE <<f[1], "metadata">>

\* The directory listing shows the file and its metadata is read ...
ReadMetadata(f) ==
  /\ scan[f] = "todo" /\ ScanName(f) \in disk
  /\ scan' = [scan EXCEPT ![f] = "read"]
  /\ UNCHANGED <<hot_cache, pin_count, current_cache_size, hot_lock, put_tasks, disk,
                 caller, job, pinned, crashes>>

\* ... or it is not listed, or its metadata is refused.
ScanSkips(f) ==
  /\ scan[f] = "todo"
  /\ scan' = [scan EXCEPT ![f] = "done"]
  /\ UNCHANGED <<hot_cache, pin_count, current_cache_size, hot_lock, put_tasks, disk,
                 caller, job, pinned, crashes>>

\* _read_block_first_metadata, _read_metadata: a legacy sidecar never replaces a
\* block-first entry, and a replaced entry's size is credited back.
IndexScanned(f) ==
  LET k == f[1] IN
  /\ scan[f] = "read" /\ hot_lock = Free
  /\ scan' = [scan EXCEPT ![f] = "done"]
  /\ IF f[2] = "legacy" /\ hot_cache[k] = "block_first"
       THEN UNCHANGED <<hot_cache, pin_count, current_cache_size>>
       ELSE /\ SetEntry(k, f[2])
            /\ current_cache_size' = current_cache_size - EntrySize(k) + SizeOf(k, f[2])
  /\ UNCHANGED <<hot_lock, put_tasks, disk, caller, job, pinned, crashes>>

\* The process dies and is started again on the files it left.
Crash ==
  /\ crashes < MaxCrashes
  /\ crashes' = crashes + 1
  /\ hot_cache' = [k \in Keys |-> "absent"]
  /\ pin_count' = [k \in Keys |-> 0]
  /\ current_cache_size' = 0
  /\ hot_lock' = Free
  /\ put_tasks' = [k \in Keys |-> 0]
  /\ caller' = [c \in Callers |-> IdleCaller]
  /\ job' = [j \in Jobs |-> IdleJob]
  /\ scan' = ScanStart
  /\ pinned' = [k \in Keys |-> 0]
  /\ UNCHANGED disk
-----------------------------------------------------------------------------
\* The files an earlier process may have left, possibly before block-first was enabled.
LeftOver ==
  {D \in SUBSET {f \in File : f[2] # "tmp" /\ (f[2] = "block_first" => f[1] \in BlockFirst)} :
     \A k \in Keys : <<k, "metadata">> \in D => <<k, "data">> \in D}

Init ==
  /\ hot_cache = [k \in Keys |-> "absent"]
  /\ pin_count = [k \in Keys |-> 0]
  /\ current_cache_size = 0
  /\ hot_lock = Free
  /\ put_tasks = [k \in Keys |-> 0]
  /\ disk \in IF ScanAtStart THEN LeftOver ELSE {{}}
  /\ caller = [c \in Callers |-> IdleCaller]
  /\ job = [j \in Jobs |-> IdleJob]
  /\ scan = ScanStart
  /\ pinned = [k \in Keys |-> 0]
  /\ crashes = 0

EvictionStep(c) ==
  ReserveEvicted(c) \/ EvictionFails(c) \/ \E v \in Keys : EvictOne(c, v)

CallerStep(c) ==
  \/ \E k \in Keys : SubmitPutTask(c, k) \/ DirectPut(c, k) \/ Remove(c, k) \/ GetBlocking(c, k)
  \/ Lookup(c) \/ InsertPutTask(c) \/ BeginEviction(c) \/ EvictionStep(c)
  \/ ReadCounter(c) \/ WriteCounter(c) \/ ReserveDirectSize(c)
  \/ Unlink(c) \/ RemovePutTask(c) \/ (\E j \in Jobs : Spawn(c, j))
  \/ DropLegacy(c) \/ CheckPutTasks(c)
  \/ InsertDirectKey(c) \/ RollbackDirectStore(c) \/ FinishDirectJob(c)
  \/ LoadLookup(c) \/ ReadFile(c) \/ DiscardEntry(c)

SaveStep(j) ==
  \/ WriteTmp(j) \/ WriteFails(j) \/ Rename(j) \/ SaveMetadata(j) \/ InsertKey(j)
  \/ CleanupSave(j) \/ CleanupData(j) \/ UndoReservation(j) \/ FinishSave(j)

ScanStep(f) == ReadMetadata(f) \/ ScanSkips(f) \/ IndexScanned(f)

Next ==
  \/ \E c \in Callers : CallerStep(c)
  \/ \E j \in Jobs : SaveStep(j)
  \/ \E k \in Keys : Pin(k) \/ Unpin(k)
  \/ \E f \in ScanFile : ScanStep(f)
  \/ Crash

Spec == Init /\ [][Next]_vars

\* A thread inside the eviction loop keeps running: it waits for nothing.
FairSpec == Spec /\ \A c \in Callers : WF_vars(EvictionStep(c))
-----------------------------------------------------------------------------
(* Bytes that must be covered by the counter: those of the indexed files   *)
(* and those reserved by puts in flight.                                   *)

IndexedBytes == [k \in Keys |-> EntrySize(k)]
CallerBytes ==
  [c \in Callers |-> IF caller[c].pc = "spawn" THEN Required(caller[c].key) ELSE 0]
Reserving == JobPC \ {"idle", "finish"}
JobBytes == [j \in Jobs |-> IF job[j].pc \in Reserving THEN Required(job[j].key) ELSE 0]

Charged == Total(IndexedBytes) + Total(CallerBytes) + Total(JobBytes)

\* The counter never falls below the bytes of the indexed files and of the puts in
\* flight, in any interleaving of puts, direct puts, evictions, removals, failed saves
\* and loads, crashes and the startup scan: the cap bounds what is really stored.
NeverUndercounts == Charged <= current_cache_size

\* No step but the startup scan's raises the counter above max_xds_size: _eviction
\* checks and reserves in one critical section, whatever other threads do.
CapacityRespected ==
  [][current_cache_size' > current_cache_size /\ scan' = scan
       => current_cache_size' <= MaxSize]_vars

\* put_tasks lists exactly the stores in flight: every path out of a put, the refused
\* reservation and the failed save included, takes its key out once.
RegisteredCallers(k) ==
  {c \in Callers : /\ caller[c].key = k
                   /\ caller[c].pc \in {"reserve", "evict", "add", "spawn", "unregister"}}
ActiveJobs(k) == {j \in Jobs : job[j].key = k /\ job[j].pc # "idle"}

PutTasksMatch ==
  \A k \in Keys :
    put_tasks[k] = Cardinality(RegisteredCallers(k)) + Cardinality(ActiveJobs(k))

\* The eviction loop ends and gives hot_lock back: each round pops its candidate, so
\* the same key is not offered again for ever.
EvictionTerminates == \A c \in Callers : hot_lock = c ~> hot_lock # c

\* With one storing thread, block-first chunks and no scan, the counter is exact: what
\* was reserved is what is published, returned or still in flight.
ExactAccounting == current_cache_size = Charged

\* "visible in hot_cache => both files are on disk": a published entry's files exist, in
\* spite of files being unlinked outside the lock.
FilesOf(k) == {UnlinkOrder(k, hot_cache[k])[i] : i \in DOMAIN UnlinkOrder(k, hot_cache[k])}
IndexedIsOnDisk == \A k \in Keys : Resident(k) => FilesOf(k) \subseteq disk

\* A process that dies at any moment leaves no sidecar without its data: what the next
\* start indexes can be read.  Data is renamed before its sidecar, and unlinked and rolled
\* back after it; this needs the deletions to succeed.
SidecarHasData == \A k \in Keys : <<k, "metadata">> \in disk => <<k, "data">> \in disk

\* While entries leave the index by eviction only, an entry's pin_count is the number of
\* requests that hold it, so no chunk is evicted under a request that pinned it.
PinCountsMatch == \A k \in Keys : Resident(k) => pin_count[k] = pinned[k]

=============================================================================

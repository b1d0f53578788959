----------------------------- MODULE GdsBackend -----------------------------
(***************************************************************************)
(* The GDS storage tier (lmcache_hcu/v1/storage_backend/gds_backend.py):   *)
(* chunks kept as files on a GPUDirect file system, with no cap and no     *)
(* removal.                                                                *)
(*                                                                         *)
(* One engine thread stores directly, loads and at last closes the tier;   *)
(* staged puts are coroutines whose file work runs on threads of their     *)
(* own; the startup scan runs beside them.  Legacy chunks are a data file  *)
(* and a sidecar, each written under a random name first; nobody looks at  *)
(* how much of the data was written.  A block-first chunk is one file,     *)
(* written under one temporary name that all its writers share and each    *)
(* truncates first.  Payloads are left out.                                *)
(***************************************************************************)
EXTENDS Integers, FiniteSets

CONSTANTS
  Keys,           \* cache keys of this worker
  BlockFirst,     \* the keys of complete chunks, when block_first_v1 is enabled
  Resubmitted,    \* the keys that may be put again while they are being stored
  Puts,           \* bounds the staged puts in flight
  DirectEnabled,  \* direct_enabled
  MaxAbandoned,   \* bounds the puts of a key that raise before their save
  MaxCrashes      \* bounds process crashes

NoKey == "none"

ASSUME GdsAssumption ==
  /\ IsFiniteSet(Keys) /\ IsFiniteSet(Puts) /\ NoKey \notin Keys
  /\ BlockFirst \subseteq Keys /\ Resubmitted \subseteq Keys
  /\ DirectEnabled \in BOOLEAN /\ MaxCrashes \in Nat /\ MaxAbandoned \in Nat

VARIABLES
  hot_cache,   \* key -> layout of its entry, or "absent"
  put_tasks,   \* the set of keys being stored
  refs,        \* key -> references puts hold on memory objects
  put,         \* state of each staged put
  abandoned,   \* key -> puts that raised before their save and gave nothing back
  direct,      \* what the engine thread does
  bf_lock,     \* holder of _block_first_lock, or "free"
  registered,  \* whether the KV allocation is registered with cuFile
  staging,     \* whether the staging buffers are allocated
  scan,        \* the startup scan: "running" or "done"
  closing,     \* "open", "closing" or "closed"
  disk,        \* the files of the store
  crashes

vars == <<hot_cache, put_tasks, refs, put, direct, bf_lock, registered, staging,
          scan, closing, disk, abandoned, crashes>>

Layouts == {"legacy", "block_first"}

\* "short" is a data file that lacks part of the chunk, "part" the temporary file before it
\* is complete, "torn" a chunk that got its name then.
File == Keys \X {"data", "short", "metadata", "block_first", "tmp", "part", "torn"}

PutPC == {"idle", "start", "write", "replace", "sidecar", "publish", "finish"}
DirectPC == {"idle", "claim", "register", "write", "replace", "publish", "finish",
             "load", "read", "edge"}

IdlePut == [pc |-> "idle", key |-> NoKey]
IdleDirect == [pc |-> "idle", key |-> NoKey, path |-> "legacy"]

TypeOK ==
  /\ hot_cache \in [Keys -> Layouts \cup {"absent"}]
  /\ put_tasks \subseteq Keys
  /\ refs \in [Keys -> Nat]
  /\ put \in [Puts -> [pc : PutPC, key : Keys \cup {NoKey}]]
  /\ abandoned \in [Keys -> Nat]
  /\ direct \in [pc : DirectPC, key : Keys \cup {NoKey}, path : Layouts]
  /\ bf_lock \in Puts \cup {"free"}
  /\ registered \in BOOLEAN /\ staging \in BOOLEAN
  /\ scan \in {"running", "done"}
  /\ closing \in {"open", "closing", "closed"}
  /\ disk \subseteq File
  /\ crashes \in Nat

\* _use_block_first_for_tensor
LayoutOf(k) == IF k \in BlockFirst THEN "block_first" ELSE "legacy"

SetEntry(k, l) == hot_cache' = [hot_cache EXCEPT ![k] = l]
PutGoes(p, pc) == put' = [put EXCEPT ![p].pc = pc]
DirectGoes(pc) == direct' = [direct EXCEPT !.pc = pc]

\* The staged puts of a key that have not ended.
InFlight(k) == {p \in Puts : put[p].key = k}
-----------------------------------------------------------------------------
(* Staged puts: submit_put_task and _async_save_bytes_to_disk              *)

\* Keys are registered without a look at whether they are being stored.
SubmitPutTask(p, k) ==
  /\ closing = "open" /\ direct.pc = "idle" /\ put[p].pc = "idle"
  /\ InFlight(k) # {} => k \in Resubmitted
  /\ refs' = [refs EXCEPT ![k] = @ + 1]
  /\ put_tasks' = put_tasks \cup {k}
  /\ put' = [put EXCEPT ![p] = [pc |-> "start", key |-> k]]
  /\ UNCHANGED <<hot_cache, direct, bf_lock, registered, staging, scan, closing, disk,
                 abandoned, crashes>>

\* The temporary file of a block-first chunk is truncated, written to its full size,
\* renamed as it is then, or removed.
Tmp(k) == {<<k, "tmp">>, <<k, "part">>}
Opened(k) == (disk \ Tmp(k)) \cup {<<k, "part">>}
Written(k) == (disk \ Tmp(k)) \cup {<<k, "tmp">>}
Replaced(k) ==
  (disk \ (Tmp(k) \cup {<<k, "block_first">>, <<k, "torn">>}))
    \cup {<<k, IF <<k, "tmp">> \in disk THEN "block_first" ELSE "torn">>}

\* What comes before the try raises: the directory cannot be made.  The put is over and
\* has given nothing back.
PutRaises(p) ==
  LET k == put[p].key IN
  /\ put[p].pc = "start" /\ \A l \in Keys : abandoned[l] < MaxAbandoned
  /\ abandoned' = [abandoned EXCEPT ![k] = @ + 1]
  /\ put' = [put EXCEPT ![p] = IdlePut]
  /\ UNCHANGED <<hot_cache, put_tasks, refs, direct, bf_lock, registered, staging, scan,
                 closing, disk, crashes>>

\* The layout is chosen; a block-first put waits for the staging buffer, and begins its file.
PreparePut(p) ==
  LET k == put[p].key IN
  /\ put[p].pc = "start"
  /\ IF k \in BlockFirst
       THEN bf_lock = "free" /\ bf_lock' = p /\ disk' = Opened(k)
       ELSE UNCHANGED <<bf_lock, disk>>
  /\ PutGoes(p, "write")
  /\ UNCHANGED <<hot_cache, put_tasks, refs, direct, registered, staging, scan, closing,
                 abandoned, crashes>>

Unlock(p) == bf_lock' = IF bf_lock = p THEN "free" ELSE bf_lock

\* A data file takes the chunk's name, and the place of the one that had it.
Renamed(k, f) == (disk \ {<<k, "data">>, <<k, "short">>}) \cup {<<k, f>>}

\* _save_gds: a data file of the put's own, renamed without a look at how much cuFile wrote.
SaveGds(p) ==
  LET k == put[p].key IN
  /\ put[p].pc = "write" /\ k \notin BlockFirst
  /\ \/ PutGoes(p, "sidecar") /\ \E f \in {"data", "short"} : disk' = Renamed(k, f)
     \/ PutGoes(p, "finish") /\ UNCHANGED disk
  /\ UNCHANGED <<hot_cache, put_tasks, refs, direct, bf_lock, registered, staging, scan,
                 closing, abandoned, crashes>>

\* save_metadata
SaveMetadata(p) ==
  LET k == put[p].key IN
  /\ put[p].pc = "sidecar"
  /\ \/ PutGoes(p, "publish") /\ disk' = disk \cup {<<k, "metadata">>}
     \/ PutGoes(p, "finish") /\ UNCHANGED disk
  /\ UNCHANGED <<hot_cache, put_tasks, refs, direct, bf_lock, registered, staging, scan,
                 closing, abandoned, crashes>>

\* _save_block_first_gds: the payload is written and the file's size checked ...
SaveBlockFirst(p) ==
  LET k == put[p].key IN
  /\ put[p].pc = "write" /\ k \in BlockFirst
  /\ \/ /\ Tmp(k) \cap disk # {}
        /\ PutGoes(p, "replace") /\ disk' = Written(k) /\ UNCHANGED bf_lock
     \/ PutGoes(p, "finish") /\ disk' = disk \ Tmp(k) /\ Unlock(p)
  /\ UNCHANGED <<hot_cache, put_tasks, refs, direct, registered, staging, scan, closing,
                 abandoned, crashes>>

\* Variant: the lock on the staging buffer is kept when the file is gone.
ReplaceBlockFirstLocked(p) ==
  LET k == put[p].key IN
  /\ put[p].pc = "replace"
  /\ IF Tmp(k) \cap disk # {}
       THEN disk' = Replaced(k) /\ PutGoes(p, "publish")
       ELSE UNCHANGED disk /\ PutGoes(p, "finish")
  /\ UNCHANGED bf_lock
  /\ UNCHANGED <<hot_cache, put_tasks, refs, direct, registered, staging, scan, closing,
                 abandoned, crashes>>

\* ... and it takes the chunk's name, unless another writer has taken it away.
ReplaceBlockFirst(p) ==
  LET k == put[p].key IN
  /\ put[p].pc = "replace"
  /\ IF Tmp(k) \cap disk # {}
       THEN disk' = Replaced(k) /\ PutGoes(p, "publish")
       ELSE UNCHANGED disk /\ PutGoes(p, "finish")
  /\ Unlock(p)
  /\ UNCHANGED <<hot_cache, put_tasks, refs, direct, registered, staging, scan, closing,
                 abandoned, crashes>>

\* Variant: the entry is published before the sidecar is written.
InsertKeyEarly(p) ==
  /\ put[p].pc = "sidecar"
  /\ SetEntry(put[p].key, LayoutOf(put[p].key))
  /\ PutGoes(p, "finish")
  /\ UNCHANGED <<put_tasks, refs, direct, bf_lock, registered, staging, scan, closing,
                 disk, abandoned, crashes>>

InsertKey(p) ==
  /\ put[p].pc = "publish"
  /\ SetEntry(put[p].key, LayoutOf(put[p].key))
  /\ PutGoes(p, "finish")
  /\ UNCHANGED <<put_tasks, refs, direct, bf_lock, registered, staging, scan, closing,
                 disk, abandoned, crashes>>

\* Variant: the memory object is kept.
FinishPutKeeping(p) ==
  /\ put[p].pc = "finish"
  /\ put_tasks' = put_tasks \ {put[p].key}
  /\ put' = [put EXCEPT ![p] = IdlePut]
  /\ UNCHANGED <<hot_cache, refs, direct, bf_lock, registered, staging, scan, closing,
                 disk, abandoned, crashes>>

\* The finally of the save: the key is discarded, other puts of it or not.
FinishPut(p) ==
  LET k == put[p].key IN
  /\ put[p].pc = "finish"
  /\ refs' = [refs EXCEPT ![k] = @ - 1]
  /\ put_tasks' = put_tasks \ {k}
  /\ put' = [put EXCEPT ![p] = IdlePut]
  /\ UNCHANGED <<hot_cache, direct, bf_lock, registered, staging, scan, closing, disk,
                 abandoned, crashes>>
-----------------------------------------------------------------------------
(* The engine thread: batched_direct_put, one key after the other          *)

DirectPut(k) ==
  /\ DirectEnabled /\ closing = "open" /\ direct.pc = "idle"
  /\ k \in BlockFirst /\ hot_cache[k] # "block_first"
  /\ direct' = [pc |-> "claim", key |-> k, path |-> "block_first"]
  /\ UNCHANGED <<hot_cache, put_tasks, refs, put, bf_lock, registered, staging, scan,
                 closing, disk, abandoned, crashes>>

\* The key is claimed under put_lock, or left to the put that has it.
ClaimKey ==
  /\ direct.pc = "claim"
  /\ IF direct.key \in put_tasks
       THEN direct' = IdleDirect /\ UNCHANGED put_tasks
       ELSE DirectGoes("register") /\ put_tasks' = put_tasks \cup {direct.key}
  /\ UNCHANGED <<hot_cache, refs, put, bf_lock, registered, staging, scan, closing, disk,
                 abandoned, crashes>>

\* _validate_direct_descriptor and _ensure_direct_registration, which may refuse; then the
\* temporary file is begun.
EnsureRegistration ==
  /\ direct.pc = "register"
  /\ \/ registered' = TRUE /\ disk' = Opened(direct.key) /\ DirectGoes("write")
     \/ UNCHANGED <<registered, disk>> /\ DirectGoes("finish")
  /\ UNCHANGED <<hot_cache, put_tasks, refs, put, bf_lock, staging, scan, closing,
                 abandoned, crashes>>

\* _save_direct_gds writes the temporary file, and removes it when it fails ...
SaveDirect ==
  LET k == direct.key IN
  /\ direct.pc = "write"
  /\ \/ Tmp(k) \cap disk # {} /\ DirectGoes("replace") /\ disk' = Written(k)
     \/ DirectGoes("finish") /\ disk' = disk \ Tmp(k)
  /\ UNCHANGED <<hot_cache, put_tasks, refs, put, bf_lock, registered, staging, scan,
                 closing, abandoned, crashes>>

\* ... and gives it the chunk's name.
ReplaceDirect ==
  /\ direct.pc = "replace"
  /\ IF Tmp(direct.key) \cap disk # {}
       THEN disk' = Replaced(direct.key) /\ DirectGoes("publish")
       ELSE UNCHANGED disk /\ DirectGoes("finish")
  /\ UNCHANGED <<hot_cache, put_tasks, refs, put, bf_lock, registered, staging, scan,
                 closing, abandoned, crashes>>

InsertDirectKey ==
  /\ direct.pc = "publish"
  /\ SetEntry(direct.key, "block_first")
  /\ DirectGoes("finish")
  /\ UNCHANGED <<put_tasks, refs, put, bf_lock, registered, staging, scan, closing, disk,
                 abandoned, crashes>>

FinishDirect ==
  /\ direct.pc = "finish"
  /\ direct' = IdleDirect
  /\ put_tasks' = put_tasks \ {direct.key}
  /\ UNCHANGED <<hot_cache, refs, put, bf_lock, registered, staging, scan, closing, disk,
                 abandoned, crashes>>
-----------------------------------------------------------------------------
(* The engine thread: loads                                                *)

\* batched_direct_get: a failed transfer leaves the entry alone.
DirectGet(k) ==
  /\ DirectEnabled /\ closing = "open" /\ direct.pc = "idle"
  /\ hot_cache[k] = "block_first"
  /\ direct' = [pc |-> "edge", key |-> k, path |-> "block_first"]
  /\ UNCHANGED <<hot_cache, put_tasks, refs, put, bf_lock, registered, staging, scan,
                 closing, disk, abandoned, crashes>>

LoadDirect ==
  /\ direct.pc = "edge"
  /\ direct' = IdleDirect
  /\ registered' \in {registered, TRUE}
  /\ UNCHANGED <<hot_cache, put_tasks, refs, put, bf_lock, staging, scan, closing, disk,
                 abandoned, crashes>>

\* get_blocking, batched_get_blocking: the path is the entry's ...
GetBlocking(k) ==
  /\ closing = "open" /\ direct.pc = "idle" /\ hot_cache[k] # "absent"
  /\ direct' = [pc |-> "load", key |-> k, path |-> hot_cache[k]]
  /\ UNCHANGED <<hot_cache, put_tasks, refs, put, bf_lock, registered, staging, scan,
                 closing, disk, abandoned, crashes>>

\* ... the entry is looked up again; a block-first load waits for the staging buffer ...
LoadLookup ==
  /\ direct.pc = "load"
  /\ hot_cache[direct.key] = "block_first" => bf_lock = "free"
  /\ IF hot_cache[direct.key] = "absent" THEN direct' = IdleDirect ELSE DirectGoes("read")
  /\ UNCHANGED <<hot_cache, put_tasks, refs, put, bf_lock, registered, staging, scan,
                 closing, disk, abandoned, crashes>>

\* ... and a load that fails drops it, one that comes short does not.
LoadBytes ==
  /\ direct.pc = "read"
  /\ direct' = IdleDirect
  /\ \/ UNCHANGED hot_cache
     \/ SetEntry(direct.key, "absent")
  /\ UNCHANGED <<put_tasks, refs, put, bf_lock, registered, staging, scan, closing, disk,
                 abandoned, crashes>>
-----------------------------------------------------------------------------
(* Finding files: contains and the startup scan                            *)

\* The layouts of which metadata is found on disk.
Found(k) ==
  (IF k \in BlockFirst /\ <<k, "block_first">> \in disk THEN {"block_first"} ELSE {})
    \cup (IF <<k, "metadata">> \in disk THEN {"legacy"} ELSE {})

\* _read_metadata never replaces a block-first entry; _read_block_first_metadata replaces any.
ReadMetadata(k, l) == IF hot_cache[k] = "block_first" THEN UNCHANGED hot_cache ELSE SetEntry(k, l)

\* A lookup that misses reads the key's metadata, block-first before legacy.
Contains(k) ==
  /\ closing = "open" /\ direct.pc = "idle" /\ hot_cache[k] = "absent"
  /\ \E l \in Found(k) :
       /\ l = "legacy" => "block_first" \notin Found(k)
       /\ ReadMetadata(k, l)
  /\ UNCHANGED <<put_tasks, refs, put, direct, bf_lock, registered, staging, scan,
                 closing, disk, abandoned, crashes>>

ScanMetadata(k) ==
  /\ scan = "running"
  /\ \E l \in Found(k) : ReadMetadata(k, l)
  /\ UNCHANGED <<put_tasks, refs, put, direct, bf_lock, registered, staging, scan,
                 closing, disk, abandoned, crashes>>

ScanEnds ==
  /\ scan = "running" /\ scan' = "done"
  /\ UNCHANGED <<hot_cache, put_tasks, refs, put, direct, bf_lock, registered, staging,
                 closing, disk, abandoned, crashes>>
-----------------------------------------------------------------------------
(* close, by the engine thread                                             *)

Close ==
  /\ closing = "open" /\ direct.pc = "idle"
  /\ closing' = "closing"
  /\ UNCHANGED <<hot_cache, put_tasks, refs, put, direct, bf_lock, registered, staging, scan,
                 disk, abandoned, crashes>>

\* Variant: the puts in flight are not waited for.
CloseEndsAtOnce ==
  /\ closing = "closing" /\ scan = "done"
  /\ closing' = "closed"
  /\ registered' = FALSE /\ staging' = FALSE
  /\ UNCHANGED <<hot_cache, put_tasks, refs, put, direct, bf_lock, scan, disk, abandoned,
                 crashes>>

\* The scan and the pending puts are waited for, then the buffers go.
CloseEnds ==
  /\ closing = "closing"
  /\ scan = "done" /\ \A p \in Puts : put[p].pc = "idle"
  /\ closing' = "closed"
  /\ registered' = FALSE /\ staging' = FALSE
  /\ UNCHANGED <<hot_cache, put_tasks, refs, put, direct, bf_lock, scan, disk, abandoned,
                 crashes>>

\* The process dies, or has ended, and is started again on the files it left.
Restart ==
  /\ crashes < MaxCrashes
  /\ crashes' = crashes + 1
  /\ hot_cache' = [k \in Keys |-> "absent"]
  /\ put_tasks' = {}
  /\ refs' = [k \in Keys |-> 0]
  /\ put' = [p \in Puts |-> IdlePut]
  /\ direct' = IdleDirect
  /\ bf_lock' = "free" /\ abandoned' = [k \in Keys |-> 0]
  /\ registered' = FALSE /\ staging' = TRUE
  /\ scan' = "running" /\ closing' = "open"
  /\ UNCHANGED disk
-----------------------------------------------------------------------------
\* The first process finds an empty store, every later one what those before it left.
Init ==
  /\ hot_cache = [k \in Keys |-> "absent"]
  /\ put_tasks = {}
  /\ refs = [k \in Keys |-> 0]
  /\ put = [p \in Puts |-> IdlePut]
  /\ direct = IdleDirect
  /\ bf_lock = "free" /\ abandoned = [k \in Keys |-> 0]
  /\ registered = FALSE /\ staging = TRUE
  /\ scan = "running" /\ closing = "open"
  /\ disk = {}
  /\ crashes = 0

PutStep(p) ==
  \/ PutRaises(p) \/ PreparePut(p) \/ SaveGds(p) \/ SaveMetadata(p) \/ SaveBlockFirst(p)
  \/ ReplaceBlockFirst(p) \/ InsertKey(p) \/ FinishPut(p)

EngineStep ==
  \/ ClaimKey \/ EnsureRegistration \/ SaveDirect \/ ReplaceDirect \/ InsertDirectKey
  \/ FinishDirect \/ LoadDirect \/ LoadLookup \/ LoadBytes

Next ==
  \/ \E p \in Puts : PutStep(p) \/ \E k \in Keys : SubmitPutTask(p, k)
  \/ EngineStep \/ Close \/ CloseEnds \/ ScanEnds \/ Restart
  \/ \E k \in Keys : DirectPut(k) \/ DirectGet(k) \/ GetBlocking(k) \/ Contains(k)
                     \/ ScanMetadata(k)

Spec == Init /\ [][Next]_vars

\* Coroutines, threads and the scan keep running.
FairSpec ==
  /\ Spec
  /\ \A p \in Puts : WF_vars(PutStep(p)) /\ SF_vars(PreparePut(p))
  /\ WF_vars(EngineStep) /\ WF_vars(ScanEnds) /\ WF_vars(CloseEnds)
-----------------------------------------------------------------------------
\* The references held on memory objects are those of the puts in flight, each of which gives
\* back its own however its save ends, and those of the puts that raised before their save.
RefsMatch == \A k \in Keys : refs[k] = Cardinality(InFlight(k)) + abandoned[k]

\* A key that is registered is being stored, or a put of it raised before its save: no store
\* that fails in its save blocks the direct stores of its key for ever.
RegisteredInFlight ==
  \A k \in put_tasks :
    InFlight(k) # {} \/ abandoned[k] > 0 \/ (direct.key = k /\ direct.pc # "idle")

\* The staging buffers outlive the puts that copy through them: close waits for every put
\* that was submitted.
StagingOutlives == (\E p \in Puts : put[p].pc # "idle") => staging

\* close ends, though it waits for the scan and for puts that wait for one another.
CloseCompletes == closing = "closing" ~> (closing = "closed" \/ closing = "open")

\* An entry of the index stands for a chunk whose files have their names: a block-first file
\* that got its name whole, or a data file with its sidecar, which may be short; whatever
\* writers fail or die, nothing ever takes one away.  (A block-first key that is put twice at
\* once is left out, see Resubmitted: a direct store may truncate the file a staged one is
\* about to rename.)
Named(k) == <<k, "data">> \in disk \/ <<k, "short">> \in disk
OnDisk(e) == IF e[2] = "block_first" THEN e \in disk
             ELSE Named(e[1]) /\ <<e[1], "metadata">> \in disk
DurableChunks == {e \in Keys \X Layouts : OnDisk(e)}
IndexedChunks == {e \in Keys \X Layouts : hot_cache[e[1]] = e[2]}
SameKeyOf(e, f) == e[1] = f[1]
Tier == INSTANCE DurableTier WITH
          Entries <- Keys \X Layouts, SameKey <- SameKeyOf, Deletes <- FALSE,
          durable <- DurableChunks, indexed <- IndexedChunks
ImplementsTier == Tier!Spec

\* The accounts of the staged and direct stores: what the tier holds for them is what those in
\* flight, and those that raised before their save, took.
StoresAccounted == TypeOK /\ RefsMatch /\ RegisteredInFlight
=============================================================================

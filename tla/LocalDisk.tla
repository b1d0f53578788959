----------------------------- MODULE LocalDisk -----------------------------
(***************************************************************************)
(* The local disk tier as it is patched here                               *)
(* (lmcache_hcu/v1/storage_backend/local_disk_backend.py).                 *)
(*                                                                         *)
(* The engine thread puts and gets, the tier's worker threads write and    *)
(* prefetch, and another thread may remove a key.  disk_lock protects the  *)
(* index.  How a put is queued and where it makes room is upstream code,   *)
(* modelled from what the patched methods rely on.                         *)
(*                                                                         *)
(* Every chunk has size 1.  Files are left out: a write, a read or an      *)
(* unlink may fail at any time, as the file may be written, truncated or   *)
(* gone.  So is the usage that is reported to the monitor.                 *)
(***************************************************************************)
EXTENDS Integers, Sequences, SequencesExt, FiniteSets, FiniteSetsExt

CONSTANTS
  Keys,       \* cache keys
  Batches,    \* the batches of keys that are loaded together
  Capacity,   \* max_cache_size, in chunks
  Workers,    \* bounds the puts in flight
  MaxStranded \* no load begins once loads that raised have left a key as many objects

NoKey == "none"

ASSUME DiskAssumption ==
  /\ IsFiniteSet(Keys) /\ IsFiniteSet(Workers) /\ NoKey \notin Keys
  /\ Capacity \in Nat /\ MaxStranded \in Nat
  /\ Batches \subseteq Seq(Keys)

VARIABLES
  dict,                \* keys with an entry
  pins,                \* key -> pin count of its entry
  put_tasks,           \* keys being stored
  put,                 \* worker -> what it stores
  current_cache_size,  \* what is reserved and stored
  refs,                \* key -> references held on memory objects
  get,                 \* the engine thread's load
  prefetch,            \* a batched load on a worker thread
  stranded,            \* key -> references that loads which raised have left behind
  disk_lock            \* "free", or "lost" when a thread raised while it held it

diskVars == <<dict, pins, put_tasks, put, current_cache_size, refs, get, prefetch, stranded,
              disk_lock>>

IdlePut == [pc |-> "idle", key |-> NoKey]
IdleGet == [pc |-> "idle", key |-> NoKey]
None == [k \in Keys |-> 0]
IdlePrefetch == [pc |-> "idle", todo |-> <<>>, loaded |-> None, failed |-> FALSE]

DiskTypeOK ==
  /\ dict \subseteq Keys /\ put_tasks \subseteq Keys
  /\ pins \in [Keys -> Nat] /\ refs \in [Keys -> Nat] /\ stranded \in [Keys -> Nat]
  /\ put \in [Workers -> [pc : {"idle", "queued", "insert"}, key : Keys \cup {NoKey}]]
  /\ current_cache_size \in Nat
  /\ get \in [pc : {"idle", "allocate", "read", "unlink"}, key : Keys \cup {NoKey}]
  /\ prefetch \in [pc : {"idle", "load", "unpin", "unlink"}, todo : Seq(Keys),
                   loaded : [Keys -> Nat], failed : BOOLEAN]
  /\ disk_lock \in {"free", "lost"}

Count(f, k, d) == [f EXCEPT ![k] = @ + d]
Times(s, k) == Cardinality({i \in DOMAIN s : s[i] = k})
PutGoes(w, pc) == put' = [put EXCEPT ![w].pc = pc]
PrefetchGoes(pc) == prefetch' = [prefetch EXCEPT !.pc = pc]
-----------------------------------------------------------------------------
(* Puts                                                                    *)

Evictable == SUBSET {e \in dict : pins[e] = 0}
Needed == Max({0, current_cache_size + 1 - Capacity})
MayPut(k) == disk_lock = "free" /\ get.pc = "idle" /\ k \notin put_tasks

\* submit_put_task: room is made among the entries that are not pinned, and reserved.
SubmitPutTask(w, k) ==
  /\ MayPut(k) /\ put[w].pc = "idle"
  /\ \E E \in Evictable :
       /\ Cardinality(E) = Needed
       /\ dict' = dict \ E
       /\ current_cache_size' = current_cache_size - Cardinality(E) + 1
  /\ put_tasks' = put_tasks \cup {k}
  /\ refs' = Count(refs, k, 1)
  /\ put' = [put EXCEPT ![w] = [pc |-> "queued", key |-> k]]
  /\ UNCHANGED <<pins, get, prefetch, stranded, disk_lock>>

\* Candidates run out, or an unlink raises: what was evicted until then is gone.
PutRefused(k) ==
  /\ MayPut(k)
  /\ \E E \in Evictable :
       /\ Cardinality(E) <= Needed
       /\ dict' = dict \ E
       /\ current_cache_size' = current_cache_size - Cardinality(E)
  /\ put_tasks' \in {put_tasks, put_tasks \cup {k}}
  /\ UNCHANGED <<pins, put, refs, get, prefetch, stranded, disk_lock>>

\* A write that fails ends the put; what it had reserved of the cache size stays reserved.
WriteFails(w) ==
  LET k == put[w].key IN
  /\ put[w].pc = "queued"
  /\ refs' = Count(refs, k, -1)
  /\ put_tasks' = put_tasks \ {k}
  /\ put' = [put EXCEPT ![w] = IdlePut]
  /\ UNCHANGED <<dict, pins, current_cache_size, get, prefetch, stranded, disk_lock>>

\* Variant: the memory object is not given back.
WriteEndsKeeping(w) ==
  /\ put[w].pc = "queued"
  /\ PutGoes(w, "insert")
  /\ UNCHANGED <<dict, pins, put_tasks, current_cache_size, refs, get, prefetch, stranded,
                 disk_lock>>

\* The chunk is written, and the memory object given back.
WriteEnds(w) ==
  /\ put[w].pc = "queued"
  /\ refs' = Count(refs, put[w].key, -1)
  /\ PutGoes(w, "insert")
  /\ UNCHANGED <<dict, pins, put_tasks, current_cache_size, get, prefetch, stranded,
                 disk_lock>>

\* The entry is made (anew), and the key is no longer being stored.
InsertKey(w) ==
  LET k == put[w].key IN
  /\ put[w].pc = "insert" /\ disk_lock = "free"
  /\ dict' = dict \cup {k}
  /\ pins' = [pins EXCEPT ![k] = 0]
  /\ put_tasks' = put_tasks \ {k}
  /\ put' = [put EXCEPT ![w] = IdlePut]
  /\ UNCHANGED <<current_cache_size, refs, get, prefetch, stranded, disk_lock>>
-----------------------------------------------------------------------------
(* remove, get_blocking                                                    *)

\* Variant: the cache size is debited although there is no entry.
PoppedAnyway(k) ==
  /\ disk_lock = "free"
  /\ dict' = dict \ {k}
  /\ pins' = [pins EXCEPT ![k] = 0]
  /\ current_cache_size' = current_cache_size - 1

\* _hcu_remove up to the unlink: a key without an entry is passed over.
Popped(k) ==
  /\ disk_lock = "free"
  /\ IF k \in dict
       THEN /\ dict' = dict \ {k}
            /\ pins' = [pins EXCEPT ![k] = 0]
            /\ current_cache_size' = current_cache_size - 1
       ELSE UNCHANGED <<dict, pins, current_cache_size>>

\* Its caller holds nothing, and may see the unlink raise.
RemoveKey(k) ==
  /\ k \in dict /\ Popped(k)
  /\ UNCHANGED <<put_tasks, put, refs, get, prefetch, stranded, disk_lock>>

MayLoad == \A k \in Keys : stranded[k] < MaxStranded

\* get_blocking: the entry is read under the lock, the rest comes after it.
GetBlocking(k) ==
  /\ MayLoad /\ disk_lock = "free" /\ get.pc = "idle" /\ k \in dict
  /\ get' = [pc |-> "allocate", key |-> k]
  /\ UNCHANGED <<dict, pins, put_tasks, put, current_cache_size, refs, prefetch, stranded,
                 disk_lock>>

\* load_bytes_from_disk: without memory nothing is loaded, and the entry stays.
Allocate ==
  /\ get.pc = "allocate"
  /\ \/ get' = [get EXCEPT !.pc = "read"] /\ refs' = Count(refs, get.key, 1)
     \/ get' = IdleGet /\ UNCHANGED refs
  /\ UNCHANGED <<dict, pins, put_tasks, put, current_cache_size, prefetch, stranded,
                 disk_lock>>

\* read_file: the object is the caller's; or the key is removed, and the object given back
\* unless there is a file to unlink first.
ReadFile ==
  LET k == get.key IN
  /\ get.pc = "read"
  /\ \/ /\ get' = IdleGet /\ refs' = Count(refs, k, -1)
        /\ UNCHANGED <<dict, pins, current_cache_size>>
     \/ /\ Popped(k)
        /\ IF k \in dict
             THEN get' = [get EXCEPT !.pc = "unlink"] /\ UNCHANGED refs
             ELSE get' = IdleGet /\ refs' = Count(refs, k, -1)
  /\ UNCHANGED <<put_tasks, put, prefetch, stranded, disk_lock>>

\* os.remove: an error other than a missing file leaves the load with its object.
UnlinkUnread ==
  /\ get.pc = "unlink"
  /\ \/ refs' = Count(refs, get.key, -1) /\ UNCHANGED stranded
     \/ stranded' = Count(stranded, get.key, 1) /\ UNCHANGED refs
  /\ get' = IdleGet
  /\ UNCHANGED <<dict, pins, put_tasks, put, current_cache_size, prefetch, disk_lock>>
-----------------------------------------------------------------------------
(* Batched loads                                                           *)

\* A batched load of the keys ks, which are pinned and have memory objects.
StartPrefetch(ks) ==
  /\ MayLoad /\ disk_lock = "free" /\ prefetch.pc = "idle"
  /\ ks # <<>> /\ ToSet(ks) \subseteq dict
  /\ pins' = [k \in Keys |-> pins[k] + Times(ks, k)]
  /\ refs' = [k \in Keys |-> refs[k] + Times(ks, k)]
  /\ prefetch' = [pc |-> "load", todo |-> ks, loaded |-> None, failed |-> FALSE]
  /\ UNCHANGED <<dict, put_tasks, put, current_cache_size, get, stranded, disk_lock>>

Loading(failed) == prefetch.pc = "load" /\ prefetch.todo # <<>> /\ prefetch.failed = failed
UnpinEntry(k) == pins' = IF pins[k] > 0 THEN Count(pins, k, -1) ELSE pins

\* The batch ends where it is: what it has loaded, and what it has not, is left behind.
Raises ==
  /\ stranded' = [k \in Keys |-> stranded[k] + Times(prefetch.todo, k) + prefetch.loaded[k]]
  /\ prefetch' = IdlePrefetch
  /\ UNCHANGED <<pins, refs>>

\* A key that is read; an entry that was removed meanwhile makes the call raise.
LoadNext ==
  /\ Loading(FALSE)
  /\ IF Head(prefetch.todo) \in dict
       THEN PrefetchGoes("unpin") /\ UNCHANGED <<pins, refs, stranded>>
       ELSE Raises
  /\ UNCHANGED <<dict, put_tasks, put, current_cache_size, get, disk_lock>>

\* It is unpinned under the lock, which a KeyError leaves locked.
UnpinNext ==
  LET k == Head(prefetch.todo) IN
  /\ prefetch.pc = "unpin" /\ disk_lock = "free"
  /\ IF k \in dict
       THEN /\ UnpinEntry(k)
            /\ prefetch' = [prefetch EXCEPT !.pc = "load", !.todo = Tail(@),
                                            !.loaded = Count(@, k, 1)]
            /\ UNCHANGED <<refs, stranded, disk_lock>>
       ELSE Raises /\ disk_lock' = "lost"
  /\ UNCHANGED <<dict, put_tasks, put, current_cache_size, get>>

\* The first key that cannot be read: it is removed, its file unlinked ...
LoadFails ==
  LET k == Head(prefetch.todo) IN
  /\ Loading(FALSE) /\ Popped(k)
  /\ prefetch' = [prefetch EXCEPT !.pc = IF k \in dict THEN "unlink" ELSE @, !.failed = TRUE]
  /\ UNCHANGED <<put_tasks, put, refs, get, stranded, disk_lock>>

UnlinkUnloaded ==
  /\ prefetch.pc = "unlink"
  /\ \/ PrefetchGoes("load") /\ UNCHANGED <<pins, refs, stranded>>
     \/ Raises
  /\ UNCHANGED <<dict, put_tasks, put, current_cache_size, get, disk_lock>>

\* ... and it and the keys behind it are unpinned and their objects given back.
DropRest ==
  LET k == Head(prefetch.todo) IN
  /\ Loading(TRUE) /\ disk_lock = "free"
  /\ IF k \in dict THEN UnpinEntry(k) ELSE UNCHANGED pins
  /\ refs' = Count(refs, k, -1)
  /\ prefetch' = [prefetch EXCEPT !.todo = Tail(@)]
  /\ UNCHANGED <<dict, put_tasks, put, current_cache_size, get, stranded, disk_lock>>

\* The objects that were loaded are the caller's.
LoadReturns ==
  /\ prefetch.pc = "load" /\ prefetch.todo = <<>>
  /\ refs' = [k \in Keys |-> refs[k] - prefetch.loaded[k]]
  /\ prefetch' = IdlePrefetch
  /\ UNCHANGED <<dict, pins, put_tasks, put, current_cache_size, get, stranded, disk_lock>>
-----------------------------------------------------------------------------
DiskInit ==
  /\ dict = {} /\ put_tasks = {}
  /\ pins = None /\ refs = None /\ stranded = None
  /\ put = [w \in Workers |-> IdlePut]
  /\ current_cache_size = 0
  /\ get = IdleGet /\ prefetch = IdlePrefetch /\ disk_lock = "free"

\* Variant: close waits until no key is registered as being stored.
DrainedOfTasks == put_tasks = {} /\ prefetch.pc = "idle"

\* close waits for the puts and the batched load.
Drained == (\A w \in Workers : put[w].pc = "idle") /\ prefetch.pc = "idle"

WorkerStep ==
  \/ \E w \in Workers : WriteFails(w) \/ WriteEnds(w) \/ InsertKey(w)
  \/ LoadNext \/ UnpinNext \/ LoadFails \/ UnlinkUnloaded \/ DropRest \/ LoadReturns

EngineLoad == Allocate \/ ReadFile \/ UnlinkUnread
-----------------------------------------------------------------------------
Storing == {w \in Workers : put[w].pc # "idle"}

\* The chunks on disk and the ones on their way there never exceed the configured size:
\* the cache size counts each of them, whoever removes, evicts or fails.
DiskCapRespected ==
  /\ Cardinality(dict) + Cardinality(Storing) <= current_cache_size
  /\ current_cache_size <= Capacity

\* The references the tier holds on memory objects are those of the puts and loads that are
\* under way, and those that loads which raised have left behind; and no entry has more pins
\* than a batched load has ahead of it, or one that raised has left.
HeldMatches ==
  \A k \in Keys :
    /\ refs[k] = Cardinality({w \in Workers : put[w] = [pc |-> "queued", key |-> k]})
                 + Cardinality({g \in {get} : g.key = k /\ g.pc \in {"read", "unlink"}})
                 + Times(prefetch.todo, k) + prefetch.loaded[k] + stranded[k]
    /\ pins[k] <= Times(prefetch.todo, k) + stranded[k]
=============================================================================

------------------------------ MODULE Service ------------------------------
(***************************************************************************)
(* The life of the service on one rank: what LMCacheManager                *)
(* (lmcache_hcu/v1/manager.py) creates, starts, watches and stops, the     *)
(* engine it registers and destroys (LMCacheEngineBuilder, cache_engine.py)*)
(* and the storage manager with its backends that lives inside the engine  *)
(* (storage_manager.py); one of the backends is the local disk tier.       *)
(*                                                                         *)
(* A part that is created, closed or destroyed may raise, and the close of *)
(* one of Hangs may never return.                                          *)
(***************************************************************************)
EXTENDS LocalDisk

CONSTANTS
  Roles,       \* the roles to start with, "worker" or "scheduler"
  Bypass,      \* enable_scheduler_bypass_lookup
  FirstRank,   \* data_parallel_rank_local is 0
  Backends,    \* the configured backends, in the order they are created
  Shared,      \* shared_allocator_backends
  Disk,        \* the name of the local disk backend
  Recreatable, \* the backends that are closed and created while the service runs
  Slow,        \* the parts whose close may take longer than it is given
  Hangs        \* the parts whose close may never return

ASSUME ServiceAssumption ==
  /\ Roles \subseteq {"worker", "scheduler"}
  /\ Bypass \in BOOLEAN /\ FirstRank \in BOOLEAN
  /\ Backends \in Seq(ToSet(Backends))

VARIABLES
  role,
  life,            \* "init", "started", "serving", "stopping" or "stopped"
  todo,            \* the parts still to create, or to close
  parts,           \* the parts that exist
  closing,         \* the part whose close runs on a thread of its own, or NoPart
  hung,            \* whether that close never returns
  init_failed,     \* _init_failed of the manager
  engine_failed,   \* _init_failed of the engine
  late,            \* whether that close has run out of time
  storage,         \* "none", "open", "closing" or "closed": the storage manager
  storage_backends,\* the backends it has, in the order they were created
  shut,            \* the backends that were closed
  to_close,        \* the backends close has yet to go through
  raised           \* the backends whose close raised: the first is close_error

vars == <<diskVars, role, life, todo, parts, closing, hung, init_failed,
          engine_failed, late, storage, storage_backends, shut, to_close, raised>>

partVars == <<role, life, todo, parts, closing, hung, late>>
healthVars == <<init_failed, engine_failed>>
storageVars == <<storage, storage_backends, shut, to_close, raised>>

NoPart == "none"
Parts == {"engine", "lookup_server", "offload_server", "lookup_client", "api_server",
          "plugins", "health_monitor"}

TypeOK ==
  /\ DiskTypeOK
  /\ role \in Roles
  /\ life \in {"init", "started", "serving", "stopping", "stopped"}
  /\ todo \in Seq(Parts) /\ parts \subseteq Parts
  /\ closing \in Parts \cup {NoPart}
  /\ init_failed \in BOOLEAN /\ engine_failed \in BOOLEAN
  /\ late \in BOOLEAN /\ hung \in BOOLEAN
  /\ storage \in {"none", "open", "closing", "closed"}
  /\ shut \subseteq ToSet(Backends) /\ raised \subseteq ToSet(Backends)

InitOrder(r) ==
  (IF r = "worker" THEN <<"engine", "lookup_server", "offload_server">>
   ELSE (IF Bypass THEN <<"engine">> ELSE <<>>) \o <<"lookup_client">>)
    \o (IF FirstRank THEN <<"api_server", "plugins">> ELSE <<>>)

IfThere(p) == IF p \in parts THEN <<p>> ELSE <<>>

StopOrder ==
  IfThere("health_monitor") \o IfThere("offload_server") \o IfThere("plugins")
    \o IfThere("api_server") \o IfThere("lookup_server") \o IfThere("lookup_client")
    \o <<"engine">>
-----------------------------------------------------------------------------
(* LMCacheManager: from __init__ to post_init                              *)

\* __init__: a part is created, or raises and the parts behind it are not.
InitComponent ==
  /\ life = "init" /\ todo # <<>>
  /\ \/ parts' = parts \cup {Head(todo)} /\ todo' = Tail(todo) /\ UNCHANGED init_failed
     \/ todo' = <<>> /\ init_failed' = TRUE /\ UNCHANGED parts
  /\ UNCHANGED <<diskVars, storageVars, role, life, closing, hung, late, engine_failed>>

\* start_services
StartServices ==
  /\ life = "init" /\ todo = <<>>
  /\ life' = "started"
  /\ UNCHANGED <<diskVars, storageVars, healthVars, role, todo, parts, closing, hung, late>>

\* post_init: the engine of a manager that failed is marked; else the engine creates its
\* storage manager and the health monitor starts.  When either fails that is noted, with or
\* without a storage manager.
PostInit ==
  /\ life = "started" /\ life' = "serving"
  /\ \/ /\ init_failed
        /\ engine_failed' = (engine_failed \/ "engine" \in parts)
        /\ UNCHANGED <<parts, init_failed, storage, storage_backends>>
     \/ /\ ~init_failed /\ "engine" \notin parts
        /\ parts' = parts \cup {"health_monitor"}
        /\ UNCHANGED <<init_failed, engine_failed, storage, storage_backends>>
     \/ /\ ~init_failed /\ "engine" \in parts
        /\ storage' = "open" /\ storage_backends' = Backends
        /\ parts' = parts \cup {"health_monitor"}
        /\ UNCHANGED <<init_failed, engine_failed>>
     \/ /\ ~init_failed /\ "engine" \in parts
        /\ init_failed' = TRUE /\ engine_failed' = TRUE
        /\ \/ UNCHANGED <<storage, storage_backends>>
           \/ storage' = "open" /\ storage_backends' = Backends
        /\ UNCHANGED parts
  /\ UNCHANGED <<diskVars, role, todo, closing, hung, late, shut, to_close, raised>>

\* is_healthy of the engine, as long as the health monitor finds nothing; every operation
\* asks it first.
EngineHealthy == "engine" \in parts /\ ~engine_failed

\* recreate_lookup_client, recreate_lookup_server: the old one is closed; the new one may
\* not come up, and then there is none.
RecreateLookup ==
  LET p == IF role = "worker" THEN "lookup_server" ELSE "lookup_client" IN
  /\ life = "serving" /\ (role = "worker" => "engine" \in parts)
  /\ parts' \in {parts \ {p}, parts \cup {p}}
  /\ UNCHANGED <<diskVars, storageVars, healthVars, role, life, todo, closing, hung, late>>
-----------------------------------------------------------------------------
(* While the service runs: the disk tier, and backends that are recreated  *)

DiskOpen == storage = "open" /\ Disk \in ToSet(storage_backends)

Asked ==
  /\ life = "serving" /\ EngineHealthy /\ DiskOpen
  /\ \/ \E k \in Keys : \/ \E w \in Workers : SubmitPutTask(w, k)
                        \/ PutRefused(k) \/ GetBlocking(k) \/ RemoveKey(k)
     \/ \E ks \in Batches : StartPrefetch(ks)

DiskStep ==
  /\ Asked \/ EngineLoad \/ WorkerStep
  /\ UNCHANGED <<partVars, healthVars, storageVars>>

\* What a backend's close leaves: the disk tier waits for its workers.
Closes(b) == b = Disk => Drained

Renewed(b) ==
  IF b = Disk
    THEN /\ dict' = {} /\ pins' = None /\ put_tasks' = {}
         /\ current_cache_size' = 0 /\ disk_lock' = "free"
         /\ UNCHANGED <<put, refs, get, prefetch, stranded>>
    ELSE UNCHANGED diskVars

\* recreate_backend, and close_backend followed by create_backends: the new backend comes
\* last; the disk tier's index begins anew over the files that are there.
RecreateBackend(b) ==
  /\ life = "serving" /\ storage = "open" /\ b \in Recreatable
  /\ get.pc = "idle" /\ Closes(b)
  /\ \E i \in DOMAIN storage_backends :
       /\ storage_backends[i] = b
       /\ storage_backends' = Append(RemoveAt(storage_backends, i), b)
  /\ Renewed(b)
  /\ UNCHANGED <<partVars, healthVars, storage, shut, to_close, raised>>
-----------------------------------------------------------------------------
(* stop_services                                                           *)

StopServices ==
  /\ life = "serving" /\ get.pc = "idle"
  /\ life' = "stopping"
  /\ todo' = StopOrder
  /\ UNCHANGED <<diskVars, storageVars, healthVars, role, parts, closing, hung, late>>

\* _safe_close: the close of the next part is started on a thread of its own.
StartClose ==
  /\ life = "stopping" /\ closing = NoPart /\ todo # <<>>
  /\ closing' = Head(todo) /\ todo' = Tail(todo)
  /\ IF Head(todo) = "engine" /\ storage = "open"
       THEN storage' = "closing" /\ to_close' = Reverse(storage_backends)
       ELSE UNCHANGED <<storage, to_close>>
  /\ UNCHANGED <<diskVars, healthVars, role, life, parts, hung, late, storage_backends,
                 shut, raised>>

\* future.result runs out of time: an error is noted, and the executor that is left waits
\* for its thread all the same.
CloseTimesOut ==
  /\ closing \in Slow \cup Hangs /\ ~late
  /\ late' = TRUE
  /\ UNCHANGED <<diskVars, healthVars, storageVars, role, life, todo, parts, closing, hung>>

CloseHangs ==
  /\ closing \in Hangs /\ ~hung
  /\ hung' = TRUE
  /\ UNCHANGED <<diskVars, healthVars, storageVars, role, life, todo, parts, closing, late>>

\* The close of a part ends, or raises, which is noted too.  The engine's is done when its
\* storage manager's is.
CloseReturns ==
  /\ closing # NoPart /\ ~hung
  /\ closing = "engine" => storage # "closing"
  /\ closing' = NoPart /\ late' = FALSE
  /\ UNCHANGED <<diskVars, healthVars, storageVars, role, life, todo, parts, hung>>

Stopped ==
  /\ life = "stopping" /\ closing = NoPart /\ todo = <<>>
  /\ life' = "stopped"
  /\ UNCHANGED <<diskVars, healthVars, storageVars, role, todo, parts, closing, hung, late>>
-----------------------------------------------------------------------------
(* StorageManager.close                                                    *)

\* Variant: the shared allocator is closed after a failure too.
SkippedNever(b) == FALSE

\* A shared allocator is left open once a close has failed.
Skipped(b) == raised # {} /\ b \in Shared

SkipBackend ==
  /\ storage = "closing" /\ to_close # <<>> /\ Skipped(Head(to_close))
  /\ to_close' = Tail(to_close)
  /\ UNCHANGED <<diskVars, healthVars, partVars, storage, storage_backends, shut, raised>>

\* The next backend's close ends ...
CloseBackend ==
  /\ storage = "closing" /\ to_close # <<>> /\ ~Skipped(Head(to_close))
  /\ Closes(Head(to_close))
  /\ shut' = shut \cup {Head(to_close)}
  /\ to_close' = Tail(to_close)
  /\ UNCHANGED <<diskVars, healthVars, partVars, storage, storage_backends, raised>>

\* ... or raises, at any time, and the one after it is closed all the same.
CloseRaises ==
  /\ storage = "closing" /\ to_close # <<>> /\ ~Skipped(Head(to_close))
  /\ raised' = raised \cup {Head(to_close)}
  /\ to_close' = Tail(to_close)
  /\ UNCHANGED <<diskVars, healthVars, partVars, storage, storage_backends, shut>>

\* The event loop is stopped; its thread is waited for, 10 s at most.
StopLoop ==
  /\ storage = "closing" /\ to_close = <<>>
  /\ storage' = "closed"
  /\ UNCHANGED <<diskVars, healthVars, partVars, storage_backends, shut, to_close, raised>>
-----------------------------------------------------------------------------
Init ==
  /\ DiskInit
  /\ role \in Roles
  /\ life = "init" /\ todo = InitOrder(role)
  /\ parts = {} /\ closing = NoPart /\ late = FALSE /\ hung = FALSE
  /\ init_failed = FALSE /\ engine_failed = FALSE
  /\ storage = "none" /\ storage_backends = <<>>
  /\ shut = {} /\ to_close = <<>> /\ raised = {}

Stopping == StartClose \/ SkipBackend \/ CloseBackend \/ StopLoop \/ Stopped

Next ==
  \/ InitComponent \/ StartServices \/ PostInit \/ RecreateLookup
  \/ DiskStep \/ \E b \in Recreatable : RecreateBackend(b)
  \/ StopServices \/ CloseTimesOut \/ CloseHangs \/ CloseReturns \/ CloseRaises \/ Stopping

Spec == Init /\ [][Next]_vars

\* Threads keep running, and a close returns unless it hangs.
FairSpec ==
  /\ Spec
  /\ WF_vars(Stopping) /\ WF_vars(CloseTimesOut)
  /\ WF_vars(CloseReturns)
  /\ WF_vars(WorkerStep /\ UNCHANGED <<partVars, healthVars, storageVars>>)
-----------------------------------------------------------------------------
\* An engine that answers that it is healthy has its storage manager: operations never find
\* it missing, wherever the initialization failed.
HealthyHasStorage == life = "serving" /\ EngineHealthy => storage # "none"

\* The memory that a shared allocator lends is there as long as puts and loads of the disk
\* tier copy through it, though closes fail half-way.
AllocatorOutlives == \A b \in Shared : b \in shut => Drained

\* Every backend but a shared allocator is closed, or its own close has raised: no backend
\* is left out because another one failed.
SiblingsClosed ==
  storage = "closed" => \A b \in ToSet(storage_backends) \ Shared : b \in shut \cup raised

\* stop_services ends, unless the close of a part never returns or a batched load has raised
\* inside disk_lock: a close that runs out of time, closes that raise and batched loads that
\* failed do not keep it.
StopsUnlessStuck ==
  life = "stopping" ~> (life = "stopped" \/ hung \/ disk_lock = "lost")

\* Storage is there as long as anything uses it and goes when nothing does: from a start
\* that fails half-way to a close that does.
StorageLife == TypeOK /\ HealthyHasStorage /\ AllocatorOutlives /\ SiblingsClosed
=============================================================================

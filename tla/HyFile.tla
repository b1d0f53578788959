------------------------------- MODULE HyFile -------------------------------
(***************************************************************************)
(* Transfers through the hipFile driver, and the driver's life:            *)
(*   - HIPFile (lmcache_hcu/v1/hipfile.py) opens a file, registers a       *)
(*     handle for it, transfers, and closes both;                          *)
(*   - HyFileDDS.read and write (xds_backend.py) do so inside the driver   *)
(*     guard of module DriverGuard, and copy by the CPU what came short;   *)
(*   - HyFileMemoryAllocator (memory_management.py) counts the pools that  *)
(*     are registered: the first opens the driver, the last closes it;     *)
(*   - the XDS backend builds its pools, registers the KV cache for direct *)
(*     transfers, and gives everything back when it is closed.             *)
(*                                                                         *)
(* Every call of the library may fail, MaxFaults times in a behaviour.     *)
(***************************************************************************)
EXTENDS DriverGuard

CONSTANTS
  Modes,       \* of the backend: "staged" has pools, "direct" registers the KV cache, "both"
  Headed,      \* threads whose files have a header in front of the payload (file_offset)
  CpuCopy,     \* whether a CPU copy may repeat a transfer (allow_cpu_fallback and hiprt)
  MaxBuilds,   \* bounds how often the backend is built
  MaxFaults    \* bounds the calls of the library that fail

VARIABLES
  io,        \* what each thread's HIPFile holds: see IO
  ret,       \* what its transfer came to: "none", "whole", "short" or "raised"
  data,      \* what the target of its transfer holds: header, payload
  returned,  \* what its last call returned: "none", "size" or "error"
  driver,    \* _driver_opened
  active,    \* HyFileMemoryAllocator._active_allocators
  pool,      \* the flags _registered and _counted of each pool
  direct,    \* buffers registered for direct transfers
  owned,     \* _direct_driver_owned
  mode,      \* the backend's mode
  stage,     \* where the backend is in its construction or close
  built,     \* whether its construction has ended
  builds, faults

ioVars == <<io, ret, data, returned>>
lifeVars == <<active, pool, direct, owned, mode, stage, built, builds>>
transferVars == <<vars, ioVars, driver, lifeVars, faults>>

IO == {"none", "fd", "handle", "done"}
Pools == {"pool", "staging"}
Stages == {"none", "opening", "staging", "rollback", "serving", "closing", "unregister",
           "unstage", "unpool", "undrive", "raised", "closed", "abandoned"}

TransferTypeOK ==
  /\ TypeOK
  /\ io \in [Threads -> IO]
  /\ ret \in [Threads -> {"none", "whole", "short", "raised"}]
  /\ data \in [Threads -> SUBSET {"header", "payload"}]
  /\ returned \in [Threads -> {"none", "size", "error"}]
  /\ driver \in BOOLEAN /\ owned \in BOOLEAN /\ built \in BOOLEAN
  /\ active \in 0 .. Cardinality(Pools)
  /\ pool \in [Pools -> [registered : BOOLEAN, counted : BOOLEAN]]
  /\ direct \subseteq {"kv", "edge"}
  /\ mode \in Modes /\ stage \in Stages
  /\ builds \in Nat /\ faults \in Nat

\* A call of the library fails, or does not.
Fails == faults < MaxFaults /\ faults' = faults + 1
Succeeds == UNCHANGED faults
-----------------------------------------------------------------------------
(* HyFileDDS.read and write, HIPFile                                       *)

Set(v, t, x) == [v EXCEPT ![t] = x]

\* A call, on a file that has its header already or on one that is to be created.
Call(t) ==
  /\ stage = "serving" /\ Begin(t)
  /\ data' = Set(data, t, IF t \in Headed THEN {"header"} ELSE {})
  /\ io' = Set(io, t, "none") /\ ret' = Set(ret, t, "none")
  /\ returned' = Set(returned, t, "none")
  /\ UNCHANGED <<driver, lifeVars, faults>>

Enter(t) ==
  /\ EnterRead(t) \/ EnterWrite(t)
  /\ UNCHANGED <<ioVars, driver, lifeVars, faults>>

Inside(t) == pc[t] \in {"reading", "writing"}

\* HIPFile.open: the driver if it is not open, the file.  Mode "w" truncates it.
OpenFile(t) ==
  /\ Inside(t) /\ io[t] = "none" /\ ret[t] = "none"
  /\ driver' = TRUE
  /\ \/ /\ Succeeds
        /\ io' = Set(io, t, "fd")
        /\ data' = IF pc[t] = "writing" /\ t \notin Headed THEN Set(data, t, {}) ELSE data
        /\ UNCHANGED ret
     \/ Fails /\ ret' = Set(ret, t, "raised") /\ UNCHANGED <<io, data>>
  /\ UNCHANGED <<vars, returned, lifeVars>>

\* ... and the handle, without which the file is closed again.
RegisterFileHandle(t) ==
  /\ Inside(t) /\ io[t] = "fd" /\ ret[t] = "none"
  /\ \/ Succeeds /\ io' = Set(io, t, "handle") /\ UNCHANGED ret
     \/ Fails /\ io' = Set(io, t, "done") /\ ret' = Set(ret, t, "raised")
  /\ UNCHANGED <<vars, data, returned, driver, lifeVars>>

\* HIPFile.read and write: an unaligned address, or a negative count, raises.
Transfer(t) ==
  /\ Inside(t) /\ io[t] = "handle" /\ ret[t] = "none"
  /\ \/ Succeeds /\ ret' = Set(ret, t, "whole") /\ data' = Set(data, t, data[t] \cup {"payload"})
     \/ Fails /\ ret' \in {Set(ret, t, "short"), Set(ret, t, "raised")} /\ UNCHANGED data
  /\ UNCHANGED <<vars, io, returned, driver, lifeVars>>

\* HIPFile.close: the file is closed though its handle cannot be given back.
CloseFile(t) ==
  /\ Inside(t) /\ io[t] = "handle" /\ ret[t] # "none"
  /\ io' = Set(io, t, "done")
  /\ \/ Succeeds /\ UNCHANGED ret
     \/ Fails /\ ret' = Set(ret, t, "raised")
  /\ UNCHANGED <<vars, data, returned, driver, lifeVars>>

\* Variant: a count that is short is returned like a full one.
LeaveGuardShort(t) ==
  /\ ret[t] # "none" /\ io[t] # "handle"
  /\ LeaveRead(t) \/ LeaveWrite(t)
  /\ pc'[t] = IF ret[t] \in {"whole", "short"} THEN "idle" ELSE "fallback"
  /\ returned' = Set(returned, t, IF ret[t] \in {"whole", "short"} THEN "size" ELSE "none")
  /\ ret' = Set(ret, t, "none")
  /\ UNCHANGED <<io, data, driver, lifeVars, faults>>

\* The guard is left: only a transfer of all bytes is the end of the call.
LeaveGuard(t) ==
  /\ ret[t] # "none" /\ io[t] # "handle"
  /\ LeaveRead(t) \/ LeaveWrite(t)
  /\ pc'[t] = IF ret[t] = "whole" THEN "idle" ELSE "fallback"
  /\ returned' = Set(returned, t, IF ret[t] = "whole" THEN "size" ELSE "none")
  /\ ret' = Set(ret, t, "none")
  /\ UNCHANGED <<io, data, driver, lifeVars, faults>>

\* The CPU copy of the whole range, through a map of the file, which must be there.
CopyByCpu(t) ==
  /\ Fallback(t)
  /\ \/ /\ CpuCopy /\ (t \in Headed \/ io[t] = "done") /\ Succeeds
        /\ data' = Set(data, t, data[t] \cup {"payload"})
        /\ returned' = Set(returned, t, "size")
     \/ /\ returned' = Set(returned, t, "error")
        /\ UNCHANGED <<data, faults>>
  /\ io' = Set(io, t, "none")
  /\ UNCHANGED <<ret, driver, lifeVars>>

\* A direct transfer registers its buffers first (_ensure_direct_registration,
\* _get_direct_edge_staging).
RegisterDirect(b) ==
  /\ stage = "serving" /\ mode # "staged" /\ b \notin direct /\ driver
  /\ direct' = direct \cup {b}
  /\ UNCHANGED <<vars, ioVars, driver, active, pool, owned, mode, stage, built, builds, faults>>
-----------------------------------------------------------------------------
(* HyFileMemoryAllocator: what it does while it holds the lifecycle lock   *)

\* The driver is opened for the first pool; the pool is registered and counted.
OpenPool(p) ==
  /\ Succeeds
  /\ driver' = TRUE /\ active' = active + 1
  /\ pool' = Set(pool, p, [registered |-> TRUE, counted |-> TRUE])

\* One of the calls fails: what was opened for this pool is closed, if it can be.
OpenPoolFails(p) ==
  /\ Fails
  /\ driver' \in (IF active = 0 THEN BOOLEAN ELSE {driver})
  /\ UNCHANGED <<active, pool>>

\* The pool is the last that is counted.
LastPool == active = 1

\* Variant: a pool counts as closed once it was tried.
DriverRefusesForgotten(p) ==
  /\ pool[p].counted /\ LastPool /\ Fails
  /\ active' = active - 1
  /\ pool' = Set(pool, p, [registered |-> FALSE, counted |-> FALSE])
  /\ UNCHANGED driver

\* close raises when the buffer or the driver cannot be given back; the flags say what is
\* left for the next try.
DriverRefuses(p) ==
  /\ pool[p].counted /\ LastPool /\ Fails
  /\ pool' = Set(pool, p, [registered |-> FALSE, counted |-> TRUE])
  /\ UNCHANGED <<driver, active>>

BufferRefuses(p) == pool[p].registered /\ Fails /\ UNCHANGED <<driver, active, pool>>

ClosePool(p) ==
  /\ Succeeds
  /\ pool' = Set(pool, p, [registered |-> FALSE, counted |-> FALSE])
  /\ active' = IF pool[p].counted THEN active - 1 ELSE active
  /\ driver' = IF pool[p].counted /\ LastPool THEN FALSE ELSE driver
-----------------------------------------------------------------------------
(* The XDS backend's construction and close                                *)

GoesTo(s) == stage' = s
Raised == IF built THEN "raised" ELSE "abandoned"
Ended == IF built THEN "closed" ELSE "none"

\* __init__: the pool, or the driver for a backend that only transfers directly.  (A pool
\* that an abandoned backend left behind has no owner any more: what a backend built
\* beside it would do is not modelled.)
Build(m) ==
  /\ stage \in {"none", "closed"} /\ builds < MaxBuilds
  /\ \A p \in Pools : ~pool[p].counted
  /\ builds' = builds + 1 /\ mode' = m /\ GoesTo("opening")
  /\ built' = FALSE
  /\ UNCHANGED <<vars, ioVars, driver, active, pool, direct, owned, faults>>

OpenDriverOrPool ==
  /\ stage = "opening"
  /\ IF mode = "direct"
       THEN /\ UNCHANGED <<active, pool>>
            /\ \/ Succeeds /\ driver' = TRUE /\ owned' = TRUE /\ GoesTo("serving")
               \/ Fails /\ GoesTo("rollback") /\ UNCHANGED <<driver, owned>>
       ELSE /\ UNCHANGED owned
            /\ \/ OpenPool("pool") /\ GoesTo("staging")
               \/ OpenPoolFails("pool") /\ GoesTo("none")
  /\ built' = (stage' = "serving")
  /\ UNCHANGED <<vars, ioVars, direct, mode, builds>>

\* The round trip through the driver is verified and the staging chunk allocated: what
\* fails here gives everything back.
OpenStaging ==
  /\ stage = "staging"
  /\ \/ OpenPool("staging") /\ GoesTo("serving")
     \/ OpenPoolFails("staging") /\ GoesTo("rollback")
  /\ built' = (stage' = "serving")
  /\ UNCHANGED <<vars, ioVars, direct, owned, mode, builds>>

Rollback ==
  /\ stage = "rollback" /\ GoesTo("unstage")
  /\ UNCHANGED <<vars, ioVars, driver, active, pool, direct, owned, mode, built, builds, faults>>

\* close may be called again after it has raised.
Close ==
  /\ stage \in {"serving", "raised"} /\ GoesTo("closing")
  /\ UNCHANGED <<vars, ioVars, driver, active, pool, direct, owned, mode, built, builds, faults>>

\* Variant: transfers in flight are not waited for.
DrainAtOnce ==
  /\ stage = "closing" /\ GoesTo("unregister")
  /\ UNCHANGED <<vars, ioVars, driver, active, pool, direct, owned, mode, built, builds, faults>>

\* The worker and the thread pool finish what they have.
Drain ==
  /\ stage = "closing" /\ \A t \in Threads : pc[t] = "idle"
  /\ GoesTo("unregister")
  /\ UNCHANGED <<vars, ioVars, driver, active, pool, direct, owned, mode, built, builds, faults>>

\* _close_direct_registrations, _close_direct_edge_staging
Unregister ==
  /\ stage = "unregister"
  /\ IF direct = {} THEN Succeeds /\ GoesTo("unstage") /\ UNCHANGED direct
     ELSE \/ Succeeds /\ UNCHANGED stage /\ \E b \in direct : direct' = direct \ {b}
          \/ Fails /\ GoesTo("raised") /\ UNCHANGED direct
  /\ UNCHANGED <<vars, ioVars, driver, active, pool, owned, mode, built, builds>>

\* The pools of the backend, the staging chunk's first.
Release(p, here, next) ==
  /\ stage = here
  /\ \/ ClosePool(p) /\ GoesTo(next)
     \/ (BufferRefuses(p) \/ DriverRefuses(p)) /\ GoesTo(Raised)
  /\ UNCHANGED <<vars, ioVars, direct, owned, mode, built, builds>>

ReleaseStaging == Release("staging", "unstage", "unpool")
ReleasePool == Release("pool", "unpool", "undrive")

\* The driver, by the backend that has opened it.
ReleaseDriver ==
  /\ stage = "undrive"
  /\ IF owned
       THEN \/ Succeeds /\ driver' = FALSE /\ owned' = FALSE /\ GoesTo(Ended)
            \/ Fails /\ GoesTo(Raised) /\ UNCHANGED <<driver, owned>>
       ELSE Succeeds /\ GoesTo(Ended) /\ UNCHANGED <<driver, owned>>
  /\ UNCHANGED <<vars, ioVars, active, pool, direct, mode, built, builds>>

\* __del__ of a pool whose backend was never built: one more try, the failure of which is
\* only logged.
Finalize ==
  /\ stage = "abandoned" /\ GoesTo("none")
  /\ \E p \in Pools :
       /\ pool[p].counted \/ \A q \in Pools : ~pool[q].counted
       /\ ClosePool(p) \/ BufferRefuses(p) \/ DriverRefuses(p)
  /\ UNCHANGED <<vars, ioVars, direct, owned, mode, built, builds>>
-----------------------------------------------------------------------------
TransferInit ==
  /\ Init
  /\ io = [t \in Threads |-> "none"] /\ ret = [t \in Threads |-> "none"]
  /\ data = [t \in Threads |-> {}]
  /\ returned = [t \in Threads |-> "none"]
  /\ driver = FALSE /\ active = 0 /\ owned = FALSE /\ direct = {}
  /\ pool = [p \in Pools |-> [registered |-> FALSE, counted |-> FALSE]]
  /\ mode \in Modes /\ stage = "none" /\ built = FALSE
  /\ builds = 0 /\ faults = 0

ThreadStep(t) ==
  \/ Enter(t) \/ OpenFile(t) \/ RegisterFileHandle(t) \/ Transfer(t) \/ CloseFile(t)
  \/ LeaveGuard(t) \/ CopyByCpu(t)

BackendStep ==
  \/ OpenDriverOrPool \/ OpenStaging \/ Rollback \/ Drain \/ Unregister
  \/ ReleaseStaging \/ ReleasePool \/ ReleaseDriver \/ Finalize

TransferNext ==
  \/ \E t \in Threads : Call(t) \/ ThreadStep(t)
  \/ BackendStep \/ Close
  \/ \E m \in Modes : Build(m)
  \/ \E b \in {"kv", "edge"} : RegisterDirect(b)

TransferSpec == TransferInit /\ [][TransferNext]_transferVars

\* Threads and the backend's own steps go on; a close that has raised is tried again.
FairTransfers ==
  /\ TransferSpec
  /\ \A t \in Threads : WF_transferVars(ThreadStep(t))
  /\ WF_transferVars(BackendStep) /\ WF_transferVars(stage = "raised" /\ Close)
-----------------------------------------------------------------------------
\* A buffer is registered, or a file handle in use, only while the driver is open: pools,
\* direct registrations and transfers each rely on somebody else to keep it open.
DriverOpenWhileUsed ==
  \/ driver
  \/ /\ direct = {} /\ \A p \in Pools : ~pool[p].registered
     /\ \A t \in Threads : io[t] # "handle"

\* A backend that was closed has given everything back, however often its close had to be
\* tried: no buffer is registered, no pool is counted, the driver is closed.
ClosedReleasesAll ==
  stage = "closed" =>
    /\ ~driver /\ active = 0 /\ direct = {}
    /\ \A p \in Pools : ~pool[p].registered /\ ~pool[p].counted

\* A call that returns the size has moved all of it and kept the header in front of it; a
\* short or failed transfer is repeated or reported.
ResultHonest ==
  \A t \in Threads :
    returned[t] = "size" =>
      "payload" \in data[t] /\ (t \in Headed => "header" \in data[t])

\* No file stays open, and no handle registered, once its thread has left the driver.
NoHandleLeft == \A t \in Threads : io[t] \in {"fd", "handle"} => Inside(t)

\* What is opened is given back: a thread leaves neither file nor handle in the driver, and
\* a closed backend neither buffer nor pool, in states of the right types.
NothingLeaks == TransferTypeOK /\ ClosedReleasesAll /\ NoHandleLeft
=============================================================================

---------------------------- MODULE DriverGuard ----------------------------
(***************************************************************************)
(* The guard HyFileDDS puts around the hipFile driver                      *)
(* (lmcache_hcu/v1/storage_backend/xds_backend.py): reads may overlap,     *)
(* writes exclude reads and other writes.  It is a condition variable with *)
(* a count of readers and a writer flag, shared by every instance.         *)
(*                                                                         *)
(* What a thread does while it holds the condition's lock is one step; a   *)
(* thread that waits has left the lock and sleeps until it is notified.    *)
(* After the guarded part, a short or failed transfer is repeated by a CPU *)
(* copy outside the guard.                                                 *)
(***************************************************************************)
EXTENDS Integers, FiniteSets

CONSTANTS
  Threads,      \* executor threads that transfer chunks
  MaxTransfers  \* bounds the transfers of one thread

ASSUME GuardAssumption == IsFiniteSet(Threads) /\ MaxTransfers \in Nat

VARIABLES
  _driver_readers,  \* threads inside _read_driver_guard
  _driver_writer,   \* whether a thread is inside _write_driver_guard
  pc,               \* where each thread is
  transfers         \* transfers each thread has begun

vars == <<_driver_readers, _driver_writer, pc, transfers>>

PC == {"idle", "enter_read", "sleep_read", "reading", "enter_write", "sleep_write",
       "writing", "fallback"}

TypeOK ==
  /\ _driver_readers \in Nat
  /\ _driver_writer \in BOOLEAN
  /\ pc \in [Threads -> PC]
  /\ transfers \in [Threads -> Nat]

Go(t, l) == pc' = [pc EXCEPT ![t] = l]

\* notify_all: every sleeper goes back to testing its condition.
Awake(l) == IF l = "sleep_read" THEN "enter_read" ELSE IF l = "sleep_write" THEN "enter_write" ELSE l
NotifyAll(t, l) == pc' = [u \in Threads |-> IF u = t THEN l ELSE Awake(pc[u])]
-----------------------------------------------------------------------------
\* read and write are called.
Begin(t) ==
  /\ pc[t] = "idle" /\ transfers[t] < MaxTransfers
  /\ transfers' = [transfers EXCEPT ![t] = @ + 1]
  /\ Go(t, "enter_read") \/ Go(t, "enter_write")
  /\ UNCHANGED <<_driver_readers, _driver_writer>>

\* _read_driver_guard, entry
EnterRead(t) ==
  /\ pc[t] = "enter_read"
  /\ IF _driver_writer
       THEN Go(t, "sleep_read") /\ UNCHANGED _driver_readers
       ELSE Go(t, "reading") /\ _driver_readers' = _driver_readers + 1
  /\ UNCHANGED <<_driver_writer, transfers>>

\* Variant: the last reader tells nobody.
LeaveReadQuietly(t) ==
  /\ pc[t] = "reading"
  /\ _driver_readers' = _driver_readers - 1
  /\ Go(t, "idle") \/ Go(t, "fallback")
  /\ UNCHANGED <<_driver_writer, transfers>>

\* _read_driver_guard, exit: the last reader wakes the waiting threads.
LeaveRead(t) ==
  /\ pc[t] = "reading"
  /\ _driver_readers' = _driver_readers - 1
  /\ \E l \in {"idle", "fallback"} :
       IF _driver_readers' = 0 THEN NotifyAll(t, l) ELSE Go(t, l)
  /\ UNCHANGED <<_driver_writer, transfers>>

\* Variant: readers are not waited for.
EnterWriteAmongReaders(t) ==
  /\ pc[t] = "enter_write"
  /\ IF _driver_writer
       THEN Go(t, "sleep_write") /\ UNCHANGED _driver_writer
       ELSE Go(t, "writing") /\ _driver_writer' = TRUE
  /\ UNCHANGED <<_driver_readers, transfers>>

\* _write_driver_guard, entry
EnterWrite(t) ==
  /\ pc[t] = "enter_write"
  /\ IF _driver_writer \/ _driver_readers # 0
       THEN Go(t, "sleep_write") /\ UNCHANGED _driver_writer
       ELSE Go(t, "writing") /\ _driver_writer' = TRUE
  /\ UNCHANGED <<_driver_readers, transfers>>

\* Variant: the flag is cleared and nobody is told.
LeaveWriteQuietly(t) ==
  /\ pc[t] = "writing"
  /\ _driver_writer' = FALSE
  /\ Go(t, "idle") \/ Go(t, "fallback")
  /\ UNCHANGED <<_driver_readers, transfers>>

\* _write_driver_guard, exit
LeaveWrite(t) ==
  /\ pc[t] = "writing"
  /\ _driver_writer' = FALSE
  /\ \E l \in {"idle", "fallback"} : NotifyAll(t, l)
  /\ UNCHANGED <<_driver_readers, transfers>>

\* The CPU copy after a short or failed transfer.
Fallback(t) ==
  /\ pc[t] = "fallback"
  /\ Go(t, "idle")
  /\ UNCHANGED <<_driver_readers, _driver_writer, transfers>>
-----------------------------------------------------------------------------
Init ==
  /\ _driver_readers = 0
  /\ _driver_writer = FALSE
  /\ pc = [t \in Threads |-> "idle"]
  /\ transfers = [t \in Threads |-> 0]

Proceed(t) == EnterRead(t) \/ LeaveRead(t) \/ EnterWrite(t) \/ LeaveWrite(t) \/ Fallback(t)

Next == \E t \in Threads : Begin(t) \/ Proceed(t)

Spec == Init /\ [][Next]_vars
-----------------------------------------------------------------------------
Reading == {t \in Threads : pc[t] = "reading"}
Writing == {t \in Threads : pc[t] = "writing"}

\* "Allow concurrent reads while keeping writes exclusive from both reads and other
\* writes": a thread inside the driver for a write is alone there.
WritesExclusive ==
  \A t \in Writing : Reading = {} /\ Writing = {t}

\* No wake-up is lost: a thread sleeps only while what it waits for has not come, though
\* readers notify only when the last of them leaves.
SleepersHaveReason ==
  \A t \in Threads :
    /\ pc[t] = "sleep_read" => _driver_writer
    /\ pc[t] = "sleep_write" => _driver_writer \/ _driver_readers # 0

\* Every transfer that has begun gets into the driver and ends, as long as no thread
\* begins new ones for ever.
TransfersEnd == \A t \in Threads : pc[t] # "idle" ~> pc[t] = "idle"
=============================================================================

--------------------------- MODULE HyFileProofs ---------------------------
(* The driver guard excludes and loses no wake-up, for any number of       *)
(* threads; the transfers keep to it, no buffer or file handle outlives the*)
(* driver, every result is that of the transfer that was asked for, and    *)
(* nothing leaks.                                                          *)
EXTENDS HyFile, FiniteSetTheorems, TLAPS

USE GuardAssumption
-----------------------------------------------------------------------------
(* The driver guard by itself                                              *)

(* The counter and the flag say who is inside: without this WritesExclusive *)
(* is not inductive, since an entering thread looks at them and not at the  *)
(* other threads.                                                           *)
GuardInv ==
  /\ TypeOK
  /\ _driver_readers = Cardinality(Reading)
  /\ _driver_writer => \E t \in Threads : Writing = {t}
  /\ ~_driver_writer => Writing = {}
  /\ _driver_writer => Reading = {}
  /\ SleepersHaveReason

\* The readers are finite in number, and one more or less changes the count by one.
LEMMA ReadersFinite ==
  /\ IsFiniteSet(Reading) /\ Cardinality(Reading) \in Nat
  /\ Cardinality(Reading) = 0 <=> Reading = {}
  /\ \A t \in Threads \ Reading : Cardinality(Reading \cup {t}) = Cardinality(Reading) + 1
  /\ \A t \in Reading : Cardinality(Reading \ {t}) = Cardinality(Reading) - 1
<1>1. IsFiniteSet(Reading)
  BY FS_Subset DEF Reading
<1>2. Cardinality(Reading) \in Nat /\ (Cardinality(Reading) = 0 <=> Reading = {})
  BY <1>1, FS_CardinalityType, FS_EmptySet
<1>3. \A t \in Threads \ Reading : Cardinality(Reading \cup {t}) = Cardinality(Reading) + 1
  BY <1>1, FS_AddElement
<1>4. \A t \in Reading : Cardinality(Reading \ {t}) = Cardinality(Reading) - 1
  BY <1>1, FS_RemoveElement
<1>. QED BY <1>1, <1>2, <1>3, <1>4

\* The guard's invariant holds at the start.
LEMMA GuardInit == Init => GuardInv
<1>. SUFFICES ASSUME Init PROVE GuardInv
  OBVIOUS
<1>1. Reading = {} /\ Writing = {}
  BY DEF Init, Reading, Writing
<1>2. Cardinality({}) = 0
  BY FS_EmptySet
<1>. QED BY <1>1, <1>2 DEF Init, GuardInv, TypeOK, PC, SleepersHaveReason

\* Every step of every thread keeps it.
LEMMA GuardStep ==
  ASSUME GuardInv, [Next]_vars
  PROVE  GuardInv'
<1>0. TypeOK /\ pc \in [Threads -> PC] /\ _driver_readers \in Nat
  BY DEF GuardInv, TypeOK
<1>1. ASSUME NEW t \in Threads, Begin(t) PROVE GuardInv'
  <2>1. TypeOK'
    BY <1>0, <1>1 DEF Begin, Go, TypeOK, PC
  <2>2. Reading' = Reading /\ Writing' = Writing
    BY <1>0, <1>1 DEF Begin, Go, Reading, Writing
  <2>3. SleepersHaveReason'
    BY <1>0, <1>1 DEF Begin, Go, GuardInv, SleepersHaveReason
  <2>. QED BY <1>1, <2>1, <2>2, <2>3 DEF Begin, GuardInv
<1>2. ASSUME NEW t \in Threads, EnterRead(t) PROVE GuardInv'
  <2>1. CASE _driver_writer
    <3>1. TypeOK'
      BY <1>0, <1>2, <2>1 DEF EnterRead, Go, TypeOK, PC
    <3>2. Reading' = Reading /\ Writing' = Writing
      BY <1>0, <1>2, <2>1 DEF EnterRead, Go, Reading, Writing
    <3>3. SleepersHaveReason'
      BY <1>0, <1>2, <2>1 DEF EnterRead, Go, GuardInv, SleepersHaveReason
    <3>. QED BY <1>2, <2>1, <3>1, <3>2, <3>3 DEF EnterRead, GuardInv
  <2>2. CASE ~_driver_writer
    <3>1. TypeOK'
      BY <1>0, <1>2, <2>2 DEF EnterRead, Go, TypeOK, PC
    <3>2. t \notin Reading /\ Reading' = Reading \cup {t} /\ Writing' = Writing
      BY <1>0, <1>2, <2>2 DEF EnterRead, Go, Reading, Writing
    <3>3. SleepersHaveReason'
      BY <1>0, <1>2, <2>2 DEF EnterRead, Go, GuardInv, SleepersHaveReason
    <3>4. _driver_readers' = Cardinality(Reading')
      BY <1>2, <2>2, <3>2, ReadersFinite DEF EnterRead, GuardInv
    <3>. QED BY <1>2, <2>2, <3>1, <3>2, <3>3, <3>4 DEF EnterRead, GuardInv
  <2>. QED BY <2>1, <2>2
<1>3. ASSUME NEW t \in Threads, LeaveRead(t) PROVE GuardInv'
  <2>0. /\ t \in Reading /\ Reading # {}
        /\ _driver_readers' = _driver_readers - 1 /\ _driver_readers' \in Nat
        /\ _driver_writer' = _driver_writer /\ ~_driver_writer
    <3>1. t \in Reading
      BY <1>3 DEF LeaveRead, Reading
    <3>2. _driver_readers # 0
      BY <3>1, ReadersFinite DEF GuardInv
    <3>. QED BY <1>0, <1>3, <3>1, <3>2 DEF LeaveRead, GuardInv
  <2>1. PICK l \in {"idle", "fallback"} :
          IF _driver_readers' = 0 THEN NotifyAll(t, l) ELSE Go(t, l)
    BY <1>3 DEF LeaveRead
  <2>2. /\ pc' \in [Threads -> PC] /\ pc'[t] = l
        /\ \A u \in Threads \ {t} : pc'[u] = pc[u] \/ pc'[u] = Awake(pc[u])
        /\ _driver_readers' = 0 => \A u \in Threads \ {t} : pc'[u] = Awake(pc[u])
    <3>1. CASE _driver_readers' = 0
      BY <1>0, <2>1, <3>1 DEF NotifyAll, Awake, PC
    <3>2. CASE _driver_readers' # 0
      BY <1>0, <2>1, <3>2 DEF Go, PC
    <3>. QED BY <3>1, <3>2
  <2>3. Reading' = Reading \ {t} /\ Writing' = Writing
    BY <1>0, <1>3, <2>2 DEF LeaveRead, Reading, Writing, Awake
  <2>4. TypeOK'
    BY <1>0, <1>3, <2>0, <2>2 DEF LeaveRead, TypeOK
  <2>5. _driver_readers' = Cardinality(Reading')
    BY <2>0, <2>3, ReadersFinite DEF GuardInv
  <2>6. SleepersHaveReason'
    <3>1. \A u \in Threads : pc'[u] # "sleep_read"
      BY <1>0, <2>0, <2>2 DEF GuardInv, SleepersHaveReason, Awake
    <3>2. _driver_readers' = 0 => \A u \in Threads : pc'[u] # "sleep_write"
      BY <1>0, <2>2 DEF Awake
    <3>. QED BY <3>1, <3>2 DEF SleepersHaveReason
  <2>. QED BY <2>0, <2>3, <2>4, <2>5, <2>6 DEF GuardInv
<1>4. ASSUME NEW t \in Threads, EnterWrite(t) PROVE GuardInv'
  <2>1. CASE _driver_writer \/ _driver_readers # 0
    <3>1. TypeOK'
      BY <1>0, <1>4, <2>1 DEF EnterWrite, Go, TypeOK, PC
    <3>2. Reading' = Reading /\ Writing' = Writing
      BY <1>0, <1>4, <2>1 DEF EnterWrite, Go, Reading, Writing
    <3>3. SleepersHaveReason'
      BY <1>0, <1>4, <2>1 DEF EnterWrite, Go, GuardInv, SleepersHaveReason
    <3>. QED BY <1>4, <2>1, <3>1, <3>2, <3>3 DEF EnterWrite, GuardInv
  <2>2. CASE ~_driver_writer /\ _driver_readers = 0
    <3>1. TypeOK'
      BY <1>0, <1>4, <2>2 DEF EnterWrite, Go, TypeOK, PC
    <3>2. Reading = {} /\ Writing = {}
      BY <2>2, ReadersFinite DEF GuardInv
    <3>3. Reading' = Reading /\ Writing' = Writing \cup {t}
      BY <1>0, <1>4, <2>2 DEF EnterWrite, Go, Reading, Writing
    <3>4. SleepersHaveReason'
      BY <1>0, <1>4, <2>2 DEF EnterWrite, Go, GuardInv, SleepersHaveReason
    <3>. QED BY <1>4, <2>2, <3>1, <3>2, <3>3, <3>4 DEF EnterWrite, GuardInv
  <2>. QED BY <2>1, <2>2
<1>5. ASSUME NEW t \in Threads, LeaveWrite(t) PROVE GuardInv'
  <2>0. PICK l \in {"idle", "fallback"} : NotifyAll(t, l)
    BY <1>5 DEF LeaveWrite
  <2>1. t \in Writing /\ _driver_writer /\ Writing = {t} /\ Reading = {}
    BY <1>0, <1>5 DEF LeaveWrite, Writing, GuardInv
  <2>2. /\ pc' \in [Threads -> PC] /\ pc'[t] = l
        /\ \A u \in Threads \ {t} : pc'[u] = Awake(pc[u])
    BY <1>0, <2>0 DEF NotifyAll, Awake, PC
  <2>3. Reading' = Reading /\ Writing' = {}
    BY <1>0, <1>5, <2>1, <2>2 DEF LeaveWrite, Reading, Writing, Awake
  <2>4. TypeOK'
    BY <1>0, <1>5, <2>2 DEF LeaveWrite, TypeOK
  <2>5. SleepersHaveReason'
    BY <1>0, <2>2 DEF SleepersHaveReason, Awake
  <2>. QED BY <1>5, <2>1, <2>3, <2>4, <2>5 DEF LeaveWrite, GuardInv
<1>6. ASSUME NEW t \in Threads, Fallback(t) PROVE GuardInv'
  <2>1. TypeOK'
    BY <1>0, <1>6 DEF Fallback, Go, TypeOK, PC
  <2>2. Reading' = Reading /\ Writing' = Writing
    BY <1>0, <1>6 DEF Fallback, Go, Reading, Writing
  <2>3. SleepersHaveReason'
    BY <1>0, <1>6 DEF Fallback, Go, GuardInv, SleepersHaveReason
  <2>. QED BY <1>6, <2>1, <2>2, <2>3 DEF Fallback, GuardInv
<1>7. CASE UNCHANGED vars
  BY <1>7 DEF vars, GuardInv, TypeOK, Reading, Writing, SleepersHaveReason
<1>. QED BY <1>1, <1>2, <1>3, <1>4, <1>5, <1>6, <1>7 DEF Next, Proceed

\* The invariant says what is wanted of the guard.
LEMMA GuardImplies == GuardInv => TypeOK /\ WritesExclusive /\ SleepersHaveReason
<1>. SUFFICES ASSUME GuardInv PROVE WritesExclusive
  BY DEF GuardInv
<1>. QED BY DEF GuardInv, WritesExclusive

\* A hipFile write never overlaps a read or another write, for any number of threads.
THEOREM DriverExclusive == Spec => []WritesExclusive
BY GuardInit, GuardStep, GuardImplies, PTL DEF Spec

\* No thread sleeps in the guard without a reason, for any number of threads: no wake-up
\* is lost.
THEOREM NoLostWakeup == Spec => []SleepersHaveReason
BY GuardInit, GuardStep, GuardImplies, PTL DEF Spec
-----------------------------------------------------------------------------
(* The transfers, which use it                                             *)

\* A step of the transfers is a step of the guard, or none.
LEMMA TransferSimulates == [TransferNext]_transferVars => [Next]_vars
<1>. SUFFICES ASSUME [TransferNext]_transferVars PROVE [Next]_vars
  OBVIOUS
<1>1. ASSUME NEW t \in Threads, Call(t) PROVE [Next]_vars
  BY <1>1 DEF Call, Next
<1>2. ASSUME NEW t \in Threads, Enter(t) \/ LeaveGuard(t) \/ CopyByCpu(t) PROVE [Next]_vars
  BY <1>2 DEF Enter, LeaveGuard, CopyByCpu, Next, Proceed
<1>3. ASSUME NEW t \in Threads,
             OpenFile(t) \/ RegisterFileHandle(t) \/ Transfer(t) \/ CloseFile(t)
      PROVE  UNCHANGED vars
  BY <1>3 DEF OpenFile, RegisterFileHandle, Transfer, CloseFile
<1>4. BackendStep => UNCHANGED vars
  BY DEF BackendStep, OpenDriverOrPool, OpenStaging, Rollback, Drain, Unregister,
         ReleaseStaging, ReleasePool, Release, ReleaseDriver, Finalize
<1>5. Close \/ (\E m \in Modes : Build(m)) \/ (\E b \in {"kv", "edge"} : RegisterDirect(b))
      => UNCHANGED vars
  BY DEF Close, Build, RegisterDirect
<1>6. UNCHANGED transferVars => UNCHANGED vars
  BY DEF transferVars
<1>. QED BY <1>1, <1>2, <1>3, <1>4, <1>5, <1>6 DEF TransferNext, ThreadStep

\* The transfers implement the guard's specification.
THEOREM TransfersImplementGuard == TransferSpec => Spec
<1>1. TransferInit => Init
  BY DEF TransferInit
<1>. QED BY <1>1, TransferSimulates, PTL DEF TransferSpec, Spec

\* Whatever fails, a write is alone in the driver and no thread sleeps at the guard
\* without a reason, while the backend is built, serves and is closed.
THEOREM TransfersKeepGuard == TransferSpec => [](WritesExclusive /\ SleepersHaveReason)
BY TransfersImplementGuard, DriverExclusive, NoLostWakeup, PTL

(* What is registered relies on an open driver; what can close the driver  *)
(* depends on where the backend is, and on the count of its pools.         *)
Counted(p) == pool[p].counted

LifeTypes ==
  /\ pc \in [Threads -> PC]
  /\ io \in [Threads -> IO]
  /\ ret \in [Threads -> {"none", "whole", "short", "raised"}]
  /\ pool \in [Pools -> [registered : BOOLEAN, counted : BOOLEAN]]
  /\ active \in Nat

\* A thread is at work only while the backend serves or waits for it.
AtWork == \A t \in Threads : pc[t] # "idle" => stage \in {"serving", "closing"}

\* A file is open only inside the driver, and its handle only while that is open.
HandlesHeld ==
  \A t \in Threads : /\ io[t] = "fd" => Inside(t) /\ driver /\ ret[t] = "none"
                     /\ io[t] = "handle" => Inside(t) /\ driver

\* Buffers of direct transfers are given back before anything else is.
DirectHeld == direct # {} => driver /\ stage \in {"serving", "closing", "unregister", "raised"}

\* A registered pool is counted, the count covers the pools, and a counted one keeps the
\* driver open; pools are closed in turn.
PoolsHeld ==
  /\ \A p \in Pools : pool[p].registered => Counted(p)
  /\ \A p \in Pools : Counted(p) => driver /\ active >= 1
  /\ Counted("pool") /\ Counted("staging") => active >= 2
  /\ stage \in {"unpool", "undrive"} => ~Counted("staging")
  /\ stage = "undrive" => ~Counted("pool")
  /\ stage = "opening" => ~Counted("pool") /\ ~Counted("staging")
  /\ stage = "staging" => ~Counted("staging")

LifeInv == LifeTypes /\ AtWork /\ HandlesHeld /\ DirectHeld /\ PoolsHeld

\* It holds at the start.
LEMMA LifeInit == TransferInit => LifeInv
BY DEF TransferInit, Init, LifeInv, LifeTypes, AtWork, HandlesHeld, DirectHeld, PoolsHeld,
       Counted, PC, IO, Pools

\* What a thread does at the guard moves no other thread into the driver or out of it, or
\* between work and idleness.
LEMMA GuardMoves ==
  ASSUME pc \in [Threads -> PC], NEW t \in Threads, Begin(t) \/ Proceed(t)
  PROVE  /\ pc' \in [Threads -> PC]
         /\ \A u \in Threads \ {t} : /\ Inside(u)' <=> Inside(u)
                                     /\ pc'[u] = "idle" <=> pc[u] = "idle"
<1>1. ASSUME NEW l \in PC, Go(t, l)
      PROVE  /\ pc' \in [Threads -> PC]
             /\ \A u \in Threads \ {t} : /\ Inside(u)' <=> Inside(u)
                                         /\ pc'[u] = "idle" <=> pc[u] = "idle"
  BY <1>1 DEF Go, Inside
<1>2. ASSUME NEW l \in PC, NotifyAll(t, l)
      PROVE  /\ pc' \in [Threads -> PC]
             /\ \A u \in Threads \ {t} : /\ Inside(u)' <=> Inside(u)
                                         /\ pc'[u] = "idle" <=> pc[u] = "idle"
  BY <1>2 DEF NotifyAll, Awake, Inside, PC
<1>3. \E l \in PC : Go(t, l) \/ NotifyAll(t, l)
  BY DEF Begin, Proceed, EnterRead, LeaveRead, EnterWrite, LeaveWrite, Fallback, PC
<1>. QED BY <1>1, <1>2, <1>3

\* A step of a thread keeps the invariant: what is registered is left alone.
LEMMA LifeThread ==
  ASSUME LifeInv, NEW t \in Threads, Call(t) \/ ThreadStep(t)
  PROVE  LifeInv'
<1>0. LifeTypes /\ AtWork /\ HandlesHeld /\ DirectHeld /\ PoolsHeld
  BY DEF LifeInv
<1>1. ASSUME UNCHANGED <<active, pool, direct, stage>>, driver => driver'
      PROVE  DirectHeld' /\ PoolsHeld'
  BY <1>0, <1>1 DEF DirectHeld, PoolsHeld, Counted
<1>2. ASSUME Begin(t) \/ Proceed(t),
             /\ UNCHANGED <<active, pool, direct, stage>> /\ (driver => driver')
             /\ io' \in {io, Set(io, t, "none")} /\ ret' \in {ret, Set(ret, t, "none")}
             /\ io'[t] \notin {"fd", "handle"} /\ stage \in {"serving", "closing"}
      PROVE  LifeInv'
  <2>1. /\ pc' \in [Threads -> PC]
        /\ \A u \in Threads \ {t} : /\ Inside(u)' <=> Inside(u)
                                    /\ pc'[u] = "idle" <=> pc[u] = "idle"
    BY <1>0, <1>2, GuardMoves DEF LifeTypes
  <2>2. LifeTypes'
    BY <1>0, <1>2, <2>1 DEF LifeTypes, Set, IO
  <2>3. AtWork'
    BY <1>0, <1>2, <2>1 DEF AtWork
  <2>4. \A u \in Threads \ {t} : io'[u] = io[u] /\ ret'[u] = ret[u]
    BY <1>0, <1>2 DEF Set, LifeTypes
  <2>5. HandlesHeld'
    <3>1. ASSUME NEW u \in Threads, io'[u] \in {"fd", "handle"}
          PROVE  u # t /\ io'[u] = io[u] /\ ret'[u] = ret[u] /\ (Inside(u) => Inside(u)')
      BY <1>2, <2>1, <2>4, <3>1
    <3>. QED BY <1>0, <1>2, <3>1 DEF HandlesHeld
  <2>. QED BY <1>1, <1>2, <2>2, <2>3, <2>5 DEF LifeInv
<1>3. CASE Call(t)
  <2>1. Begin(t) /\ UNCHANGED <<active, pool, direct, stage, driver>> /\ stage = "serving"
        /\ io' = Set(io, t, "none") /\ ret' = Set(ret, t, "none")
    BY <1>3 DEF Call, lifeVars
  <2>2. io'[t] = "none"
    BY <1>0, <2>1 DEF Set, LifeTypes
  <2>. QED BY <1>2, <2>1, <2>2
<1>4. CASE Enter(t)
  <2>1. Proceed(t) /\ UNCHANGED <<active, pool, direct, stage, driver, io, ret>>
        /\ pc[t] \in {"enter_read", "enter_write"}
    BY <1>4 DEF Enter, Proceed, EnterRead, EnterWrite, lifeVars, ioVars
  <2>2. io[t] \notin {"fd", "handle"} /\ stage \in {"serving", "closing"}
    BY <1>0, <2>1 DEF HandlesHeld, AtWork, Inside
  <2>. QED BY <1>2, <2>1, <2>2
<1>5. CASE LeaveGuard(t)
  <2>1. Proceed(t) /\ UNCHANGED <<active, pool, direct, stage, driver, io>>
        /\ ret' = Set(ret, t, "none") /\ pc[t] \in {"reading", "writing"}
        /\ ret[t] # "none" /\ io[t] # "handle"
    BY <1>5 DEF LeaveGuard, Proceed, LeaveRead, LeaveWrite, lifeVars
  <2>2. io[t] # "fd" /\ stage \in {"serving", "closing"}
    BY <1>0, <2>1 DEF HandlesHeld, AtWork
  <2>. QED BY <1>2, <2>1, <2>2
<1>6. CASE CopyByCpu(t)
  <2>1. Proceed(t) /\ UNCHANGED <<active, pool, direct, stage, driver, ret>>
        /\ io' = Set(io, t, "none") /\ pc[t] = "fallback"
    BY <1>6 DEF CopyByCpu, Proceed, Fallback, lifeVars
  <2>2. io'[t] = "none" /\ stage \in {"serving", "closing"}
    BY <1>0, <2>1 DEF Set, LifeTypes, AtWork
  <2>. QED BY <1>2, <2>1, <2>2
<1>7. ASSUME UNCHANGED <<active, pool, direct, stage, pc>>, driver => driver', Inside(t),
             NEW x \in IO, NEW y \in {"none", "whole", "short", "raised"},
             io' = Set(io, t, x), ret' = Set(ret, t, y),
             x \in {"fd", "handle"} => driver', x = "fd" => y = "none"
      PROVE  LifeInv'
  <2>1. LifeTypes' /\ AtWork'
    BY <1>0, <1>7 DEF LifeTypes, AtWork, Set
  <2>2. HandlesHeld'
    <3>1. ASSUME NEW u \in Threads, u # t
          PROVE  io'[u] = io[u] /\ ret'[u] = ret[u]
      BY <1>0, <1>7, <3>1 DEF LifeTypes, Set
    <3>2. io'[t] = x /\ ret'[t] = y
      BY <1>0, <1>7 DEF LifeTypes, Set
    <3>3. \A u \in Threads : Inside(u)' <=> Inside(u)
      BY <1>7 DEF Inside
    <3>. QED BY <1>0, <1>7, <3>1, <3>2, <3>3 DEF HandlesHeld
  <2>. QED BY <1>1, <1>7, <2>1, <2>2 DEF LifeInv
<1>8. io = Set(io, t, io[t]) /\ ret = Set(ret, t, ret[t]) /\ io[t] \in IO
      /\ ret[t] \in {"none", "whole", "short", "raised"}
  BY <1>0 DEF LifeTypes, Set
<1>9. CASE OpenFile(t)
  <2>1. UNCHANGED <<active, pool, direct, stage, pc>> /\ driver' = TRUE /\ Inside(t)
        /\ io[t] = "none" /\ ret[t] = "none"
    BY <1>9 DEF OpenFile, vars, lifeVars
  <2>2. \/ io' = Set(io, t, "fd") /\ ret' = ret
        \/ ret' = Set(ret, t, "raised") /\ io' = io
    BY <1>9 DEF OpenFile
  <2>. QED BY <1>7, <1>8, <2>1, <2>2 DEF IO
<1>10. CASE RegisterFileHandle(t) \/ Transfer(t) \/ CloseFile(t)
  <2>1. UNCHANGED <<active, pool, direct, stage, pc, driver>> /\ Inside(t)
    BY <1>10 DEF RegisterFileHandle, Transfer, CloseFile, vars, lifeVars
  <2>2. CASE RegisterFileHandle(t)
    <3>1. driver
      BY <1>0, <2>2 DEF RegisterFileHandle, HandlesHeld
    <3>2. \/ io' = Set(io, t, "handle") /\ ret' = Set(ret, t, ret[t])
          \/ io' = Set(io, t, "done") /\ ret' = Set(ret, t, "raised")
      BY <1>8, <2>2 DEF RegisterFileHandle
    <3>3. "handle" \in IO /\ "done" \in IO
      BY DEF IO
    <3>. QED BY <1>7, <1>8, <2>1, <3>1, <3>2, <3>3
  <2>3. CASE Transfer(t)
    <3>1. io' = io /\ io[t] = "handle" /\ driver
      BY <1>0, <2>3 DEF Transfer, HandlesHeld
    <3>2. \E y \in {"whole", "short", "raised"} : ret' = Set(ret, t, y)
      BY <2>3 DEF Transfer
    <3>. QED BY <1>7, <1>8, <2>1, <3>1, <3>2
  <2>4. CASE CloseFile(t)
    <3>1. io' = Set(io, t, "done") /\ (ret' = ret \/ ret' = Set(ret, t, "raised"))
      BY <2>4 DEF CloseFile
    <3>. QED BY <1>7, <1>8, <2>1, <3>1 DEF IO
  <2>. QED BY <1>10, <2>2, <2>3, <2>4
<1>. QED BY <1>3, <1>4, <1>5, <1>6, <1>9, <1>10 DEF ThreadStep

\* A step of the backend leaves the threads alone: their part of the invariant is kept.
LEMMA LifeOfThreads ==
  ASSUME LifeInv, UNCHANGED <<vars, ioVars>>, active' \in Nat,
         pool' \in [Pools -> [registered : BOOLEAN, counted : BOOLEAN]],
         \/ stage' = stage /\ (driver => driver')
         \/ stage' \in {"serving", "closing"} /\ (driver => driver')
         \/ \A t \in Threads : pc[t] = "idle"
  PROVE  LifeTypes' /\ AtWork' /\ HandlesHeld'
<1>1. UNCHANGED <<pc, io, ret>>
  BY DEF vars, ioVars
<1>2. LifeTypes' /\ AtWork'
  BY <1>1 DEF LifeInv, LifeTypes, AtWork
<1>3. \A t \in Threads : Inside(t)' <=> Inside(t)
  BY <1>1 DEF Inside
<1>4. CASE driver => driver'
  BY <1>1, <1>2, <1>3, <1>4 DEF LifeInv, HandlesHeld
<1>5. CASE \A t \in Threads : pc[t] = "idle"
  BY <1>1, <1>2, <1>3, <1>5 DEF LifeInv, HandlesHeld, Inside
<1>. QED BY <1>2, <1>4, <1>5

\* Outside of its service and its close the backend has no thread at work.
LEMMA Quiet ==
  ASSUME LifeInv, stage \notin {"serving", "closing"}
  PROVE  \A t \in Threads : pc[t] = "idle"
BY DEF LifeInv, AtWork

\* What opening or closing one pool does to the invariant's part on pools.
LEMMA LifePool ==
  ASSUME LifeInv, NEW p \in Pools, direct = {}, direct' = {},
         \/ OpenPool(p) /\ ~Counted(p)
         \/ OpenPoolFails(p) \/ ClosePool(p) \/ BufferRefuses(p) \/ DriverRefuses(p)
  PROVE  /\ pool' \in [Pools -> [registered : BOOLEAN, counted : BOOLEAN]] /\ active' \in Nat
         /\ \A q \in Pools : pool'[q].registered => Counted(q)'
         /\ \A q \in Pools : Counted(q)' => driver' /\ active' >= 1
         /\ Counted("pool")' /\ Counted("staging")' => active' >= 2
         /\ \A q \in Pools \ {p} : pool'[q] = pool[q]
<1>1. /\ pool \in [Pools -> [registered : BOOLEAN, counted : BOOLEAN]] /\ active \in Nat
      /\ Pools = {"pool", "staging"} /\ PoolsHeld
  BY DEF LifeInv, LifeTypes, Pools
<1>2. CASE OpenPool(p) /\ ~Counted(p)
  BY <1>1, <1>2 DEF OpenPool, Set, PoolsHeld, Counted
<1>3. CASE OpenPoolFails(p)
  BY <1>1, <1>3 DEF OpenPoolFails, PoolsHeld, Counted
<1>4. CASE ClosePool(p)
  BY <1>1, <1>4 DEF ClosePool, LastPool, Set, PoolsHeld, Counted
<1>5. CASE BufferRefuses(p)
  BY <1>1, <1>5 DEF BufferRefuses, PoolsHeld, Counted
<1>6. CASE DriverRefuses(p)
  BY <1>1, <1>6 DEF DriverRefuses, Set, PoolsHeld, Counted
<1>. QED BY <1>2, <1>3, <1>4, <1>5, <1>6

\* The backend's steps that leave every pool and the driver alone.
LEMMA LifeMoves ==
  ASSUME LifeInv, UNCHANGED <<vars, ioVars, driver, active, pool>>,
         \/ Rollback \/ Close \/ Drain \/ Unregister
         \/ \E m \in Modes : Build(m)
         \/ \E b \in {"kv", "edge"} : RegisterDirect(b)
  PROVE  LifeInv'
<1>1. LifeTypes /\ AtWork /\ HandlesHeld /\ DirectHeld /\ PoolsHeld
  BY DEF LifeInv
<1>2. \A p \in Pools : Counted(p)' <=> Counted(p)
  BY DEF Counted
<1>3. /\ pool' \in [Pools -> [registered : BOOLEAN, counted : BOOLEAN]] /\ active' \in Nat
      /\ "pool" \in Pools /\ "staging" \in Pools
  BY <1>1 DEF LifeTypes, Pools
<1>4. CASE Rollback
  <2>1. stage = "rollback" /\ stage' = "unstage" /\ direct' = direct
    BY <1>4 DEF Rollback, GoesTo
  <2>2. LifeTypes' /\ AtWork' /\ HandlesHeld'
    BY <1>3, <2>1, Quiet, LifeOfThreads
  <2>. QED BY <1>1, <1>2, <2>1, <2>2 DEF LifeInv, DirectHeld, PoolsHeld, Counted
<1>5. CASE Close
  <2>1. stage \in {"serving", "raised"} /\ stage' = "closing" /\ direct' = direct
    BY <1>5 DEF Close, GoesTo
  <2>2. LifeTypes' /\ AtWork' /\ HandlesHeld'
    BY <1>3, <2>1, LifeOfThreads
  <2>. QED BY <1>1, <1>2, <2>1, <2>2 DEF LifeInv, DirectHeld, PoolsHeld, Counted
<1>6. CASE Drain
  <2>1. /\ stage = "closing" /\ stage' = "unregister" /\ direct' = direct
        /\ \A t \in Threads : pc[t] = "idle"
    BY <1>6 DEF Drain, GoesTo
  <2>2. LifeTypes' /\ AtWork' /\ HandlesHeld'
    BY <1>3, <2>1, LifeOfThreads
  <2>. QED BY <1>1, <1>2, <2>1, <2>2 DEF LifeInv, DirectHeld, PoolsHeld, Counted
<1>7. CASE Unregister
  <2>1. /\ stage = "unregister" /\ stage' \in {"unregister", "unstage", "raised"}
        /\ direct' \subseteq direct /\ (stage' = "unstage" => direct' = {})
    BY <1>7 DEF Unregister, GoesTo
  <2>2. LifeTypes' /\ AtWork' /\ HandlesHeld'
    BY <1>3, <2>1, Quiet, LifeOfThreads
  <2>3. DirectHeld'
    BY <1>1, <2>1 DEF DirectHeld
  <2>. QED BY <1>1, <1>2, <2>1, <2>2, <2>3 DEF LifeInv, PoolsHeld, Counted
<1>8. CASE \E m \in Modes : Build(m)
  <2>1. /\ stage \in {"none", "closed"} /\ stage' = "opening" /\ direct' = direct
        /\ \A p \in Pools : ~Counted(p)
    BY <1>8 DEF Build, GoesTo, Counted
  <2>2. LifeTypes' /\ AtWork' /\ HandlesHeld'
    BY <1>3, <2>1, Quiet, LifeOfThreads
  <2>3. DirectHeld'
    BY <1>1, <2>1 DEF DirectHeld
  <2>4. PoolsHeld'
    BY <1>1, <1>2, <1>3, <2>1 DEF PoolsHeld
  <2>. QED BY <2>2, <2>3, <2>4 DEF LifeInv
<1>9. CASE \E b \in {"kv", "edge"} : RegisterDirect(b)
  <2>1. stage = "serving" /\ stage' = stage /\ driver
    BY <1>9 DEF RegisterDirect
  <2>2. LifeTypes' /\ AtWork' /\ HandlesHeld'
    BY <1>3, <2>1, LifeOfThreads
  <2>3. DirectHeld'
    BY <2>1 DEF DirectHeld
  <2>. QED BY <1>1, <1>2, <2>1, <2>2, <2>3 DEF LifeInv, PoolsHeld, Counted
<1>. QED BY <1>4, <1>5, <1>6, <1>7, <1>8, <1>9

\* A step that opens or closes a pool keeps the invariant, if the stage it goes to allows
\* what is left.
LEMMA LifePoolStep ==
  ASSUME LifeInv, NEW p \in Pools, direct = {}, direct' = {}, UNCHANGED <<vars, ioVars>>,
         stage \notin {"serving", "closing"},
         \/ OpenPool(p) /\ ~Counted(p)
         \/ OpenPoolFails(p) \/ ClosePool(p) \/ BufferRefuses(p) \/ DriverRefuses(p),
         stage' \in {"unpool", "undrive"} => ~Counted("staging")',
         stage' = "undrive" => ~Counted("pool")',
         stage' # "opening", stage' = "staging" => ~Counted("staging")'
  PROVE  LifeInv'
<1>1. /\ pool' \in [Pools -> [registered : BOOLEAN, counted : BOOLEAN]] /\ active' \in Nat
      /\ \A q \in Pools : pool'[q].registered => Counted(q)'
      /\ \A q \in Pools : Counted(q)' => driver' /\ active' >= 1
      /\ Counted("pool")' /\ Counted("staging")' => active' >= 2
  BY LifePool
<1>2. LifeTypes' /\ AtWork' /\ HandlesHeld'
  BY <1>1, Quiet, LifeOfThreads
<1>3. DirectHeld'
  BY DEF DirectHeld
<1>4. PoolsHeld'
  BY <1>1 DEF PoolsHeld
<1>. QED BY <1>2, <1>3, <1>4 DEF LifeInv

\* The backend's steps that open or close a pool or the driver.
LEMMA LifeOpens ==
  ASSUME LifeInv,
         \/ OpenDriverOrPool \/ OpenStaging \/ ReleaseStaging \/ ReleasePool
         \/ ReleaseDriver \/ Finalize
  PROVE  LifeInv'
<1>0. LifeTypes /\ AtWork /\ HandlesHeld /\ DirectHeld /\ PoolsHeld
  BY DEF LifeInv
<1>1. /\ UNCHANGED <<vars, ioVars>> /\ direct' = direct
      /\ stage \in {"opening", "staging", "unstage", "unpool", "undrive", "abandoned"}
  BY DEF OpenDriverOrPool, OpenStaging, ReleaseStaging, ReleasePool, Release, ReleaseDriver, Finalize
<1>2. direct = {} /\ "pool" \in Pools /\ "staging" \in Pools
  BY <1>0, <1>1 DEF DirectHeld, Pools
<1>3. CASE OpenDriverOrPool /\ mode = "direct"
  <2>1. /\ stage = "opening" /\ stage' \in {"serving", "rollback"} /\ UNCHANGED <<active, pool>>
        /\ (driver => driver')
    BY <1>3 DEF OpenDriverOrPool, GoesTo
  <2>2. LifeTypes' /\ AtWork' /\ HandlesHeld'
    BY <1>0, <1>1, <2>1, Quiet, LifeOfThreads DEF LifeTypes
  <2>3. DirectHeld'
    BY <1>1, <1>2 DEF DirectHeld
  <2>. QED BY <1>0, <2>1, <2>2, <2>3 DEF LifeInv, PoolsHeld, Counted
<1>4. CASE OpenDriverOrPool /\ mode # "direct"
  <2>1. /\ stage = "opening" /\ ~Counted("pool") /\ ~Counted("staging")
        /\ \/ OpenPool("pool") /\ stage' = "staging"
           \/ OpenPoolFails("pool") /\ stage' = "none"
    BY <1>0, <1>4 DEF OpenDriverOrPool, GoesTo, PoolsHeld
  <2>2. \A q \in Pools \ {"pool"} : pool'[q] = pool[q]
    BY <1>1, <1>2, <2>1, LifePool
  <2>3. ~Counted("staging")'
    BY <1>2, <2>1, <2>2 DEF Counted
  <2>. QED BY <1>1, <1>2, <2>1, <2>3, LifePoolStep
<1>5. CASE OpenStaging
  <2>1. /\ stage = "staging" /\ ~Counted("staging")
        /\ \/ OpenPool("staging") /\ stage' = "serving"
           \/ OpenPoolFails("staging") /\ stage' = "rollback"
    BY <1>0, <1>5 DEF OpenStaging, GoesTo, PoolsHeld
  <2>. QED BY <1>1, <1>2, <2>1, LifePoolStep
<1>6. CASE ReleaseStaging
  <2>1. /\ stage = "unstage"
        /\ \/ ClosePool("staging") /\ stage' = "unpool"
           \/ (BufferRefuses("staging") \/ DriverRefuses("staging"))
              /\ stage' \in {"raised", "abandoned"}
    BY <1>6 DEF ReleaseStaging, Release, GoesTo, Raised
  <2>2. ClosePool("staging") => ~Counted("staging")'
    BY <1>0, <1>2 DEF ClosePool, Set, Counted, LifeTypes
  <2>. QED BY <1>1, <1>2, <2>1, <2>2, LifePoolStep
<1>7. CASE ReleasePool
  <2>1. /\ stage = "unpool" /\ ~Counted("staging")
        /\ \/ ClosePool("pool") /\ stage' = "undrive"
           \/ (BufferRefuses("pool") \/ DriverRefuses("pool"))
              /\ stage' \in {"raised", "abandoned"}
    BY <1>0, <1>7 DEF ReleasePool, Release, GoesTo, Raised, PoolsHeld
  <2>2. ClosePool("pool") => ~Counted("pool")'
    BY <1>0, <1>2 DEF ClosePool, Set, Counted, LifeTypes
  <2>3. \A q \in Pools \ {"pool"} : pool'[q] = pool[q]
    BY <1>1, <1>2, <2>1, LifePool
  <2>4. ~Counted("staging")'
    BY <1>2, <2>1, <2>3 DEF Counted
  <2>. QED BY <1>1, <1>2, <2>1, <2>2, <2>4, LifePoolStep
<1>8. CASE ReleaseDriver
  <2>1. /\ stage = "undrive" /\ stage' \in {"raised", "abandoned", "closed", "none"}
        /\ UNCHANGED <<active, pool>>
    BY <1>8 DEF ReleaseDriver, GoesTo, Raised, Ended
  <2>2. ~Counted("pool") /\ ~Counted("staging")
    BY <1>0, <2>1 DEF PoolsHeld
  <2>3. \A p \in Pools : ~Counted(p)' /\ ~Counted(p)
    BY <2>1, <2>2 DEF Counted, Pools
  <2>4. LifeTypes' /\ AtWork' /\ HandlesHeld'
    BY <1>0, <1>1, <2>1, Quiet, LifeOfThreads DEF LifeTypes
  <2>5. DirectHeld'
    BY <1>1, <1>2 DEF DirectHeld
  <2>6. PoolsHeld'
    BY <1>0, <1>2, <2>1, <2>3 DEF PoolsHeld
  <2>. QED BY <2>4, <2>5, <2>6 DEF LifeInv
<1>9. CASE Finalize
  <2>1. stage = "abandoned" /\ stage' = "none"
    BY <1>9 DEF Finalize, GoesTo
  <2>2. PICK p \in Pools : ClosePool(p) \/ BufferRefuses(p) \/ DriverRefuses(p)
    BY <1>9 DEF Finalize
  <2>. QED BY <1>1, <1>2, <2>1, <2>2, LifePoolStep
<1>. QED BY <1>3, <1>4, <1>5, <1>6, <1>7, <1>8, <1>9

\* Every step keeps it.
LEMMA LifeStep == LifeInv /\ [TransferNext]_transferVars => LifeInv'
<1>. SUFFICES ASSUME LifeInv, [TransferNext]_transferVars PROVE LifeInv'
  OBVIOUS
<1>1. CASE UNCHANGED transferVars
  <2>1. UNCHANGED <<pc, io, ret, pool, active, stage, driver, direct>>
    BY <1>1 DEF transferVars, vars, ioVars, lifeVars
  <2>. QED BY <2>1 DEF LifeInv, LifeTypes, AtWork, HandlesHeld, DirectHeld, PoolsHeld, Counted,
                       Inside
<1>2. CASE \E t \in Threads : Call(t) \/ ThreadStep(t)
  BY <1>2, LifeThread
<1>3. CASE \/ Rollback \/ Close \/ Drain \/ Unregister
           \/ \E m \in Modes : Build(m)
           \/ \E b \in {"kv", "edge"} : RegisterDirect(b)
  <2>1. UNCHANGED <<vars, ioVars, driver, active, pool>>
    BY <1>3 DEF Rollback, Close, Drain, Unregister, Build, RegisterDirect
  <2>. QED BY <1>3, <2>1, LifeMoves
<1>4. CASE \/ OpenDriverOrPool \/ OpenStaging \/ ReleaseStaging \/ ReleasePool
           \/ ReleaseDriver \/ Finalize
  BY <1>4, LifeOpens
<1>. QED BY <1>1, <1>2, <1>3, <1>4 DEF TransferNext, BackendStep

\* Whatever call of the library fails, and however the backend is built, closed and closed
\* again: the driver is open as long as a buffer is registered or a file handle is in use,
\* and no thread leaves the driver with a file open.
THEOREM DriverOutlives == TransferSpec => [](DriverOpenWhileUsed /\ NoHandleLeft)
<1>1. LifeInv => DriverOpenWhileUsed /\ NoHandleLeft
  BY DEF LifeInv, LifeTypes, HandlesHeld, DirectHeld, PoolsHeld, DriverOpenWhileUsed, NoHandleLeft
<1>. QED BY LifeInit, LifeStep, <1>1, PTL DEF TransferSpec
-----------------------------------------------------------------------------
(* What a call returns.  The target's content follows from how far the     *)
(* transfer has come; a thread at work has returned nothing yet.           *)
ResultTypes ==
  /\ data \in [Threads -> SUBSET {"header", "payload"}]
  /\ returned \in [Threads -> {"none", "size", "error"}]

MovedAsTold ==
  \A t \in Threads :
    /\ ret[t] = "whole" => "payload" \in data[t]
    /\ pc[t] # "idle" => returned[t] = "none"
    /\ t \in Headed /\ (pc[t] # "idle" \/ returned[t] = "size") => "header" \in data[t]
    /\ returned[t] = "size" => "payload" \in data[t]

ResultInv == ResultTypes /\ MovedAsTold

\* It holds at the start.
LEMMA ResultInit == TransferInit => ResultInv
BY DEF TransferInit, Init, ResultInv, ResultTypes, MovedAsTold

\* A step of one thread leaves what the others have moved and returned alone.
LEMMA ResultThread ==
  ASSUME LifeInv, ResultInv, NEW t \in Threads, Call(t) \/ ThreadStep(t)
  PROVE  ResultInv'
<1>1. /\ pc \in [Threads -> PC] /\ io \in [Threads -> IO]
      /\ ret \in [Threads -> {"none", "whole", "short", "raised"}]
      /\ data \in [Threads -> SUBSET {"header", "payload"}]
      /\ returned \in [Threads -> {"none", "size", "error"}]
      /\ MovedAsTold
  BY DEF LifeInv, LifeTypes, ResultInv, ResultTypes
<1>2. ASSUME NEW x \in {"none", "whole", "short", "raised"}, ret' = Set(ret, t, x),
             NEW d \in SUBSET {"header", "payload"}, data' = Set(data, t, d),
             NEW r \in {"none", "size", "error"}, returned' = Set(returned, t, r),
             \A u \in Threads \ {t} : pc'[u] = "idle" <=> pc[u] = "idle",
             x = "whole" => "payload" \in d, pc'[t] # "idle" => r = "none",
             t \in Headed /\ (pc'[t] # "idle" \/ r = "size") => "header" \in d,
             r = "size" => "payload" \in d
      PROVE  ResultInv'
  <2>1. ResultTypes'
    BY <1>1, <1>2 DEF ResultTypes, Set
  <2>2. \A u \in Threads : IF u = t THEN ret'[u] = x /\ data'[u] = d /\ returned'[u] = r
                           ELSE ret'[u] = ret[u] /\ data'[u] = data[u] /\ returned'[u] = returned[u]
    BY <1>1, <1>2 DEF Set
  <2>3. MovedAsTold'
    BY <1>1, <1>2, <2>2 DEF MovedAsTold
  <2>. QED BY <2>1, <2>3 DEF ResultInv
<1>3. /\ ret = Set(ret, t, ret[t]) /\ data = Set(data, t, data[t])
      /\ returned = Set(returned, t, returned[t])
      /\ ret[t] \in {"none", "whole", "short", "raised"}
      /\ data[t] \in SUBSET {"header", "payload"} /\ returned[t] \in {"none", "size", "error"}
  BY <1>1 DEF Set
<1>4. /\ ret[t] = "whole" => "payload" \in data[t]
      /\ pc[t] # "idle" => returned[t] = "none"
      /\ t \in Headed /\ (pc[t] # "idle" \/ returned[t] = "size") => "header" \in data[t]
  BY <1>1 DEF MovedAsTold
<1>5. ASSUME Begin(t) \/ Proceed(t)
      PROVE  \A u \in Threads \ {t} : pc'[u] = "idle" <=> pc[u] = "idle"
  BY <1>1, <1>5, GuardMoves
<1>6. CASE Call(t)
  <2>1. /\ Begin(t) /\ ret' = Set(ret, t, "none") /\ returned' = Set(returned, t, "none")
        /\ data' = Set(data, t, IF t \in Headed THEN {"header"} ELSE {})
    BY <1>6 DEF Call
  <2>. QED BY <1>2, <1>5, <2>1
<1>7. CASE Enter(t)
  <2>1. Proceed(t) /\ UNCHANGED <<ret, data, returned>> /\ pc[t] # "idle"
    BY <1>7 DEF Enter, Proceed, EnterRead, EnterWrite, ioVars
  <2>. QED BY <1>2, <1>3, <1>4, <1>5, <2>1
<1>8. CASE LeaveGuard(t)
  <2>1. /\ Proceed(t) /\ ret' = Set(ret, t, "none") /\ UNCHANGED data
        /\ pc'[t] = (IF ret[t] = "whole" THEN "idle" ELSE "fallback") /\ pc[t] # "idle"
        /\ returned' = Set(returned, t, IF ret[t] = "whole" THEN "size" ELSE "none")
    BY <1>8 DEF LeaveGuard, Proceed, LeaveRead, LeaveWrite
  <2>. QED BY <1>2, <1>3, <1>4, <1>5, <2>1
<1>9. CASE CopyByCpu(t)
  <2>1. /\ Proceed(t) /\ UNCHANGED ret /\ pc[t] # "idle" /\ pc'[t] = "idle"
        /\ \/ data' = Set(data, t, data[t] \cup {"payload"}) /\ returned' = Set(returned, t, "size")
           \/ UNCHANGED data /\ returned' = Set(returned, t, "error")
    BY <1>1, <1>9 DEF CopyByCpu, Proceed, Fallback, Go
  <2>. QED BY <1>2, <1>3, <1>4, <1>5, <2>1
<1>10. CASE OpenFile(t) \/ RegisterFileHandle(t) \/ Transfer(t) \/ CloseFile(t)
  <2>1. UNCHANGED <<pc, returned>> /\ pc[t] # "idle"
    BY <1>10 DEF OpenFile, RegisterFileHandle, Transfer, CloseFile, Inside, vars
  <2>2. CASE OpenFile(t)
    <3>1. /\ ret[t] = "none" /\ ret' \in {ret, Set(ret, t, "raised")}
          /\ data' = data \/ (t \notin Headed /\ data' = Set(data, t, {}))
      BY <2>2 DEF OpenFile
    <3>. QED BY <1>2, <1>3, <1>4, <2>1, <3>1
  <2>3. CASE RegisterFileHandle(t) \/ CloseFile(t)
    <3>1. ret' \in {ret, Set(ret, t, "raised")} /\ UNCHANGED data
      BY <2>3 DEF RegisterFileHandle, CloseFile
    <3>. QED BY <1>2, <1>3, <1>4, <2>1, <3>1
  <2>4. CASE Transfer(t)
    <3>1. \/ ret' = Set(ret, t, "whole") /\ data' = Set(data, t, data[t] \cup {"payload"})
          \/ ret' \in {Set(ret, t, "short"), Set(ret, t, "raised")} /\ UNCHANGED data
      BY <2>4 DEF Transfer
    <3>. QED BY <1>2, <1>3, <1>4, <2>1, <3>1
  <2>. QED BY <1>10, <2>2, <2>3, <2>4
<1>. QED BY <1>6, <1>7, <1>8, <1>9, <1>10 DEF ThreadStep

\* The backend's own steps touch no call.
LEMMA BackendApart ==
  ASSUME [TransferNext]_transferVars, ~\E t \in Threads : Call(t) \/ ThreadStep(t)
  PROVE  UNCHANGED <<vars, ioVars>>
BY DEF TransferNext, transferVars, BackendStep, OpenDriverOrPool, OpenStaging, Rollback, Drain,
       Unregister, ReleaseStaging, ReleasePool, Release, ReleaseDriver, Finalize, Close, Build,
       RegisterDirect

\* Every step keeps it.
LEMMA ResultStep == LifeInv /\ ResultInv /\ [TransferNext]_transferVars => ResultInv'
<1>. SUFFICES ASSUME LifeInv, ResultInv, [TransferNext]_transferVars PROVE ResultInv'
  OBVIOUS
<1>1. CASE UNCHANGED <<vars, ioVars>>
  <2>1. UNCHANGED <<pc, ret, data, returned>>
    BY <1>1 DEF vars, ioVars
  <2>. QED BY <2>1 DEF ResultInv, ResultTypes, MovedAsTold
<1>. QED BY <1>1, BackendApart, ResultThread

\* Whatever the library answers, short counts and failures included: a call of read or
\* write that returns the size has moved all of it, and has kept the header of the file.
THEOREM ResultsAreHonest == TransferSpec => []ResultHonest
<1>1. ResultInv => ResultHonest
  BY DEF ResultInv, MovedAsTold, ResultHonest
<1>. QED BY <1>1, LifeInit, LifeStep, ResultInit, ResultStep, PTL DEF TransferSpec
-----------------------------------------------------------------------------
(* What a closed backend leaves behind.  The count is exact, and while the *)
(* backend serves, or its close can be tried again, somebody owns the      *)
(* driver: the backend itself or a pool.  That is what a transfer that     *)
(* opens the driver on its own (HIPFile.open) relies on to see it closed.  *)
One(b) == IF b THEN 1 ELSE 0

Owner == owned \/ Counted("pool") \/ Counted("staging")

LifeRest ==
  /\ driver \in BOOLEAN /\ owned \in BOOLEAN /\ built \in BOOLEAN
  /\ direct \subseteq {"kv", "edge"} /\ mode \in Modes /\ stage \in Stages
  /\ builds \in Nat /\ faults \in Nat

CountExact == active = One(Counted("pool")) + One(Counted("staging"))

DriverOwned ==
  /\ stage \in {"opening", "staging", "rollback"} => ~built
  /\ stage \in {"serving", "closing", "unregister", "raised"} => built /\ Owner
  /\ built /\ driver => Owner
  /\ built => stage \notin {"none", "abandoned"}

OwnInv == LifeRest /\ CountExact /\ DriverOwned /\ ClosedReleasesAll

\* It holds at the start.
LEMMA OwnInit == TransferInit => OwnInv
<1>. SUFFICES ASSUME TransferInit PROVE OwnInv
  OBVIOUS
<1>1. ~Counted("pool") /\ ~Counted("staging") /\ active = 0
  BY DEF TransferInit, Counted, Pools
<1>2. LifeRest
  BY DEF TransferInit, LifeRest, Stages
<1>3. CountExact
  BY <1>1 DEF CountExact, One
<1>4. DriverOwned /\ ClosedReleasesAll
  BY DEF TransferInit, DriverOwned, ClosedReleasesAll
<1>. QED BY <1>2, <1>3, <1>4 DEF OwnInv

\* A call of the library is counted when it fails.
LEMMA FaultsTyped ==
  ASSUME faults \in Nat, Fails \/ Succeeds
  PROVE  faults' \in Nat
BY DEF Fails, Succeeds

\* Threads move the driver only while it has an owner.
LEMMA OwnThread ==
  ASSUME LifeInv, OwnInv, NEW t \in Threads, Call(t) \/ ThreadStep(t)
  PROVE  OwnInv'
<1>1. UNCHANGED lifeVars /\ driver' \in {driver, TRUE}
  BY DEF Call, ThreadStep, Enter, OpenFile, RegisterFileHandle, Transfer, CloseFile, LeaveGuard,
         CopyByCpu
<1>2. faults' \in Nat
  BY FaultsTyped DEF Call, ThreadStep, Enter, OpenFile, RegisterFileHandle, Transfer, CloseFile,
         LeaveGuard, CopyByCpu, OwnInv, LifeRest, Succeeds
<1>3. driver' = driver \/ stage \in {"serving", "closing"}
  <2>1. OpenFile(t) => stage \in {"serving", "closing"}
    BY DEF OpenFile, Inside, LifeInv, AtWork
  <2>2. ~OpenFile(t) => driver' = driver
    BY DEF Call, ThreadStep, Enter, RegisterFileHandle, Transfer, CloseFile, LeaveGuard, CopyByCpu
  <2>. QED BY <2>1, <2>2
<1>4. UNCHANGED <<active, pool, direct, owned, mode, stage, built, builds>>
  BY <1>1 DEF lifeVars
<1>5. LifeRest' /\ CountExact'
  BY <1>1, <1>2, <1>4 DEF OwnInv, LifeRest, CountExact, Counted
<1>6. DriverOwned' /\ ClosedReleasesAll'
  BY <1>3, <1>4 DEF OwnInv, DriverOwned, ClosedReleasesAll, Owner, Counted
<1>. QED BY <1>5, <1>6 DEF OwnInv

\* The backend's steps that open and close nothing.
LEMMA OwnMoves ==
  ASSUME LifeInv, OwnInv,
         \/ Rollback \/ Close \/ Drain \/ Unregister
         \/ \E m \in Modes : Build(m)
         \/ \E b \in {"kv", "edge"} : RegisterDirect(b)
  PROVE  OwnInv'
<1>1. UNCHANGED <<driver, active, pool, owned>> /\ faults' \in Nat
  BY FaultsTyped DEF Rollback, Close, Drain, Unregister, Build, RegisterDirect, OwnInv, LifeRest
<1>2. CountExact'
  BY <1>1 DEF OwnInv, CountExact, Counted
<1>3. LifeRest'
  <2>0. LifeRest
    BY DEF OwnInv
  <2>1. CASE Rollback \/ Close \/ Drain \/ Unregister
    <3>1. UNCHANGED <<mode, built, builds>>
      BY <2>1 DEF Rollback, Close, Drain, Unregister
    <3>2. stage' \in {"unstage", "closing", "unregister", "raised"}
      BY <2>1 DEF Rollback, Close, Drain, Unregister, GoesTo
    <3>3. direct' \subseteq direct
      BY <2>1 DEF Rollback, Close, Drain, Unregister
    <3>. QED BY <1>1, <2>0, <3>1, <3>2, <3>3 DEF LifeRest, Stages
  <2>2. CASE \E m \in Modes : Build(m)
    <3>1. mode' \in Modes /\ stage' = "opening" /\ built' = FALSE /\ builds' = builds + 1
          /\ UNCHANGED direct
      BY <2>2 DEF Build, GoesTo
    <3>2. builds' \in Nat /\ stage' \in Stages
      BY <2>0, <3>1 DEF LifeRest, Stages
    <3>3. driver' \in BOOLEAN /\ owned' \in BOOLEAN /\ built' \in BOOLEAN
      BY <1>1, <2>0, <3>1 DEF LifeRest
    <3>. QED BY <1>1, <2>0, <3>1, <3>2, <3>3 DEF LifeRest
  <2>3. CASE \E b \in {"kv", "edge"} : RegisterDirect(b)
    BY <1>1, <2>0, <2>3 DEF LifeRest, RegisterDirect
  <2>. QED BY <2>1, <2>2, <2>3
<1>4. DriverOwned' /\ ClosedReleasesAll'
  BY <1>1 DEF OwnInv, DriverOwned, ClosedReleasesAll, Owner, Counted, Rollback, Close, Drain,
              Unregister, Build, RegisterDirect, GoesTo
<1>. QED BY <1>2, <1>3, <1>4 DEF OwnInv

\* The count stays exact when one pool is opened or closed.
LEMMA CountStep ==
  ASSUME LifeInv, CountExact, NEW p \in Pools,
         \/ OpenPool(p) /\ ~Counted(p)
         \/ OpenPoolFails(p) \/ ClosePool(p) \/ BufferRefuses(p) \/ DriverRefuses(p)
  PROVE  CountExact'
<1>1. /\ pool \in [Pools -> [registered : BOOLEAN, counted : BOOLEAN]]
      /\ Pools = {"pool", "staging"}
  BY DEF LifeInv, LifeTypes, Pools
<1>2. CASE OpenPool(p) /\ ~Counted(p)
  BY <1>1, <1>2 DEF OpenPool, Set, CountExact, Counted, One
<1>3. CASE OpenPoolFails(p) \/ BufferRefuses(p)
  BY <1>1, <1>3 DEF OpenPoolFails, BufferRefuses, CountExact, Counted, One
<1>4. CASE ClosePool(p)
  BY <1>1, <1>4 DEF ClosePool, LastPool, Set, CountExact, Counted, One
<1>5. CASE DriverRefuses(p)
  BY <1>1, <1>5 DEF DriverRefuses, Set, CountExact, Counted, One
<1>. QED BY <1>2, <1>3, <1>4, <1>5

\* Closing a pool closes the driver, or leaves it to the pool that is still counted.
LEMMA ClosePoolOwner ==
  ASSUME LifeInv, CountExact, NEW p \in Pools, ClosePool(p), UNCHANGED owned,
         driver => Owner
  PROVE  driver' => Owner'
<1>1. /\ pool \in [Pools -> [registered : BOOLEAN, counted : BOOLEAN]]
      /\ Pools = {"pool", "staging"}
  BY DEF LifeInv, LifeTypes, Pools
<1>2. \A q \in Pools \ {p} : Counted(q)' <=> Counted(q)
  BY <1>1 DEF ClosePool, Set, Counted
<1>3. CASE Counted(p) /\ active = 1
  BY <1>3 DEF ClosePool, LastPool, Counted
<1>4. CASE Counted(p) /\ active # 1
  <2>1. Counted("pool") /\ Counted("staging")
    BY <1>1, <1>4 DEF CountExact, One
  <2>. QED BY <1>1, <1>2, <2>1 DEF Owner
<1>5. CASE ~Counted(p)
  <2>1. UNCHANGED driver
    BY <1>5 DEF ClosePool, Counted
  <2>. QED BY <1>1, <1>2, <1>5, <2>1 DEF Owner
<1>. QED BY <1>3, <1>4, <1>5

\* A pool that cannot be given back stays counted.
LEMMA RefusedIsCounted ==
  ASSUME LifeInv, NEW p \in Pools, BufferRefuses(p) \/ DriverRefuses(p)
  PROVE  Counted(p)' /\ UNCHANGED driver
BY DEF LifeInv, LifeTypes, PoolsHeld, BufferRefuses, DriverRefuses, Set, Counted

\* The backend's steps that open or close a pool or the driver.
LEMMA OwnOpens ==
  ASSUME LifeInv, OwnInv,
         \/ OpenDriverOrPool \/ OpenStaging \/ ReleaseStaging \/ ReleasePool
         \/ ReleaseDriver \/ Finalize
  PROVE  OwnInv'
<1>0. /\ LifeTypes /\ AtWork /\ HandlesHeld /\ DirectHeld /\ PoolsHeld
      /\ LifeRest /\ CountExact /\ DriverOwned /\ ClosedReleasesAll
      /\ Pools = {"pool", "staging"}
  BY DEF LifeInv, OwnInv, Pools
<1>1. /\ UNCHANGED <<direct, mode, builds>> /\ owned' \in BOOLEAN /\ built' \in BOOLEAN
      /\ stage \in {"opening", "staging", "unstage", "unpool", "undrive", "abandoned"}
  BY <1>0 DEF OpenDriverOrPool, OpenStaging, ReleaseStaging, ReleasePool, Release, ReleaseDriver,
              Finalize, LifeRest
<1>2. direct = {}
  BY <1>0, <1>1 DEF DirectHeld
<1>3. ASSUME NEW p \in Pools,
             \/ OpenPool(p) \/ OpenPoolFails(p) \/ ClosePool(p)
             \/ BufferRefuses(p) \/ DriverRefuses(p)
      PROVE  driver' \in BOOLEAN /\ faults' \in Nat
  BY <1>0, <1>3, FaultsTyped DEF OpenPool, OpenPoolFails, ClosePool, BufferRefuses,
     DriverRefuses, LifeRest
<1>4. ASSUME driver' \in BOOLEAN, faults' \in Nat, stage' \in Stages, CountExact', DriverOwned',
             stage' # "closed"
      PROVE  OwnInv'
  BY <1>0, <1>1, <1>4 DEF OwnInv, LifeRest, ClosedReleasesAll
<1>5. CASE OpenDriverOrPool /\ mode = "direct"
  <2>1. /\ stage' \in {"serving", "rollback"} /\ UNCHANGED <<active, pool>>
        /\ built' = (stage' = "serving") /\ (stage' = "serving" => owned')
        /\ driver' \in {driver, TRUE} /\ faults' \in Nat
    BY <1>0, <1>5, FaultsTyped DEF OpenDriverOrPool, GoesTo, LifeRest
  <2>2. CountExact'
    BY <1>0, <2>1 DEF CountExact, Counted
  <2>3. DriverOwned'
    BY <2>1 DEF DriverOwned, Owner
  <2>. QED BY <1>0, <1>4, <2>1, <2>2, <2>3 DEF Stages, LifeRest
<1>6. CASE OpenDriverOrPool /\ mode # "direct"
  <2>1. /\ ~Counted("pool") /\ built' = (stage' = "serving")
        /\ \/ OpenPool("pool") /\ stage' = "staging"
           \/ OpenPoolFails("pool") /\ stage' = "none"
    BY <1>0, <1>6 DEF OpenDriverOrPool, GoesTo, PoolsHeld
  <2>2. CountExact'
    BY <1>0, <2>1, CountStep
  <2>3. DriverOwned'
    BY <2>1 DEF DriverOwned, Owner
  <2>. QED BY <1>0, <1>3, <1>4, <2>1, <2>2, <2>3 DEF Stages
<1>7. CASE OpenStaging
  <2>1. /\ ~Counted("staging") /\ built' = (stage' = "serving")
        /\ \/ OpenPool("staging") /\ stage' = "serving"
           \/ OpenPoolFails("staging") /\ stage' = "rollback"
    BY <1>0, <1>7 DEF OpenStaging, GoesTo, PoolsHeld
  <2>2. CountExact'
    BY <1>0, <2>1, CountStep
  <2>3. OpenPool("staging") => Counted("staging")'
    BY <1>0 DEF OpenPool, Set, Counted, LifeTypes
  <2>4. DriverOwned'
    BY <2>1, <2>3 DEF DriverOwned, Owner
  <2>. QED BY <1>0, <1>3, <1>4, <2>1, <2>2, <2>4 DEF Stages
<1>8. ASSUME NEW p \in Pools, NEW here \in {"unstage", "unpool"},
             NEW next \in {"unpool", "undrive"}, Release(p, here, next)
      PROVE  OwnInv'
  <2>1. /\ stage = here /\ UNCHANGED <<owned, built>>
        /\ \/ ClosePool(p) /\ stage' = next
           \/ /\ BufferRefuses(p) \/ DriverRefuses(p)
              /\ stage' = IF built THEN "raised" ELSE "abandoned"
    BY <1>8 DEF Release, GoesTo, Raised
  <2>2. CountExact'
    BY <1>0, <2>1, CountStep
  <2>3. built /\ driver => Owner
    BY <1>0, <2>1 DEF DriverOwned
  <2>4. DriverOwned'
    <3>1. CASE ClosePool(p) /\ stage' = next
      <4>1. built /\ driver' => Owner'
        <5>1. CASE built
          BY <1>0, <2>1, <2>3, <3>1, <5>1, ClosePoolOwner
        <5>2. CASE ~built
          BY <5>2
        <5>. QED BY <5>1, <5>2
      <4>. QED BY <2>1, <3>1, <4>1 DEF DriverOwned
    <3>2. CASE /\ BufferRefuses(p) \/ DriverRefuses(p)
               /\ stage' = IF built THEN "raised" ELSE "abandoned"
      <4>1. Owner'
        BY <1>0, <3>2, RefusedIsCounted DEF Owner
      <4>. QED BY <2>1, <3>2, <4>1 DEF DriverOwned
    <3>. QED BY <2>1, <3>1, <3>2
  <2>. QED BY <1>3, <1>4, <2>1, <2>2, <2>4 DEF Stages
<1>9. CASE ReleaseStaging \/ ReleasePool
  BY <1>0, <1>8, <1>9 DEF ReleaseStaging, ReleasePool
<1>10. CASE ReleaseDriver
  <2>1. /\ stage = "undrive" /\ UNCHANGED <<active, pool, built>> /\ faults' \in Nat
        /\ \/ /\ stage' = IF built THEN "closed" ELSE "none"
              /\ ~owned' /\ (driver' = FALSE \/ (~owned /\ driver' = driver))
           \/ /\ stage' = IF built THEN "raised" ELSE "abandoned"
              /\ owned' /\ UNCHANGED driver
    BY <1>0, <1>10, FaultsTyped DEF ReleaseDriver, GoesTo, Ended, Raised, LifeRest
  <2>2. ~Counted("pool") /\ ~Counted("staging") /\ active = 0
    BY <1>0, <2>1 DEF PoolsHeld, CountExact, One
  <2>3. \A p \in Pools : ~pool[p].counted /\ ~pool[p].registered
    BY <1>0, <2>2 DEF PoolsHeld, Counted
  <2>4. CountExact' /\ DriverOwned' /\ driver' \in BOOLEAN
    <3>1. CountExact'
      BY <1>0, <2>1 DEF CountExact, Counted
    <3>2. driver' \in BOOLEAN
      BY <1>0, <2>1 DEF LifeRest
    <3>3. built /\ driver /\ ~owned => FALSE
      BY <1>0, <2>2 DEF DriverOwned, Owner
    <3>4. DriverOwned'
      BY <2>1, <3>3 DEF DriverOwned, Owner
    <3>. QED BY <3>1, <3>2, <3>4
  <2>5. ClosedReleasesAll'
    BY <1>0, <1>1, <1>2, <2>1, <2>2, <2>3 DEF ClosedReleasesAll, DriverOwned, Owner
  <2>. QED BY <1>0, <1>1, <2>1, <2>4, <2>5 DEF OwnInv, LifeRest, Stages
<1>11. CASE Finalize
  <2>1. PICK p \in Pools : ClosePool(p) \/ BufferRefuses(p) \/ DriverRefuses(p)
    BY <1>11 DEF Finalize
  <2>2. CountExact'
    BY <1>0, <2>1, CountStep
  <2>3. stage = "abandoned" /\ stage' = "none" /\ UNCHANGED built
    BY <1>11 DEF Finalize, GoesTo
  <2>4. DriverOwned'
    BY <1>0, <2>3 DEF DriverOwned
  <2>. QED BY <1>3, <1>4, <2>1, <2>2, <2>3, <2>4 DEF Stages
<1>. QED BY <1>5, <1>6, <1>7, <1>9, <1>10, <1>11

\* Every step keeps it.
LEMMA OwnStep == LifeInv /\ OwnInv /\ [TransferNext]_transferVars => OwnInv'
<1>. SUFFICES ASSUME LifeInv, OwnInv, [TransferNext]_transferVars PROVE OwnInv'
  OBVIOUS
<1>1. CASE UNCHANGED transferVars
  <2>1. UNCHANGED <<driver, faults, active, pool, direct, owned, mode, stage, built, builds>>
    BY <1>1 DEF transferVars, lifeVars
  <2>. QED BY <2>1 DEF OwnInv, LifeRest, CountExact, DriverOwned, Owner, Counted, ClosedReleasesAll
<1>. QED BY <1>1, OwnThread, OwnMoves, OwnOpens DEF TransferNext, BackendStep

\* However often the backend is built and its close has to be tried, and whatever call of
\* the library fails on the way: a thread that has left the driver has no file open and no
\* handle registered, and a backend that was closed has no buffer registered and no pool
\* counted, and has closed the driver.
THEOREM NothingIsLeaked == TransferSpec => []NothingLeaks
<1>1. Cardinality(Pools) = 2
  <2>1. IsFiniteSet({"pool"}) /\ Cardinality({"pool"}) = 1
    BY FS_Singleton
  <2>2. Pools = {"pool"} \cup {"staging"} /\ "staging" \notin {"pool"}
    BY DEF Pools
  <2>. QED BY <2>1, <2>2, FS_AddElement
<1>2. TypeOK /\ LifeInv /\ ResultInv /\ OwnInv => NothingLeaks
  <2>1. OwnInv => active \in 0 .. 2
    BY DEF OwnInv, CountExact, One
  <2>. QED BY <1>1, <2>1 DEF NothingLeaks, TransferTypeOK, LifeInv, LifeTypes, ResultInv,
              ResultTypes, OwnInv, LifeRest, HandlesHeld, NoHandleLeft
<1>3. GuardInv => TypeOK
  BY DEF GuardInv
<1>4. Spec => []TypeOK
  BY <1>3, GuardInit, GuardStep, PTL DEF Spec
<1>. QED BY <1>2, <1>4, TransfersImplementGuard, LifeInit, LifeStep, ResultInit, ResultStep,
            OwnInit, OwnStep, PTL DEF TransferSpec
=============================================================================

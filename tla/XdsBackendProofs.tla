-------------------------- MODULE XdsBackendProofs --------------------------
(* The type invariant of the XDS tier, that its byte counter never falls   *)
(* below what is stored and reserved, that its cap is respected and its    *)
(* put tasks match the jobs, whatever the calls.  What a tier promises its *)
(* only storer (exact counters and pin counts, index entries that are on   *)
(* disk, sidecars that have their data) is proved for one storing thread,  *)
(* for any crashes; with more the code does not keep it, as the runs show. *)
EXTENDS XdsBackend, ByteTotalsProofs

USE ConstantsAssumption

\* The values threads start from have their types.
LEMMA IdleTypes ==
  /\ AnyKey \in Keys
  /\ IdleCaller \in CallerState
  /\ IdleJob \in JobState
  /\ ScanStart \in [ScanFile -> {"todo", "read", "done"}]
<1>1. AnyKey \in Keys
  BY DEF AnyKey
<1>. QED BY <1>1 DEF IdleCaller, CallerState, CallerPC, Layout, IdleJob, JobState, JobPC,
       ScanStart, ScanFile

\* What is unlinked with an entry are files of the store.
LEMMA UnlinkOrderType ==
  ASSUME NEW k \in Keys, NEW l
  PROVE  UnlinkOrder(k, l) \in Seq(File)
<1>1. DataFile(k, l) \in File /\ <<k, "metadata">> \in File
  BY DEF DataFile, File
<1>. QED BY <1>1 DEF UnlinkOrder

\* Sizes are natural numbers.
LEMMA SizeType ==
  ASSUME NEW k \in Keys
  PROVE  /\ \A l : SizeOf(k, l) \in Nat
         /\ Required(k) \in Nat
         /\ EntrySize(k) \in Nat
BY DEF SizeOf, Required, EntrySize

\* The initial state is well typed.
LEMMA InitType == Init => TypeOK
BY IdleTypes DEF Init, TypeOK, Free, LeftOver, File

\* Setting the program counter of a caller keeps its type.
LEMMA GotoType ==
  ASSUME TypeOK, NEW c \in Callers, NEW pc \in CallerPC, Goto(c, pc)
  PROVE  caller' \in [Callers -> CallerState]
<1>1. caller \in [Callers -> CallerState]
  BY DEF TypeOK
<1>2. [caller[c] EXCEPT !.pc = pc] \in CallerState
  BY <1>1 DEF CallerState
<1>. QED BY <1>1, <1>2 DEF Goto

\* So does going on to the next key.
LEMMA NextKeyType ==
  ASSUME TypeOK, NEW c \in Callers, NextKey(c)
  PROVE  caller' \in [Callers -> CallerState]
BY IdleTypes DEF TypeOK, NextKey, Rest, CallerState, CallerPC, IdleCaller

\* Every step of a calling thread keeps the types.
LEMMA CallerStepType ==
  ASSUME TypeOK, NEW c \in Callers, CallerStep(c)
  PROVE  TypeOK'
<1>0. /\ caller \in [Callers -> CallerState] /\ job \in [Jobs -> JobState]
      /\ current_cache_size \in Int
  BY DEF TypeOK
<1>1. caller[c].key \in Keys
  BY <1>0 DEF CallerState
<1>2. /\ \A k \in Keys : TasksWithout(k) \in [Keys -> Nat]
      /\ \A k \in Keys : PopAndCredit(k) => /\ hot_cache' \in [Keys -> Layout \cup {"absent"}]
                                             /\ pin_count' \in [Keys -> Int]
                                             /\ current_cache_size' \in Int
  BY SizeType DEF TypeOK, TasksWithout, PopAndCredit
<1>3. \A j \in Jobs, pc \in JobPC : [job EXCEPT ![j].pc = pc] \in [Jobs -> JobState]
  <2>. TAKE j \in Jobs, pc \in JobPC
  <2>1. [job[j] EXCEPT !.pc = pc] \in JobState
    BY <1>0 DEF JobState
  <2>. QED BY <1>0, <2>1
<1>4. caller[c].batch # <<>> => Oldest(c) \in Jobs /\ job[Oldest(c)].key \in Keys
  BY <1>0 DEF CallerState, JobState, Oldest
<1>5. CASE \E k \in Keys : SubmitPutTask(c, k)
  <2>. PICK k \in Keys : SubmitPutTask(c, k)
    BY <1>5
  <2>1. [caller[c] EXCEPT !.pc = "lookup", !.key = k] \in CallerState
    BY <1>0, ZenonT(40) DEF CallerState, CallerPC
  <2>2. caller' \in [Callers -> CallerState]
    BY <1>0, <2>1 DEF SubmitPutTask
  <2>. QED BY <2>2 DEF SubmitPutTask, TypeOK
<1>6. CASE \E k \in Keys : DirectPut(c, k)
  <2>. PICK k \in Keys : DirectPut(c, k)
    BY <1>6
  <2>1. [caller[c] EXCEPT !.pc = IF Resident(k) THEN "drop" ELSE "check", !.key = k,
                          !.direct = TRUE] \in CallerState
    BY <1>0, ZenonT(40) DEF CallerState, CallerPC
  <2>2. caller' \in [Callers -> CallerState]
    BY <1>0, <2>1 DEF DirectPut
  <2>. QED BY <2>2 DEF DirectPut, TypeOK
<1>7. CASE \E k \in Keys : Remove(c, k)
  <2>. PICK k \in Keys : Remove(c, k)
    BY <1>7
  <2>1. [caller[c] EXCEPT !.unlink = UnlinkOrder(k, hot_cache[k])] \in CallerState
    BY <1>0, UnlinkOrderType DEF CallerState
  <2>2. caller' \in [Callers -> CallerState]
    BY <1>0, <2>1 DEF Remove
  <2>. QED BY <1>2, <2>2 DEF Remove, TypeOK
<1>8. CASE \E k \in Keys : GetBlocking(c, k)
  <2>. PICK k \in Keys : GetBlocking(c, k)
    BY <1>8
  <2>0. hot_cache[k] \in Layout
    BY DEF GetBlocking, Resident, TypeOK
  <2>1. [caller[c] EXCEPT !.pc = "load", !.key = k, !.path = hot_cache[k]] \in CallerState
    BY <1>0, <2>0, ZenonT(40) DEF CallerState, CallerPC
  <2>2. caller' \in [Callers -> CallerState]
    BY <1>0, <2>1 DEF GetBlocking
  <2>. QED BY <2>2 DEF GetBlocking, TypeOK
<1>9. CASE Lookup(c)
  <2>1. caller' \in [Callers -> CallerState]
    BY <1>9, GotoType, NextKeyType DEF Lookup, CallerPC
  <2>. QED BY <1>9, <2>1 DEF Lookup, TypeOK
<1>10. CASE InsertPutTask(c)
  <2>1. caller' \in [Callers -> CallerState]
    BY <1>10, GotoType DEF InsertPutTask, CallerPC
  <2>. QED BY <1>1, <1>10, <2>1 DEF InsertPutTask, TypeOK
<1>11. CASE BeginEviction(c)
  <2>1. caller' \in [Callers -> CallerState]
    BY <1>11, GotoType DEF BeginEviction, CallerPC
  <2>. QED BY <1>11, <2>1 DEF BeginEviction, TypeOK
<1>12. CASE EvictionStep(c)
  <2>1. CASE ReserveEvicted(c)
    <3>1. caller' \in [Callers -> CallerState]
      BY <2>1, GotoType DEF ReserveEvicted, CallerPC
    <3>2. current_cache_size' \in Int
      BY <2>1, <1>1, SizeType DEF ReserveEvicted, TypeOK
    <3>. QED BY <2>1, <3>1, <3>2 DEF ReserveEvicted, TypeOK
  <2>2. CASE EvictionFails(c)
    <3>1. caller' \in [Callers -> CallerState]
      BY <2>2, GotoType DEF EvictionFails, CallerPC
    <3>. QED BY <2>2, <3>1 DEF EvictionFails, TypeOK
  <2>3. CASE \E v \in Keys : EvictOne(c, v)
    <3>. PICK v \in Keys : EvictOne(c, v)
      BY <2>3
    <3>0. caller[c].unlink \o UnlinkOrder(v, hot_cache[v]) \in Seq(File)
      BY <1>0, UnlinkOrderType DEF CallerState
    <3>1. [caller[c] EXCEPT !.unlink = @ \o UnlinkOrder(v, hot_cache[v])] \in CallerState
      BY <1>0, <3>0 DEF CallerState
    <3>2. caller' \in [Callers -> CallerState]
      BY <1>0, <3>1 DEF EvictOne
    <3>. QED BY <1>2, <3>2 DEF EvictOne, TypeOK
  <2>. QED BY <1>12, <2>1, <2>2, <2>3 DEF EvictionStep
<1>13. CASE ReadCounter(c)
  <2>1. [caller[c] EXCEPT !.pc = "add", !.seen = current_cache_size] \in CallerState
    BY <1>0, ZenonT(40) DEF CallerState, CallerPC
  <2>2. caller' \in [Callers -> CallerState]
    BY <1>0, <1>13, <2>1 DEF ReadCounter
  <2>. QED BY <1>13, <2>2 DEF ReadCounter, TypeOK
<1>14. CASE WriteCounter(c)
  <2>1. caller' \in [Callers -> CallerState]
    BY <1>14, GotoType DEF WriteCounter, CallerPC
  <2>2. caller[c].seen \in Int
    BY <1>0 DEF CallerState
  <2>3. current_cache_size' \in Int
    BY <1>14, <1>1, <2>2, SizeType DEF WriteCounter
  <2>. QED BY <1>14, <2>1, <2>3 DEF WriteCounter, TypeOK
<1>15. CASE ReserveDirectSize(c)
  <2>1. caller' \in [Callers -> CallerState]
    BY <1>15, GotoType DEF ReserveDirectSize, CallerPC
  <2>2. current_cache_size' \in Int
    BY <1>15, <1>1, SizeType DEF ReserveDirectSize, TypeOK
  <2>. QED BY <1>15, <2>1, <2>2 DEF ReserveDirectSize, TypeOK
<1>16. CASE Unlink(c)
  <2>0. Tail(caller[c].unlink) \in Seq(File)
    BY <1>0, <1>16 DEF CallerState, Unlink
  <2>1. [caller[c] EXCEPT !.unlink = Tail(@)] \in CallerState
    BY <1>0, <2>0 DEF CallerState
  <2>2. caller' \in [Callers -> CallerState]
    BY <1>0, <1>16, <2>1 DEF Unlink
  <2>. QED BY <1>16, <2>2 DEF Unlink, Delete, TypeOK
<1>17. CASE RemovePutTask(c)
  <2>1. caller' \in [Callers -> CallerState]
    BY <1>17, NextKeyType DEF RemovePutTask
  <2>. QED BY <1>1, <1>2, <1>17, <2>1 DEF RemovePutTask, TypeOK
<1>18. CASE \E j \in Jobs : Spawn(c, j)
  <2>. PICK j \in Jobs : Spawn(c, j)
    BY <1>18
  <2>1. [pc |-> "write", key |-> caller[c].key, direct |-> caller[c].direct] \in JobState
    BY <1>0 DEF CallerState, JobState, JobPC
  <2>2. job' \in [Jobs -> JobState]
    BY <1>0, <2>1 DEF Spawn
  <2>3. Append(caller[c].batch, j) \in Seq(Jobs)
    BY <1>0 DEF CallerState
  <2>4. [IdleCaller EXCEPT !.pc = "batch", !.batch = Append(caller[c].batch, j)] \in CallerState
    BY <2>3, IdleTypes DEF CallerState, CallerPC
  <2>5. caller' \in [Callers -> CallerState]
    <3>1. CASE caller[c].direct
      BY <1>0, <2>4, <3>1 DEF Spawn
    <3>2. CASE ~caller[c].direct
      BY <3>2, NextKeyType DEF Spawn
    <3>. QED BY <3>1, <3>2
  <2>. QED BY <2>2, <2>5 DEF Spawn, TypeOK
<1>19. CASE DropLegacy(c)
  <2>1. [caller[c] EXCEPT !.pc = "check",
           !.unlink = UnlinkOrder(caller[c].key, hot_cache[caller[c].key])] \in CallerState
    BY <1>0, <1>1, UnlinkOrderType, ZenonT(40) DEF CallerState, CallerPC
  <2>2. CASE Resident(caller[c].key)
    <3>1. caller' \in [Callers -> CallerState]
      BY <1>0, <1>19, <2>1, <2>2 DEF DropLegacy
    <3>. QED BY <1>1, <1>2, <1>19, <2>2, <3>1 DEF DropLegacy, TypeOK
  <2>3. CASE ~Resident(caller[c].key)
    <3>1. caller' \in [Callers -> CallerState]
      BY <1>19, <2>3, GotoType DEF DropLegacy, CallerPC
    <3>. QED BY <1>19, <2>3, <3>1 DEF DropLegacy, TypeOK
  <2>. QED BY <2>2, <2>3
<1>20. CASE CheckPutTasks(c)
  <2>1. caller' \in [Callers -> CallerState]
    BY <1>20, GotoType, NextKeyType DEF CheckPutTasks, CallerPC
  <2>. QED BY <1>20, <2>1 DEF CheckPutTasks, TypeOK
<1>21. CASE InsertDirectKey(c)
  <2>1. caller' \in [Callers -> CallerState]
    BY <1>21, GotoType DEF InsertDirectKey, CallerPC
  <2>2. job' \in [Jobs -> JobState]
    BY <1>21, <1>3, <1>4 DEF InsertDirectKey, Collecting, JobPC
  <2>3. /\ hot_cache' \in [Keys -> Layout \cup {"absent"}]
        /\ pin_count' \in [Keys -> Int]
    BY <1>21, <1>4, SMTT(20) DEF InsertDirectKey, Collecting, SetEntry, TypeOK, Layout
  <2>. QED BY <1>21, <2>1, <2>2, <2>3 DEF InsertDirectKey, TypeOK
<1>22. CASE RollbackDirectStore(c)
  <2>1. caller' \in [Callers -> CallerState]
    BY <1>22, GotoType DEF RollbackDirectStore, CallerPC
  <2>2. job' \in [Jobs -> JobState]
    BY <1>22, <1>3, <1>4 DEF RollbackDirectStore, Collecting, JobPC
  <2>3. current_cache_size' \in Int
    <3>1. job[Oldest(c)].key \in Keys
      BY <1>22, <1>4 DEF RollbackDirectStore, Collecting
    <3>. QED BY <1>0, <1>22, <3>1, SizeType DEF RollbackDirectStore
  <2>. QED BY <1>22, <2>1, <2>2, <2>3 DEF RollbackDirectStore, TypeOK
<1>23. CASE FinishDirectJob(c)
  <2>0. caller[c].batch # <<>> /\ Tail(caller[c].batch) \in Seq(Jobs)
    BY <1>0, <1>23 DEF CallerState, FinishDirectJob, Collecting
  <2>1. [IdleCaller EXCEPT
           !.pc = IF Tail(caller[c].batch) = <<>> THEN "idle" ELSE "collect",
           !.batch = Tail(caller[c].batch)] \in CallerState
    BY <2>0, IdleTypes DEF CallerState, CallerPC
  <2>2. caller' \in [Callers -> CallerState]
    BY <1>0, <1>23, <2>1 DEF FinishDirectJob
  <2>3. job' \in [Jobs -> JobState]
    BY <1>0, <1>4, <1>23, <2>0, IdleTypes DEF FinishDirectJob
  <2>. QED BY <1>2, <1>4, <1>23, <2>0, <2>2, <2>3 DEF FinishDirectJob, TypeOK
<1>24. CASE LoadLookup(c)
  <2>1. caller' \in [Callers -> CallerState]
    BY <1>24, GotoType, NextKeyType DEF LoadLookup, CallerPC
  <2>. QED BY <1>24, <2>1 DEF LoadLookup, TypeOK
<1>25. CASE ReadFile(c)
  <2>1. caller' \in [Callers -> CallerState]
    BY <1>25, GotoType, NextKeyType DEF ReadFile, CallerPC
  <2>. QED BY <1>25, <2>1 DEF ReadFile, TypeOK
<1>26. CASE DiscardEntry(c)
  <2>1. caller' \in [Callers -> CallerState]
    BY <1>26, NextKeyType DEF DiscardEntry
  <2>. QED BY <1>1, <1>2, <1>26, <2>1 DEF DiscardEntry, TypeOK
<1>. QED BY <1>5, <1>6, <1>7, <1>8, <1>9, <1>10, <1>11, <1>12, <1>13, <1>14, <1>15, <1>16,
       <1>17, <1>18, <1>19, <1>20, <1>21, <1>22, <1>23, <1>24, <1>25, <1>26 DEF CallerStep

\* Every step of a file transaction keeps the types.
LEMMA SaveStepType ==
  ASSUME TypeOK, NEW j \in Jobs, SaveStep(j)
  PROVE  TypeOK'
<1>0. /\ job \in [Jobs -> JobState] /\ disk \in SUBSET File /\ current_cache_size \in Int
      /\ job[j].key \in Keys
  BY DEF TypeOK, JobState
<1>1. \A pc \in JobPC : JobStep(j, pc) => job' \in [Jobs -> JobState]
  <2>. TAKE pc \in JobPC
  <2>1. [job[j] EXCEPT !.pc = pc] \in JobState
    BY <1>0 DEF JobState
  <2>. QED BY <1>0, <2>1 DEF JobStep
<1>2. OnError(j) \in JobPC
  BY DEF OnError, JobPC
<1>3. \A t \in {"tmp", "metadata", "data", "block_first"} : <<job[j].key, t>> \in File
  BY <1>0 DEF File
<1>4. \A k \in Keys, l \in Layout \cup {"absent"} :
        SetEntry(k, l) => /\ hot_cache' \in [Keys -> Layout \cup {"absent"}]
                          /\ pin_count' \in [Keys -> Int]
  BY DEF SetEntry, TypeOK
<1>5. CASE WriteTmp(j)
  <2>1. job' \in [Jobs -> JobState]
    BY <1>1, <1>5 DEF WriteTmp, JobPC
  <2>2. disk' \in SUBSET File
    BY <1>0, <1>3, <1>5 DEF WriteTmp
  <2>. QED BY <1>5, <2>1, <2>2 DEF WriteTmp, TypeOK
<1>6. CASE WriteFails(j)
  <2>1. job' \in [Jobs -> JobState]
    BY <1>1, <1>2, <1>6 DEF WriteFails
  <2>2. disk' \in SUBSET File
    BY <1>0, <1>6 DEF WriteFails, Delete
  <2>. QED BY <1>6, <2>1, <2>2 DEF WriteFails, TypeOK
<1>7. CASE Rename(j)
  <2>1. job' \in [Jobs -> JobState]
    BY <1>1, <1>2, <1>7 DEF Rename, JobPC
  <2>2. disk' \in SUBSET File
    BY <1>0, <1>3, <1>7 DEF Rename, DataFile
  <2>. QED BY <1>7, <2>1, <2>2 DEF Rename, TypeOK
<1>8. CASE SaveMetadata(j)
  <2>1. job' \in [Jobs -> JobState]
    BY <1>1, <1>8 DEF SaveMetadata, JobPC
  <2>2. disk' \in SUBSET File
    BY <1>0, <1>3, <1>8 DEF SaveMetadata
  <2>. QED BY <1>8, <2>1, <2>2 DEF SaveMetadata, TypeOK
<1>9. CASE InsertKey(j)
  <2>1. job' \in [Jobs -> JobState]
    BY <1>1, <1>9 DEF InsertKey, JobPC
  <2>2. LayoutOf(job[j].key) \in Layout
    BY DEF LayoutOf, Layout
  <2>3. /\ hot_cache' \in [Keys -> Layout \cup {"absent"}]
        /\ pin_count' \in [Keys -> Int]
    <3>1. CASE Resident(job[j].key)
      BY <1>9, <3>1 DEF InsertKey, TypeOK
    <3>2. CASE ~Resident(job[j].key)
      BY <1>0, <1>4, <1>9, <2>2, <3>2 DEF InsertKey
    <3>. QED BY <3>1, <3>2
  <2>. QED BY <1>9, <2>1, <2>3 DEF InsertKey, TypeOK
<1>10. CASE CleanupSave(j)
  <2>1. job' \in [Jobs -> JobState]
    BY <1>1, <1>10 DEF CleanupSave, JobPC
  <2>2. disk' \in SUBSET File
    BY <1>0, <1>10 DEF CleanupSave, Delete
  <2>. QED BY <1>10, <2>1, <2>2 DEF CleanupSave, TypeOK
<1>13. CASE CleanupData(j)
  <2>1. job' \in [Jobs -> JobState]
    BY <1>1, <1>13 DEF CleanupData, JobPC
  <2>2. disk' \in SUBSET File
    BY <1>0, <1>13 DEF CleanupData, Delete
  <2>. QED BY <1>13, <2>1, <2>2 DEF CleanupData, TypeOK
<1>11. CASE UndoReservation(j)
  <2>1. job' \in [Jobs -> JobState]
    BY <1>1, <1>11 DEF UndoReservation, JobPC
  <2>2. current_cache_size' \in Int
    BY <1>0, <1>11, SizeType DEF UndoReservation
  <2>3. /\ hot_cache' \in [Keys -> Layout \cup {"absent"}]
        /\ pin_count' \in [Keys -> Int]
    BY <1>0, <1>4, <1>11 DEF UndoReservation
  <2>. QED BY <1>11, <2>1, <2>2, <2>3 DEF UndoReservation, TypeOK
<1>12. CASE FinishSave(j)
  <2>1. job' \in [Jobs -> JobState]
    BY <1>0, <1>12, IdleTypes DEF FinishSave
  <2>2. put_tasks' \in [Keys -> Nat]
    BY <1>0, <1>12 DEF FinishSave, TasksWithout, TypeOK
  <2>. QED BY <1>12, <2>1, <2>2 DEF FinishSave, TypeOK
<1>. QED BY <1>5, <1>6, <1>7, <1>8, <1>9, <1>10, <1>11, <1>12, <1>13 DEF SaveStep

\* The scanner's steps keep the types.
LEMMA ScanStepType ==
  ASSUME TypeOK, NEW f \in ScanFile, ScanStep(f)
  PROVE  TypeOK'
<1>0. f[1] \in Keys /\ f[2] \in Layout /\ current_cache_size \in Int
  BY DEF ScanFile, TypeOK
<1>1. CASE ReadMetadata(f) \/ ScanSkips(f)
  BY <1>1 DEF ReadMetadata, ScanSkips, TypeOK
<1>2. CASE IndexScanned(f)
  <2>1. scan' \in [ScanFile -> {"todo", "read", "done"}]
    BY <1>2 DEF IndexScanned, TypeOK
  <2>2. /\ hot_cache' \in [Keys -> Layout \cup {"absent"}]
        /\ pin_count' \in [Keys -> Int]
    BY <1>0, <1>2 DEF IndexScanned, SetEntry, TypeOK
  <2>3. current_cache_size' \in Int
    BY <1>0, <1>2, SizeType DEF IndexScanned
  <2>. QED BY <1>2, <2>1, <2>2, <2>3 DEF IndexScanned, TypeOK
<1>. QED BY <1>1, <1>2 DEF ScanStep

\* TypeOK is inductive.
LEMMA NextType == TypeOK /\ [Next]_vars => TypeOK'
<1>. SUFFICES ASSUME TypeOK, [Next]_vars PROVE TypeOK'
  OBVIOUS
<1>1. CASE \E c \in Callers : CallerStep(c)
  BY <1>1, CallerStepType
<1>2. CASE \E j \in Jobs : SaveStep(j)
  BY <1>2, SaveStepType
<1>3. CASE \E k \in Keys : Pin(k) \/ Unpin(k)
  BY <1>3 DEF Pin, Unpin, TypeOK
<1>4. CASE \E f \in ScanFile : ScanStep(f)
  BY <1>4, ScanStepType
<1>5. CASE Crash
  BY <1>5, IdleTypes DEF Crash, TypeOK, Free
<1>6. CASE UNCHANGED vars
  BY <1>6 DEF vars, TypeOK
<1>. QED BY <1>1, <1>2, <1>3, <1>4, <1>5, <1>6 DEF Next

\* Every reachable state of the tier is well typed.
THEOREM TypeCorrect == Spec => []TypeOK
BY InitType, NextType, PTL DEF Spec
-----------------------------------------------------------------------------
(* The byte counter.  NeverUndercounts is inductive together with two      *)
(* facts: with a cap configured no caller is inside the unlocked addition, *)
(* and a direct store's key is one that is stored block-first.             *)

LockedAddition == \A c \in Callers : caller[c].pc # "add"

DirectKeys ==
  /\ \A c \in Callers :
       /\ caller[c].direct => caller[c].key \in BlockFirst
       /\ caller[c].pc \in {"idle", "batch", "collect"} => ~caller[c].direct
  /\ \A j \in Jobs :
       /\ job[j].direct => job[j].key \in BlockFirst
       /\ job[j].pc = "written" => job[j].direct

AccountingInv == TypeOK /\ LockedAddition /\ DirectKeys /\ NeverUndercounts

\* The charges are natural numbers, and so are their totals.
LEMMA ChargeTypes ==
  ASSUME TypeOK
  PROVE  /\ IndexedBytes \in [Keys -> Nat] /\ Total(IndexedBytes) \in Nat
         /\ CallerBytes \in [Callers -> Nat] /\ Total(CallerBytes) \in Nat
         /\ JobBytes \in [Jobs -> Nat] /\ Total(JobBytes) \in Nat
<1>1. IndexedBytes \in [Keys -> Nat]
  BY SizeType DEF IndexedBytes
<1>2. CallerBytes \in [Callers -> Nat]
  <2>1. \A c \in Callers : caller[c].key \in Keys
    BY DEF TypeOK, CallerState
  <2>. QED BY <2>1, SizeType DEF CallerBytes
<1>3. JobBytes \in [Jobs -> Nat]
  <2>1. \A j \in Jobs : job[j].key \in Keys
    BY DEF TypeOK, JobState
  <2>. QED BY <2>1, SizeType DEF JobBytes
<1>. QED BY <1>1, <1>2, <1>3, UnitsFinite

\* Giving one key another entry, or none, changes the indexed bytes by the two sizes.
LEMMA IndexChange ==
  ASSUME TypeOK, NEW k \in Keys, NEW l \in Layout \cup {"absent"},
         hot_cache' = [hot_cache EXCEPT ![k] = l]
  PROVE  Total(IndexedBytes)' = Total(IndexedBytes) - EntrySize(k)
                                  + (IF l = "absent" THEN 0 ELSE SizeOf(k, l))
<1>. DEFINE n == IF l = "absent" THEN 0 ELSE SizeOf(k, l)
<1>1. n \in Nat
  BY SizeType
<1>2. \A x \in Keys : EntrySize(x)' = IF x = k THEN n ELSE EntrySize(x)
  BY DEF EntrySize, TypeOK
<1>3. IndexedBytes' = [IndexedBytes EXCEPT ![k] = n]
  <2>. HIDE DEF n
  <2>. QED BY <1>2 DEF IndexedBytes
<1>4. IndexedBytes[k] = EntrySize(k)
  BY DEF IndexedBytes
<1>5. Total([IndexedBytes EXCEPT ![k] = n]) = Total(IndexedBytes) - IndexedBytes[k] + n
  <2>1. IsFiniteSet(Keys) /\ IndexedBytes \in [Keys -> Nat]
    BY ChargeTypes
  <2>. HIDE DEF n
  <2>. QED BY <1>1, <2>1, TotalUpdate, Zenon
<1>. QED BY <1>3, <1>4, <1>5 DEF Total

\* A step of one caller changes the callers' charges by that caller's.
LEMMA CallerChange ==
  ASSUME TypeOK, TypeOK', NEW c \in Callers,
         \A d \in Callers \ {c} : caller'[d] = caller[d]
  PROVE  Total(CallerBytes)' = Total(CallerBytes) - CallerBytes[c] + CallerBytes'[c]
<1>1. CallerBytes' \in [Callers -> Nat]
  <2>1. \A d \in Callers : caller'[d].key \in Keys
    BY DEF TypeOK, CallerState
  <2>. QED BY <2>1, SizeType DEF CallerBytes
<1>2. \A d \in Callers \ {c} : CallerBytes'[d] = CallerBytes[d]
  BY DEF CallerBytes
<1>3. CallerBytes' = [CallerBytes EXCEPT ![c] = CallerBytes'[c]]
  BY <1>1, <1>2, ChargeTypes
<1>4. Total(CallerBytes') = Total(CallerBytes) - CallerBytes[c] + CallerBytes'[c]
  BY <1>1, <1>3, ChargeTypes, TotalUpdate
<1>. QED BY <1>4 DEF Total

\* A step of one job changes the jobs' charges by that job's.
LEMMA JobChange ==
  ASSUME TypeOK, TypeOK', NEW j \in Jobs,
         \A i \in Jobs \ {j} : job'[i] = job[i]
  PROVE  Total(JobBytes)' = Total(JobBytes) - JobBytes[j] + JobBytes'[j]
<1>1. JobBytes' \in [Jobs -> Nat]
  <2>1. \A i \in Jobs : job'[i].key \in Keys
    BY DEF TypeOK, JobState
  <2>. QED BY <2>1, SizeType DEF JobBytes
<1>2. \A i \in Jobs \ {j} : JobBytes'[i] = JobBytes[i]
  BY DEF JobBytes
<1>3. JobBytes' = [JobBytes EXCEPT ![j] = JobBytes'[j]]
  BY <1>1, <1>2, ChargeTypes
<1>4. Total(JobBytes') = Total(JobBytes) - JobBytes[j] + JobBytes'[j]
  BY <1>1, <1>3, ChargeTypes, TotalUpdate
<1>. QED BY <1>4 DEF Total

\* Charges whose state is unchanged are unchanged.
LEMMA Unchanged ==
  /\ hot_cache' = hot_cache => Total(IndexedBytes)' = Total(IndexedBytes)
  /\ caller' = caller => Total(CallerBytes)' = Total(CallerBytes)
  /\ job' = job => Total(JobBytes)' = Total(JobBytes)
<1>1. hot_cache' = hot_cache => IndexedBytes' = IndexedBytes
  BY DEF IndexedBytes, EntrySize
<1>2. caller' = caller => CallerBytes' = CallerBytes
  BY DEF CallerBytes
<1>3. job' = job => JobBytes' = JobBytes
  BY DEF JobBytes
<1>. QED BY <1>1, <1>2, <1>3

\* A caller's step leaves the other callers alone.
LEMMA CallerFrame ==
  ASSUME TypeOK, NEW c \in Callers, CallerStep(c)
  PROVE  \A d \in Callers \ {c} : caller'[d] = caller[d]
BY DEF TypeOK, CallerStep, SubmitPutTask, DirectPut, Remove, GetBlocking, Lookup, InsertPutTask,
     BeginEviction, EvictionStep, ReserveEvicted, EvictionFails, EvictOne, ReadCounter, WriteCounter,
     ReserveDirectSize, Unlink, RemovePutTask, Spawn, DropLegacy, CheckPutTasks, InsertDirectKey,
     RollbackDirectStore, FinishDirectJob, LoadLookup, ReadFile, DiscardEntry, Goto, NextKey

\* Goto changes a caller's program counter only.
LEMMA GotoPoint ==
  ASSUME TypeOK, NEW c \in Callers, NEW pc, Goto(c, pc)
  PROVE  /\ caller'[c].pc = pc /\ caller'[c].key = caller[c].key
         /\ caller'[c].direct = caller[c].direct
BY DEF TypeOK, CallerState, Goto

\* NextKey leaves a caller with nothing at hand.
LEMMA NextKeyPoint ==
  ASSUME TypeOK, NEW c \in Callers, NextKey(c)
  PROVE  caller'[c].pc \in {"idle", "batch"} /\ ~caller'[c].direct
BY DEF TypeOK, NextKey, Rest, IdleCaller

\* What a caller has still to unlink is no concern of its charge.
LEMMA UnlinkPoint ==
  ASSUME TypeOK, NEW c \in Callers,
         Unlink(c) \/ \E k \in Keys : Remove(c, k) \/ EvictOne(c, k)
  PROVE  /\ caller'[c].pc = caller[c].pc /\ caller'[c].key = caller[c].key
         /\ caller'[c].direct = caller[c].direct
<1>1. caller \in [Callers -> CallerState]
  BY DEF TypeOK
<1>2. \E x : caller' = [caller EXCEPT ![c].unlink = x]
  BY DEF Unlink, Remove, EvictOne
<1>. QED BY <1>1, <1>2 DEF CallerState

\* A caller that has handed its reservation over is ready for the next key.
LEMMA SpawnPoint ==
  ASSUME TypeOK, NEW c \in Callers, NEW j \in Jobs, Spawn(c, j)
  PROVE  caller'[c].pc \in {"idle", "batch"} /\ ~caller'[c].direct
<1>1. CASE caller[c].direct
  BY <1>1, ZenonT(40) DEF TypeOK, Spawn, IdleCaller
<1>2. CASE ~caller[c].direct
  BY <1>2, NextKeyPoint DEF Spawn
<1>. QED BY <1>1, <1>2

\* With a cap no caller enters the unlocked addition.
LEMMA LockedStep ==
  ASSUME Eviction, TypeOK, LockedAddition, [Next]_vars
  PROVE  LockedAddition'
<1>0. caller \in [Callers -> CallerState]
  BY DEF TypeOK
<1>1. ASSUME NEW c \in Callers, CallerStep(c) PROVE LockedAddition'
  <2>1. caller'[c].pc # "add"
    <3>1. CASE Lookup(c) \/ CheckPutTasks(c) \/ RemovePutTask(c) \/ LoadLookup(c)
                \/ ReadFile(c) \/ DiscardEntry(c)
      BY <3>1, GotoPoint, NextKeyPoint
      DEF Lookup, CheckPutTasks, RemovePutTask, LoadLookup, ReadFile, DiscardEntry
    <3>2. CASE InsertPutTask(c) \/ BeginEviction(c) \/ ReserveEvicted(c) \/ EvictionFails(c)
                \/ WriteCounter(c) \/ ReserveDirectSize(c) \/ InsertDirectKey(c)
                \/ RollbackDirectStore(c)
      BY <3>2, GotoPoint
      DEF InsertPutTask, BeginEviction, ReserveEvicted, EvictionFails, WriteCounter,
          ReserveDirectSize, InsertDirectKey, RollbackDirectStore
    <3>3. CASE \E k \in Keys : SubmitPutTask(c, k) \/ DirectPut(c, k) \/ GetBlocking(c, k)
      BY <1>0, <3>3 DEF CallerState, SubmitPutTask, DirectPut, GetBlocking
    <3>4. CASE Unlink(c) \/ \E k \in Keys : Remove(c, k) \/ EvictOne(c, k)
      BY <3>4, UnlinkPoint DEF LockedAddition
    <3>5. CASE DropLegacy(c)
      BY <1>0, <3>5, GotoPoint DEF CallerState, DropLegacy
    <3>6. CASE FinishDirectJob(c)
      BY <1>0, <3>6 DEF FinishDirectJob, IdleCaller
    <3>7. CASE \E j \in Jobs : Spawn(c, j)
      BY <3>7, SpawnPoint
    <3>8. CASE ReadCounter(c)
      BY <3>8 DEF ReadCounter
    <3>. QED BY <1>1, <3>1, <3>2, <3>3, <3>4, <3>5, <3>6, <3>7, <3>8 DEF CallerStep, EvictionStep
  <2>. QED BY <1>1, <2>1, CallerFrame DEF LockedAddition
<1>2. ASSUME NEW j \in Jobs, SaveStep(j) PROVE LockedAddition'
  BY <1>2 DEF LockedAddition, SaveStep, WriteTmp, WriteFails, Rename, SaveMetadata, InsertKey,
     CleanupSave, CleanupData, UndoReservation, FinishSave
<1>3. CASE \E k \in Keys : Pin(k) \/ Unpin(k)
  BY <1>3 DEF LockedAddition, Pin, Unpin
<1>4. CASE \E f \in ScanFile : ScanStep(f)
  BY <1>4 DEF LockedAddition, ScanStep, ReadMetadata, ScanSkips, IndexScanned
<1>5. CASE Crash
  BY <1>5 DEF LockedAddition, Crash, IdleCaller
<1>6. CASE UNCHANGED vars
  BY <1>6 DEF LockedAddition, vars
<1>. QED BY <1>1, <1>2, <1>3, <1>4, <1>5, <1>6 DEF Next

\* A step of a file transaction leaves the other jobs alone and keeps what it is about.
LEMMA SavePoint ==
  ASSUME TypeOK, NEW j \in Jobs, SaveStep(j)
  PROVE  /\ caller' = caller
         /\ \A i \in Jobs \ {j} : job'[i] = job[i]
         /\ \/ job'[j] = IdleJob
            \/ job'[j].key = job[j].key /\ job'[j].direct = job[j].direct
<1>1. job \in [Jobs -> JobState]
  BY DEF TypeOK
<1>2. CASE FinishSave(j)
  BY <1>1, <1>2 DEF FinishSave
<1>3. CASE ~FinishSave(j)
  <2>1. caller' = caller /\ \E pc : job' = [job EXCEPT ![j].pc = pc]
    BY <1>3 DEF SaveStep, WriteTmp, WriteFails, Rename, SaveMetadata, InsertKey,
       CleanupSave, CleanupData, UndoReservation, JobStep
  <2>. QED BY <1>1, <2>1 DEF JobState
<1>. QED BY <1>2, <1>3

\* Direct stores are of block-first keys, whatever step is taken.
LEMMA DirectKeysStep ==
  ASSUME TypeOK, DirectKeys, [Next]_vars
  PROVE  DirectKeys'
<1>0. caller \in [Callers -> CallerState] /\ job \in [Jobs -> JobState]
  BY DEF TypeOK
<1>. DEFINE CallerDirect(c) ==
              /\ caller[c].direct => caller[c].key \in BlockFirst
              /\ caller[c].pc \in {"idle", "batch", "collect"} => ~caller[c].direct
            JobDirect(j) ==
              /\ job[j].direct => job[j].key \in BlockFirst
              /\ job[j].pc = "written" => job[j].direct
<1>a. /\ \A c \in Callers : CallerDirect(c)
      /\ \A j \in Jobs : JobDirect(j)
  BY DEF DirectKeys
<1>b. (\A c \in Callers : CallerDirect(c)') /\ (\A j \in Jobs : JobDirect(j)') => DirectKeys'
  BY DEF DirectKeys
<1>c. ~IdleJob.direct /\ IdleJob.pc = "idle"
  BY DEF IdleJob
<1>1. ASSUME NEW c \in Callers, CallerStep(c) PROVE DirectKeys'
  <2>1. CallerDirect(c)'
    <3>1. CASE Lookup(c) \/ CheckPutTasks(c) \/ RemovePutTask(c) \/ LoadLookup(c)
                \/ ReadFile(c) \/ DiscardEntry(c)
      BY <1>a, <3>1, GotoPoint, NextKeyPoint
      DEF Lookup, CheckPutTasks, RemovePutTask, LoadLookup, ReadFile, DiscardEntry
    <3>2. CASE InsertPutTask(c) \/ BeginEviction(c) \/ ReserveEvicted(c) \/ EvictionFails(c)
                \/ WriteCounter(c) \/ ReserveDirectSize(c)
      BY <1>a, <3>2, GotoPoint
      DEF InsertPutTask, BeginEviction, ReserveEvicted, EvictionFails, WriteCounter,
          ReserveDirectSize
    <3>3. CASE InsertDirectKey(c) \/ RollbackDirectStore(c)
      BY <1>a, <3>3, GotoPoint
      DEF InsertDirectKey, RollbackDirectStore, Collecting, At
    <3>4. CASE \E k \in Keys : SubmitPutTask(c, k) \/ GetBlocking(c, k)
      <4>1. caller[c].pc = "idle" /\ caller'[c].direct = caller[c].direct
        BY <1>0, <3>4 DEF CallerState, SubmitPutTask, GetBlocking, At
      <4>2. caller'[c].pc \in {"lookup", "load"}
        BY <1>0, <3>4 DEF CallerState, SubmitPutTask, GetBlocking
      <4>. QED BY <1>a, <4>1, <4>2
    <3>10. CASE \E k \in Keys : DirectPut(c, k)
      <4>1. caller'[c].pc \in {"drop", "check"} /\ caller'[c].key \in BlockFirst
        BY <1>0, <3>10 DEF CallerState, DirectPut
      <4>. QED BY <4>1
    <3>5. CASE Unlink(c) \/ \E k \in Keys : Remove(c, k) \/ EvictOne(c, k)
      BY <1>a, <3>5, UnlinkPoint
    <3>6. CASE DropLegacy(c)
      BY <1>0, <1>a, <3>6, GotoPoint DEF CallerState, DropLegacy
    <3>7. CASE FinishDirectJob(c)
      BY <1>0, <3>7 DEF FinishDirectJob, IdleCaller
    <3>8. CASE \E j \in Jobs : Spawn(c, j)
      BY <3>8, SpawnPoint
    <3>9. CASE ReadCounter(c)
      BY <1>0, <1>a, <3>9 DEF ReadCounter, CallerState
    <3>. QED BY <1>1, <3>1, <3>2, <3>3, <3>4, <3>5, <3>6, <3>7, <3>8, <3>9, <3>10
           DEF CallerStep, EvictionStep
  <2>2. \A d \in Callers : CallerDirect(d)'
    BY <1>1, <1>a, <2>1, CallerFrame
  <2>3. \A j \in Jobs : JobDirect(j)'
    <3>1. CASE \E j \in Jobs : Spawn(c, j)
      BY <1>0, <1>a, <3>1 DEF Spawn
    <3>2. CASE InsertDirectKey(c) \/ RollbackDirectStore(c)
      <4>1. \E i : job' = [job EXCEPT ![i].pc = "finish"]
        BY <3>2 DEF InsertDirectKey, RollbackDirectStore
      <4>. QED BY <1>0, <1>a, <4>1 DEF JobState
    <3>3. CASE FinishDirectJob(c)
      BY <1>0, <1>a, <1>c, <3>3 DEF FinishDirectJob
    <3>4. CASE job' = job
      BY <1>a, <3>4
    <3>. QED BY <1>1, <3>1, <3>2, <3>3, <3>4
         DEF CallerStep, SubmitPutTask, DirectPut, Remove, GetBlocking, Lookup, InsertPutTask,
             BeginEviction, EvictionStep, ReserveEvicted, EvictionFails, EvictOne, ReadCounter,
             WriteCounter, ReserveDirectSize, Unlink, RemovePutTask, DropLegacy, CheckPutTasks,
             LoadLookup, ReadFile, DiscardEntry
  <2>. QED BY <1>b, <2>2, <2>3
<1>2. ASSUME NEW j \in Jobs, SaveStep(j) PROVE DirectKeys'
  <2>1. job'[j].pc = "written" => job[j].direct
    BY <1>0, <1>2, <1>c
    DEF SaveStep, WriteTmp, WriteFails, Rename, SaveMetadata, InsertKey,
        CleanupSave, CleanupData, UndoReservation, FinishSave, JobStep, OnError, JobState
  <2>2. JobDirect(j)'
    BY <1>2, <1>a, <1>c, <2>1, SavePoint
  <2>. QED BY <1>2, <1>a, <1>b, <2>2, SavePoint
<1>3. CASE \E k \in Keys : Pin(k) \/ Unpin(k)
  BY <1>3 DEF DirectKeys, Pin, Unpin
<1>4. CASE \E f \in ScanFile : ScanStep(f)
  BY <1>4 DEF DirectKeys, ScanStep, ReadMetadata, ScanSkips, IndexScanned
<1>5. CASE Crash
  BY <1>5 DEF DirectKeys, Crash, IdleCaller, IdleJob
<1>6. CASE UNCHANGED vars
  BY <1>6 DEF DirectKeys, vars
<1>. QED BY <1>1, <1>2, <1>3, <1>4, <1>5, <1>6 DEF Next

\* A caller that neither takes nor hands over a reservation keeps its charge.
LEMMA CallerCharge ==
  ASSUME TypeOK, TypeOK', NEW c \in Callers, CallerStep(c),
         \/ caller[c].pc # "spawn" /\ caller'[c].pc # "spawn"
         \/ caller'[c].pc = caller[c].pc /\ caller'[c].key = caller[c].key
  PROVE  Total(CallerBytes)' = Total(CallerBytes)
<1>1. CallerBytes'[c] = CallerBytes[c]
  BY DEF CallerBytes
<1>2. Total(CallerBytes)' = Total(CallerBytes) - CallerBytes[c] + CallerBytes'[c]
  BY CallerFrame, CallerChange
<1>3. Total(CallerBytes) \in Nat /\ CallerBytes[c] \in Nat
  BY ChargeTypes
<1>. QED BY <1>1, <1>2, <1>3

\* The charges of the actions that pop an entry with credit.
LEMMA PopStep ==
  ASSUME TypeOK, NEW k \in Keys, PopAndCredit(k), NeverUndercounts, job' = job,
         Total(CallerBytes)' = Total(CallerBytes)
  PROVE  NeverUndercounts'
<1>1. Total(IndexedBytes)' = Total(IndexedBytes) - EntrySize(k)
  <2>1. hot_cache' = [hot_cache EXCEPT ![k] = "absent"]
    BY DEF PopAndCredit
  <2>2. Total(IndexedBytes)' = Total(IndexedBytes) - EntrySize(k)
                                 + (IF "absent" = "absent" THEN 0 ELSE SizeOf(k, "absent"))
    BY <2>1, IndexChange
  <2>. QED BY <2>2, ChargeTypes, SizeType
<1>2. Total(JobBytes)' = Total(JobBytes)
  BY Unchanged
<1>3. current_cache_size' = current_cache_size - EntrySize(k)
  BY DEF PopAndCredit
<1>4. current_cache_size \in Int /\ EntrySize(k) \in Nat
  BY SizeType DEF TypeOK
<1>. QED BY <1>1, <1>2, <1>3, <1>4, ChargeTypes DEF NeverUndercounts, Charged

\* Every step of a calling thread keeps the counter above the charges.
LEMMA CallerAccounting ==
  ASSUME Eviction, AccountingInv, TypeOK', NEW c \in Callers, CallerStep(c)
  PROVE  NeverUndercounts'
<1>0. /\ TypeOK /\ NeverUndercounts /\ DirectKeys /\ LockedAddition
      /\ caller \in [Callers -> CallerState] /\ job \in [Jobs -> JobState]
      /\ current_cache_size \in Int
      /\ Total(IndexedBytes) \in Nat /\ Total(CallerBytes) \in Nat /\ Total(JobBytes) \in Nat
  BY ChargeTypes DEF AccountingInv, TypeOK
<1>1. caller[c].key \in Keys /\ Required(caller[c].key) \in Nat
  BY <1>0, SizeType DEF CallerState
<1>2. ASSUME Total(CallerBytes)' = Total(CallerBytes),
             UNCHANGED <<hot_cache, current_cache_size, job>>
      PROVE  NeverUndercounts'
  BY <1>0, <1>2, Unchanged DEF NeverUndercounts, Charged
<1>3. CASE Lookup(c) \/ CheckPutTasks(c) \/ RemovePutTask(c) \/ LoadLookup(c) \/ ReadFile(c)
  <2>1. caller[c].pc # "spawn"
    BY <1>3 DEF Lookup, CheckPutTasks, RemovePutTask, LoadLookup, ReadFile, At
  <2>2. caller'[c].pc # "spawn"
    BY <1>0, <1>3, GotoPoint, NextKeyPoint
    DEF Lookup, CheckPutTasks, RemovePutTask, LoadLookup, ReadFile
  <2>3. UNCHANGED <<hot_cache, current_cache_size, job>>
    BY <1>3 DEF Lookup, CheckPutTasks, RemovePutTask, LoadLookup, ReadFile
  <2>. QED BY <1>0, <1>2, <2>1, <2>2, <2>3, CallerCharge
<1>4. CASE InsertPutTask(c) \/ BeginEviction(c) \/ EvictionFails(c)
  <2>1. caller[c].pc # "spawn" /\ caller'[c].pc # "spawn"
    BY <1>0, <1>4, GotoPoint DEF InsertPutTask, BeginEviction, EvictionFails, At
  <2>2. UNCHANGED <<hot_cache, current_cache_size, job>>
    BY <1>4 DEF InsertPutTask, BeginEviction, EvictionFails
  <2>. QED BY <1>0, <1>2, <2>1, <2>2, CallerCharge
<1>5. CASE \E k \in Keys : SubmitPutTask(c, k) \/ DirectPut(c, k) \/ GetBlocking(c, k)
  <2>1. caller[c].pc # "spawn"
    BY <1>5 DEF SubmitPutTask, DirectPut, GetBlocking, At
  <2>2. caller'[c].pc # "spawn"
    BY <1>0, <1>5, SMTT(20) DEF SubmitPutTask, DirectPut, GetBlocking, CallerState
  <2>3. UNCHANGED <<hot_cache, current_cache_size, job>>
    BY <1>5 DEF SubmitPutTask, DirectPut, GetBlocking
  <2>. QED BY <1>0, <1>2, <2>1, <2>2, <2>3, CallerCharge
<1>6. CASE Unlink(c)
  <2>1. UNCHANGED <<hot_cache, current_cache_size, job>>
    BY <1>6 DEF Unlink
  <2>. QED BY <1>0, <1>2, <1>6, <2>1, UnlinkPoint, CallerCharge
<1>7. CASE \E k \in Keys : Remove(c, k) \/ EvictOne(c, k)
  <2>. PICK k \in Keys : Remove(c, k) \/ EvictOne(c, k)
    BY <1>7
  <2>1. PopAndCredit(k) /\ job' = job
    BY DEF Remove, EvictOne
  <2>2. Total(CallerBytes)' = Total(CallerBytes)
    BY <1>0, UnlinkPoint, CallerCharge
  <2>. QED BY <1>0, <2>1, <2>2, PopStep
<1>8. CASE DropLegacy(c)
  <2>1. caller[c].pc # "spawn" /\ caller'[c].pc # "spawn"
    BY <1>0, <1>8, GotoPoint, SMTT(20) DEF DropLegacy, At, CallerState
  <2>2. Total(CallerBytes)' = Total(CallerBytes)
    BY <1>0, <2>1, CallerCharge
  <2>3. CASE Resident(caller[c].key)
    BY <1>0, <1>1, <1>8, <2>2, <2>3, PopStep DEF DropLegacy
  <2>4. CASE ~Resident(caller[c].key)
    BY <1>2, <1>8, <2>2, <2>4 DEF DropLegacy
  <2>. QED BY <2>3, <2>4
<1>9. CASE DiscardEntry(c)
  <2>1. caller[c].pc # "spawn" /\ caller'[c].pc # "spawn"
    BY <1>0, <1>9, NextKeyPoint DEF DiscardEntry, At
  <2>2. Total(CallerBytes)' = Total(CallerBytes)
    BY <1>0, <2>1, CallerCharge
  <2>. QED BY <1>0, <1>1, <1>9, <2>2, PopStep DEF DiscardEntry
<1>10. CASE ReserveEvicted(c)
  <2>1. caller[c].pc = "evict" /\ caller'[c].pc = "spawn" /\ caller'[c].key = caller[c].key
    BY <1>0, <1>10, GotoPoint DEF ReserveEvicted
  <2>2. CallerBytes[c] = 0 /\ CallerBytes'[c] = Required(caller[c].key)
    BY <2>1 DEF CallerBytes
  <2>3. Total(CallerBytes)' = Total(CallerBytes) - CallerBytes[c] + CallerBytes'[c]
    BY <1>0, CallerFrame, CallerChange
  <2>4. /\ Total(IndexedBytes)' = Total(IndexedBytes)
        /\ Total(JobBytes)' = Total(JobBytes)
        /\ current_cache_size' = current_cache_size + Required(caller[c].key)
    BY <1>10, Unchanged DEF ReserveEvicted
  <2>. QED BY <1>0, <1>1, <2>2, <2>3, <2>4 DEF NeverUndercounts, Charged
<1>11. CASE \E j \in Jobs : Spawn(c, j)
  <2>. PICK j \in Jobs : Spawn(c, j)
    BY <1>11
  <2>1. caller[c].pc = "spawn" /\ caller'[c].pc # "spawn"
    BY <1>0, SpawnPoint DEF Spawn, At
  <2>2. CallerBytes[c] = Required(caller[c].key) /\ CallerBytes'[c] = 0
    BY <2>1 DEF CallerBytes
  <2>3. Total(CallerBytes)' = Total(CallerBytes) - CallerBytes[c] + CallerBytes'[c]
    BY <1>0, CallerFrame, CallerChange
  <2>4. /\ job[j].pc = "idle" /\ job'[j].pc = "write" /\ job'[j].key = caller[c].key
        /\ \A i \in Jobs \ {j} : job'[i] = job[i]
    BY <1>0 DEF Spawn
  <2>5. JobBytes[j] = 0 /\ JobBytes'[j] = Required(caller[c].key)
    BY <2>4 DEF JobBytes, Reserving, JobPC
  <2>6. Total(JobBytes)' = Total(JobBytes) - JobBytes[j] + JobBytes'[j]
    BY <1>0, <2>4, JobChange
  <2>7. /\ Total(IndexedBytes)' = Total(IndexedBytes)
        /\ current_cache_size' = current_cache_size
    BY Unchanged DEF Spawn
  <2>. QED BY <1>0, <1>1, <2>2, <2>3, <2>5, <2>6, <2>7 DEF NeverUndercounts, Charged
<1>12. ASSUME InsertDirectKey(c) \/ RollbackDirectStore(c) \/ FinishDirectJob(c)
       PROVE  /\ Oldest(c) \in Jobs
              /\ \A i \in Jobs \ {Oldest(c)} : job'[i] = job[i]
              /\ job[Oldest(c)].key \in Keys
              /\ Required(job[Oldest(c)].key) \in Nat
              /\ Total(CallerBytes)' = Total(CallerBytes)
              /\ Total(JobBytes)' = Total(JobBytes) - JobBytes[Oldest(c)] + JobBytes'[Oldest(c)]
  <2>1. Collecting(c)
    BY <1>12 DEF InsertDirectKey, RollbackDirectStore, FinishDirectJob
  <2>2. Oldest(c) \in Jobs /\ job[Oldest(c)].key \in Keys
    BY <1>0, <2>1, SMTT(20) DEF Collecting, Oldest, CallerState, JobState
  <2>3. \A i \in Jobs \ {Oldest(c)} : job'[i] = job[i]
    BY <1>0, <1>12 DEF InsertDirectKey, RollbackDirectStore, FinishDirectJob
  <2>4. caller[c].pc # "spawn"
    BY <2>1 DEF Collecting, At
  <2>5. caller'[c].pc # "spawn"
    <3>1. CASE InsertDirectKey(c) \/ RollbackDirectStore(c)
      BY <1>0, <3>1, GotoPoint DEF InsertDirectKey, RollbackDirectStore
    <3>2. CASE FinishDirectJob(c)
      BY <1>0, <3>2 DEF FinishDirectJob, IdleCaller
    <3>. QED BY <1>12, <3>1, <3>2
  <2>6. Total(CallerBytes)' = Total(CallerBytes)
    BY <1>0, <2>4, <2>5, CallerCharge
  <2>. QED BY <1>0, <2>2, <2>3, <2>6, JobChange, SizeType
<1>13. CASE InsertDirectKey(c)
  <2>. DEFINE j == Oldest(c)
              k == job[j].key
  <2>1. /\ j \in Jobs /\ k \in Keys /\ Required(k) \in Nat
        /\ Total(CallerBytes)' = Total(CallerBytes)
        /\ Total(JobBytes)' = Total(JobBytes) - JobBytes[j] + JobBytes'[j]
    BY <1>12, <1>13
  <2>2. job[j].pc = "written" /\ job'[j].pc = "finish"
    BY <1>0, <1>13, <2>1 DEF InsertDirectKey, JobState
  <2>3. JobBytes[j] = Required(k) /\ JobBytes'[j] = 0
    BY <2>1, <2>2 DEF JobBytes, Reserving, JobPC
  <2>4. SizeOf(k, "block_first") = Required(k)
    BY <1>0, <2>1, <2>2 DEF DirectKeys, Required, LayoutOf
  <2>5. /\ hot_cache' = [hot_cache EXCEPT ![k] = "block_first"]
        /\ current_cache_size' = current_cache_size
    BY <1>13 DEF InsertDirectKey, SetEntry
  <2>6. Total(IndexedBytes)' = Total(IndexedBytes) - EntrySize(k) + Required(k)
    <3>. HIDE DEF k
    <3>1. Total(IndexedBytes)' = Total(IndexedBytes) - EntrySize(k)
            + (IF "block_first" = "absent" THEN 0 ELSE SizeOf(k, "block_first"))
      BY <1>0, <2>1, <2>5, IndexChange DEF Layout
    <3>. QED BY <2>4, <3>1
  <2>7. EntrySize(k) \in Nat
    BY <2>1, SizeType
  <2>. HIDE DEF k, j
  <2>. QED BY <1>0, <2>1, <2>3, <2>5, <2>6, <2>7 DEF NeverUndercounts, Charged
<1>14. CASE RollbackDirectStore(c)
  <2>. DEFINE j == Oldest(c)
              k == job[j].key
  <2>1. /\ j \in Jobs /\ k \in Keys /\ Required(k) \in Nat
        /\ Total(CallerBytes)' = Total(CallerBytes)
        /\ Total(JobBytes)' = Total(JobBytes) - JobBytes[j] + JobBytes'[j]
    BY <1>12, <1>14
  <2>2. job[j].pc = "failed" /\ job'[j].pc = "finish"
    BY <1>0, <1>14, <2>1 DEF RollbackDirectStore, JobState
  <2>3. JobBytes[j] = Required(k) /\ JobBytes'[j] = 0
    BY <2>1, <2>2 DEF JobBytes, Reserving, JobPC
  <2>4. /\ Total(IndexedBytes)' = Total(IndexedBytes)
        /\ current_cache_size' = current_cache_size - Required(k)
    BY <1>14, Unchanged DEF RollbackDirectStore
  <2>. HIDE DEF k, j
  <2>. QED BY <1>0, <2>1, <2>3, <2>4 DEF NeverUndercounts, Charged
<1>15. CASE FinishDirectJob(c)
  <2>. DEFINE j == Oldest(c)
  <2>1. /\ j \in Jobs
        /\ Total(CallerBytes)' = Total(CallerBytes)
        /\ Total(JobBytes)' = Total(JobBytes) - JobBytes[j] + JobBytes'[j]
    BY <1>12, <1>15
  <2>2. job[j].pc = "finish" /\ job'[j].pc = "idle"
    BY <1>0, <1>15, <2>1 DEF FinishDirectJob, IdleJob
  <2>3. JobBytes[j] = 0 /\ JobBytes'[j] = 0
    BY <2>1, <2>2 DEF JobBytes, Reserving, JobPC
  <2>4. /\ Total(IndexedBytes)' = Total(IndexedBytes)
        /\ current_cache_size' = current_cache_size
    BY <1>15, Unchanged DEF FinishDirectJob
  <2>. HIDE DEF j
  <2>. QED BY <1>0, <2>1, <2>3, <2>4 DEF NeverUndercounts, Charged
<1>16. CASE ReadCounter(c) \/ WriteCounter(c) \/ ReserveDirectSize(c)
  BY <1>0, <1>16 DEF ReadCounter, WriteCounter, ReserveDirectSize, LockedAddition, At
<1>. QED BY <1>3, <1>4, <1>5, <1>6, <1>7, <1>8, <1>9, <1>10, <1>11, <1>13, <1>14, <1>15, <1>16
       DEF CallerStep, EvictionStep

\* Every step of a file transaction keeps the counter above the charges.
LEMMA SaveAccounting ==
  ASSUME AccountingInv, TypeOK', NEW j \in Jobs, SaveStep(j)
  PROVE  NeverUndercounts'
<1>. DEFINE k == job[j].key
<1>0. /\ TypeOK /\ NeverUndercounts
      /\ job \in [Jobs -> JobState] /\ current_cache_size \in Int
      /\ Total(IndexedBytes) \in Nat /\ Total(CallerBytes) \in Nat /\ Total(JobBytes) \in Nat
      /\ JobBytes[j] \in Nat
  BY ChargeTypes DEF AccountingInv, TypeOK
<1>1. k \in Keys /\ Required(k) \in Nat /\ EntrySize(k) \in Nat
  BY <1>0, SizeType DEF JobState
<1>2. /\ Total(CallerBytes)' = Total(CallerBytes)
      /\ Total(JobBytes)' = Total(JobBytes) - JobBytes[j] + JobBytes'[j]
  BY <1>0, SavePoint, Unchanged, JobChange
<1>3. CASE WriteTmp(j) \/ WriteFails(j) \/ Rename(j) \/ SaveMetadata(j)
            \/ CleanupSave(j) \/ CleanupData(j)
  <2>1. job[j].pc \in Reserving
    BY <1>3 DEF WriteTmp, WriteFails, Rename, SaveMetadata, CleanupSave, CleanupData, Reserving, JobPC
  <2>2. job'[j].pc \in Reserving /\ job'[j].key = k
    BY <1>0, <1>3 DEF WriteTmp, WriteFails, Rename, SaveMetadata, CleanupSave, CleanupData, JobStep, OnError,
       Reserving, JobPC, JobState
  <2>3. JobBytes'[j] = JobBytes[j]
    BY <2>1, <2>2 DEF JobBytes
  <2>4. UNCHANGED <<hot_cache, current_cache_size>>
    BY <1>3 DEF WriteTmp, WriteFails, Rename, SaveMetadata, CleanupSave, CleanupData
  <2>. QED BY <1>0, <1>2, <2>3, <2>4, Unchanged DEF NeverUndercounts, Charged
<1>4. CASE InsertKey(j)
  <2>1. job[j].pc = "publish" /\ job'[j].pc = "finish"
    BY <1>0, <1>4 DEF InsertKey, JobStep, JobState
  <2>2. JobBytes[j] = Required(k) /\ JobBytes'[j] = 0
    BY <2>1 DEF JobBytes, Reserving, JobPC
  <2>3. current_cache_size' = current_cache_size
    BY <1>4 DEF InsertKey
  <2>4. CASE Resident(k)
    <3>1. Total(IndexedBytes)' = Total(IndexedBytes)
      BY <1>4, <2>4, Unchanged DEF InsertKey
    <3>. HIDE DEF k
    <3>. QED BY <1>0, <1>1, <1>2, <2>2, <2>3, <3>1 DEF NeverUndercounts, Charged
  <2>5. CASE ~Resident(k)
    <3>1. hot_cache' = [hot_cache EXCEPT ![k] = LayoutOf(k)]
      BY <1>4, <2>5 DEF InsertKey, SetEntry
    <3>2. LayoutOf(k) \in Layout /\ LayoutOf(k) # "absent"
      BY DEF LayoutOf, Layout
    <3>3. EntrySize(k) = 0
      BY <2>5 DEF EntrySize, Resident
    <3>. HIDE DEF k
    <3>4. Total(IndexedBytes)' = Total(IndexedBytes) - EntrySize(k)
            + (IF LayoutOf(k) = "absent" THEN 0 ELSE SizeOf(k, LayoutOf(k)))
      BY <1>0, <1>1, <3>1, <3>2, IndexChange
    <3>5. Total(IndexedBytes)' = Total(IndexedBytes) + Required(k)
      BY <1>0, <1>1, <3>2, <3>3, <3>4 DEF Required
    <3>. QED BY <1>0, <1>1, <1>2, <2>2, <2>3, <3>5 DEF NeverUndercounts, Charged
  <2>. QED BY <2>4, <2>5
<1>5. CASE UndoReservation(j)
  <2>1. job[j].pc = "undo" /\ job'[j].pc = "finish"
    BY <1>0, <1>5 DEF UndoReservation, JobStep, JobState
  <2>2. JobBytes[j] = Required(k) /\ JobBytes'[j] = 0
    BY <2>1 DEF JobBytes, Reserving, JobPC
  <2>3. /\ current_cache_size' = current_cache_size - Required(k)
        /\ hot_cache' = [hot_cache EXCEPT ![k] = "absent"]
    BY <1>5 DEF UndoReservation, SetEntry
  <2>. HIDE DEF k
  <2>4. Total(IndexedBytes)' = Total(IndexedBytes) - EntrySize(k)
          + (IF "absent" = "absent" THEN 0 ELSE SizeOf(k, "absent"))
    BY <1>0, <1>1, <2>3, IndexChange
  <2>. QED BY <1>0, <1>1, <1>2, <2>2, <2>3, <2>4 DEF NeverUndercounts, Charged
<1>6. CASE FinishSave(j)
  <2>1. job[j].pc = "finish" /\ job'[j].pc = "idle"
    BY <1>0, <1>6 DEF FinishSave, IdleJob
  <2>2. JobBytes[j] = 0 /\ JobBytes'[j] = 0
    BY <2>1 DEF JobBytes, Reserving, JobPC
  <2>3. UNCHANGED <<hot_cache, current_cache_size>>
    BY <1>6 DEF FinishSave
  <2>. QED BY <1>0, <1>2, <2>2, <2>3, Unchanged DEF NeverUndercounts, Charged
<1>. QED BY <1>3, <1>4, <1>5, <1>6 DEF SaveStep

\* Before anything is stored nothing is charged.
LEMMA NothingCharged ==
  /\ (/\ hot_cache = [k \in Keys |-> "absent"]
      /\ caller = [c \in Callers |-> IdleCaller]
      /\ job = [j \in Jobs |-> IdleJob]) => Charged = 0
  /\ (/\ hot_cache' = [k \in Keys |-> "absent"]
      /\ caller' = [c \in Callers |-> IdleCaller]
      /\ job' = [j \in Jobs |-> IdleJob]) => Charged' = 0
<1>1. ASSUME hot_cache = [k \in Keys |-> "absent"], caller = [c \in Callers |-> IdleCaller],
             job = [j \in Jobs |-> IdleJob]
      PROVE  Charged = 0
  <2>1. IndexedBytes = [k \in Keys |-> 0]
    BY <1>1 DEF IndexedBytes, EntrySize
  <2>2. CallerBytes = [c \in Callers |-> 0]
    BY <1>1 DEF CallerBytes, IdleCaller
  <2>3. JobBytes = [j \in Jobs |-> 0]
    BY <1>1 DEF JobBytes, IdleJob, Reserving
  <2>. QED BY <2>1, <2>2, <2>3, TotalZero DEF Charged
<1>2. ASSUME hot_cache' = [k \in Keys |-> "absent"], caller' = [c \in Callers |-> IdleCaller],
             job' = [j \in Jobs |-> IdleJob]
      PROVE  Charged' = 0
  <2>1. IndexedBytes' = [k \in Keys |-> 0]
    BY <1>2 DEF IndexedBytes, EntrySize
  <2>2. CallerBytes' = [c \in Callers |-> 0]
    BY <1>2 DEF CallerBytes, IdleCaller
  <2>3. JobBytes' = [j \in Jobs |-> 0]
    BY <1>2 DEF JobBytes, IdleJob, Reserving
  <2>4. Total(IndexedBytes') = 0 /\ Total(CallerBytes') = 0 /\ Total(JobBytes') = 0
    BY <2>1, <2>2, <2>3, TotalZero
  <2>. QED BY <2>4 DEF Charged, Total
<1>. QED BY <1>1, <1>2

\* The scanner credits what it replaces and charges what it indexes.
LEMMA ScanAccounting ==
  ASSUME AccountingInv, NEW f \in ScanFile, ScanStep(f)
  PROVE  NeverUndercounts'
<1>0. /\ TypeOK /\ NeverUndercounts /\ current_cache_size \in Int
      /\ Total(IndexedBytes) \in Nat /\ Total(CallerBytes) \in Nat /\ Total(JobBytes) \in Nat
  BY ChargeTypes DEF AccountingInv, TypeOK
<1>1. caller' = caller /\ job' = job
  BY DEF ScanStep, ReadMetadata, ScanSkips, IndexScanned
<1>2. CASE UNCHANGED <<hot_cache, current_cache_size>>
  BY <1>0, <1>1, <1>2, Unchanged DEF NeverUndercounts, Charged
<1>3. CASE ~UNCHANGED <<hot_cache, current_cache_size>>
  <2>. DEFINE k == f[1]
              l == f[2]
  <2>1. k \in Keys /\ l \in Layout /\ l # "absent"
    BY DEF ScanFile, Layout
  <2>2. /\ hot_cache' = [hot_cache EXCEPT ![k] = l]
        /\ current_cache_size' = current_cache_size - EntrySize(k) + SizeOf(k, l)
    BY <1>3 DEF ScanStep, ReadMetadata, ScanSkips, IndexScanned, SetEntry
  <2>. HIDE DEF k, l
  <2>3. Total(IndexedBytes)' = Total(IndexedBytes) - EntrySize(k)
          + (IF l = "absent" THEN 0 ELSE SizeOf(k, l))
    BY <1>0, <2>1, <2>2, IndexChange
  <2>4. EntrySize(k) \in Nat /\ SizeOf(k, l) \in Nat
    BY <2>1, SizeType
  <2>. QED BY <1>0, <1>1, <2>1, <2>2, <2>3, <2>4, Unchanged DEF NeverUndercounts, Charged
<1>. QED BY <1>2, <1>3

\* With a cap configured the accounting invariant is inductive.
LEMMA AccountingStep ==
  ASSUME Eviction, AccountingInv, [Next]_vars
  PROVE  AccountingInv'
<1>1. TypeOK' /\ LockedAddition' /\ DirectKeys'
  BY NextType, LockedStep, DirectKeysStep DEF AccountingInv
<1>2. NeverUndercounts'
  <2>1. CASE \E c \in Callers : CallerStep(c)
    BY <1>1, <2>1, CallerAccounting
  <2>2. CASE \E j \in Jobs : SaveStep(j)
    BY <1>1, <2>2, SaveAccounting
  <2>3. CASE \E k \in Keys : Pin(k) \/ Unpin(k)
    <3>1. UNCHANGED <<hot_cache, current_cache_size, caller, job>>
      BY <2>3 DEF Pin, Unpin
    <3>. QED BY <3>1, Unchanged DEF AccountingInv, NeverUndercounts, Charged
  <2>4. CASE \E f \in ScanFile : ScanStep(f)
    BY <2>4, ScanAccounting
  <2>5. CASE Crash
    BY <2>5, NothingCharged DEF Crash, NeverUndercounts
  <2>6. CASE UNCHANGED vars
    <3>1. UNCHANGED <<hot_cache, current_cache_size, caller, job>>
      BY <2>6 DEF vars
    <3>. QED BY <3>1, Unchanged DEF AccountingInv, NeverUndercounts, Charged
  <2>. QED BY <2>1, <2>2, <2>3, <2>4, <2>5, <2>6 DEF Next
<1>. QED BY <1>1, <1>2 DEF AccountingInv

\* It holds at the start.
LEMMA AccountingInit == Init => AccountingInv
<1>. SUFFICES ASSUME Init PROVE AccountingInv
  OBVIOUS
<1>1. TypeOK
  BY InitType
<1>2. LockedAddition /\ DirectKeys
  BY DEF Init, LockedAddition, DirectKeys, IdleCaller, IdleJob
<1>3. NeverUndercounts
  BY NothingCharged DEF Init, NeverUndercounts
<1>. QED BY <1>1, <1>2, <1>3 DEF AccountingInv

\* With a cap configured, the counter never falls below the bytes of the indexed files and
\* of the puts in flight, for any keys, sizes, callers, executor slots and crashes: the
\* reservations of _eviction, the credits of remove and of failed loads and saves, and the
\* startup scan's double entry keep it on the safe side.
THEOREM CounterSafe == ASSUME Eviction PROVE Spec => []NeverUndercounts
<1>1. Init => AccountingInv
  BY AccountingInit
<1>2. AccountingInv /\ [Next]_vars => AccountingInv'
  BY AccountingStep
<1>3. AccountingInv => NeverUndercounts
  BY DEF AccountingInv
<1>. QED BY <1>1, <1>2, <1>3, PTL DEF Spec

\* One step raises the counter within the cap only, unless the scanner takes it.
LEMMA CapacityStep ==
  ASSUME Eviction, TypeOK, LockedAddition, [Next]_vars,
         current_cache_size' > current_cache_size, scan' = scan
  PROVE  current_cache_size' <= MaxSize
<1>0. /\ caller \in [Callers -> CallerState] /\ job \in [Jobs -> JobState]
      /\ current_cache_size \in Int /\ scan \in [ScanFile -> {"todo", "read", "done"}]
  BY DEF TypeOK
<1>1. ASSUME NEW c \in Callers, CallerStep(c) PROVE current_cache_size' <= MaxSize
  <2>1. CASE ReserveEvicted(c)
    BY <2>1 DEF ReserveEvicted, Fits
  <2>2. CASE ReadCounter(c) \/ WriteCounter(c) \/ ReserveDirectSize(c)
    BY <2>2 DEF ReadCounter, WriteCounter, ReserveDirectSize, LockedAddition, At
  <2>3. \A k \in Keys : ~PopAndCredit(k)
    BY <1>0, SizeType DEF PopAndCredit
  <2>4. caller[c].key \in Keys
    BY <1>0 DEF CallerState
  <2>5. CASE RollbackDirectStore(c)
    <3>1. Oldest(c) \in Jobs /\ job[Oldest(c)].key \in Keys
      BY <1>0, <2>5, SMTT(20) DEF RollbackDirectStore, Collecting, Oldest, CallerState, JobState
    <3>. QED BY <1>0, <2>5, <3>1, SizeType DEF RollbackDirectStore
  <2>6. CASE DropLegacy(c) \/ DiscardEntry(c)
    BY <1>0, <2>3, <2>4, <2>6 DEF DropLegacy, DiscardEntry
  <2>7. CASE \E k \in Keys : Remove(c, k) \/ EvictOne(c, k)
    BY <2>3, <2>7 DEF Remove, EvictOne
  <2>8. CASE current_cache_size' = current_cache_size
    BY <1>0, <2>8
  <2>. QED BY <1>1, <2>1, <2>2, <2>5, <2>6, <2>7, <2>8
       DEF CallerStep, SubmitPutTask, DirectPut, GetBlocking, Lookup, InsertPutTask, BeginEviction,
           EvictionStep, EvictionFails, Unlink, RemovePutTask, Spawn, CheckPutTasks,
           InsertDirectKey, FinishDirectJob, LoadLookup, ReadFile
<1>2. ASSUME NEW j \in Jobs, SaveStep(j) PROVE current_cache_size' <= MaxSize
  <2>1. CASE UndoReservation(j)
    <3>1. job[j].key \in Keys
      BY <1>0 DEF JobState
    <3>. QED BY <1>0, <2>1, <3>1, SizeType DEF UndoReservation
  <2>2. CASE current_cache_size' = current_cache_size
    BY <1>0, <2>2
  <2>. QED BY <1>2, <2>1, <2>2
       DEF SaveStep, WriteTmp, WriteFails, Rename, SaveMetadata, InsertKey, CleanupSave,
           CleanupData, FinishSave
<1>3. CASE \E k \in Keys : Pin(k) \/ Unpin(k)
  BY <1>0, <1>3 DEF Pin, Unpin
<1>4. CASE \E f \in ScanFile : ScanStep(f)
  <2>. PICK f \in ScanFile : ScanStep(f)
    BY <1>4
  <2>1. scan'[f] # scan[f]
    BY <1>0 DEF ScanStep, ReadMetadata, ScanSkips, IndexScanned
  <2>. QED BY <2>1
<1>5. CASE Crash
  BY <1>5 DEF Crash
<1>6. CASE UNCHANGED vars
  BY <1>0, <1>6 DEF vars
<1>. QED BY <1>1, <1>2, <1>3, <1>4, <1>5, <1>6 DEF Next

\* With a cap configured, no step but the startup scan's raises the counter above
\* max_xds_size, however many threads store: _eviction checks and reserves under one lock.
THEOREM CapRespected == ASSUME Eviction PROVE Spec => CapacityRespected
<1>1. Init => TypeOK /\ LockedAddition
  BY AccountingInit DEF AccountingInv
<1>2. TypeOK /\ LockedAddition /\ [Next]_vars => (TypeOK /\ LockedAddition)'
  BY NextType, LockedStep
<1>3. TypeOK /\ LockedAddition /\ [Next]_vars
        => [current_cache_size' > current_cache_size /\ scan' = scan
              => current_cache_size' <= MaxSize]_vars
  BY CapacityStep
<1>. QED BY <1>1, <1>2, <1>3, PTL DEF Spec, CapacityRespected
-----------------------------------------------------------------------------
(* put_tasks.  PutTasksMatch is inductive with the types: each step of a   *)
(* store moves one caller or one job across the line between registered    *)
(* and not, and changes the list by as much.                               *)

Registered(c) == caller[c].pc \in {"reserve", "evict", "add", "spawn", "unregister"}
One(b) == IF b THEN 1 ELSE 0

\* A set that gains or loses at most one element.
LEMMA OneMoved ==
  ASSUME NEW U, NEW R \in SUBSET U, NEW S \in SUBSET U, IsFiniteSet(R), NEW x \in U,
         \A y \in U \ {x} : y \in S <=> y \in R
  PROVE  /\ Cardinality(R) \in Nat
         /\ x \in R => Cardinality(R) > 0
         /\ (x \in S <=> x \in R) => Cardinality(S) = Cardinality(R)
         /\ x \in S /\ x \notin R => Cardinality(S) = Cardinality(R) + 1
         /\ x \notin S /\ x \in R => Cardinality(S) = Cardinality(R) - 1
<1>1. Cardinality(R) \in Nat
  BY FS_CardinalityType
<1>2. x \in R => Cardinality(R) > 0
  BY <1>1, FS_EmptySet
<1>3. (x \in S <=> x \in R) => S = R
  OBVIOUS
<1>4. x \in S /\ x \notin R => S = R \cup {x}
  OBVIOUS
<1>5. x \notin S /\ x \in R => S = R \ {x}
  OBVIOUS
<1>6. x \notin R => Cardinality(R \cup {x}) = Cardinality(R) + 1
  BY FS_AddElement
<1>7. x \in R => Cardinality(R \ {x}) = Cardinality(R) - 1
  BY FS_RemoveElement
<1>. QED BY <1>1, <1>2, <1>3, <1>4, <1>5, <1>6, <1>7

\* One caller more or less among those that are registered for a key.
LEMMA RegisteredStep ==
  ASSUME NEW c \in Callers, \A d \in Callers \ {c} : caller'[d] = caller[d], NEW k
  PROVE  /\ Cardinality(RegisteredCallers(k)) \in Nat
         /\ Registered(c) /\ caller[c].key = k => Cardinality(RegisteredCallers(k)) > 0
         /\ Cardinality(RegisteredCallers(k)') =
              Cardinality(RegisteredCallers(k)) - One(Registered(c) /\ caller[c].key = k)
                                                + One(Registered(c)' /\ caller'[c].key = k)
<1>1. /\ RegisteredCallers(k) \in SUBSET Callers /\ RegisteredCallers(k)' \in SUBSET Callers
      /\ IsFiniteSet(RegisteredCallers(k))
  BY FS_Subset DEF RegisteredCallers
<1>2. /\ c \in RegisteredCallers(k) <=> Registered(c) /\ caller[c].key = k
      /\ c \in RegisteredCallers(k)' <=> Registered(c)' /\ caller'[c].key = k
      /\ \A d \in Callers \ {c} : d \in RegisteredCallers(k)' <=> d \in RegisteredCallers(k)
  BY DEF RegisteredCallers, Registered
<1>3. /\ Cardinality(RegisteredCallers(k)) \in Nat
      /\ c \in RegisteredCallers(k) => Cardinality(RegisteredCallers(k)) > 0
      /\ (c \in RegisteredCallers(k)' <=> c \in RegisteredCallers(k))
           => Cardinality(RegisteredCallers(k)') = Cardinality(RegisteredCallers(k))
      /\ c \in RegisteredCallers(k)' /\ c \notin RegisteredCallers(k)
           => Cardinality(RegisteredCallers(k)') = Cardinality(RegisteredCallers(k)) + 1
      /\ c \notin RegisteredCallers(k)' /\ c \in RegisteredCallers(k)
           => Cardinality(RegisteredCallers(k)') = Cardinality(RegisteredCallers(k)) - 1
  BY <1>1, <1>2, OneMoved
<1>. QED BY <1>2, <1>3 DEF One

\* One job more or less among those of a key.
LEMMA ActiveStep ==
  ASSUME NEW j \in Jobs, \A i \in Jobs \ {j} : job'[i] = job[i], NEW k
  PROVE  /\ Cardinality(ActiveJobs(k)) \in Nat
         /\ job[j].pc # "idle" /\ job[j].key = k => Cardinality(ActiveJobs(k)) > 0
         /\ Cardinality(ActiveJobs(k)') =
              Cardinality(ActiveJobs(k)) - One(job[j].pc # "idle" /\ job[j].key = k)
                                         + One(job'[j].pc # "idle" /\ job'[j].key = k)
<1>1. /\ ActiveJobs(k) \in SUBSET Jobs /\ ActiveJobs(k)' \in SUBSET Jobs
      /\ IsFiniteSet(ActiveJobs(k))
  BY FS_Subset DEF ActiveJobs
<1>2. /\ j \in ActiveJobs(k) <=> job[j].pc # "idle" /\ job[j].key = k
      /\ j \in ActiveJobs(k)' <=> job'[j].pc # "idle" /\ job'[j].key = k
      /\ \A i \in Jobs \ {j} : i \in ActiveJobs(k)' <=> i \in ActiveJobs(k)
  BY DEF ActiveJobs
<1>3. /\ Cardinality(ActiveJobs(k)) \in Nat
      /\ j \in ActiveJobs(k) => Cardinality(ActiveJobs(k)) > 0
      /\ (j \in ActiveJobs(k)' <=> j \in ActiveJobs(k))
           => Cardinality(ActiveJobs(k)') = Cardinality(ActiveJobs(k))
      /\ j \in ActiveJobs(k)' /\ j \notin ActiveJobs(k)
           => Cardinality(ActiveJobs(k)') = Cardinality(ActiveJobs(k)) + 1
      /\ j \notin ActiveJobs(k)' /\ j \in ActiveJobs(k)
           => Cardinality(ActiveJobs(k)') = Cardinality(ActiveJobs(k)) - 1
  BY <1>1, <1>2, OneMoved
<1>. QED BY <1>2, <1>3 DEF One

\* What leaves callers, or jobs, alone leaves their number alone.
LEMMA TasksFrame ==
  /\ caller' = caller => \A k : RegisteredCallers(k)' = RegisteredCallers(k)
  /\ job' = job => \A k : ActiveJobs(k)' = ActiveJobs(k)
  /\ \A k : Cardinality(RegisteredCallers(k)) \in Nat /\ Cardinality(ActiveJobs(k)) \in Nat
<1>1. \A k : IsFiniteSet(RegisteredCallers(k)) /\ IsFiniteSet(ActiveJobs(k))
  BY FS_Subset DEF RegisteredCallers, ActiveJobs
<1>. QED BY <1>1, FS_CardinalityType DEF RegisteredCallers, ActiveJobs

\* What remove_put_task does to a key that is listed.
LEMMA TasksWithoutPoint ==
  ASSUME TypeOK, NEW k \in Keys, put_tasks[k] > 0, put_tasks' = TasksWithout(k)
  PROVE  \A x \in Keys : put_tasks'[x] = put_tasks[x] - One(x = k)
BY DEF TypeOK, TasksWithout, One

\* The steps of a calling thread.
LEMMA CallerTasks ==
  ASSUME TypeOK, PutTasksMatch, NEW c \in Callers, CallerStep(c)
  PROVE  PutTasksMatch'
<1>0. /\ caller \in [Callers -> CallerState] /\ job \in [Jobs -> JobState]
      /\ put_tasks \in [Keys -> Nat] /\ caller[c].key \in Keys
      /\ \A d \in Callers \ {c} : caller'[d] = caller[d]
  BY CallerFrame DEF TypeOK, CallerState
<1>1. ASSUME put_tasks' = put_tasks, \A k : ActiveJobs(k)' = ActiveJobs(k),
             Registered(c) <=> Registered(c)',
             Registered(c) => caller'[c].key = caller[c].key
      PROVE  PutTasksMatch'
  <2>1. \A k : Cardinality(RegisteredCallers(k)') = Cardinality(RegisteredCallers(k))
    BY <1>0, <1>1, RegisteredStep DEF One
  <2>. QED BY <1>1, <2>1 DEF PutTasksMatch
<1>2. CASE Lookup(c) \/ CheckPutTasks(c) \/ LoadLookup(c) \/ ReadFile(c) \/ DiscardEntry(c)
  <2>1. ~Registered(c) /\ put_tasks' = put_tasks /\ job' = job
    BY <1>2 DEF Lookup, CheckPutTasks, LoadLookup, ReadFile, DiscardEntry, At, Registered
  <2>2. ~Registered(c)'
    BY <1>2, GotoPoint, NextKeyPoint
    DEF Lookup, CheckPutTasks, LoadLookup, ReadFile, DiscardEntry, Registered
  <2>. QED BY <1>1, <2>1, <2>2, TasksFrame
<1>3. CASE \E k \in Keys : SubmitPutTask(c, k) \/ DirectPut(c, k) \/ GetBlocking(c, k)
  <2>1. ~Registered(c) /\ put_tasks' = put_tasks /\ job' = job
    BY <1>3 DEF SubmitPutTask, DirectPut, GetBlocking, At, Registered
  <2>2. ~Registered(c)'
    BY <1>0, <1>3, SMTT(20) DEF SubmitPutTask, DirectPut, GetBlocking, Registered, CallerState
  <2>. QED BY <1>1, <2>1, <2>2, TasksFrame
<1>4. CASE Unlink(c) \/ \E k \in Keys : Remove(c, k) \/ EvictOne(c, k)
  <2>1. put_tasks' = put_tasks /\ job' = job
    BY <1>4 DEF Unlink, Remove, EvictOne
  <2>2. caller'[c].pc = caller[c].pc /\ caller'[c].key = caller[c].key
    BY <1>4, UnlinkPoint
  <2>. QED BY <1>1, <2>1, <2>2, TasksFrame DEF Registered
<1>5. CASE DropLegacy(c)
  <2>1. ~Registered(c) /\ put_tasks' = put_tasks /\ job' = job
    BY <1>5 DEF DropLegacy, At, Registered
  <2>2. ~Registered(c)'
    BY <1>0, <1>5, GotoPoint DEF DropLegacy, Registered, CallerState
  <2>. QED BY <1>1, <2>1, <2>2, TasksFrame
<1>6. CASE BeginEviction(c) \/ ReserveEvicted(c) \/ EvictionFails(c) \/ WriteCounter(c)
           \/ ReserveDirectSize(c)
  <2>1. Registered(c) /\ put_tasks' = put_tasks /\ job' = job
    BY <1>6 DEF BeginEviction, ReserveEvicted, EvictionFails, WriteCounter, ReserveDirectSize,
                At, Registered
  <2>2. Registered(c)' /\ caller'[c].key = caller[c].key
    BY <1>6, GotoPoint
    DEF BeginEviction, ReserveEvicted, EvictionFails, WriteCounter, ReserveDirectSize, Registered
  <2>. QED BY <1>1, <2>1, <2>2, TasksFrame
<1>7. CASE ReadCounter(c)
  <2>1. Registered(c) /\ put_tasks' = put_tasks /\ job' = job
    BY <1>7 DEF ReadCounter, At, Registered
  <2>2. Registered(c)' /\ caller'[c].key = caller[c].key
    BY <1>0, <1>7 DEF ReadCounter, Registered, CallerState
  <2>. QED BY <1>1, <2>1, <2>2, TasksFrame
<1>8. CASE InsertPutTask(c)
  <2>1. /\ ~Registered(c) /\ job' = job
        /\ \A k \in Keys : put_tasks'[k] = put_tasks[k] + One(k = caller[c].key)
    BY <1>0, <1>8 DEF InsertPutTask, At, Registered, One
  <2>2. Registered(c)' /\ caller'[c].key = caller[c].key
    BY <1>8, GotoPoint DEF InsertPutTask, Registered
  <2>3. \A k : Cardinality(RegisteredCallers(k)')
                 = Cardinality(RegisteredCallers(k)) + One(caller'[c].key = k)
    BY <1>0, <2>1, <2>2, RegisteredStep DEF One
  <2>. QED BY <2>1, <2>2, <2>3, TasksFrame DEF PutTasksMatch, One
<1>9. CASE RemovePutTask(c)
  <2>1. Registered(c) /\ job' = job /\ put_tasks' = TasksWithout(caller[c].key)
    BY <1>9 DEF RemovePutTask, At, Registered
  <2>2. ~Registered(c)'
    BY <1>9, NextKeyPoint DEF RemovePutTask, Registered
  <2>3. /\ \A k : Cardinality(RegisteredCallers(k)')
                    = Cardinality(RegisteredCallers(k)) - One(caller[c].key = k)
        /\ Cardinality(RegisteredCallers(caller[c].key)) > 0
    BY <1>0, <2>1, <2>2, RegisteredStep DEF One
  <2>4. put_tasks[caller[c].key] > 0
    BY <1>0, <2>3, TasksFrame DEF PutTasksMatch
  <2>5. \A x \in Keys : put_tasks'[x] = put_tasks[x] - One(x = caller[c].key)
    BY <1>0, <2>1, <2>4, TasksWithoutPoint
  <2>. QED BY <2>1, <2>3, <2>5, TasksFrame DEF PutTasksMatch, One
<1>10. ASSUME NEW j \in Jobs, Spawn(c, j) PROVE PutTasksMatch'
  <2>1. /\ Registered(c) /\ put_tasks' = put_tasks
        /\ job[j].pc = "idle" /\ job'[j].pc = "write" /\ job'[j].key = caller[c].key
        /\ \A i \in Jobs \ {j} : job'[i] = job[i]
    BY <1>0, <1>10 DEF Spawn, At, Registered
  <2>2. ~Registered(c)'
    BY <1>10, SpawnPoint DEF Registered
  <2>3. \A k : Cardinality(RegisteredCallers(k)')
                 = Cardinality(RegisteredCallers(k)) - One(caller[c].key = k)
    BY <1>0, <2>1, <2>2, RegisteredStep DEF One
  <2>4. \A k : Cardinality(ActiveJobs(k)') = Cardinality(ActiveJobs(k)) + One(caller[c].key = k)
    BY <2>1, ActiveStep DEF One
  <2>. QED BY <2>1, <2>3, <2>4, TasksFrame DEF PutTasksMatch, One
<1>11. ASSUME InsertDirectKey(c) \/ RollbackDirectStore(c) \/ FinishDirectJob(c)
       PROVE  /\ Oldest(c) \in Jobs /\ job[Oldest(c)].key \in Keys
              /\ \A i \in Jobs \ {Oldest(c)} : job'[i] = job[i]
              /\ job[Oldest(c)].pc # "idle" /\ ~Registered(c) /\ ~Registered(c)'
  <2>1. Collecting(c)
    BY <1>11 DEF InsertDirectKey, RollbackDirectStore, FinishDirectJob
  <2>2. Oldest(c) \in Jobs /\ job[Oldest(c)].key \in Keys
    BY <1>0, <2>1, SMTT(20) DEF Collecting, Oldest, CallerState, JobState
  <2>3. /\ \A i \in Jobs \ {Oldest(c)} : job'[i] = job[i]
        /\ job[Oldest(c)].pc # "idle"
    BY <1>0, <1>11 DEF InsertDirectKey, RollbackDirectStore, FinishDirectJob
  <2>4. ~Registered(c)
    BY <2>1 DEF Collecting, At, Registered
  <2>5. ~Registered(c)'
    <3>1. CASE InsertDirectKey(c) \/ RollbackDirectStore(c)
      BY <3>1, GotoPoint DEF InsertDirectKey, RollbackDirectStore, Registered
    <3>2. CASE FinishDirectJob(c)
      BY <1>0, <3>2 DEF FinishDirectJob, IdleCaller, Registered
    <3>. QED BY <1>11, <3>1, <3>2
  <2>. QED BY <2>2, <2>3, <2>4, <2>5
<1>12. CASE InsertDirectKey(c) \/ RollbackDirectStore(c)
  <2>. PICK j \in Jobs : j = Oldest(c)
    BY <1>11, <1>12
  <2>1. put_tasks' = put_tasks /\ job' = [job EXCEPT ![j].pc = "finish"]
    BY <1>12 DEF InsertDirectKey, RollbackDirectStore
  <2>2. job[j].pc # "idle" /\ job'[j].pc = "finish" /\ job'[j].key = job[j].key
    BY <1>0, <1>11, <1>12, <2>1 DEF JobState
  <2>3. \A k : Cardinality(ActiveJobs(k)') = Cardinality(ActiveJobs(k))
    BY <1>11, <1>12, <2>2, ActiveStep DEF One
  <2>4. \A k : Cardinality(RegisteredCallers(k)') = Cardinality(RegisteredCallers(k))
    BY <1>0, <1>11, <1>12, RegisteredStep DEF One
  <2>. QED BY <2>1, <2>3, <2>4 DEF PutTasksMatch
<1>13. CASE FinishDirectJob(c)
  <2>. PICK j \in Jobs : j = Oldest(c)
    BY <1>11, <1>13
  <2>1. put_tasks' = TasksWithout(job[j].key) /\ job'[j].pc = "idle" /\ job[j].pc # "idle"
        /\ job[j].key \in Keys
    BY <1>0, <1>11, <1>13 DEF FinishDirectJob, IdleJob
  <2>2. /\ \A k : Cardinality(ActiveJobs(k)') = Cardinality(ActiveJobs(k)) - One(job[j].key = k)
        /\ Cardinality(ActiveJobs(job[j].key)) > 0
    BY <1>11, <1>13, <2>1, ActiveStep DEF One
  <2>3. \A k : Cardinality(RegisteredCallers(k)') = Cardinality(RegisteredCallers(k))
    BY <1>0, <1>11, <1>13, RegisteredStep DEF One
  <2>4. put_tasks[job[j].key] > 0
    BY <2>1, <2>2, TasksFrame DEF PutTasksMatch
  <2>5. \A x \in Keys : put_tasks'[x] = put_tasks[x] - One(x = job[j].key)
    BY <2>1, <2>4, TasksWithoutPoint
  <2>. QED BY <2>2, <2>3, <2>5, TasksFrame DEF PutTasksMatch, One
<1>. QED BY <1>2, <1>3, <1>4, <1>5, <1>6, <1>7, <1>8, <1>9, <1>10, <1>12, <1>13
       DEF CallerStep, EvictionStep

\* The steps of a file transaction.
LEMMA SaveTasks ==
  ASSUME TypeOK, PutTasksMatch, NEW j \in Jobs, SaveStep(j)
  PROVE  PutTasksMatch'
<1>0. /\ job \in [Jobs -> JobState] /\ put_tasks \in [Keys -> Nat] /\ job[j].key \in Keys
      /\ caller' = caller /\ \A i \in Jobs \ {j} : job'[i] = job[i]
  BY SavePoint DEF TypeOK, JobState
<1>1. CASE FinishSave(j)
  <2>1. put_tasks' = TasksWithout(job[j].key) /\ job'[j].pc = "idle" /\ job[j].pc # "idle"
    BY <1>0, <1>1 DEF FinishSave, IdleJob
  <2>2. /\ \A k : Cardinality(ActiveJobs(k)') = Cardinality(ActiveJobs(k)) - One(job[j].key = k)
        /\ Cardinality(ActiveJobs(job[j].key)) > 0
    BY <1>0, <2>1, ActiveStep DEF One
  <2>3. put_tasks[job[j].key] > 0
    BY <1>0, <2>2, TasksFrame DEF PutTasksMatch
  <2>4. \A x \in Keys : put_tasks'[x] = put_tasks[x] - One(x = job[j].key)
    BY <1>0, <2>1, <2>3, TasksWithoutPoint
  <2>. QED BY <1>0, <2>2, <2>4, TasksFrame DEF PutTasksMatch, One
<1>2. CASE ~FinishSave(j)
  <2>1. put_tasks' = put_tasks /\ job[j].pc # "idle"
    BY <1>2 DEF SaveStep, WriteTmp, WriteFails, Rename, SaveMetadata, InsertKey, CleanupSave,
                CleanupData, UndoReservation
  <2>2. job'[j].pc # "idle" /\ job'[j].key = job[j].key
    BY <1>0, <1>2 DEF SaveStep, WriteTmp, WriteFails, Rename, SaveMetadata, InsertKey,
       CleanupSave, CleanupData, UndoReservation, JobStep, OnError, JobState
  <2>3. \A k : Cardinality(ActiveJobs(k)') = Cardinality(ActiveJobs(k))
    BY <1>0, <2>1, <2>2, ActiveStep DEF One
  <2>. QED BY <1>0, <2>1, <2>3, TasksFrame DEF PutTasksMatch
<1>. QED BY <1>1, <1>2

\* Threads that are all idle have nothing listed.
LEMMA NothingListed ==
  /\ (caller = [c \in Callers |-> IdleCaller] /\ job = [j \in Jobs |-> IdleJob]
      /\ put_tasks = [k \in Keys |-> 0]) => PutTasksMatch
  /\ (caller' = [c \in Callers |-> IdleCaller] /\ job' = [j \in Jobs |-> IdleJob]
      /\ put_tasks' = [k \in Keys |-> 0]) => PutTasksMatch'
<1>1. Cardinality({}) = 0
  BY FS_EmptySet
<1>2. ASSUME caller = [c \in Callers |-> IdleCaller], job = [j \in Jobs |-> IdleJob],
             put_tasks = [k \in Keys |-> 0]
      PROVE  PutTasksMatch
  <2>1. \A k : RegisteredCallers(k) = {} /\ ActiveJobs(k) = {}
    BY <1>2 DEF RegisteredCallers, ActiveJobs, IdleCaller, IdleJob
  <2>2. \A k \in Keys : Cardinality(RegisteredCallers(k)) = 0 /\ Cardinality(ActiveJobs(k)) = 0
    BY <1>1, <2>1
  <2>. QED BY <1>2, <2>2 DEF PutTasksMatch
<1>3. ASSUME caller' = [c \in Callers |-> IdleCaller], job' = [j \in Jobs |-> IdleJob],
             put_tasks' = [k \in Keys |-> 0]
      PROVE  PutTasksMatch'
  <2>1. \A k : RegisteredCallers(k)' = {} /\ ActiveJobs(k)' = {}
    BY <1>3 DEF RegisteredCallers, ActiveJobs, IdleCaller, IdleJob
  <2>. QED BY <1>1, <1>3, <2>1 DEF PutTasksMatch
<1>. QED BY <1>2, <1>3

\* Every step keeps the list.
LEMMA TasksStep ==
  ASSUME TypeOK, PutTasksMatch, [Next]_vars
  PROVE  PutTasksMatch'
<1>1. CASE UNCHANGED <<put_tasks, caller, job>>
  BY <1>1, TasksFrame DEF PutTasksMatch
<1>2. CASE Crash
  BY <1>2, NothingListed DEF Crash
<1>3. ASSUME ~Crash, ~(\E c \in Callers : CallerStep(c)), ~(\E j \in Jobs : SaveStep(j))
      PROVE  UNCHANGED <<put_tasks, caller, job>>
  BY <1>3 DEF Next, vars, Pin, Unpin, ScanStep, ReadMetadata, ScanSkips, IndexScanned
<1>. QED BY <1>1, <1>2, <1>3, CallerTasks, SaveTasks

\* For any callers, keys, executor slots and crashes, with or without a cap: put_tasks
\* lists each key as often as it is being stored.  Every way out of submit_put_task, of
\* batched_direct_put and of the saves takes its key out once, and none takes out another's.
THEOREM TasksListed == Spec => []PutTasksMatch
<1>1. Init => TypeOK /\ PutTasksMatch
  BY InitType, NothingListed DEF Init
<1>2. TypeOK /\ PutTasksMatch /\ [Next]_vars => (TypeOK /\ PutTasksMatch)'
  BY NextType, TasksStep
<1>. QED BY <1>1, <1>2, PTL DEF Spec
-----------------------------------------------------------------------------
(* One storing thread.  With a single caller, the look at put_tasks before *)
(* a store is enough to keep two stores of one key apart: what the code    *)
(* relies on where files and entries of a key have one owner at a time.    *)

SingleCaller == \A c, d \in Callers : c = d

Storing(c) == caller[c].pc \in {"lookup", "register"} \/ Registered(c)
Active(j) == job[j].pc # "idle"

OneStore ==
  /\ \A c \in Callers, j \in Jobs : Storing(c) /\ Active(j) => job[j].key # caller[c].key
  /\ \A i, j \in Jobs : Active(i) /\ Active(j) /\ job[i].key = job[j].key => i = j

\* A caller begins to store a key that put_tasks does not list.
LEMMA StoringFrom ==
  ASSUME TypeOK, NEW c \in Callers, CallerStep(c), Storing(c)'
  PROVE  \/ Storing(c) /\ caller'[c].key = caller[c].key
         \/ put_tasks[caller'[c].key] = 0 /\ caller'[c].key \in Keys
<1>0. caller \in [Callers -> CallerState] /\ caller[c].key \in Keys
  BY DEF TypeOK, CallerState
<1>1. CASE \E k \in Keys : SubmitPutTask(c, k)
  BY <1>0, <1>1 DEF SubmitPutTask, CallerState
<1>2. CASE Lookup(c)
  BY <1>2, GotoPoint, NextKeyPoint DEF Lookup, At, Storing, Registered
<1>3. CASE CheckPutTasks(c)
  <2>1. put_tasks \in [Keys -> Nat]
    BY DEF TypeOK
  <2>2. CASE put_tasks[caller[c].key] > 0
    BY <1>3, <2>2, NextKeyPoint DEF CheckPutTasks, Storing, Registered
  <2>3. CASE ~(put_tasks[caller[c].key] > 0)
    BY <1>0, <1>3, <2>1, <2>3, GotoPoint DEF CheckPutTasks
  <2>. QED BY <2>2, <2>3
<1>4. CASE \/ InsertPutTask(c) \/ BeginEviction(c) \/ ReserveEvicted(c) \/ EvictionFails(c)
           \/ WriteCounter(c) \/ ReserveDirectSize(c)
  <2>1. caller'[c].key = caller[c].key
    BY <1>4, GotoPoint DEF InsertPutTask, BeginEviction, ReserveEvicted, EvictionFails,
       WriteCounter, ReserveDirectSize
  <2>2. Storing(c)
    BY <1>4 DEF InsertPutTask, BeginEviction, ReserveEvicted, EvictionFails, WriteCounter,
                ReserveDirectSize, At, Storing, Registered
  <2>. QED BY <2>1, <2>2
<1>5. CASE ReadCounter(c)
  BY <1>0, <1>5 DEF ReadCounter, At, Storing, Registered, CallerState
<1>6. CASE Unlink(c) \/ \E k \in Keys : Remove(c, k) \/ EvictOne(c, k)
  BY <1>6, UnlinkPoint DEF Storing, Registered
<1>7. CASE RemovePutTask(c) \/ DiscardEntry(c) \/ \E j \in Jobs : Spawn(c, j)
  BY <1>7, NextKeyPoint, SpawnPoint DEF RemovePutTask, DiscardEntry, Storing, Registered
<1>8. CASE LoadLookup(c) \/ ReadFile(c) \/ InsertDirectKey(c) \/ RollbackDirectStore(c)
  BY <1>8, GotoPoint, NextKeyPoint DEF LoadLookup, ReadFile, InsertDirectKey,
     RollbackDirectStore, Storing, Registered
<1>9. CASE DropLegacy(c)
  BY <1>0, <1>9, GotoPoint DEF DropLegacy, Storing, Registered, CallerState
<1>10. CASE FinishDirectJob(c)
  BY <1>0, <1>10 DEF FinishDirectJob, IdleCaller, Storing, Registered
<1>11. CASE \E k \in Keys : DirectPut(c, k) \/ GetBlocking(c, k)
  BY <1>0, <1>11 DEF DirectPut, GetBlocking, Storing, Registered, CallerState
<1>. QED BY <1>1, <1>2, <1>3, <1>4, <1>5, <1>6, <1>7, <1>8, <1>9, <1>10, <1>11
       DEF CallerStep, EvictionStep

\* A job becomes active when a caller hands its store over.
LEMMA ActiveFrom ==
  ASSUME TypeOK, NEW c \in Callers, CallerStep(c)
  PROVE  \/ \A j \in Jobs : Active(j)' => Active(j) /\ job'[j].key = job[j].key
         \/ \E j \in Jobs :
              /\ caller[c].pc = "spawn" /\ ~Storing(c)' /\ job'[j].key = caller[c].key
              /\ ~Active(j) /\ \A i \in Jobs \ {j} : job'[i] = job[i]
<1>0. caller \in [Callers -> CallerState] /\ job \in [Jobs -> JobState]
  BY DEF TypeOK
<1>1. ASSUME NEW j \in Jobs, Spawn(c, j)
      PROVE  /\ caller[c].pc = "spawn" /\ ~Storing(c)' /\ job'[j].key = caller[c].key
             /\ ~Active(j) /\ \A i \in Jobs \ {j} : job'[i] = job[i]
  BY <1>0, <1>1, SpawnPoint DEF Spawn, At, Active, Storing, Registered
<1>2. CASE InsertDirectKey(c) \/ RollbackDirectStore(c)
  <2>1. job' = [job EXCEPT ![Oldest(c)].pc = "finish"] /\ Active(Oldest(c))
    BY <1>2 DEF InsertDirectKey, RollbackDirectStore, Active
  <2>. QED BY <1>0, <2>1 DEF Active, JobState
<1>3. CASE FinishDirectJob(c)
  BY <1>0, <1>3 DEF FinishDirectJob, IdleJob, Active
<1>4. CASE job' = job
  BY <1>4 DEF Active
<1>. QED BY <1>1, <1>2, <1>3, <1>4
     DEF CallerStep, SubmitPutTask, DirectPut, Remove, GetBlocking, Lookup, InsertPutTask,
         BeginEviction, EvictionStep, ReserveEvicted, EvictionFails, EvictOne, ReadCounter,
         WriteCounter, ReserveDirectSize, Unlink, RemovePutTask, DropLegacy, CheckPutTasks,
         LoadLookup, ReadFile, DiscardEntry

\* A key that is not listed is not being stored by any job.
LEMMA NotListed ==
  ASSUME PutTasksMatch, NEW k \in Keys, put_tasks[k] = 0, NEW j \in Jobs, Active(j)
  PROVE  job[j].key # k
<1>1. IsFiniteSet(ActiveJobs(k)) /\ IsFiniteSet(RegisteredCallers(k))
  <2>1. ActiveJobs(k) \subseteq Jobs /\ RegisteredCallers(k) \subseteq Callers
    BY DEF ActiveJobs, RegisteredCallers
  <2>. QED BY <2>1, FS_Subset
<1>3. Cardinality(ActiveJobs(k)) = 0
  <2>1. Cardinality(ActiveJobs(k)) \in Nat /\ Cardinality(RegisteredCallers(k)) \in Nat
    BY <1>1, FS_CardinalityType
  <2>2. 0 = Cardinality(RegisteredCallers(k)) + Cardinality(ActiveJobs(k))
    BY DEF PutTasksMatch
  <2>. QED BY <2>1, <2>2
<1>2. ActiveJobs(k) = {}
  BY <1>1, <1>3, FS_EmptySet
<1>. QED BY <1>2 DEF ActiveJobs, Active

\* With one caller, every key is stored by one store at a time.
LEMMA OneStoreStep ==
  ASSUME SingleCaller, TypeOK, PutTasksMatch, OneStore, [Next]_vars
  PROVE  OneStore'
<1>1. ASSUME NEW c \in Callers, CallerStep(c) PROVE OneStore'
  <2>1. Callers = {c}
    BY DEF SingleCaller
  <2>2. CASE \A j \in Jobs : Active(j)' => Active(j) /\ job'[j].key = job[j].key
    <3>1. ASSUME NEW j \in Jobs, Storing(c)', Active(j)' PROVE job'[j].key # caller'[c].key
      BY <1>1, <2>2, <3>1, StoringFrom, NotListed DEF OneStore
    <3>. QED BY <2>1, <2>2, <3>1 DEF OneStore
  <2>3. CASE \E j \in Jobs :
               /\ caller[c].pc = "spawn" /\ ~Storing(c)' /\ job'[j].key = caller[c].key
               /\ ~Active(j) /\ \A i \in Jobs \ {j} : job'[i] = job[i]
    <3>. PICK j \in Jobs :
               /\ caller[c].pc = "spawn" /\ ~Storing(c)' /\ job'[j].key = caller[c].key
               /\ ~Active(j) /\ \A i \in Jobs \ {j} : job'[i] = job[i]
      BY <2>3
    <3>1. \A i \in Jobs : Active(i) => job[i].key # caller[c].key
      BY DEF OneStore, Storing, Registered
    <3>2. \A i \in Jobs \ {j} : Active(i)' <=> Active(i)
      BY DEF Active
    <3>. QED BY <2>1, <3>1, <3>2 DEF OneStore
  <2>. QED BY <1>1, <2>2, <2>3, ActiveFrom
<1>2. ASSUME NEW j \in Jobs, SaveStep(j) PROVE OneStore'
  <2>1. /\ caller' = caller
        /\ \A i \in Jobs : Active(i)' => Active(i) /\ job'[i].key = job[i].key
    <3>1. Active(j)
      BY <1>2 DEF SaveStep, WriteTmp, WriteFails, Rename, SaveMetadata, InsertKey,
         CleanupSave, CleanupData, UndoReservation, FinishSave, Active
    <3>2. IdleJob.pc = "idle"
      BY DEF IdleJob
    <3>. QED BY <1>2, <3>1, <3>2, SavePoint DEF Active
  <2>. QED BY <2>1 DEF OneStore, Storing, Registered
<1>3. CASE Crash
  <2>1. \A j \in Jobs : ~Active(j)'
    BY <1>3 DEF Crash, Active, IdleJob
  <2>. QED BY <2>1 DEF OneStore
<1>4. ASSUME ~Crash, ~(\E c \in Callers : CallerStep(c)), ~(\E j \in Jobs : SaveStep(j))
      PROVE  UNCHANGED <<caller, job>>
  BY <1>4 DEF Next, vars, Pin, Unpin, ScanStep, ReadMetadata, ScanSkips, IndexScanned
<1>5. CASE UNCHANGED <<caller, job>>
  BY <1>5 DEF OneStore, Storing, Registered, Active
<1>. QED BY <1>1, <1>2, <1>3, <1>4, <1>5
-----------------------------------------------------------------------------
(* One thread that submits complete chunks under a cap, with nothing       *)
(* indexed at start: entries leave the index by eviction only.  The        *)
(* reservations, the pins and the files then match the index exactly.      *)

OneStorer ==
  /\ SingleCaller /\ Eviction /\ ~ScanAtStart /\ BlockFirst = Keys
  /\ \A c \in Callers : Role[c] \subseteq {"submit"}

StorerShape ==
  /\ \A c \in Callers :
       /\ ~caller[c].direct /\ caller[c].batch = <<>>
       /\ caller[c].pc \in {"idle", "lookup", "register", "reserve", "evict", "spawn",
                            "unregister"}
  /\ \A j \in Jobs :
       /\ ~job[j].direct
       /\ job[j].pc \in {"idle", "write", "rename", "publish", "cleanup", "undo", "finish"}
  /\ \A f \in ScanFile : scan[f] = "done"
  /\ \A k \in Keys : hot_cache[k] # "legacy"

\* A store past the duplicate check, and a save that has not come to its end.
Past(c) == caller[c].pc = "register" \/ Registered(c)
Saving(j) == job[j].pc \notin {"idle", "finish"}

\* A key is not in the index while it is being stored.
Fresh ==
  /\ \A c \in Callers : Past(c) => ~Resident(caller[c].key)
  /\ \A j \in Jobs : Saving(j) => ~Resident(job[j].key)

StorerInv == TypeOK /\ PutTasksMatch /\ OneStore /\ StorerShape /\ Fresh

\* What the one storer's thread may do.
LEMMA StorerSteps ==
  ASSUME OneStorer, TypeOK, StorerShape, NEW c \in Callers, CallerStep(c)
  PROVE  \/ \E k \in Keys : SubmitPutTask(c, k) \/ EvictOne(c, k)
         \/ Lookup(c) \/ InsertPutTask(c) \/ BeginEviction(c) \/ ReserveEvicted(c)
         \/ EvictionFails(c) \/ Unlink(c) \/ RemovePutTask(c) \/ \E j \in Jobs : Spawn(c, j)
<1>1. ~\E k \in Keys : DirectPut(c, k) \/ Remove(c, k) \/ GetBlocking(c, k)
  BY DEF OneStorer, DirectPut, Remove, GetBlocking
<1>2. ~(ReadCounter(c) \/ ReserveDirectSize(c))
  BY DEF OneStorer, ReadCounter, ReserveDirectSize
<1>3. ~(WriteCounter(c) \/ DropLegacy(c) \/ CheckPutTasks(c) \/ LoadLookup(c) \/ ReadFile(c)
         \/ DiscardEntry(c))
  BY DEF StorerShape, At, WriteCounter, DropLegacy, CheckPutTasks, LoadLookup, ReadFile,
         DiscardEntry
<1>4. ~(InsertDirectKey(c) \/ RollbackDirectStore(c) \/ FinishDirectJob(c))
  BY DEF StorerShape, Collecting, At, InsertDirectKey, RollbackDirectStore, FinishDirectJob
<1>. QED BY <1>1, <1>2, <1>3, <1>4 DEF CallerStep, EvictionStep

\* What a save of the one storer may do.
LEMMA StorerSaves ==
  ASSUME StorerShape, NEW j \in Jobs, SaveStep(j)
  PROVE  \/ WriteTmp(j) \/ WriteFails(j) \/ Rename(j) \/ InsertKey(j) \/ CleanupSave(j)
         \/ UndoReservation(j) \/ FinishSave(j)
BY DEF SaveStep, StorerShape, SaveMetadata, CleanupData

\* The scanner has nothing to do.
LEMMA StorerScans ==
  ASSUME StorerShape, NEW f \in ScanFile, ScanStep(f)
  PROVE  FALSE
BY DEF StorerShape, ScanStep, ReadMetadata, ScanSkips, IndexScanned

\* Whatever the one storer's thread does, it stays in the loop of submit_put_task.
LEMMA ShapeCaller ==
  ASSUME OneStorer, TypeOK, StorerShape, NEW c \in Callers, CallerStep(c)
  PROVE  StorerShape'
<1>0. caller \in [Callers -> CallerState] /\ job \in [Jobs -> JobState]
      /\ hot_cache \in [Keys -> Layout \cup {"absent"}]
  BY DEF TypeOK
<1>1. caller[c].batch = <<>> /\ ~caller[c].direct
  BY DEF StorerShape
<1>2. /\ ~caller'[c].direct /\ caller'[c].batch = <<>>
      /\ caller'[c].pc \in {"idle", "lookup", "register", "reserve", "evict", "spawn",
                            "unregister"}
  <2>1. CASE \E k \in Keys : SubmitPutTask(c, k)
    BY <1>0, <1>1, <2>1 DEF SubmitPutTask, CallerState
  <2>2. CASE NextKey(c)
    BY <1>0, <1>1, <2>2 DEF NextKey, Rest, IdleCaller
  <2>3. CASE \E pc \in {"register", "reserve", "evict", "spawn", "unregister"} : Goto(c, pc)
    BY <1>0, <1>1, <2>3 DEF Goto, CallerState
  <2>4. CASE \E x : caller' = [caller EXCEPT ![c].unlink = x]
    BY <1>0, <1>1, <2>4 DEF CallerState, StorerShape
  <2>5. CASE \E j \in Jobs : Spawn(c, j)
    BY <1>1, <2>2, <2>5 DEF Spawn
  <2>. QED BY <2>1, <2>2, <2>3, <2>4, <2>5, StorerSteps
       DEF EvictOne, Lookup, InsertPutTask, BeginEviction, ReserveEvicted, EvictionFails,
           Unlink, RemovePutTask
<1>3. \A j \in Jobs : /\ ~job'[j].direct
                      /\ job'[j].pc \in {"idle", "write", "rename", "publish", "cleanup",
                                         "undo", "finish"}
  <2>1. CASE \E j \in Jobs : Spawn(c, j)
    BY <1>0, <1>1, <2>1 DEF Spawn, StorerShape
  <2>2. CASE job' = job
    BY <2>2 DEF StorerShape
  <2>. QED BY <2>1, <2>2, StorerSteps
       DEF SubmitPutTask, EvictOne, Lookup, InsertPutTask, BeginEviction, ReserveEvicted,
           EvictionFails, Unlink, RemovePutTask
<1>4. scan' = scan /\ \A k \in Keys : hot_cache'[k] \in {hot_cache[k], "absent"}
  BY <1>0, StorerSteps
  DEF SubmitPutTask, EvictOne, PopAndCredit, Lookup, InsertPutTask, BeginEviction,
      ReserveEvicted, EvictionFails, Unlink, RemovePutTask, Spawn
<1>5. /\ \A k \in Keys : hot_cache'[k] # "legacy"
      /\ \A f \in ScanFile : scan'[f] = "done"
  BY <1>4 DEF StorerShape
<1>6. \A d \in Callers :
       /\ ~caller'[d].direct /\ caller'[d].batch = <<>>
       /\ caller'[d].pc \in {"idle", "lookup", "register", "reserve", "evict", "spawn",
                            "unregister"}
  BY <1>2 DEF OneStorer, SingleCaller
<1>. QED BY <1>3, <1>5, <1>6 DEF StorerShape

\* Its saves are of complete chunks, which have no sidecar.
LEMMA ShapeSave ==
  ASSUME OneStorer, TypeOK, StorerShape, NEW j \in Jobs, SaveStep(j)
  PROVE  StorerShape'
<1>0. job \in [Jobs -> JobState] /\ hot_cache \in [Keys -> Layout \cup {"absent"}]
      /\ job[j].key \in Keys
  BY DEF TypeOK, JobState
<1>1. LayoutOf(job[j].key) = "block_first"
  BY <1>0 DEF OneStorer, LayoutOf
<1>2. /\ ~job'[j].direct
      /\ job'[j].pc \in {"idle", "write", "rename", "publish", "cleanup", "undo", "finish"}
  <2>1. ~job[j].direct
    BY DEF StorerShape
  <2>2. CASE FinishSave(j)
    BY <1>0, <2>2 DEF FinishSave, IdleJob
  <2>3. CASE \E pc \in {"rename", "publish", "cleanup", "undo", "finish"} : JobStep(j, pc)
    BY <1>0, <2>1, <2>3 DEF JobStep, JobState
  <2>4. ~FinishSave(j) =>
          \E pc \in {"rename", "publish", "cleanup", "undo", "finish"} : JobStep(j, pc)
    <3>1. OnError(j) = "cleanup"
      BY <2>1 DEF OnError
    <3>2. Rename(j) => JobStep(j, "publish") \/ JobStep(j, "cleanup")
      BY <1>1, <2>1, <3>1 DEF Rename
    <3>3. CleanupSave(j) => JobStep(j, "undo")
      BY <1>1 DEF CleanupSave
    <3>. QED BY <3>1, <3>2, <3>3, StorerSaves
         DEF WriteTmp, WriteFails, InsertKey, UndoReservation
  <2>. QED BY <2>2, <2>3, <2>4
<1>3. scan' = scan /\ \A k \in Keys : hot_cache'[k] \in {hot_cache[k], "absent", "block_first"}
  BY <1>0, <1>1, StorerSaves
  DEF WriteTmp, WriteFails, Rename, InsertKey, CleanupSave, UndoReservation, FinishSave,
      SetEntry
<1>4. \A k \in Keys : hot_cache'[k] # "legacy"
  BY <1>3 DEF StorerShape
<1>. QED BY <1>2, <1>3, <1>4, SavePoint, SMTT(20) DEF StorerShape

\* A store begins for a key the index does not hold, and nothing else makes one visible.
LEMMA FreshCaller ==
  ASSUME OneStorer, StorerInv, NEW c \in Callers, CallerStep(c)
  PROVE  Fresh'
<1>0. /\ TypeOK /\ StorerShape /\ Fresh /\ OneStore
      /\ caller \in [Callers -> CallerState] /\ job \in [Jobs -> JobState]
      /\ hot_cache \in [Keys -> Layout \cup {"absent"}] /\ caller[c].key \in Keys
  BY DEF StorerInv, TypeOK, CallerState
<1>1. \A k \in Keys : Resident(k)' => Resident(k)
  <2>1. CASE \E v \in Keys : EvictOne(c, v)
    BY <1>0, <2>1 DEF EvictOne, PopAndCredit, Resident
  <2>2. CASE hot_cache' = hot_cache
    BY <2>2 DEF Resident
  <2>. QED BY <1>0, <2>1, <2>2, StorerSteps
       DEF SubmitPutTask, Lookup, InsertPutTask, BeginEviction, ReserveEvicted,
           EvictionFails, Unlink, RemovePutTask, Spawn
<1>2. ASSUME Past(c)' PROVE ~Resident(caller[c].key)'
  <2>1. CASE Past(c) /\ caller'[c].key = caller[c].key
    BY <1>0, <1>1, <2>1 DEF Fresh
  <2>2. CASE Lookup(c)
    <3>1. CASE hot_cache[caller[c].key] = "block_first"
      BY <1>0, <1>2, <2>2, <3>1, NextKeyPoint DEF Lookup, Past, Registered
    <3>2. CASE hot_cache[caller[c].key] # "block_first"
      <4>1. caller'[c].key = caller[c].key
        BY <1>0, <2>2, <3>2, GotoPoint DEF Lookup
      <4>2. ~Resident(caller[c].key)
        BY <1>0, <3>2 DEF StorerShape, Resident, Layout
      <4>. QED BY <1>0, <1>1, <4>1, <4>2
    <3>. QED BY <3>1, <3>2
  <2>3. CASE \E k \in Keys : SubmitPutTask(c, k)
    BY <1>0, <1>2, <2>3 DEF SubmitPutTask, Past, Registered, CallerState
  <2>4. CASE RemovePutTask(c) \/ \E j \in Jobs : Spawn(c, j)
    BY <1>0, <1>2, <2>4, NextKeyPoint, SpawnPoint DEF RemovePutTask, Past, Registered
  <2>5. CASE \/ InsertPutTask(c) \/ BeginEviction(c) \/ ReserveEvicted(c) \/ EvictionFails(c)
    <3>1. caller'[c].key = caller[c].key
      BY <1>0, <2>5, GotoPoint DEF InsertPutTask, BeginEviction, ReserveEvicted, EvictionFails
    <3>2. Past(c)
      BY <2>5 DEF InsertPutTask, BeginEviction, ReserveEvicted, EvictionFails, At, Past,
                  Registered
    <3>. QED BY <2>1, <3>1, <3>2
  <2>6. CASE Unlink(c) \/ \E k \in Keys : EvictOne(c, k)
    BY <1>0, <1>2, <2>1, <2>6, UnlinkPoint DEF Past, Registered
  <2>. QED BY <1>0, <2>2, <2>3, <2>4, <2>5, <2>6, StorerSteps
<1>3. ASSUME NEW j \in Jobs, Saving(j)' PROVE ~Resident(job[j].key)'
  <2>1. CASE job'[j] = job[j]
    <3>1. job[j].key \in Keys /\ Saving(j)
      BY <1>0, <1>3, <2>1 DEF JobState, Saving
    <3>. QED BY <1>0, <1>1, <2>1, <3>1 DEF Fresh
  <2>2. ASSUME Spawn(c, j) PROVE ~Resident(job[j].key)'
    <3>1. job'[j].key = caller[c].key /\ Past(c)
      BY <1>0, <2>2 DEF Spawn, At, Past, Registered
    <3>. QED BY <1>0, <1>1, <3>1 DEF Fresh
  <2>3. ~Spawn(c, j) => job'[j] = job[j]
    BY <1>0, StorerSteps
    DEF SubmitPutTask, EvictOne, Lookup, InsertPutTask, BeginEviction, ReserveEvicted,
        EvictionFails, Unlink, RemovePutTask, Spawn
  <2>. QED BY <2>1, <2>2, <2>3
<1>. QED BY <1>2, <1>3 DEF Fresh, OneStorer, SingleCaller

\* A save publishes its own key, which no other store is about.
LEMMA FreshSave ==
  ASSUME OneStorer, StorerInv, NEW j \in Jobs, SaveStep(j)
  PROVE  Fresh'
<1>0. /\ TypeOK /\ StorerShape /\ Fresh /\ OneStore
      /\ caller \in [Callers -> CallerState] /\ job \in [Jobs -> JobState]
      /\ hot_cache \in [Keys -> Layout \cup {"absent"}] /\ job[j].key \in Keys
  BY DEF StorerInv, TypeOK, JobState
<1>1. Active(j)
  BY DEF SaveStep, WriteTmp, WriteFails, Rename, SaveMetadata, InsertKey,
     CleanupSave, CleanupData, UndoReservation, FinishSave, Active
<1>2. \A k \in Keys \ {job[j].key} : Resident(k)' => Resident(k)
  BY <1>0, StorerSaves
  DEF WriteTmp, WriteFails, Rename, InsertKey, CleanupSave, UndoReservation, FinishSave,
      SetEntry, Resident
<1>3. ASSUME NEW d \in Callers, Past(d)' PROVE ~Resident(caller[d].key)'
  <2>1. caller' = caller /\ Past(d) /\ caller[d].key \in Keys
    BY <1>0, <1>3, SavePoint DEF Past, Registered, CallerState
  <2>2. caller[d].key # job[j].key
    BY <1>0, <1>1, <2>1 DEF OneStore, Storing, Past
  <2>. QED BY <1>0, <1>2, <2>1, <2>2 DEF Fresh
<1>4. ASSUME NEW i \in Jobs \ {j}, Saving(i)' PROVE ~Resident(job[i].key)'
  <2>1. job'[i] = job[i] /\ Saving(i) /\ Active(i) /\ job[i].key \in Keys
    BY <1>0, <1>4, SavePoint DEF Saving, Active, JobState
  <2>2. job[i].key # job[j].key
    BY <1>0, <1>1, <2>1 DEF OneStore
  <2>. QED BY <1>0, <1>2, <2>1, <2>2 DEF Fresh
<1>5. ASSUME Saving(j)' PROVE ~Resident(job[j].key)'
  <2>1. CASE InsertKey(j) \/ UndoReservation(j) \/ FinishSave(j)
    BY <1>0, <1>5, <2>1 DEF InsertKey, UndoReservation, FinishSave, JobStep, Saving, IdleJob,
       JobState
  <2>2. CASE WriteTmp(j) \/ WriteFails(j) \/ Rename(j) \/ CleanupSave(j)
    <3>1. hot_cache' = hot_cache /\ Saving(j)
      BY <2>2 DEF WriteTmp, WriteFails, Rename, CleanupSave, Saving
    <3>2. job'[j].key = job[j].key
      BY <1>0, <2>2 DEF WriteTmp, WriteFails, Rename, CleanupSave, JobStep, JobState
    <3>. QED BY <1>0, <3>1, <3>2 DEF Fresh, Resident
  <2>. QED BY <1>0, <2>1, <2>2, StorerSaves
<1>. QED BY <1>3, <1>4, <1>5 DEF Fresh

\* A process starts, also after a crash, with nothing in the index and nothing at work.
LEMMA StorerRest ==
  ASSUME OneStorer
  PROVE  /\ Init => OneStore /\ StorerShape /\ Fresh
         /\ Crash => OneStore' /\ StorerShape' /\ Fresh'
<1>1. ASSUME Init PROVE OneStore /\ StorerShape /\ Fresh
  <2>1. \A c \in Callers : /\ ~caller[c].direct /\ caller[c].batch = <<>>
                           /\ caller[c].pc = "idle"
    BY <1>1 DEF Init, IdleCaller
  <2>2. \A j \in Jobs : ~job[j].direct /\ job[j].pc = "idle"
    BY <1>1 DEF Init, IdleJob
  <2>3. /\ \A f \in ScanFile : scan[f] = "done"
        /\ \A k \in Keys : hot_cache[k] # "legacy"
    BY <1>1 DEF Init, ScanStart, OneStorer
  <2>. QED BY <2>1, <2>2, <2>3 DEF OneStore, StorerShape, Fresh, Active, Past, Registered, Saving
<1>2. ASSUME Crash PROVE OneStore' /\ StorerShape' /\ Fresh'
  <2>1. \A c \in Callers : /\ ~caller'[c].direct /\ caller'[c].batch = <<>>
                           /\ caller'[c].pc = "idle"
    BY <1>2 DEF Crash, IdleCaller
  <2>2. \A j \in Jobs : ~job'[j].direct /\ job'[j].pc = "idle"
    BY <1>2 DEF Crash, IdleJob
  <2>3. /\ \A f \in ScanFile : scan'[f] = "done"
        /\ \A k \in Keys : hot_cache'[k] # "legacy"
    BY <1>2 DEF Crash, ScanStart, OneStorer
  <2>. QED BY <2>1, <2>2, <2>3 DEF OneStore, StorerShape, Fresh, Active, Past, Registered, Saving
<1>. QED BY <1>1, <1>2

\* The invariant of one storer.
LEMMA StorerStep ==
  ASSUME OneStorer, StorerInv, [Next]_vars
  PROVE  StorerInv'
<1>1. TypeOK /\ PutTasksMatch /\ OneStore /\ StorerShape /\ Fresh /\ SingleCaller
  BY DEF StorerInv, OneStorer
<1>2. TypeOK' /\ PutTasksMatch' /\ OneStore'
  BY <1>1, NextType, TasksStep, OneStoreStep
<1>3. StorerShape' /\ Fresh'
  <2>1. CASE \E c \in Callers : CallerStep(c)
    BY <1>1, <2>1, ShapeCaller, FreshCaller
  <2>2. CASE \E j \in Jobs : SaveStep(j)
    BY <1>1, <2>2, ShapeSave, FreshSave
  <2>3. CASE Crash
    BY <1>2, <2>3, StorerRest DEF Crash
  <2>4. CASE UNCHANGED <<hot_cache, caller, job, scan>>
    BY <1>1, <2>4 DEF StorerShape, Fresh, Past, Registered, Saving, Resident
  <2>. QED BY <1>1, <2>1, <2>2, <2>3, <2>4, StorerScans DEF Next, vars, Pin, Unpin
<1>. QED BY <1>2, <1>3 DEF StorerInv

\* Pins are held on indexed keys only, and the entry counts them.
PinInv == \A k \in Keys : pinned[k] = IF Resident(k) THEN pin_count[k] ELSE 0

LEMMA PinStep ==
  ASSUME OneStorer, StorerInv, PinInv, [Next]_vars
  PROVE  PinInv'
<1>0. /\ TypeOK /\ StorerShape /\ Fresh
      /\ hot_cache \in [Keys -> Layout \cup {"absent"}] /\ job \in [Jobs -> JobState]
      /\ pin_count \in [Keys -> Int] /\ pinned \in [Keys -> Nat]
  BY DEF StorerInv, TypeOK
<1>1. ASSUME NEW c \in Callers, NEW v \in Keys, EvictOne(c, v) PROVE PinInv'
  <2>1. pinned[v] = 0
    BY <1>0, <1>1 DEF EvictOne, CanEvict, PinInv
  <2>. QED BY <1>0, <1>1, <2>1 DEF EvictOne, PopAndCredit, PinInv, Resident
<1>2. ASSUME NEW j \in Jobs, InsertKey(j) \/ UndoReservation(j) PROVE PinInv'
  <2>1. job[j].key \in Keys /\ pinned[job[j].key] = 0 /\ ~Resident(job[j].key)
    BY <1>0, <1>2 DEF InsertKey, UndoReservation, Fresh, Saving, PinInv, JobState
  <2>2. /\ pin_count' = [pin_count EXCEPT ![job[j].key] = 0] /\ pinned' = pinned
        /\ \E l : hot_cache' = [hot_cache EXCEPT ![job[j].key] = l]
    BY <1>2, <2>1 DEF InsertKey, UndoReservation, SetEntry
  <2>. QED BY <1>0, <2>1, <2>2 DEF PinInv, Resident
<1>3. ASSUME NEW k \in Keys, Pin(k) PROVE PinInv'
  BY <1>0, <1>3 DEF Pin, PinInv, Resident
<1>4. ASSUME NEW k \in Keys, Unpin(k) PROVE PinInv'
  BY <1>0, <1>4 DEF Unpin, PinInv, Resident
<1>5. CASE Crash
  BY <1>5 DEF Crash, PinInv, Resident
<1>6. CASE UNCHANGED <<hot_cache, pin_count, pinned>>
  BY <1>6 DEF PinInv, Resident
<1>7. ASSUME NEW c \in Callers, CallerStep(c), ~\E v \in Keys : EvictOne(c, v)
      PROVE  UNCHANGED <<hot_cache, pin_count, pinned>>
  BY <1>0, <1>7, StorerSteps
  DEF SubmitPutTask, Lookup, InsertPutTask, BeginEviction, ReserveEvicted,
      EvictionFails, Unlink, RemovePutTask, Spawn
<1>8. ASSUME NEW j \in Jobs, SaveStep(j), ~InsertKey(j), ~UndoReservation(j)
      PROVE  UNCHANGED <<hot_cache, pin_count, pinned>>
  BY <1>0, <1>8, StorerSaves DEF WriteTmp, WriteFails, Rename, CleanupSave, FinishSave
<1>. QED BY <1>0, <1>1, <1>2, <1>3, <1>4, <1>5, <1>6, <1>7, <1>8, StorerScans DEF Next, vars

\* The invariant of one storer holds from the start.
LEMMA StorerInit == ASSUME OneStorer, Init PROVE StorerInv
BY InitType, NothingListed, StorerRest DEF Init, StorerInv

\* With one thread that submits complete chunks under a cap, for any keys, sizes, executor
\* slots and crashes: an entry's pin_count is the number of requests that hold it.  No
\* failed save and no replaced entry drops a pin, so nothing is evicted under a request.
THEOREM PinsCounted == ASSUME OneStorer PROVE Spec => []PinCountsMatch
<1>1. Init => StorerInv /\ PinInv
  BY StorerInit DEF Init, PinInv, Resident
<1>2. StorerInv /\ PinInv /\ [Next]_vars => (StorerInv /\ PinInv)'
  BY StorerStep, PinStep
<1>3. PinInv => PinCountsMatch
  BY DEF PinInv, PinCountsMatch
<1>. QED BY <1>1, <1>2, <1>3, PTL DEF Spec
-----------------------------------------------------------------------------
(* The files of one storer.  What a caller has still to unlink belongs to  *)
(* keys that are neither indexed nor about to be.                          *)

Gone(v) == ~Resident(v) /\ \A j \in Jobs : job[j].key = v => ~Saving(j)

Unlinking ==
  \A c \in Callers :
    /\ caller[c].pc \in {"idle", "lookup", "register", "reserve"} => caller[c].unlink = <<>>
    /\ \A i \in 1 .. Len(caller[c].unlink) :
         \E v \in Keys : caller[c].unlink[i] = <<v, "block_first">> /\ Gone(v)

Present ==
  /\ \A k \in Keys : Resident(k) => <<k, "block_first">> \in disk
  /\ \A j \in Jobs : job[j].pc = "publish" => <<job[j].key, "block_first">> \in disk

\* An evicted entry's file joins the files to unlink, and its key is gone.
LEMMA UnlinkingEvict ==
  ASSUME OneStorer, StorerInv, Unlinking, NEW c \in Callers, NEW v \in Keys, EvictOne(c, v)
  PROVE  Unlinking'
<1>0. /\ TypeOK /\ StorerShape /\ Fresh /\ caller \in [Callers -> CallerState]
      /\ hot_cache \in [Keys -> Layout \cup {"absent"}] /\ job' = job
      /\ Resident(v) /\ hot_cache' = [hot_cache EXCEPT ![v] = "absent"]
  BY DEF StorerInv, TypeOK, EvictOne, CanEvict, PopAndCredit
<1>1. hot_cache[v] = "block_first"
  BY <1>0 DEF StorerShape, Layout, Resident
<1>2. Gone(v)' /\ \A x \in Keys : Gone(x) => Gone(x)'
  BY <1>0 DEF Gone, Resident, Saving, Fresh
<1>3. caller' = [caller EXCEPT ![c].unlink = @ \o <<<<v, "block_first">>>>]
  BY <1>1 DEF EvictOne, UnlinkOrder, DataFile
<1>4. /\ caller'[c].unlink = Append(caller[c].unlink, <<v, "block_first">>)
      /\ caller'[c].pc = "evict"
  <2>1. caller[c].unlink \in Seq(File) /\ <<v, "block_first">> \in File
    BY <1>0 DEF CallerState, File
  <2>2. caller[c].unlink \o <<<<v, "block_first">>>>
          = Append(caller[c].unlink, <<v, "block_first">>)
    BY <2>1
  <2>. QED BY <1>0, <1>3, <2>2, ZenonT(40) DEF CallerState, EvictOne
<1>5. \A i \in 1 .. Len(caller'[c].unlink) :
        \E x \in Keys : caller'[c].unlink[i] = <<x, "block_first">> /\ Gone(x)'
  <2>1. caller[c].unlink \in Seq(File)
    BY <1>0 DEF CallerState
  <2>. DEFINE u == caller[c].unlink
  <2>2. ASSUME NEW i \in 1 .. Len(Append(u, <<v, "block_first">>))
        PROVE  \E x \in Keys : Append(u, <<v, "block_first">>)[i] = <<x, "block_first">> /\ Gone(x)'
    <3>1. CASE i = Len(u) + 1
      BY <1>2, <2>1, <3>1
    <3>2. CASE i \in 1 .. Len(u)
      <4>1. Append(u, <<v, "block_first">>)[i] = u[i]
        BY <2>1, <3>2
      <4>2. \E x \in Keys : u[i] = <<x, "block_first">> /\ Gone(x)
        BY <3>2 DEF Unlinking
      <4>. QED BY <1>2, <4>1, <4>2
    <3>. QED BY <2>1, <3>1, <3>2
  <2>. QED BY <1>4, <2>2
<1>. QED BY <1>4, <1>5 DEF Unlinking, OneStorer, SingleCaller

\* An unlink takes the oldest file off the caller's list.
LEMMA UnlinkingUnlink ==
  ASSUME OneStorer, StorerInv, Unlinking, Present, NEW c \in Callers, Unlink(c)
  PROVE  Unlinking' /\ Present'
<1>0. /\ TypeOK /\ caller \in [Callers -> CallerState] /\ job' = job /\ hot_cache' = hot_cache
      /\ caller[c].unlink \in Seq(File) /\ caller[c].unlink # <<>>
      /\ caller' = [caller EXCEPT ![c].unlink = Tail(@)]
  BY DEF StorerInv, TypeOK, CallerState, Unlink
<1>. DEFINE u == caller[c].unlink
<1>1. /\ caller'[c].unlink = Tail(u) /\ caller'[c].pc = caller[c].pc
  BY <1>0 DEF CallerState
<1>2. \A v : Gone(v)' <=> Gone(v)
  BY <1>0 DEF Gone, Resident, Saving
<1>3. \A i \in 1 .. Len(u) : \E v \in Keys : u[i] = <<v, "block_first">> /\ Gone(v)
  BY DEF Unlinking
<1>4. Unlinking'
  <2>1. ASSUME NEW i \in 1 .. Len(Tail(u))
        PROVE  \E v \in Keys : Tail(u)[i] = <<v, "block_first">> /\ Gone(v)
    <3>1. Tail(u)[i] = u[i + 1] /\ i + 1 \in 1 .. Len(u)
      BY <1>0
    <3>. QED BY <1>3, <3>1
  <2>2. caller[c].pc \notin {"idle", "lookup", "register", "reserve"}
    BY <1>0 DEF Unlinking
  <2>3. Callers = {c}
    BY DEF OneStorer, SingleCaller
  <2>4. \A i \in 1 .. Len(caller'[c].unlink) :
          \E v \in Keys : caller'[c].unlink[i] = <<v, "block_first">> /\ Gone(v)'
    BY <1>1, <1>2, <2>1
  <2>. QED BY <1>1, <2>2, <2>3, <2>4 DEF Unlinking
<1>5. PICK v \in Keys : Head(u) = <<v, "block_first">> /\ Gone(v)
  <2>1. 1 \in 1 .. Len(u) /\ Head(u) = u[1]
    BY <1>0
  <2>. QED BY <1>3, <2>1
<1>6. disk \ {<<v, "block_first">>} \subseteq disk'
  BY <1>5 DEF Unlink, Delete
<1>7. Present'
  <2>1. ASSUME NEW k \in Keys, Resident(k)' PROVE <<k, "block_first">> \in disk'
    <3>1. Resident(k) /\ k # v
      BY <1>0, <1>5, <2>1 DEF Resident, Gone
    <3>. QED BY <1>6, <3>1 DEF Present
  <2>2. ASSUME NEW j \in Jobs, job'[j].pc = "publish"
        PROVE  <<job'[j].key, "block_first">> \in disk'
    <3>1. job[j].pc = "publish" /\ job[j].key # v
      BY <1>0, <1>5, <2>2 DEF Gone, Saving
    <3>. QED BY <1>0, <1>6, <3>1 DEF Present
  <2>. QED BY <2>1, <2>2 DEF Present
<1>. QED BY <1>4, <1>7

\* No other step of the thread finds or leaves anything to unlink, but the two that leave
\* the eviction loop.
LEMMA UnlinkingCaller ==
  ASSUME OneStorer, StorerInv, Unlinking, Present, NEW c \in Callers, CallerStep(c)
  PROVE  Unlinking' /\ Present'
<1>0. /\ TypeOK /\ StorerShape /\ Fresh /\ caller \in [Callers -> CallerState]
      /\ job \in [Jobs -> JobState] /\ hot_cache \in [Keys -> Layout \cup {"absent"}]
  BY DEF StorerInv, TypeOK
<1>1. CASE \E v \in Keys : EvictOne(c, v)
  <2>1. /\ disk' = disk /\ job' = job
        /\ \A k \in Keys : Resident(k)' => Resident(k)
    BY <1>0, <1>1 DEF EvictOne, PopAndCredit, Resident
  <2>2. Present'
    BY <2>1 DEF Present
  <2>. QED BY <1>1, <2>2, UnlinkingEvict
<1>2. CASE Unlink(c)
  BY <1>2, UnlinkingUnlink
<1>3. CASE ReserveEvicted(c) \/ EvictionFails(c)
  <2>1. UNCHANGED <<hot_cache, job, disk>>
    BY <1>3 DEF ReserveEvicted, EvictionFails
  <2>2. /\ caller'[c].unlink = caller[c].unlink
        /\ caller'[c].pc \in {"spawn", "unregister"}
    BY <1>0, <1>3 DEF ReserveEvicted, EvictionFails, Goto, CallerState
  <2>3. \A v : Gone(v)' <=> Gone(v)
    BY <2>1 DEF Gone, Resident, Saving
  <2>4. Unlinking'
    <3>1. Callers = {c}
      BY DEF OneStorer, SingleCaller
    <3>2. \A i \in 1 .. Len(caller'[c].unlink) :
            \E v \in Keys : caller'[c].unlink[i] = <<v, "block_first">> /\ Gone(v)'
      BY <2>2, <2>3 DEF Unlinking
    <3>. QED BY <2>2, <3>1, <3>2 DEF Unlinking
  <2>. QED BY <2>1, <2>4 DEF Present, Resident
<1>4. CASE \/ \E k \in Keys : SubmitPutTask(c, k)
           \/ Lookup(c) \/ InsertPutTask(c) \/ BeginEviction(c) \/ RemovePutTask(c)
           \/ \E j \in Jobs : Spawn(c, j)
  <2>1. caller'[c].unlink = <<>>
    <3>1. caller[c].unlink = <<>>
      BY <1>4 DEF SubmitPutTask, Lookup, InsertPutTask, BeginEviction, RemovePutTask, Spawn, At
    <3>2. CASE NextKey(c)
      BY <1>0, <3>2 DEF NextKey, IdleCaller
    <3>3. CASE \E pc : Goto(c, pc)
      BY <1>0, <3>1, <3>3 DEF Goto, CallerState
    <3>4. CASE \E k \in Keys : SubmitPutTask(c, k)
      BY <1>0, <3>1, <3>4 DEF SubmitPutTask, CallerState
    <3>5. CASE \E j \in Jobs : Spawn(c, j)
      BY <3>2, <3>5 DEF Spawn, StorerInv, StorerShape
    <3>. QED BY <1>4, <3>2, <3>3, <3>4, <3>5
         DEF Lookup, InsertPutTask, BeginEviction, RemovePutTask
  <2>2. Unlinking'
    <3>1. Len(caller'[c].unlink) = 0
      BY <2>1
    <3>. QED BY <2>1, <3>1 DEF Unlinking, OneStorer, SingleCaller
  <2>3. UNCHANGED <<hot_cache, disk>>
    BY <1>4 DEF SubmitPutTask, Lookup, InsertPutTask, BeginEviction, RemovePutTask, Spawn
  <2>4. \A j \in Jobs : job'[j].pc = "publish" => job'[j] = job[j]
    <3>1. CASE \E j \in Jobs : Spawn(c, j)
      BY <1>0, <3>1 DEF Spawn
    <3>2. CASE job' = job
      BY <3>2
    <3>. QED BY <1>4, <3>1, <3>2
         DEF SubmitPutTask, Lookup, InsertPutTask, BeginEviction, RemovePutTask
  <2>5. Present'
    BY <2>3, <2>4 DEF Present, Resident
  <2>. QED BY <2>2, <2>5
<1>. QED BY <1>0, <1>1, <1>2, <1>3, <1>4, StorerSteps

\* A save makes visible a key whose file it has given its name.
LEMMA UnlinkingSave ==
  ASSUME OneStorer, StorerInv, Unlinking, Present, NEW j \in Jobs, SaveStep(j)
  PROVE  Unlinking' /\ Present'
<1>0. /\ TypeOK /\ StorerShape /\ Fresh /\ OneStore /\ job \in [Jobs -> JobState]
      /\ hot_cache \in [Keys -> Layout \cup {"absent"}] /\ job[j].key \in Keys
  BY DEF StorerInv, TypeOK, JobState
<1>1. LayoutOf(job[j].key) = "block_first"
  BY <1>0 DEF OneStorer, LayoutOf
<1>2. \A k : <<k, "block_first">> \in disk => <<k, "block_first">> \in disk'
  BY <1>0, <1>1, StorerSaves
  DEF WriteTmp, WriteFails, Rename, InsertKey, CleanupSave, UndoReservation, FinishSave, Delete
<1>3. \A k \in Keys : Resident(k)' => Resident(k) \/ (InsertKey(j) /\ k = job[j].key)
  BY <1>0, StorerSaves
  DEF WriteTmp, WriteFails, Rename, InsertKey, CleanupSave, UndoReservation, FinishSave,
      SetEntry, Resident
<1>4. Saving(j)' => Saving(j)
  <2>1. CASE FinishSave(j)
    BY <1>0, <2>1 DEF FinishSave, Saving, IdleJob
  <2>2. CASE ~FinishSave(j)
    BY <1>0, <2>2, StorerSaves
    DEF WriteTmp, WriteFails, Rename, InsertKey, CleanupSave, UndoReservation, Saving
  <2>. QED BY <2>1, <2>2
<1>5. \A v \in Keys : Gone(v) => Gone(v)'
  <2>. SUFFICES ASSUME NEW v \in Keys, Gone(v) PROVE Gone(v)'
    OBVIOUS
  <2>1. ~Resident(v)'
    BY <1>3 DEF Gone, Saving, InsertKey
  <2>2. ASSUME NEW i \in Jobs, job'[i].key = v, Saving(i)' PROVE FALSE
    <3>1. CASE i # j
      BY <1>0, <2>2, <3>1, SavePoint DEF Gone, Saving
    <3>2. CASE i = j
      <4>1. job'[j].key = job[j].key
        BY <1>0, <2>2, <3>2, SavePoint DEF Saving, IdleJob
      <4>. QED BY <1>4, <2>2, <3>2, <4>1 DEF Gone
    <3>. QED BY <3>1, <3>2
  <2>. QED BY <2>1, <2>2 DEF Gone
<1>6. Unlinking'
  BY <1>0, <1>5, SavePoint DEF Unlinking
<1>7. ASSUME NEW k \in Keys, Resident(k)' PROVE <<k, "block_first">> \in disk'
  BY <1>2, <1>3, <1>7 DEF Present, InsertKey
<1>8. ASSUME NEW i \in Jobs, job'[i].pc = "publish" PROVE <<job'[i].key, "block_first">> \in disk'
  <2>1. CASE i # j
    BY <1>0, <1>2, <1>8, <2>1, SavePoint DEF Present
  <2>2. CASE i = j
    <3>1. Rename(j)
      <4>1. CASE FinishSave(j)
        BY <1>0, <1>8, <2>2, <4>1 DEF FinishSave, IdleJob
      <4>2. CASE WriteTmp(j) \/ WriteFails(j) \/ InsertKey(j) \/ CleanupSave(j)
                   \/ UndoReservation(j)
        BY <1>0, <1>8, <2>2, <4>2
        DEF WriteTmp, WriteFails, InsertKey, CleanupSave, UndoReservation, JobStep, OnError,
            JobState
      <4>. QED BY <1>0, <4>1, <4>2, StorerSaves
    <3>2. <<job[j].key, "tmp">> \in disk
      BY <1>0, <1>8, <2>2, <3>1 DEF Rename, JobStep, OnError, JobState
    <3>3. DataFile(job[j].key, "block_first") \in disk' /\ job'[j].key = job[j].key
      BY <1>0, <1>1, <3>1, <3>2 DEF Rename, JobStep, JobState
    <3>. QED BY <2>2, <3>3 DEF DataFile
  <2>. QED BY <2>1, <2>2
<1>. QED BY <1>6, <1>7, <1>8 DEF Present

\* The invariant of the files.
LEMMA FilesStep ==
  ASSUME OneStorer, StorerInv, Unlinking, Present, [Next]_vars
  PROVE  Unlinking' /\ Present'
<1>1. CASE Crash
  <2>1. /\ \A c \in Callers : caller'[c].unlink = <<>>
        /\ \A j \in Jobs : job'[j].pc = "idle"
        /\ \A k \in Keys : ~Resident(k)'
    BY <1>1 DEF Crash, IdleCaller, IdleJob, Resident
  <2>2. \A c \in Callers : Len(caller'[c].unlink) = 0
    BY <2>1
  <2>. QED BY <2>1, <2>2 DEF Unlinking, Present
<1>2. CASE UNCHANGED <<hot_cache, caller, job, disk>>
  <2>1. \A v : Gone(v)' <=> Gone(v)
    BY <1>2 DEF Gone, Resident, Saving
  <2>. QED BY <1>2, <2>1 DEF Unlinking, Present, Resident
<1>3. StorerShape
  BY DEF StorerInv
<1>. QED BY <1>1, <1>2, <1>3, UnlinkingCaller, UnlinkingSave, StorerScans DEF Next, vars, Pin, Unpin

\* With one thread that submits complete chunks under a cap, for any keys, executor slots,
\* crashes and failing deletions: the file of every visible entry is on disk, although
\* evicted files are unlinked outside the lock while other keys are being published.
THEOREM VisibleIsOnDisk == ASSUME OneStorer PROVE Spec => []IndexedIsOnDisk
<1>1. Init => StorerInv /\ Unlinking /\ Present
  <2>1. Init => /\ \A c \in Callers : caller[c].unlink = <<>>
                /\ \A j \in Jobs : job[j].pc = "idle"
                /\ \A k \in Keys : ~Resident(k)
    BY DEF Init, IdleCaller, IdleJob, Resident
  <2>2. Init => \A c \in Callers : Len(caller[c].unlink) = 0
    BY <2>1
  <2>. QED BY <2>1, <2>2, StorerInit DEF Unlinking, Present
<1>2. /\ StorerInv /\ Unlinking /\ Present /\ [Next]_vars
      => (StorerInv /\ Unlinking /\ Present)'
  BY StorerStep, FilesStep
<1>3. StorerInv /\ Present => IndexedIsOnDisk
  <2>. SUFFICES ASSUME StorerInv, Present, NEW k \in Keys, Resident(k)
                PROVE  FilesOf(k) \subseteq disk
    BY DEF IndexedIsOnDisk
  <2>1. hot_cache[k] = "block_first"
    BY DEF StorerInv, StorerShape, TypeOK, Layout, Resident
  <2>2. FilesOf(k) = {<<k, "block_first">>}
    BY <2>1 DEF FilesOf, UnlinkOrder, DataFile
  <2>. QED BY <2>2 DEF Present
<1>. QED BY <1>1, <1>2, <1>3, PTL DEF Spec
-----------------------------------------------------------------------------
(* The counter of one storer is exact: the entry a failed save pops and    *)
(* the entry a save finds in its place, which make the counter drift, are  *)
(* never there, since a key is not in the index while it is being stored.  *)

\* The thread reserves, hands over and evicts byte for byte.
LEMMA ExactCaller ==
  ASSUME OneStorer, StorerInv, TypeOK', ExactAccounting, NEW c \in Callers, CallerStep(c)
  PROVE  ExactAccounting'
<1>0. /\ TypeOK /\ StorerShape
      /\ caller \in [Callers -> CallerState] /\ job \in [Jobs -> JobState]
      /\ current_cache_size \in Int
      /\ Total(IndexedBytes) \in Nat /\ Total(CallerBytes) \in Nat /\ Total(JobBytes) \in Nat
  BY ChargeTypes DEF StorerInv, TypeOK
<1>1. caller[c].key \in Keys /\ Required(caller[c].key) \in Nat
  BY <1>0, SizeType DEF CallerState
<1>2. Total(CallerBytes)' = Total(CallerBytes) - CallerBytes[c] + CallerBytes'[c]
  BY <1>0, CallerFrame, CallerChange
<1>3. ASSUME Total(CallerBytes)' = Total(CallerBytes),
             UNCHANGED <<hot_cache, current_cache_size, job>>
      PROVE  ExactAccounting'
  BY <1>0, <1>3, Unchanged DEF ExactAccounting, Charged
<1>4. CASE \/ Lookup(c) \/ RemovePutTask(c) \/ InsertPutTask(c) \/ BeginEviction(c)
           \/ EvictionFails(c) \/ \E k \in Keys : SubmitPutTask(c, k)
  <2>1. caller[c].pc # "spawn"
    BY <1>4 DEF Lookup, RemovePutTask, InsertPutTask, BeginEviction, EvictionFails,
       SubmitPutTask, At
  <2>2. caller'[c].pc # "spawn"
    <3>1. CASE \E k \in Keys : SubmitPutTask(c, k)
      BY <1>0, <3>1 DEF SubmitPutTask, CallerState
    <3>. QED BY <1>0, <1>4, <3>1, GotoPoint, NextKeyPoint
         DEF Lookup, RemovePutTask, InsertPutTask, BeginEviction, EvictionFails
  <2>3. UNCHANGED <<hot_cache, current_cache_size, job>>
    BY <1>4 DEF Lookup, RemovePutTask, InsertPutTask, BeginEviction, EvictionFails,
       SubmitPutTask
  <2>. QED BY <1>0, <1>3, <2>1, <2>2, <2>3, CallerCharge
<1>5. CASE Unlink(c)
  <2>1. UNCHANGED <<hot_cache, current_cache_size, job>>
    BY <1>5 DEF Unlink
  <2>. QED BY <1>0, <1>3, <1>5, <2>1, UnlinkPoint, CallerCharge
<1>6. ASSUME NEW v \in Keys, EvictOne(c, v) PROVE ExactAccounting'
  <2>1. /\ hot_cache' = [hot_cache EXCEPT ![v] = "absent"] /\ job' = job
        /\ current_cache_size' = current_cache_size - EntrySize(v)
    BY <1>6 DEF EvictOne, PopAndCredit
  <2>2. Total(CallerBytes)' = Total(CallerBytes)
    BY <1>0, <1>6, UnlinkPoint, CallerCharge
  <2>3. Total(IndexedBytes)' = Total(IndexedBytes) - EntrySize(v)
          + (IF "absent" = "absent" THEN 0 ELSE SizeOf(v, "absent"))
    BY <1>0, <2>1, IndexChange
  <2>4. EntrySize(v) \in Nat /\ Total(JobBytes)' = Total(JobBytes)
    BY <2>1, SizeType, Unchanged
  <2>. QED BY <1>0, <2>1, <2>2, <2>3, <2>4 DEF ExactAccounting, Charged
<1>7. CASE ReserveEvicted(c)
  <2>1. caller[c].pc = "evict" /\ caller'[c].pc = "spawn" /\ caller'[c].key = caller[c].key
    BY <1>0, <1>7, GotoPoint DEF ReserveEvicted
  <2>2. CallerBytes[c] = 0 /\ CallerBytes'[c] = Required(caller[c].key)
    BY <2>1 DEF CallerBytes
  <2>3. /\ Total(IndexedBytes)' = Total(IndexedBytes)
        /\ Total(JobBytes)' = Total(JobBytes)
        /\ current_cache_size' = current_cache_size + Required(caller[c].key)
    BY <1>7, Unchanged DEF ReserveEvicted
  <2>. QED BY <1>0, <1>1, <1>2, <2>2, <2>3 DEF ExactAccounting, Charged
<1>8. ASSUME NEW j \in Jobs, Spawn(c, j) PROVE ExactAccounting'
  <2>1. caller[c].pc = "spawn" /\ caller'[c].pc # "spawn"
    BY <1>0, <1>8, SpawnPoint DEF Spawn, At
  <2>2. CallerBytes[c] = Required(caller[c].key) /\ CallerBytes'[c] = 0
    BY <2>1 DEF CallerBytes
  <2>3. /\ job[j].pc = "idle" /\ job'[j].pc = "write" /\ job'[j].key = caller[c].key
        /\ \A i \in Jobs \ {j} : job'[i] = job[i]
    BY <1>0, <1>8 DEF Spawn
  <2>4. JobBytes[j] = 0 /\ JobBytes'[j] = Required(caller[c].key)
    BY <2>3 DEF JobBytes, Reserving, JobPC
  <2>5. Total(JobBytes)' = Total(JobBytes) - JobBytes[j] + JobBytes'[j]
    BY <1>0, <2>3, JobChange
  <2>6. /\ Total(IndexedBytes)' = Total(IndexedBytes)
        /\ current_cache_size' = current_cache_size
    BY <1>8, Unchanged DEF Spawn
  <2>. QED BY <1>0, <1>1, <1>2, <2>2, <2>4, <2>5, <2>6 DEF ExactAccounting, Charged
<1>. QED BY <1>0, <1>4, <1>5, <1>6, <1>7, <1>8, StorerSteps

\* A save turns its reservation into an entry, or gives it back.
LEMMA ExactSave ==
  ASSUME StorerInv, TypeOK', ExactAccounting, NEW j \in Jobs, SaveStep(j)
  PROVE  ExactAccounting'
<1>. DEFINE k == job[j].key
<1>0. /\ TypeOK /\ StorerShape /\ Fresh
      /\ job \in [Jobs -> JobState] /\ current_cache_size \in Int
      /\ Total(IndexedBytes) \in Nat /\ Total(CallerBytes) \in Nat /\ Total(JobBytes) \in Nat
      /\ JobBytes[j] \in Nat
  BY ChargeTypes DEF StorerInv, TypeOK
<1>1. k \in Keys /\ Required(k) \in Nat
  BY <1>0, SizeType DEF JobState
<1>2. /\ Total(CallerBytes)' = Total(CallerBytes)
      /\ Total(JobBytes)' = Total(JobBytes) - JobBytes[j] + JobBytes'[j]
  BY <1>0, SavePoint, Unchanged, JobChange
<1>3. CASE WriteTmp(j) \/ WriteFails(j) \/ Rename(j) \/ CleanupSave(j)
  <2>1. job[j].pc \in Reserving
    BY <1>3 DEF WriteTmp, WriteFails, Rename, CleanupSave, Reserving, JobPC
  <2>2. job'[j].pc \in Reserving /\ job'[j].key = k
    BY <1>0, <1>3 DEF WriteTmp, WriteFails, Rename, CleanupSave, JobStep, OnError,
       Reserving, JobPC, JobState
  <2>3. JobBytes'[j] = JobBytes[j]
    BY <2>1, <2>2 DEF JobBytes
  <2>4. UNCHANGED <<hot_cache, current_cache_size>>
    BY <1>3 DEF WriteTmp, WriteFails, Rename, CleanupSave
  <2>. QED BY <1>0, <1>2, <2>3, <2>4, Unchanged DEF ExactAccounting, Charged
<1>4. CASE InsertKey(j) \/ UndoReservation(j)
  <2>1. job[j].pc \in {"publish", "undo"} /\ job'[j].pc = "finish"
    BY <1>0, <1>4 DEF InsertKey, UndoReservation, JobStep, JobState
  <2>2. JobBytes[j] = Required(k) /\ JobBytes'[j] = 0
    BY <2>1 DEF JobBytes, Reserving, JobPC
  <2>3. ~Resident(k) /\ EntrySize(k) = 0
    BY <1>0, <2>1 DEF Fresh, Saving, EntrySize, Resident
  <2>4. CASE InsertKey(j)
    <3>1. /\ hot_cache' = [hot_cache EXCEPT ![k] = LayoutOf(k)]
          /\ current_cache_size' = current_cache_size
      BY <2>3, <2>4 DEF InsertKey, SetEntry
    <3>2. LayoutOf(k) \in Layout /\ LayoutOf(k) # "absent"
      BY DEF LayoutOf, Layout
    <3>. HIDE DEF k
    <3>3. Total(IndexedBytes)' = Total(IndexedBytes) - EntrySize(k)
            + (IF LayoutOf(k) = "absent" THEN 0 ELSE SizeOf(k, LayoutOf(k)))
      BY <1>0, <1>1, <3>1, <3>2, IndexChange
    <3>4. Total(IndexedBytes)' = Total(IndexedBytes) + Required(k)
      BY <1>0, <1>1, <2>3, <3>2, <3>3 DEF Required
    <3>. QED BY <1>0, <1>1, <1>2, <2>2, <3>1, <3>4 DEF ExactAccounting, Charged
  <2>5. CASE UndoReservation(j)
    <3>1. /\ current_cache_size' = current_cache_size - Required(k)
          /\ hot_cache' = [hot_cache EXCEPT ![k] = "absent"]
      BY <2>5 DEF UndoReservation, SetEntry
    <3>. HIDE DEF k
    <3>2. Total(IndexedBytes)' = Total(IndexedBytes) - EntrySize(k)
            + (IF "absent" = "absent" THEN 0 ELSE SizeOf(k, "absent"))
      BY <1>0, <1>1, <3>1, IndexChange
    <3>. QED BY <1>0, <1>1, <1>2, <2>2, <2>3, <3>1, <3>2 DEF ExactAccounting, Charged
  <2>. QED BY <1>4, <2>4, <2>5
<1>5. CASE FinishSave(j)
  <2>1. job[j].pc = "finish" /\ job'[j].pc = "idle"
    BY <1>0, <1>5 DEF FinishSave, IdleJob
  <2>2. JobBytes[j] = 0 /\ JobBytes'[j] = 0
    BY <2>1 DEF JobBytes, Reserving, JobPC
  <2>3. UNCHANGED <<hot_cache, current_cache_size>>
    BY <1>5 DEF FinishSave
  <2>. QED BY <1>0, <1>2, <2>2, <2>3, Unchanged DEF ExactAccounting, Charged
<1>. QED BY <1>0, <1>3, <1>4, <1>5, StorerSaves

\* With one thread that submits complete chunks under a cap, for any keys, sizes, executor
\* slots, failing saves and crashes: the counter is exactly the bytes indexed and reserved,
\* so that no capacity is lost however long the process runs.
THEOREM CounterExact == ASSUME OneStorer PROVE Spec => []ExactAccounting
<1>1. Init => StorerInv /\ ExactAccounting
  BY StorerInit, NothingCharged DEF Init, ExactAccounting
<1>2. StorerInv /\ ExactAccounting /\ [Next]_vars => (StorerInv /\ ExactAccounting)'
  <2>. SUFFICES ASSUME StorerInv, ExactAccounting, [Next]_vars
                PROVE  (StorerInv /\ ExactAccounting)'
    OBVIOUS
  <2>1. StorerInv' /\ TypeOK' /\ StorerShape
    BY StorerStep DEF StorerInv
  <2>2. CASE \E c \in Callers : CallerStep(c)
    BY <2>1, <2>2, ExactCaller
  <2>3. CASE \E j \in Jobs : SaveStep(j)
    BY <2>1, <2>3, ExactSave
  <2>4. CASE Crash
    BY <2>1, <2>4, NothingCharged DEF Crash, ExactAccounting
  <2>5. CASE UNCHANGED <<hot_cache, current_cache_size, caller, job>>
    BY <2>1, <2>5, Unchanged DEF ExactAccounting, Charged
  <2>. QED BY <2>1, <2>2, <2>3, <2>4, <2>5, StorerScans DEF Next, vars, Pin, Unpin
<1>. QED BY <1>1, <1>2, PTL DEF Spec
-----------------------------------------------------------------------------
(* Sidecars.  One thread submits, any number store directly and load, and  *)
(* nothing is evicted or removed.  Chunks with a sidecar are stored by the *)
(* submitting thread alone, one store of a key at a time; the sidecars a   *)
(* direct store drops are of keys nobody writes a sidecar for.             *)

OneSubmitter ==
  /\ ~Eviction /\ ~UnlinksFail
  /\ \A c \in Callers : "remove" \notin Role[c]
  /\ \A c, d \in Callers : "submit" \in Role[c] /\ "submit" \in Role[d] => c = d

OneLegacy ==
  /\ \A c \in Callers, j \in Jobs :
       Storing(c) /\ Active(j) /\ job[j].key = caller[c].key => caller[c].key \in BlockFirst
  /\ \A i, j \in Jobs :
       Active(i) /\ Active(j) /\ job[i].key = job[j].key => i = j \/ job[i].key \in BlockFirst

Submitting ==
  \A c \in Callers :
    /\ Storing(c) => "submit" \in Role[c] \/ caller[c].key \in BlockFirst
    /\ caller[c].pc \in {"drop", "check"} => caller[c].key \in BlockFirst
    /\ caller[c].pc # "evict"

\* What a caller is about, step by step.
LEMMA SubmittingStep ==
  ASSUME OneSubmitter, TypeOK, Submitting, [Next]_vars
  PROVE  Submitting'
<1>0. caller \in [Callers -> CallerState]
  BY DEF TypeOK
<1>1. ASSUME NEW c \in Callers, CallerStep(c) PROVE Submitting'
  <2>1. /\ Storing(c)' => "submit" \in Role[c] \/ caller'[c].key \in BlockFirst
        /\ caller'[c].pc \in {"drop", "check"} => caller'[c].key \in BlockFirst
        /\ caller'[c].pc # "evict"
    <3>1. CASE \E k \in Keys : SubmitPutTask(c, k)
      BY <1>0, <3>1 DEF SubmitPutTask, CallerState
    <3>2. CASE \E k \in Keys : DirectPut(c, k)
      BY <1>0, <3>2 DEF DirectPut, CallerState
    <3>3. CASE \E k \in Keys : GetBlocking(c, k)
      BY <1>0, <3>3 DEF GetBlocking, CallerState, Storing, Registered
    <3>4. CASE BeginEviction(c) \/ EvictionStep(c) \/ \E k \in Keys : Remove(c, k)
      BY <1>0, <3>4 DEF OneSubmitter, Submitting, Remove, BeginEviction, EvictionStep,
         ReserveEvicted, EvictionFails, EvictOne
    <3>5. CASE Unlink(c)
      BY <3>5, UnlinkPoint DEF Submitting, Storing, Registered
    <3>6. CASE NextKey(c) \/ \E j \in Jobs : Spawn(c, j)
      BY <3>6, NextKeyPoint, SpawnPoint DEF Storing, Registered
    <3>7. CASE FinishDirectJob(c)
      BY <1>0, <3>7 DEF FinishDirectJob, IdleCaller, Storing, Registered
    <3>8. CASE /\ \E pc \in {"register", "reserve", "spawn"} : Goto(c, pc)
               /\ Storing(c) \/ caller[c].pc = "check"
      BY <3>8, GotoPoint DEF Submitting
    <3>9. CASE \E pc \in {"collect", "discard", "read"} : Goto(c, pc)
      BY <3>9, GotoPoint DEF Storing, Registered
    <3>10. CASE ReadCounter(c)
      <4>1. caller'[c].pc = "add" /\ caller'[c].key = caller[c].key /\ Storing(c)
        BY <1>0, <3>10 DEF ReadCounter, CallerState, At, Storing, Registered
      <4>. QED BY <4>1 DEF Submitting
    <3>11. CASE DropLegacy(c)
      <4>1. caller'[c].pc = "check" /\ caller'[c].key = caller[c].key /\ caller[c].pc = "drop"
        BY <1>0, <3>11, GotoPoint DEF DropLegacy, CallerState, At
      <4>. QED BY <4>1 DEF Submitting, Storing, Registered
    <3>12. \/ Lookup(c) \/ CheckPutTasks(c) \/ InsertPutTask(c) \/ WriteCounter(c)
           \/ ReserveDirectSize(c)
           => \/ NextKey(c)
              \/ /\ \E pc \in {"register", "reserve", "spawn"} : Goto(c, pc)
                 /\ Storing(c) \/ caller[c].pc = "check"
      BY DEF Lookup, CheckPutTasks, InsertPutTask, WriteCounter, ReserveDirectSize, At,
             Storing, Registered
    <3>13. \/ InsertDirectKey(c) \/ RollbackDirectStore(c) \/ RemovePutTask(c) \/ LoadLookup(c)
           \/ ReadFile(c) \/ DiscardEntry(c)
           => NextKey(c) \/ \E pc \in {"collect", "discard", "read"} : Goto(c, pc)
      BY DEF InsertDirectKey, RollbackDirectStore, RemovePutTask, LoadLookup, ReadFile,
             DiscardEntry
    <3>. QED BY <1>1, <3>1, <3>2, <3>3, <3>4, <3>5, <3>6, <3>7, <3>8, <3>9, <3>10, <3>11,
                <3>12, <3>13 DEF CallerStep
  <2>2. \A d \in Callers \ {c} : Storing(d)' <=> Storing(d)
    BY <1>1, CallerFrame DEF Storing, Registered
  <2>. QED BY <1>1, <2>1, <2>2, CallerFrame DEF Submitting
<1>2. CASE Crash
  <2>1. \A c \in Callers : caller'[c].pc = "idle"
    BY <1>2 DEF Crash, IdleCaller
  <2>. QED BY <2>1 DEF Submitting, Storing, Registered
<1>3. CASE caller' = caller
  BY <1>3 DEF Submitting, Storing, Registered
<1>4. ASSUME NEW j \in Jobs, SaveStep(j) PROVE caller' = caller
  BY <1>4, SavePoint
<1>. QED BY <1>1, <1>2, <1>3, <1>4
     DEF Next, vars, Pin, Unpin, ScanStep, ReadMetadata, ScanSkips, IndexScanned

\* The look at put_tasks keeps two stores of a chunk with a sidecar apart.
LEMMA OneLegacyStep ==
  ASSUME OneSubmitter, TypeOK, PutTasksMatch, Submitting, OneLegacy, [Next]_vars
  PROVE  OneLegacy'
<1>0. caller \in [Callers -> CallerState] /\ job \in [Jobs -> JobState]
  BY DEF TypeOK
<1>1. ASSUME NEW c \in Callers, CallerStep(c) PROVE OneLegacy'
  <2>0. \A d \in Callers \ {c} : caller'[d] = caller[d] /\ (Storing(d)' <=> Storing(d))
    BY <1>1, CallerFrame DEF Storing, Registered
  <2>1. ASSUME NEW j \in Jobs, Storing(c)', Active(j)', job'[j].key = caller'[c].key,
               Active(j) /\ job'[j].key = job[j].key
        PROVE  caller'[c].key \in BlockFirst
    BY <1>1, <2>1, StoringFrom, NotListed DEF OneLegacy
  <2>2. CASE \A j \in Jobs : Active(j)' => Active(j) /\ job'[j].key = job[j].key
    <3>1. ASSUME NEW d \in Callers, NEW j \in Jobs, Storing(d)', Active(j)',
                 job'[j].key = caller'[d].key
          PROVE  caller'[d].key \in BlockFirst
      BY <2>0, <2>1, <2>2, <3>1 DEF OneLegacy
    <3>. QED BY <2>2, <3>1 DEF OneLegacy
  <2>3. CASE \E j \in Jobs :
               /\ caller[c].pc = "spawn" /\ ~Storing(c)' /\ job'[j].key = caller[c].key
               /\ ~Active(j) /\ \A i \in Jobs \ {j} : job'[i] = job[i]
    <3>. PICK j \in Jobs :
               /\ caller[c].pc = "spawn" /\ ~Storing(c)' /\ job'[j].key = caller[c].key
               /\ ~Active(j) /\ \A i \in Jobs \ {j} : job'[i] = job[i]
      BY <2>3
    <3>1. Storing(c)
      BY DEF Storing, Registered
    <3>2. \A i \in Jobs \ {j} : Active(i)' <=> Active(i)
      BY DEF Active
    <3>3. \A i \in Jobs \ {j} :
            Active(i) /\ job[i].key = caller[c].key => caller[c].key \in BlockFirst
      BY <3>1 DEF OneLegacy
    <3>4. \A d \in Callers \ {c} :
            Storing(d) /\ caller[d].key = caller[c].key => caller[c].key \in BlockFirst
      BY <3>1 DEF Submitting, OneSubmitter
    <3>5. ASSUME NEW d \in Callers, NEW i \in Jobs, Storing(d)', Active(i)',
                 job'[i].key = caller'[d].key
          PROVE  caller'[d].key \in BlockFirst
      BY <2>0, <3>2, <3>4, <3>5 DEF OneLegacy
    <3>6. ASSUME NEW h \in Jobs, NEW i \in Jobs, Active(h)', Active(i)',
                 job'[h].key = job'[i].key
          PROVE  h = i \/ job'[h].key \in BlockFirst
      BY <3>2, <3>3, <3>6 DEF OneLegacy
    <3>. QED BY <3>5, <3>6 DEF OneLegacy
  <2>. QED BY <1>1, <2>2, <2>3, ActiveFrom
<1>2. ASSUME NEW j \in Jobs, SaveStep(j) PROVE OneLegacy'
  <2>1. /\ caller' = caller
        /\ \A i \in Jobs : Active(i)' => Active(i) /\ job'[i].key = job[i].key
    <3>1. Active(j)
      BY <1>2 DEF SaveStep, WriteTmp, WriteFails, Rename, SaveMetadata, InsertKey,
         CleanupSave, CleanupData, UndoReservation, FinishSave, Active
    <3>2. IdleJob.pc = "idle"
      BY DEF IdleJob
    <3>. QED BY <1>2, <3>1, <3>2, SavePoint DEF Active
  <2>. QED BY <2>1 DEF OneLegacy, Storing, Registered
<1>3. CASE Crash
  <2>1. \A j \in Jobs : ~Active(j)'
    BY <1>3 DEF Crash, Active, IdleJob
  <2>. QED BY <2>1 DEF OneLegacy
<1>4. ASSUME ~Crash, ~(\E c \in Callers : CallerStep(c)), ~(\E j \in Jobs : SaveStep(j))
      PROVE  UNCHANGED <<caller, job>>
  BY <1>4 DEF Next, vars, Pin, Unpin, ScanStep, ReadMetadata, ScanSkips, IndexScanned
<1>5. CASE UNCHANGED <<caller, job>>
  BY <1>5 DEF OneLegacy, Storing, Registered, Active
<1>. QED BY <1>1, <1>2, <1>3, <1>4, <1>5

\* A sidecar is written over data that is there, and data is wiped after its sidecar.
SidecarJobs ==
  \A j \in Jobs :
    /\ job[j].pc = "sidecar" => job[j].key \notin BlockFirst /\ <<job[j].key, "data">> \in disk
    /\ job[j].pc = "wipe" => job[j].key \notin BlockFirst /\ <<job[j].key, "metadata">> \notin disk

\* What is left to unlink of a dropped chunk: its data alone only once the sidecar is gone.
Dropped(v, u) ==
  \/ u = <<<<v, "block_first">>>>
  \/ u = <<<<v, "metadata">>, <<v, "data">>>>
  \/ u = <<<<v, "data">>>> /\ <<v, "metadata">> \notin disk

DropsOrdered ==
  \A c \in Callers : caller[c].unlink = <<>> \/ \E v \in BlockFirst : Dropped(v, caller[c].unlink)

SidecarInv ==
  /\ TypeOK /\ PutTasksMatch /\ Submitting /\ OneLegacy
  /\ SidecarJobs /\ DropsOrdered /\ SidecarHasData

\* A step that leaves sidecars and data alone keeps what the files promise.
LEMMA SidecarFrame ==
  ASSUME SidecarInv, SidecarJobs',
         \A k \in Keys : /\ <<k, "metadata">> \in disk' => <<k, "metadata">> \in disk
                         /\ <<k, "data">> \in disk => <<k, "data">> \in disk',
         \A c \in Callers : caller'[c].unlink = caller[c].unlink \/ caller'[c].unlink = <<>>
                              \/ \E v \in BlockFirst : Dropped(v, caller'[c].unlink)
  PROVE  SidecarJobs' /\ DropsOrdered' /\ SidecarHasData'
<1>1. \A u : \A v \in BlockFirst : Dropped(v, u) => Dropped(v, u)'
  BY DEF Dropped
<1>2. DropsOrdered'
  BY <1>1 DEF DropsOrdered, SidecarInv
<1>. QED BY <1>2 DEF SidecarHasData, SidecarInv

\* The order in which a dropped chunk is unlinked.
LEMMA SidecarUnlink ==
  ASSUME OneSubmitter, SidecarInv, NEW c \in Callers, Unlink(c)
  PROVE  SidecarJobs' /\ DropsOrdered' /\ SidecarHasData'
<1>0. /\ caller \in [Callers -> CallerState] /\ job' = job /\ caller[c].unlink # <<>>
      /\ caller' = [caller EXCEPT ![c].unlink = Tail(@)]
      /\ disk' = disk \ {Head(caller[c].unlink)}
      /\ SidecarJobs /\ DropsOrdered /\ SidecarHasData
  BY DEF SidecarInv, TypeOK, Unlink, Delete, OneSubmitter
<1>1. PICK v \in BlockFirst : Dropped(v, caller[c].unlink)
  BY <1>0 DEF DropsOrdered
<1>2. \A d \in Callers \ {c} : caller'[d] = caller[d]
  BY <1>0
<1>3. caller'[c].unlink = Tail(caller[c].unlink)
  BY <1>0 DEF CallerState
<1>4. \A u : \A x \in BlockFirst : Dropped(x, u) => Dropped(x, u)'
  BY <1>0 DEF Dropped
<1>5. CASE caller[c].unlink = <<<<v, "block_first">>>>
  <2>1. Head(caller[c].unlink) = <<v, "block_first">> /\ caller'[c].unlink = <<>>
    BY <1>3, <1>5
  <2>2. SidecarJobs' /\ SidecarHasData'
    BY <1>0, <2>1 DEF SidecarJobs, SidecarHasData
  <2>. QED BY <1>0, <1>2, <1>4, <2>1, <2>2 DEF DropsOrdered
<1>6. CASE caller[c].unlink = <<<<v, "metadata">>, <<v, "data">>>>
  <2>1. Head(caller[c].unlink) = <<v, "metadata">> /\ caller'[c].unlink = <<<<v, "data">>>>
    BY <1>3, <1>6
  <2>2. SidecarJobs' /\ SidecarHasData'
    BY <1>0, <2>1 DEF SidecarJobs, SidecarHasData
  <2>3. Dropped(v, caller[c].unlink)'
    BY <1>0, <2>1 DEF Dropped
  <2>. QED BY <1>0, <1>2, <1>4, <2>2, <2>3 DEF DropsOrdered
<1>7. CASE caller[c].unlink = <<<<v, "data">>>> /\ <<v, "metadata">> \notin disk
  <2>1. Head(caller[c].unlink) = <<v, "data">> /\ caller'[c].unlink = <<>>
    BY <1>3, <1>7
  <2>2. SidecarHasData'
    <3>1. ASSUME NEW k \in Keys, <<k, "metadata">> \in disk' PROVE <<k, "data">> \in disk'
      <4>1. disk' = disk \ {<<v, "data">>}
        BY <1>0, <2>1
      <4>2. <<k, "metadata">> \in disk /\ k # v
        BY <1>7, <3>1, <4>1
      <4>3. <<k, "data">> \in disk /\ <<k, "data">> # <<v, "data">>
        BY <1>0, <4>2 DEF SidecarHasData
      <4>. QED BY <4>1, <4>3
    <3>. QED BY <3>1 DEF SidecarHasData
  <2>3. SidecarJobs'
    BY <1>0, <1>1, <2>1 DEF SidecarJobs
  <2>. QED BY <1>0, <1>2, <1>4, <2>1, <2>2, <2>3 DEF DropsOrdered
<1>. QED BY <1>1, <1>5, <1>6, <1>7 DEF Dropped

\* A calling thread's other steps touch no file, and drop chunks that are stored
\* block-first from then on.
LEMMA SidecarCaller ==
  ASSUME OneSubmitter, SidecarInv, NEW c \in Callers, CallerStep(c)
  PROVE  SidecarJobs' /\ DropsOrdered' /\ SidecarHasData'
<1>0. /\ TypeOK /\ caller \in [Callers -> CallerState] /\ job \in [Jobs -> JobState]
      /\ SidecarJobs /\ Submitting
  BY DEF SidecarInv, TypeOK
<1>1. CASE ~Unlink(c)
  <2>1. disk' = disk
    BY <1>1 DEF CallerStep, SubmitPutTask, DirectPut, Remove, GetBlocking, Lookup, InsertPutTask,
       BeginEviction, EvictionStep, ReserveEvicted, EvictionFails, EvictOne, ReadCounter,
       WriteCounter, ReserveDirectSize, RemovePutTask, Spawn, DropLegacy, CheckPutTasks,
       InsertDirectKey, RollbackDirectStore, FinishDirectJob, LoadLookup, ReadFile, DiscardEntry
  <2>2. \A j \in Jobs : job'[j].pc \in {"sidecar", "wipe"} => job'[j] = job[j]
    <3>1. CASE \E j \in Jobs : Spawn(c, j)
      BY <1>0, <3>1 DEF Spawn
    <3>2. CASE InsertDirectKey(c) \/ RollbackDirectStore(c)
      <4>1. job' = [job EXCEPT ![Oldest(c)].pc = "finish"]
        BY <3>2 DEF InsertDirectKey, RollbackDirectStore
      <4>. QED BY <1>0, <4>1 DEF JobState
    <3>3. CASE FinishDirectJob(c)
      BY <1>0, <3>3 DEF FinishDirectJob, IdleJob
    <3>4. CASE job' = job
      BY <3>4
    <3>. QED BY <1>1, <3>1, <3>2, <3>3, <3>4
         DEF CallerStep, SubmitPutTask, DirectPut, Remove, GetBlocking, Lookup, InsertPutTask,
             BeginEviction, EvictionStep, ReserveEvicted, EvictionFails, EvictOne, ReadCounter,
             WriteCounter, ReserveDirectSize, RemovePutTask, DropLegacy, CheckPutTasks,
             LoadLookup, ReadFile, DiscardEntry
  <2>3. SidecarJobs'
    BY <1>0, <2>1, <2>2 DEF SidecarJobs
  <2>4. \/ caller'[c].unlink = caller[c].unlink \/ caller'[c].unlink = <<>>
        \/ \E v \in BlockFirst : Dropped(v, caller'[c].unlink)
    <3>1. CASE DropLegacy(c)
      <4>. DEFINE k == caller[c].key
      <4>1. k \in BlockFirst
        BY <1>0, <3>1 DEF DropLegacy, At, Submitting
      <4>2. CASE Resident(k)
        <5>1. caller'[c].unlink = UnlinkOrder(k, hot_cache[k])
          BY <1>0, <3>1, <4>2 DEF DropLegacy, CallerState
        <5>2. Dropped(k, UnlinkOrder(k, hot_cache[k]))
          BY DEF Dropped, UnlinkOrder, DataFile
        <5>. QED BY <4>1, <5>1, <5>2
      <4>3. CASE ~Resident(k)
        BY <1>0, <3>1, <4>3 DEF DropLegacy, Goto, CallerState
      <4>. QED BY <4>2, <4>3
    <3>2. CASE NextKey(c)
      BY <1>0, <3>2 DEF NextKey, IdleCaller
    <3>3. CASE \E pc : Goto(c, pc)
      BY <1>0, <3>3 DEF Goto, CallerState
    <3>4. CASE \E k \in Keys : SubmitPutTask(c, k) \/ DirectPut(c, k) \/ GetBlocking(c, k)
      BY <1>0, <3>4 DEF SubmitPutTask, DirectPut, GetBlocking, CallerState
    <3>5. CASE ReadCounter(c)
      BY <1>0, <3>5 DEF ReadCounter, CallerState
    <3>6. CASE FinishDirectJob(c)
      BY <1>0, <3>6 DEF FinishDirectJob, IdleCaller
    <3>7. CASE \E j \in Jobs : Spawn(c, j)
      <4>1. CASE caller[c].direct
        <5>1. \E b : caller' = [caller EXCEPT ![c] = [IdleCaller EXCEPT !.pc = "batch", !.batch = b]]
          BY <3>7, <4>1 DEF Spawn
        <5>2. caller'[c].unlink = IdleCaller.unlink
          BY <1>0, <5>1 DEF IdleCaller
        <5>. QED BY <5>2 DEF IdleCaller
      <4>. QED BY <3>2, <3>7, <4>1 DEF Spawn
    <3>8. CASE EvictionStep(c) \/ \E k \in Keys : Remove(c, k)
      BY <1>0, <3>8 DEF OneSubmitter, Submitting, Remove, EvictionStep, ReserveEvicted,
         EvictionFails, EvictOne
    <3>. QED BY <1>1, <3>1, <3>2, <3>3, <3>4, <3>5, <3>6, <3>7, <3>8
         DEF CallerStep, Lookup, InsertPutTask, BeginEviction, WriteCounter, ReserveDirectSize,
             RemovePutTask, CheckPutTasks, InsertDirectKey, RollbackDirectStore, LoadLookup,
             ReadFile, DiscardEntry
  <2>. QED BY <1>0, <2>1, <2>3, <2>4, CallerFrame, SidecarFrame
<1>. QED BY <1>1, SidecarUnlink

\* A save writes data before its sidecar, and its rollback takes them away the other way
\* round, while no other save of the key is at work.
LEMMA SidecarSave ==
  ASSUME OneSubmitter, SidecarInv, NEW j \in Jobs, SaveStep(j)
  PROVE  SidecarJobs' /\ DropsOrdered' /\ SidecarHasData'
<1>. DEFINE k == job[j].key
<1>0. /\ TypeOK /\ job \in [Jobs -> JobState] /\ k \in Keys
      /\ SidecarJobs /\ OneLegacy /\ DropsOrdered /\ SidecarHasData
      /\ caller' = caller /\ \A i \in Jobs \ {j} : job'[i] = job[i]
  BY SavePoint DEF SidecarInv, TypeOK, JobState
<1>1. \A F : Delete(F) => disk' = disk \ F
  BY DEF OneSubmitter, Delete
<1>2. \A i \in Jobs \ {j} :
        job[i].pc \in {"sidecar", "wipe"} /\ Active(j) => job[i].key # k
  BY <1>0 DEF SidecarJobs, OneLegacy, Active
<1>3. CASE WriteTmp(j) \/ WriteFails(j) \/ InsertKey(j) \/ UndoReservation(j)
  <2>1. \A x \in Keys : /\ <<x, "metadata">> \in disk' <=> <<x, "metadata">> \in disk
                        /\ <<x, "data">> \in disk' <=> <<x, "data">> \in disk
    BY <1>1, <1>3 DEF WriteTmp, WriteFails, InsertKey, UndoReservation
  <2>2. job'[j].pc \notin {"sidecar", "wipe"}
    BY <1>0, <1>3 DEF WriteTmp, WriteFails, InsertKey, UndoReservation, JobStep, OnError, JobState
  <2>3. SidecarJobs'
    <3>1. \A i \in Jobs : job[i].key \in Keys
      BY <1>0 DEF JobState
    <3>. QED BY <1>0, <2>1, <2>2, <3>1 DEF SidecarJobs
  <2>. QED BY <1>0, <2>1, <2>3, SidecarFrame
<1>4. CASE FinishSave(j)
  <2>1. disk' = disk /\ job'[j].pc = "idle"
    BY <1>0, <1>4 DEF FinishSave, IdleJob
  <2>2. SidecarJobs'
    BY <1>0, <2>1 DEF SidecarJobs
  <2>. QED BY <1>0, <2>1, <2>2, SidecarFrame
<1>5. CASE Rename(j)
  <2>1. CASE <<k, "tmp">> \in disk
    <3>1. disk' = (disk \ {<<k, "tmp">>}) \cup {DataFile(k, LayoutOf(k))}
      BY <1>5, <2>1 DEF Rename
    <3>2. \A x \in Keys : /\ <<x, "metadata">> \in disk' <=> <<x, "metadata">> \in disk
                          /\ <<x, "data">> \in disk => <<x, "data">> \in disk'
      BY <3>1 DEF DataFile
    <3>3. /\ job'[j].key = k /\ job'[j].pc # "wipe"
          /\ job'[j].pc = "sidecar" => LayoutOf(k) = "legacy"
      BY <1>0, <1>5, <2>1 DEF Rename, JobStep, JobState
    <3>4. LayoutOf(k) = "legacy" => k \notin BlockFirst /\ <<k, "data">> \in disk'
      BY <3>1 DEF LayoutOf, DataFile
    <3>5. SidecarJobs'
      <4>1. \A i \in Jobs : job[i].key \in Keys
        BY <1>0 DEF JobState
      <4>. QED BY <1>0, <3>2, <3>3, <3>4, <4>1 DEF SidecarJobs
    <3>. QED BY <1>0, <3>2, <3>5, SidecarFrame
  <2>2. CASE <<k, "tmp">> \notin disk
    <3>1. disk' = disk /\ job'[j].pc \notin {"sidecar", "wipe"}
      BY <1>0, <1>5, <2>2 DEF Rename, JobStep, OnError, JobState
    <3>2. SidecarJobs'
      BY <1>0, <3>1 DEF SidecarJobs
    <3>. QED BY <1>0, <3>1, <3>2, SidecarFrame
  <2>. QED BY <2>1, <2>2
<1>6. CASE SaveMetadata(j)
  <2>1. /\ k \notin BlockFirst /\ <<k, "data">> \in disk /\ Active(j)
        /\ disk \subseteq disk' /\ disk' \subseteq disk \cup {<<k, "metadata">>}
    BY <1>0, <1>6 DEF SaveMetadata, SidecarJobs, Active
  <2>2. job'[j].pc \notin {"sidecar", "wipe"}
    BY <1>0, <1>6 DEF SaveMetadata, JobStep, JobState
  <2>3. SidecarJobs'
    BY <1>0, <1>2, <2>1, <2>2 DEF SidecarJobs
  <2>4. \A u : \A v \in BlockFirst : Dropped(v, u) => Dropped(v, u)'
    BY <2>1 DEF Dropped
  <2>5. DropsOrdered'
    BY <1>0, <2>4 DEF DropsOrdered
  <2>6. SidecarHasData'
    BY <1>0, <2>1 DEF SidecarHasData
  <2>. QED BY <2>3, <2>5, <2>6
<1>7. CASE CleanupSave(j)
  <2>1. /\ disk' \subseteq disk
        /\ \A x \in Keys : <<x, "data">> \in disk => <<x, "data">> \in disk'
    BY <1>1, <1>7 DEF CleanupSave
  <2>2. /\ job'[j].key = k /\ job'[j].pc \in {"wipe", "undo"}
        /\ job'[j].pc = "wipe" => LayoutOf(k) = "legacy"
    BY <1>0, <1>7 DEF CleanupSave, JobStep, JobState
  <2>3. LayoutOf(k) = "legacy" => k \notin BlockFirst /\ <<k, "metadata">> \notin disk'
    BY <1>1, <1>7 DEF CleanupSave, LayoutOf
  <2>4. SidecarJobs'
    <3>1. \A i \in Jobs : job[i].key \in Keys
      BY <1>0 DEF JobState
    <3>. QED BY <1>0, <2>1, <2>2, <2>3, <3>1 DEF SidecarJobs
  <2>. QED BY <1>0, <2>1, <2>4, SidecarFrame
<1>8. CASE CleanupData(j)
  <2>1. /\ <<k, "metadata">> \notin disk /\ disk' = disk \ {<<k, "data">>} /\ Active(j)
    BY <1>0, <1>1, <1>8 DEF CleanupData, SidecarJobs, Active
  <2>2. job'[j].pc \notin {"sidecar", "wipe"}
    BY <1>0, <1>8 DEF CleanupData, JobStep, JobState
  <2>3. SidecarJobs'
    BY <1>0, <1>2, <2>1, <2>2 DEF SidecarJobs
  <2>4. \A u : \A v \in BlockFirst : Dropped(v, u) => Dropped(v, u)'
    BY <2>1 DEF Dropped
  <2>5. DropsOrdered'
    BY <1>0, <2>4 DEF DropsOrdered
  <2>6. SidecarHasData'
    BY <1>0, <2>1 DEF SidecarHasData
  <2>. QED BY <2>3, <2>5, <2>6
<1>. QED BY <1>3, <1>4, <1>5, <1>6, <1>7, <1>8 DEF SaveStep

\* With one submitting thread, any number of direct stores and loads, the startup scan and
\* crashes at any moment, for any keys and executor slots, nothing evicted or removed and
\* every deletion succeeding: no sidecar is ever on disk without its data, so that what a
\* restarted process indexes can be read.
THEOREM SidecarsReadable == ASSUME OneSubmitter PROVE Spec => []SidecarHasData
<1>1. Init => SidecarInv
  <2>. SUFFICES ASSUME Init PROVE SidecarInv
    OBVIOUS
  <2>1. TypeOK /\ PutTasksMatch
    BY InitType, NothingListed DEF Init
  <2>2. /\ \A c \in Callers : caller[c].pc = "idle" /\ caller[c].unlink = <<>>
        /\ \A j \in Jobs : job[j].pc = "idle"
    BY DEF Init, IdleCaller, IdleJob
  <2>3. SidecarHasData
    BY DEF Init, LeftOver, SidecarHasData
  <2>. QED BY <2>1, <2>2, <2>3
       DEF SidecarInv, Submitting, OneLegacy, Storing, Registered, Active, SidecarJobs,
           DropsOrdered
<1>2. SidecarInv /\ [Next]_vars => SidecarInv'
  <2>. SUFFICES ASSUME SidecarInv, [Next]_vars PROVE SidecarInv'
    OBVIOUS
  <2>1. TypeOK' /\ PutTasksMatch' /\ Submitting' /\ OneLegacy'
    BY NextType, TasksStep, SubmittingStep, OneLegacyStep DEF SidecarInv
  <2>2. CASE \E c \in Callers : CallerStep(c)
    BY <2>1, <2>2, SidecarCaller DEF SidecarInv
  <2>3. CASE \E j \in Jobs : SaveStep(j)
    BY <2>1, <2>3, SidecarSave DEF SidecarInv
  <2>4. CASE Crash
    <3>1. /\ \A c \in Callers : caller'[c].unlink = <<>>
          /\ \A j \in Jobs : job'[j].pc = "idle"
          /\ disk' = disk
      BY <2>4 DEF Crash, IdleCaller, IdleJob
    <3>. QED BY <2>1, <3>1 DEF SidecarInv, SidecarJobs, DropsOrdered, SidecarHasData
  <2>5. CASE UNCHANGED <<caller, job, disk>>
    <3>1. SidecarJobs'
      BY <2>5 DEF SidecarInv, SidecarJobs
    <3>. QED BY <2>1, <2>5, <3>1, SidecarFrame DEF SidecarInv
  <2>. QED BY <2>2, <2>3, <2>4, <2>5
       DEF Next, vars, Pin, Unpin, ScanStep, ReadMetadata, ScanSkips, IndexScanned
<1>3. SidecarInv => SidecarHasData
  BY DEF SidecarInv
<1>. QED BY <1>1, <1>2, <1>3, PTL DEF Spec
=============================================================================

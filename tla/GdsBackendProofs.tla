-------------------------- MODULE GdsBackendProofs --------------------------
(* The GDS tier, for any keys and any number of puts in flight: what its   *)
(* stores hold is given back however their saves end, the staging buffers  *)
(* outlive them, and the tier implements what a durable tier promises.     *)
EXTENDS GdsBackend, FiniteSetTheorems, TLAPS

USE GdsAssumption

(* The accounts of the stores.  put_tasks may lose a key that is still     *)
(* being stored, but keeps one that is not only when a put of it was       *)
(* abandoned: a direct store counts from its claim on, not from its call.  *)
DirectStores(k) ==
  direct.key = k /\ direct.pc \in {"register", "write", "replace", "publish", "finish"}

IdleHasNoKey ==
  /\ \A p \in Puts : put[p].pc = "idle" <=> put[p].key = NoKey
  /\ direct.pc # "idle" => direct.key \in Keys

TasksHaveStores ==
  \A k \in put_tasks : InFlight(k) # {} \/ abandoned[k] > 0 \/ DirectStores(k)

\* close gives the buffers back when no put is left.
BuffersHeld ==
  /\ closing = "closed" => \A p \in Puts : put[p].pc = "idle"
  /\ closing # "closed" => staging

StoreInv == TypeOK /\ IdleHasNoKey /\ RefsMatch /\ TasksHaveStores /\ BuffersHeld

\* The puts of a key are finite in number.
LEMMA InFlightFinite ==
  ASSUME NEW k
  PROVE  IsFiniteSet(InFlight(k)) /\ Cardinality(InFlight(k)) \in Nat
BY FS_Subset, FS_CardinalityType DEF InFlight

\* The accounts are in order at the start.
LEMMA StoreInit == Init => StoreInv
<1>. SUFFICES ASSUME Init PROVE StoreInv
  OBVIOUS
<1>0. disk \subseteq File
  BY DEF Init, File
<1>1. TypeOK /\ IdleHasNoKey /\ TasksHaveStores /\ BuffersHeld
  BY <1>0 DEF Init, TypeOK, IdleHasNoKey, TasksHaveStores, BuffersHeld, Layouts, IdlePut,
         IdleDirect, PutPC, DirectPC
<1>2. \A k \in Keys : InFlight(k) = {}
  BY DEF Init, InFlight, IdlePut
<1>3. RefsMatch
  BY <1>2, FS_EmptySet DEF RefsMatch, Init
<1>. QED BY <1>1, <1>3 DEF StoreInv

\* A step of a put that keeps its key changes nothing in the accounts but where it is.
LEMMA StorePutMoves ==
  ASSUME StoreInv, NEW p \in Puts, NEW pc \in PutPC \ {"idle"}, PutGoes(p, pc),
         put[p].pc # "idle", UNCHANGED <<put_tasks, refs, direct, closing, staging>>,
         hot_cache' \in [Keys -> Layouts \cup {"absent"}],
         bf_lock' \in Puts \cup {"free"}, disk' \subseteq File,
         UNCHANGED <<registered, scan, abandoned, crashes>>
  PROVE  StoreInv'
<1>1. put \in [Puts -> [pc : PutPC, key : Keys \cup {NoKey}]]
  BY DEF StoreInv, TypeOK
<1>2. put' \in [Puts -> [pc : PutPC, key : Keys \cup {NoKey}]]
  <2>1. [put[p] EXCEPT !.pc = pc] \in [pc : PutPC, key : Keys \cup {NoKey}]
    BY <1>1
  <2>. QED BY <1>1, <2>1 DEF PutGoes
<1>3. \A q \in Puts : /\ put'[q].key = put[q].key
                      /\ put'[q].pc = IF q = p THEN pc ELSE put[q].pc
  BY <1>1 DEF PutGoes
<1>4. TypeOK'
  BY <1>2 DEF StoreInv, TypeOK
<1>5. \A k : InFlight(k)' = InFlight(k)
  BY <1>3 DEF InFlight
<1>6. IdleHasNoKey' /\ BuffersHeld'
  BY <1>3 DEF StoreInv, IdleHasNoKey, BuffersHeld
<1>7. RefsMatch'
  BY <1>5 DEF StoreInv, RefsMatch
<1>8. TasksHaveStores'
  BY <1>5 DEF StoreInv, TasksHaveStores, DirectStores
<1>. QED BY <1>4, <1>6, <1>7, <1>8 DEF StoreInv

\* The files of a temporary's key stay files of the store.
LEMMA FileTypes ==
  ASSUME NEW k \in Keys, disk \subseteq File
  PROVE  /\ Opened(k) \subseteq File /\ Written(k) \subseteq File /\ Replaced(k) \subseteq File
         /\ disk \ Tmp(k) \subseteq File
         /\ Renamed(k, "data") \subseteq File /\ Renamed(k, "short") \subseteq File
         /\ disk \cup {<<k, "metadata">>} \subseteq File
BY DEF Opened, Written, Replaced, Renamed, File

\* A staged put that was submitted is one more reference, and registers its key.
LEMMA StoreSubmit ==
  ASSUME StoreInv, NEW p \in Puts, NEW k \in Keys, SubmitPutTask(p, k)
  PROVE  StoreInv'
<1>1. /\ put \in [Puts -> [pc : PutPC, key : Keys \cup {NoKey}]] /\ refs \in [Keys -> Nat]
      /\ put[p].pc = "idle" /\ put[p].key = NoKey
      /\ put' = [put EXCEPT ![p] = [pc |-> "start", key |-> k]]
  BY DEF StoreInv, TypeOK, IdleHasNoKey, SubmitPutTask
<1>2. put' \in [Puts -> [pc : PutPC, key : Keys \cup {NoKey}]]
  BY <1>1 DEF PutPC
<1>3. TypeOK'
  BY <1>1, <1>2 DEF StoreInv, TypeOK, SubmitPutTask
<1>4. IdleHasNoKey' /\ BuffersHeld'
  BY <1>1, <1>2 DEF StoreInv, IdleHasNoKey, BuffersHeld, SubmitPutTask
<1>5. InFlight(k)' = InFlight(k) \cup {p} /\ p \notin InFlight(k)
  BY <1>1 DEF InFlight
<1>6. \A l \in Keys \ {k} : InFlight(l)' = InFlight(l)
  BY <1>1 DEF InFlight
<1>7. RefsMatch'
  <2>1. Cardinality(InFlight(k)') = Cardinality(InFlight(k)) + 1
    BY <1>5, InFlightFinite, FS_AddElement
  <2>2. refs[k] = Cardinality(InFlight(k)) + abandoned[k] /\ abandoned \in [Keys -> Nat]
    BY DEF StoreInv, RefsMatch, TypeOK
  <2>3. abandoned' = abandoned /\ refs' = [refs EXCEPT ![k] = @ + 1]
    BY DEF SubmitPutTask
  <2>4. refs'[k] = Cardinality(InFlight(k)') + abandoned'[k]
    BY <1>1, <2>1, <2>2, <2>3, InFlightFinite
  <2>. QED BY <1>1, <1>6, <2>3, <2>4 DEF StoreInv, RefsMatch
<1>8. TasksHaveStores'
  BY <1>5, <1>6 DEF StoreInv, TypeOK, TasksHaveStores, DirectStores, SubmitPutTask
<1>. QED BY <1>3, <1>4, <1>7, <1>8 DEF StoreInv

\* A put that finishes gives its reference back and takes its key out.
LEMMA StoreFinish ==
  ASSUME StoreInv, NEW p \in Puts, FinishPut(p)
  PROVE  StoreInv'
<1>0. PICK k \in Keys : k = put[p].key
  BY DEF StoreInv, TypeOK, IdleHasNoKey, FinishPut
<1>1. /\ put \in [Puts -> [pc : PutPC, key : Keys \cup {NoKey}]] /\ refs \in [Keys -> Nat]
      /\ put[p].pc = "finish" /\ put' = [put EXCEPT ![p] = IdlePut]
      /\ refs' = [refs EXCEPT ![k] = @ - 1] /\ put_tasks' = put_tasks \ {k}
      /\ UNCHANGED <<direct, closing, staging>>
  BY <1>0 DEF StoreInv, TypeOK, FinishPut
<1>2. k = put[p].key
  BY <1>0
<1>3. put' \in [Puts -> [pc : PutPC, key : Keys \cup {NoKey}]]
  BY <1>1 DEF IdlePut, PutPC
<1>4. IdleHasNoKey' /\ BuffersHeld'
  BY <1>1, <1>3 DEF StoreInv, IdleHasNoKey, BuffersHeld, IdlePut
<1>5. InFlight(k)' = InFlight(k) \ {p} /\ p \in InFlight(k)
  BY <1>1, <1>2 DEF InFlight, IdlePut
<1>6. \A l \in Keys \ {k} : InFlight(l)' = InFlight(l)
  BY <1>1, <1>2 DEF InFlight, IdlePut
<1>7. refs[k] = Cardinality(InFlight(k)) + abandoned[k] /\ Cardinality(InFlight(k)') = Cardinality(InFlight(k)) - 1
  <2>1. refs[k] = Cardinality(InFlight(k)) + abandoned[k]
    BY DEF StoreInv, RefsMatch
  <2>2. Cardinality(InFlight(k)') = Cardinality(InFlight(k)) - 1
    BY <1>5, InFlightFinite, FS_RemoveElement, ZenonT(40)
  <2>. QED BY <2>1, <2>2
<1>8. Cardinality(InFlight(k)') \in Nat
  BY <1>5, InFlightFinite, FS_RemoveElement, FS_CardinalityType
<1>9. RefsMatch'
  <2>1. abandoned' = abandoned /\ abandoned[k] \in Nat
    BY DEF FinishPut, StoreInv, TypeOK
  <2>2. refs'[k] = Cardinality(InFlight(k)') + abandoned'[k]
    BY <1>1, <1>7, <2>1, InFlightFinite
  <2>. QED BY <1>1, <1>6, <2>1, <2>2 DEF StoreInv, RefsMatch
<1>10. TypeOK'
  <2>0. abandoned[k] \in Nat
    BY DEF StoreInv, TypeOK
  <2>1. refs' \in [Keys -> Nat]
    BY <1>1, <1>7, <1>8, <2>0, InFlightFinite
  <2>. QED BY <1>3, <2>1 DEF StoreInv, TypeOK, FinishPut
<1>11. TasksHaveStores'
  BY <1>1, <1>6 DEF StoreInv, TypeOK, TasksHaveStores, DirectStores, FinishPut
<1>. QED BY <1>4, <1>9, <1>10, <1>11 DEF StoreInv

\* A put that raises before its save leaves its reference to be counted among the abandoned.
LEMMA StoreRaise ==
  ASSUME StoreInv, NEW p \in Puts, PutRaises(p)
  PROVE  StoreInv'
<1>0. PICK k \in Keys : k = put[p].key
  BY DEF StoreInv, TypeOK, IdleHasNoKey, PutRaises
<1>1. /\ put \in [Puts -> [pc : PutPC, key : Keys \cup {NoKey}]] /\ abandoned \in [Keys -> Nat]
      /\ put[p].pc = "start" /\ put' = [put EXCEPT ![p] = IdlePut]
      /\ abandoned' = [abandoned EXCEPT ![k] = @ + 1]
      /\ UNCHANGED <<refs, put_tasks, direct, closing, staging>>
  BY <1>0 DEF StoreInv, TypeOK, PutRaises
<1>2. put' \in [Puts -> [pc : PutPC, key : Keys \cup {NoKey}]] /\ abandoned' \in [Keys -> Nat]
  BY <1>1 DEF IdlePut, PutPC
<1>3. IdleHasNoKey' /\ BuffersHeld'
  BY <1>1, <1>2 DEF StoreInv, IdleHasNoKey, BuffersHeld, IdlePut
<1>4. InFlight(k)' = InFlight(k) \ {p} /\ p \in InFlight(k)
  BY <1>0, <1>1 DEF InFlight, IdlePut
<1>5. \A l \in Keys \ {k} : InFlight(l)' = InFlight(l) /\ abandoned'[l] = abandoned[l]
  BY <1>0, <1>1 DEF InFlight, IdlePut
<1>6. Cardinality(InFlight(k)') = Cardinality(InFlight(k)) - 1
  BY <1>4, InFlightFinite, FS_RemoveElement, ZenonT(40)
<1>7. RefsMatch'
  <2>1. refs[k] = Cardinality(InFlight(k)) + abandoned[k] /\ Cardinality(InFlight(k)) \in Nat
    BY InFlightFinite DEF StoreInv, RefsMatch
  <2>2. refs'[k] = Cardinality(InFlight(k)') + abandoned'[k]
    BY <1>1, <1>6, <2>1
  <2>. QED BY <1>1, <1>5, <2>2 DEF StoreInv, RefsMatch
<1>8. TasksHaveStores'
  <2>1. abandoned'[k] > 0
    BY <1>1
  <2>. QED BY <1>1, <1>5, <2>1 DEF StoreInv, TypeOK, TasksHaveStores, DirectStores
<1>9. TypeOK'
  BY <1>2 DEF StoreInv, TypeOK, PutRaises
<1>. QED BY <1>3, <1>7, <1>8, <1>9 DEF StoreInv

\* Whatever a put does between its submission and its end.
LEMMA StorePut ==
  ASSUME StoreInv, NEW p \in Puts, PutStep(p)
  PROVE  StoreInv'
<1>1. /\ put[p].pc # "idle" => put[p].key \in Keys
      /\ disk \subseteq File /\ hot_cache \in [Keys -> Layouts \cup {"absent"}]
      /\ bf_lock \in Puts \cup {"free"}
  BY DEF StoreInv, TypeOK, IdleHasNoKey
<1>2. ASSUME NEW k \in Keys
      PROVE  /\ Opened(k) \subseteq File /\ Written(k) \subseteq File
             /\ Replaced(k) \subseteq File /\ disk \ Tmp(k) \subseteq File
             /\ Renamed(k, "data") \subseteq File /\ Renamed(k, "short") \subseteq File
             /\ disk \cup {<<k, "metadata">>} \subseteq File
  BY <1>1, FileTypes
<1>3. Unlock(p) => bf_lock' \in Puts \cup {"free"}
  BY <1>1 DEF Unlock
<1>4. CASE PreparePut(p)
  <2>1. disk' \subseteq File /\ bf_lock' \in Puts \cup {"free"}
    BY <1>1, <1>2, <1>4 DEF PreparePut
  <2>. QED BY <1>1, <1>4, <2>1, StorePutMoves DEF PreparePut, PutPC
<1>5. CASE SaveGds(p)
  <2>1. disk' \subseteq File
    BY <1>1, <1>2, <1>5 DEF SaveGds
  <2>. QED BY <1>1, <1>5, <2>1, StorePutMoves DEF SaveGds, PutPC
<1>6. CASE SaveMetadata(p)
  <2>1. disk' \subseteq File
    BY <1>1, <1>2, <1>6 DEF SaveMetadata
  <2>. QED BY <1>1, <1>6, <2>1, StorePutMoves DEF SaveMetadata, PutPC
<1>7. CASE SaveBlockFirst(p)
  <2>1. disk' \subseteq File /\ bf_lock' \in Puts \cup {"free"}
    BY <1>1, <1>2, <1>3, <1>7 DEF SaveBlockFirst
  <2>. QED BY <1>1, <1>7, <2>1, StorePutMoves DEF SaveBlockFirst, PutPC
<1>8. CASE ReplaceBlockFirst(p)
  <2>1. disk' \subseteq File /\ bf_lock' \in Puts \cup {"free"}
    BY <1>1, <1>2, <1>3, <1>8 DEF ReplaceBlockFirst
  <2>. QED BY <1>1, <1>8, <2>1, StorePutMoves DEF ReplaceBlockFirst, PutPC
<1>9. CASE InsertKey(p)
  <2>1. hot_cache' \in [Keys -> Layouts \cup {"absent"}]
    BY <1>1, <1>9 DEF InsertKey, SetEntry, LayoutOf, Layouts
  <2>. QED BY <1>1, <1>9, <2>1, StorePutMoves DEF InsertKey, PutPC
<1>10. CASE FinishPut(p)
  BY <1>10, StoreFinish
<1>11. CASE PutRaises(p)
  BY <1>11, StoreRaise
<1>. QED BY <1>4, <1>5, <1>6, <1>7, <1>8, <1>9, <1>10, <1>11 DEF PutStep

\* Steps that leave the puts and their references alone: what is registered must keep its
\* store.
LEMMA StoreElse ==
  ASSUME StoreInv, UNCHANGED <<put, refs, bf_lock, abandoned, crashes>>,
         hot_cache' \in [Keys -> Layouts \cup {"absent"}],
         put_tasks' \subseteq Keys,
         direct' \in [pc : DirectPC, key : Keys \cup {NoKey}, path : Layouts],
         direct'.pc # "idle" => direct'.key \in Keys,
         registered' \in BOOLEAN, staging' \in BOOLEAN, scan' \in {"running", "done"},
         closing' \in {"open", "closing", "closed"}, disk' \subseteq File,
         BuffersHeld',
         \A k \in put_tasks' : \/ k \in put_tasks /\ (DirectStores(k) => DirectStores(k)')
                               \/ DirectStores(k)'
  PROVE  StoreInv'
<1>1. \A k : InFlight(k)' = InFlight(k)
  BY DEF InFlight
<1>2. TypeOK'
  BY DEF StoreInv, TypeOK
<1>3. IdleHasNoKey'
  BY DEF StoreInv, IdleHasNoKey
<1>4. RefsMatch'
  BY <1>1 DEF StoreInv, RefsMatch
<1>5. TasksHaveStores'
  BY <1>1 DEF StoreInv, TasksHaveStores
<1>. QED BY <1>2, <1>3, <1>4, <1>5 DEF StoreInv

\* The engine thread's own steps.
LEMMA StoreEngine ==
  ASSUME StoreInv,
         EngineStep \/ \E k \in Keys : DirectPut(k) \/ DirectGet(k) \/ GetBlocking(k)
  PROVE  StoreInv'
<1>0. /\ hot_cache \in [Keys -> Layouts \cup {"absent"}] /\ put_tasks \subseteq Keys
      /\ direct \in [pc : DirectPC, key : Keys \cup {NoKey}, path : Layouts]
      /\ direct.pc # "idle" => direct.key \in Keys
      /\ registered \in BOOLEAN /\ staging \in BOOLEAN /\ scan \in {"running", "done"}
      /\ closing \in {"open", "closing", "closed"} /\ disk \subseteq File /\ BuffersHeld
  BY DEF StoreInv, TypeOK, IdleHasNoKey
<1>1. ASSUME UNCHANGED <<closing, staging, put>> PROVE BuffersHeld'
  BY <1>0, <1>1 DEF BuffersHeld
<1>2. IdleDirect \in [pc : DirectPC, key : Keys \cup {NoKey}, path : Layouts]
      /\ IdleDirect.pc = "idle"
  BY DEF IdleDirect, DirectPC, Layouts
<1>3. ASSUME NEW pc \in DirectPC, DirectGoes(pc)
      PROVE  /\ direct' \in [pc : DirectPC, key : Keys \cup {NoKey}, path : Layouts]
             /\ direct'.pc = pc /\ direct'.key = direct.key
  BY <1>0, <1>3 DEF DirectGoes
<1>4. CASE ClaimKey
  <2>1. CASE direct.key \in put_tasks
    BY <1>0, <1>1, <1>2, <1>4, <2>1, StoreElse DEF ClaimKey, DirectStores
  <2>2. CASE direct.key \notin put_tasks
    <3>1. DirectGoes("register") /\ put_tasks' = put_tasks \cup {direct.key}
      BY <1>4, <2>2 DEF ClaimKey
    <3>2. direct.pc = "claim" /\ direct.key \in Keys
      BY <1>0, <1>4 DEF ClaimKey
    <3>3. /\ direct' \in [pc : DirectPC, key : Keys \cup {NoKey}, path : Layouts]
          /\ direct'.pc = "register" /\ direct'.key = direct.key
      BY <1>3, <3>1 DEF DirectPC
    <3>. QED BY <1>0, <1>1, <1>4, <3>1, <3>2, <3>3, StoreElse DEF ClaimKey, DirectStores
  <2>. QED BY <2>1, <2>2
<1>5. ASSUME NEW pc \in DirectPC \ {"idle"}, DirectGoes(pc), DirectStores(direct.key),
             pc \in {"register", "write", "replace", "publish", "finish"},
             UNCHANGED <<put, refs, bf_lock, abandoned, crashes, put_tasks, staging, scan, closing>>,
             hot_cache' \in [Keys -> Layouts \cup {"absent"}], registered' \in BOOLEAN,
             disk' \subseteq File
      PROVE  StoreInv'
  <2>1. direct.key \in Keys
    BY <1>0, <1>5 DEF DirectStores
  <2>. QED BY <1>0, <1>1, <1>3, <1>5, <2>1, StoreElse DEF DirectStores
<1>6. ASSUME NEW k \in Keys
      PROVE  /\ Opened(k) \subseteq File /\ Written(k) \subseteq File
             /\ Replaced(k) \subseteq File /\ disk \ Tmp(k) \subseteq File
  BY <1>0, FileTypes
<1>7. CASE EnsureRegistration
  <2>1. direct.key \in Keys /\ DirectStores(direct.key)
    BY <1>0, <1>7 DEF EnsureRegistration, DirectStores
  <2>. QED BY <1>0, <1>5, <1>6, <1>7, <2>1 DEF EnsureRegistration, DirectPC
<1>8. CASE SaveDirect
  <2>1. direct.key \in Keys /\ DirectStores(direct.key)
    BY <1>0, <1>8 DEF SaveDirect, DirectStores
  <2>. QED BY <1>0, <1>5, <1>6, <1>8, <2>1 DEF SaveDirect, DirectPC
<1>9. CASE ReplaceDirect
  <2>1. direct.key \in Keys /\ DirectStores(direct.key)
    BY <1>0, <1>9 DEF ReplaceDirect, DirectStores
  <2>. QED BY <1>0, <1>5, <1>6, <1>9, <2>1 DEF ReplaceDirect, DirectPC
<1>10. CASE InsertDirectKey
  <2>1. direct.key \in Keys /\ DirectStores(direct.key)
    BY <1>0, <1>10 DEF InsertDirectKey, DirectStores
  <2>2. hot_cache' \in [Keys -> Layouts \cup {"absent"}]
    BY <1>0, <1>10 DEF InsertDirectKey, SetEntry, Layouts
  <2>. QED BY <1>0, <1>5, <1>10, <2>1, <2>2 DEF InsertDirectKey, DirectPC
<1>11. CASE FinishDirect
  BY <1>0, <1>1, <1>2, <1>11, StoreElse DEF FinishDirect, DirectStores
<1>12. CASE LoadDirect
  BY <1>0, <1>1, <1>2, <1>12, StoreElse DEF LoadDirect, DirectStores
<1>13. CASE LoadLookup
  <2>1. direct.pc = "load" /\ direct.key \in Keys /\ (direct' = IdleDirect \/ DirectGoes("read"))
    BY <1>0, <1>13 DEF LoadLookup
  <2>2. /\ direct' \in [pc : DirectPC, key : Keys \cup {NoKey}, path : Layouts]
        /\ direct'.pc # "idle" => direct'.key \in Keys
    BY <1>2, <1>3, <2>1 DEF DirectPC
  <2>. QED BY <1>0, <1>1, <1>13, <2>1, <2>2, StoreElse DEF LoadLookup, DirectStores
<1>14. CASE LoadBytes
  <2>1. hot_cache' \in [Keys -> Layouts \cup {"absent"}]
    BY <1>0, <1>14 DEF LoadBytes, SetEntry
  <2>. QED BY <1>0, <1>1, <1>2, <1>14, <2>1, StoreElse DEF LoadBytes, DirectStores
<1>15. ASSUME NEW k \in Keys, DirectPut(k) \/ DirectGet(k) \/ GetBlocking(k)
       PROVE  StoreInv'
  <2>1. hot_cache[k] # "absent" => hot_cache[k] \in Layouts
    BY <1>0
  <2>2. /\ direct' \in [pc : DirectPC, key : Keys \cup {NoKey}, path : Layouts]
        /\ direct'.key = k
    BY <1>15, <2>1 DEF DirectPut, DirectGet, GetBlocking, DirectPC, Layouts
  <2>3. UNCHANGED <<hot_cache, put_tasks, refs, put, bf_lock, registered, staging, scan,
                    closing, disk, abandoned, crashes>> /\ direct.pc = "idle"
    BY <1>15 DEF DirectPut, DirectGet, GetBlocking
  <2>. QED BY <1>0, <1>1, <2>2, <2>3, StoreElse DEF DirectStores
<1>. QED BY <1>4, <1>7, <1>8, <1>9, <1>10, <1>11, <1>12, <1>13, <1>14, <1>15 DEF EngineStep

\* Every step keeps the accounts.
LEMMA StoreStep == StoreInv /\ [Next]_vars => StoreInv'
<1>. SUFFICES ASSUME StoreInv, [Next]_vars PROVE StoreInv'
  OBVIOUS
<1>0. /\ hot_cache \in [Keys -> Layouts \cup {"absent"}] /\ put_tasks \subseteq Keys
      /\ direct \in [pc : DirectPC, key : Keys \cup {NoKey}, path : Layouts]
      /\ direct.pc # "idle" => direct.key \in Keys
      /\ registered \in BOOLEAN /\ staging \in BOOLEAN /\ scan \in {"running", "done"}
      /\ closing \in {"open", "closing", "closed"} /\ disk \subseteq File /\ BuffersHeld
  BY DEF StoreInv, TypeOK, IdleHasNoKey
<1>1. ASSUME UNCHANGED <<put, refs, bf_lock, abandoned, crashes, put_tasks, direct, disk>>,
             hot_cache' \in [Keys -> Layouts \cup {"absent"}],
             registered' \in BOOLEAN, staging' \in BOOLEAN, scan' \in {"running", "done"},
             closing' \in {"open", "closing", "closed"}, BuffersHeld'
      PROVE  StoreInv'
  BY <1>0, <1>1, StoreElse DEF DirectStores
<1>2. CASE UNCHANGED vars
  BY <1>0, <1>1, <1>2 DEF vars, BuffersHeld
<1>3. ASSUME NEW k \in Keys, Contains(k) \/ ScanMetadata(k) PROVE StoreInv'
  <2>1. hot_cache' \in [Keys -> Layouts \cup {"absent"}]
    BY <1>0, <1>3 DEF Contains, ScanMetadata, ReadMetadata, SetEntry, Found, Layouts
  <2>. QED BY <1>0, <1>1, <1>3, <2>1 DEF Contains, ScanMetadata, BuffersHeld
<1>4. CASE Close \/ CloseEnds \/ ScanEnds
  BY <1>0, <1>1, <1>4 DEF Close, CloseEnds, ScanEnds, BuffersHeld
<1>5. CASE Restart
  <2>0. TypeOK'
    <3>1. crashes' \in Nat /\ disk' \subseteq File
      BY <1>0, <1>5 DEF Restart, StoreInv, TypeOK
    <3>. QED BY <1>5, <3>1 DEF Restart, TypeOK, Layouts, IdlePut, IdleDirect, PutPC, DirectPC
  <2>1. IdleHasNoKey' /\ TasksHaveStores' /\ BuffersHeld'
    BY <1>5 DEF Restart, IdleHasNoKey, TasksHaveStores, BuffersHeld, IdlePut, IdleDirect
  <2>2. \A k \in Keys : InFlight(k)' = {}
    BY <1>5 DEF Restart, InFlight, IdlePut
  <2>3. RefsMatch'
    BY <1>5, <2>2, FS_EmptySet DEF RefsMatch, Restart
  <2>. QED BY <2>0, <2>1, <2>3 DEF StoreInv
<1>. QED BY <1>2, <1>3, <1>4, <1>5, StorePut, StoreSubmit, StoreEngine DEF Next

\* However the save of a store ends, and wherever the process dies: references are held, and
\* keys registered in put_tasks, for stores that are still in flight and for the puts that
\* raised before their save, whose reference and key are never given back, and for no other.
THEOREM StoresGiveBack == Spec => []StoresAccounted
<1>1. StoreInv => StoresAccounted
  BY DEF StoreInv, StoresAccounted, RegisteredInFlight, TasksHaveStores, DirectStores
<1>. QED BY <1>1, StoreInit, StoreStep, PTL DEF Spec

\* The staging buffers are there as long as a put that copies through them is: close
\* waits for every put, and none is submitted after it has begun.
THEOREM StagingHeld == Spec => []StagingOutlives
<1>1. StoreInv => StagingOutlives
  BY DEF StoreInv, StagingOutlives, BuffersHeld, TypeOK
<1>. QED BY <1>1, StoreInit, StoreStep, PTL DEF Spec

-----------------------------------------------------------------------------
(* The refinement.  A block-first chunk is written under a temporary name  *)
(* that all writers of its key share, so the argument needs that it has    *)
(* one writer at a time; put_tasks keeps the direct store from a key that  *)
(* is being put, and ChunkInv is inductive when no block-first key is put  *)
(* again while it is stored.                                               *)
OneWriter ==
  \A k \in BlockFirst :
    /\ \A p, q \in Puts : put[p].key = k /\ put[q].key = k => p = q
    /\ \A p \in Puts : put[p].key = k => k \in put_tasks /\ ~DirectStores(k)
    /\ DirectStores(k) => k \in put_tasks

\* A sidecar is never on disk without its data.
SidecarWhole == \A k \in Keys : <<k, "metadata">> \in disk => Named(k)

\* What the index holds has its files.
IndexWhole == \A k \in Keys : hot_cache[k] # "absent" => OnDisk(<<k, hot_cache[k]>>)

\* What a put has on disk by the time it is where it is.
PutWhole ==
  \A p \in Puts :
    LET k == put[p].key IN
    /\ put[p].pc = "sidecar" => k \notin BlockFirst /\ Named(k)
    /\ put[p].pc = "replace" => k \in BlockFirst /\ <<k, "tmp">> \in disk
    /\ put[p].pc = "publish" => OnDisk(<<k, LayoutOf(k)>>)

\* And a direct store.
DirectWhole ==
  /\ direct.pc \in {"claim", "register", "write", "replace", "publish", "finish"}
       => direct.key \in BlockFirst
  /\ direct.pc = "replace" => <<direct.key, "tmp">> \in disk
  /\ direct.pc = "publish" => <<direct.key, "block_first">> \in disk

ChunkInv == OneWriter /\ SidecarWhole /\ IndexWhole /\ PutWhole /\ DirectWhole

\* The last word of a chunk: its files under their own names are never deleted.
NothingDeleted ==
  \A k \in Keys :
    /\ Named(k) => Named(k)'
    /\ \A n \in {"metadata", "block_first"} : <<k, n>> \in disk => <<k, n>> \in disk'

\* Chunks whose files have their names keep them.
LEMMA OnDiskStays ==
  ASSUME NothingDeleted, NEW k \in Keys, NEW l, OnDisk(<<k, l>>)
  PROVE  OnDisk(<<k, l>>)'
BY DEF NothingDeleted, OnDisk, Named

\* The index is kept by what takes no name away.
LEMMA IndexStays ==
  ASSUME StoreInv, IndexWhole, NothingDeleted, UNCHANGED hot_cache
  PROVE  IndexWhole'
BY OnDiskStays DEF IndexWhole

\* What becomes of the names of a chunk when its temporary file is handled.
LEMMA TmpSteps ==
  ASSUME NEW k \in Keys, NEW f \in Keys, NEW n
  PROVE  /\ n \notin {"tmp", "part"} => (<<f, n>> \in Opened(k) <=> <<f, n>> \in disk)
         /\ n \notin {"tmp", "part"} => (<<f, n>> \in Written(k) <=> <<f, n>> \in disk)
         /\ n \notin {"tmp", "part"} => (<<f, n>> \in disk \ Tmp(k) <=> <<f, n>> \in disk)
         /\ n \notin {"tmp", "part", "block_first", "torn"}
              => (<<f, n>> \in Replaced(k) <=> <<f, n>> \in disk)
         /\ <<k, "tmp">> \in disk
              => (<<f, "block_first">> \in Replaced(k) <=> f = k \/ <<f, "block_first">> \in disk)
         /\ f # k => /\ <<f, n>> \in Opened(k) <=> <<f, n>> \in disk
                     /\ <<f, n>> \in Written(k) <=> <<f, n>> \in disk
                     /\ <<f, n>> \in Replaced(k) <=> <<f, n>> \in disk
                     /\ <<f, n>> \in disk \ Tmp(k) <=> <<f, n>> \in disk
         /\ <<k, "tmp">> \in Written(k)
BY DEF Opened, Written, Replaced, Tmp

\* And when a data file takes its name.
LEMMA RenamedSteps ==
  ASSUME NEW k \in Keys, NEW f \in {"data", "short"}, disk' = Renamed(k, f)
  PROVE  /\ \A g \in Keys : Named(g)' <=> g = k \/ Named(g)
         /\ \A g \in Keys, n \in {"metadata", "block_first"} : <<g, n>> \in disk' <=> <<g, n>> \in disk
BY DEF Renamed, Named

\* The initial files are whole.
LEMMA ChunkInit == Init => ChunkInv
<1>. SUFFICES ASSUME Init PROVE ChunkInv
  OBVIOUS
<1>1. SidecarWhole
  BY DEF Init, SidecarWhole, Named
<1>2. OneWriter /\ IndexWhole /\ PutWhole /\ DirectWhole
  BY DEF Init, OneWriter, IndexWhole, PutWhole, DirectWhole, IdlePut, IdleDirect, DirectStores
<1>. QED BY <1>1, <1>2 DEF ChunkInv

\* A step of a put on its own files leaves the other writers' files alone.
LEMMA ChunkPutMoves ==
  ASSUME StoreInv, ChunkInv, NEW p \in Puts, NEW k \in Keys, k = put[p].key,
         NEW pc \in PutPC \ {"idle"}, PutGoes(p, pc),
         UNCHANGED <<put_tasks, direct, hot_cache>>, NothingDeleted, SidecarWhole',
         \A f \in Keys : f # k \/ f \notin BlockFirst
                           => (<<f, "tmp">> \in disk => <<f, "tmp">> \in disk'),
         pc = "sidecar" => k \notin BlockFirst /\ Named(k)',
         pc = "replace" => k \in BlockFirst /\ <<k, "tmp">> \in disk',
         pc = "publish" => OnDisk(<<k, LayoutOf(k)>>)'
  PROVE  ChunkInv'
<1>1. put \in [Puts -> [pc : PutPC, key : Keys \cup {NoKey}]]
  BY DEF StoreInv, TypeOK
<1>2. \A q \in Puts : /\ put'[q].key = put[q].key
                      /\ put'[q].pc = IF q = p THEN pc ELSE put[q].pc
  BY <1>1 DEF PutGoes
<1>3. OneWriter /\ PutWhole /\ DirectWhole /\ IndexWhole
  BY DEF ChunkInv
<1>4. OneWriter'
  BY <1>2, <1>3 DEF OneWriter, DirectStores
<1>5. IndexWhole'
  BY <1>3, IndexStays
<1>6. PutWhole'
  <2>. SUFFICES ASSUME NEW q \in Puts
                PROVE  LET f == put[q].key IN
                       /\ put'[q].pc = "sidecar" => f \notin BlockFirst /\ Named(f)'
                       /\ put'[q].pc = "replace" => f \in BlockFirst /\ <<f, "tmp">> \in disk'
                       /\ put'[q].pc = "publish" => OnDisk(<<f, LayoutOf(f)>>)'
    BY <1>2 DEF PutWhole, LayoutOf
  <2>1. CASE q = p
    BY <1>2, <2>1
  <2>2. CASE q # p
    <3>1. put'[q].pc = put[q].pc /\ (put[q].pc # "idle" => put[q].key \in Keys)
      BY <1>1, <1>2, <2>2 DEF StoreInv, IdleHasNoKey
    <3>2. put[q].pc = "sidecar" => Named(put[q].key)'
      BY <1>2, <1>3, <3>1 DEF PutWhole, NothingDeleted
    <3>3. put[q].pc = "replace" => <<put[q].key, "tmp">> \in disk'
      BY <1>3, <2>2, <3>1 DEF PutWhole, OneWriter
    <3>4. put[q].pc = "publish" => OnDisk(<<put[q].key, LayoutOf(put[q].key)>>)
      BY <1>3 DEF PutWhole
    <3>5. ASSUME NEW f \in Keys, OnDisk(<<f, LayoutOf(f)>>)
          PROVE  OnDisk(<<f, LayoutOf(f)>>)'
      BY <3>5, OnDiskStays DEF LayoutOf, OnDisk, Named
    <3>6. put[q].pc = "publish" => OnDisk(<<put[q].key, LayoutOf(put[q].key)>>)'
      BY <1>2, <3>1, <3>4, <3>5
    <3>7. /\ put[q].pc = "sidecar" => put[q].key \notin BlockFirst
          /\ put[q].pc = "replace" => put[q].key \in BlockFirst
      BY <1>3 DEF PutWhole
    <3>. QED BY <3>1, <3>2, <3>3, <3>6, <3>7
  <2>. QED BY <2>1, <2>2
<1>7. DirectWhole'
  <2>1. direct.pc = "replace" => direct.key \in BlockFirst /\ <<direct.key, "tmp">> \in disk
                                 /\ direct.key # k
    BY <1>3 DEF DirectWhole, OneWriter, DirectStores
  <2>. QED BY <1>3, <2>1 DEF DirectWhole, NothingDeleted
<1>. QED BY <1>4, <1>5, <1>6, <1>7 DEF ChunkInv

\* Each step of a put on files: nothing under a chunk's own name is deleted.
LEMMA ChunkWrites ==
  ASSUME StoreInv, ChunkInv, NEW p \in Puts,
         \/ PreparePut(p) \/ SaveGds(p) \/ SaveMetadata(p) \/ SaveBlockFirst(p)
         \/ ReplaceBlockFirst(p)
  PROVE  ChunkInv' /\ NothingDeleted
<1>1. PICK k \in Keys : k = put[p].key
  BY DEF StoreInv, TypeOK, IdleHasNoKey, PreparePut, SaveGds, SaveMetadata, SaveBlockFirst,
         ReplaceBlockFirst
<1>2. UNCHANGED <<put_tasks, direct, hot_cache>>
  BY DEF PreparePut, SaveGds, SaveMetadata, SaveBlockFirst, ReplaceBlockFirst
<1>3. SidecarWhole /\ PutWhole
  BY DEF ChunkInv
<1>4. ASSUME NEW pc \in {"write", "finish"}, PutGoes(p, pc),
             disk' \in {disk, Opened(k), disk \ Tmp(k)}, disk' # disk => k \in BlockFirst
      PROVE  ChunkInv' /\ NothingDeleted
  <2>1. NothingDeleted /\ SidecarWhole'
    BY <1>3, <1>4, TmpSteps DEF NothingDeleted, SidecarWhole, Named
  <2>2. \A f \in Keys : f # k => (<<f, "tmp">> \in disk => <<f, "tmp">> \in disk')
    BY <1>4, TmpSteps, ZenonT(40)
  <2>3. \A f \in Keys : f # k \/ f \notin BlockFirst
                           => (<<f, "tmp">> \in disk => <<f, "tmp">> \in disk')
    BY <1>4, <2>2
  <2>4. pc \in PutPC \ {"idle"} /\ pc \notin {"sidecar", "replace", "publish"}
    BY <1>4 DEF PutPC
  <2>5. ChunkInv'
    BY <1>1, <1>2, <1>4, <2>1, <2>3, <2>4, ChunkPutMoves
  <2>. QED BY <2>1, <2>5
<1>5. CASE PreparePut(p)
  BY <1>1, <1>4, <1>5 DEF PreparePut
<1>6. CASE SaveGds(p)
  <2>1. ASSUME NEW f \in {"data", "short"}, PutGoes(p, "sidecar"), disk' = Renamed(k, f)
        PROVE  ChunkInv' /\ NothingDeleted
    <3>1. NothingDeleted /\ SidecarWhole' /\ Named(k)'
      BY <1>3, <2>1, RenamedSteps DEF NothingDeleted, SidecarWhole
    <3>2. \A g \in Keys : <<g, "tmp">> \in disk => <<g, "tmp">> \in disk'
      BY <2>1 DEF Renamed
    <3>3. ChunkInv'
      BY <1>1, <1>2, <1>6, <2>1, <3>1, <3>2, ChunkPutMoves DEF SaveGds, PutPC
    <3>. QED BY <3>1, <3>3
  <2>. QED BY <1>1, <1>4, <1>6, <2>1 DEF SaveGds
<1>7. CASE SaveMetadata(p)
  <2>0. k \notin BlockFirst /\ Named(k)
    BY <1>1, <1>3, <1>7 DEF SaveMetadata, PutWhole
  <2>1. CASE PutGoes(p, "publish") /\ disk' = disk \cup {<<k, "metadata">>}
    <3>1. NothingDeleted /\ SidecarWhole' /\ OnDisk(<<k, LayoutOf(k)>>)'
      BY <1>3, <2>0, <2>1 DEF NothingDeleted, SidecarWhole, OnDisk, Named, LayoutOf
    <3>2. \A f \in Keys : <<f, "tmp">> \in disk => <<f, "tmp">> \in disk'
      BY <2>1
    <3>3. ChunkInv'
      BY <1>1, <1>2, <2>1, <3>1, <3>2, ChunkPutMoves DEF PutPC
    <3>. QED BY <3>1, <3>3
  <2>. QED BY <1>1, <1>4, <1>7, <2>1 DEF SaveMetadata
<1>8. CASE SaveBlockFirst(p)
  <2>1. CASE PutGoes(p, "replace") /\ disk' = Written(k)
    <3>1. NothingDeleted /\ SidecarWhole' /\ <<k, "tmp">> \in disk'
      BY <1>3, <2>1, TmpSteps DEF NothingDeleted, SidecarWhole, Named
    <3>2. k \in BlockFirst
      BY <1>1, <1>8 DEF SaveBlockFirst
    <3>3. \A f \in Keys : f # k => (<<f, "tmp">> \in disk => <<f, "tmp">> \in disk')
      BY <2>1, TmpSteps
    <3>4. ChunkInv'
      BY <1>1, <1>2, <2>1, <3>1, <3>2, <3>3, ChunkPutMoves DEF PutPC
    <3>. QED BY <3>1, <3>4
  <2>. QED BY <1>1, <1>4, <1>8, <2>1 DEF SaveBlockFirst
<1>9. CASE ReplaceBlockFirst(p)
  <2>1. k \in BlockFirst /\ <<k, "tmp">> \in disk
    BY <1>1, <1>3, <1>9 DEF ReplaceBlockFirst, PutWhole
  <2>2. PutGoes(p, "publish") /\ disk' = Replaced(k)
    BY <1>1, <1>9, <2>1 DEF ReplaceBlockFirst, Tmp
  <2>3. /\ \A f \in Keys : <<f, "block_first">> \in disk' <=> f = k \/ <<f, "block_first">> \in disk
        /\ \A f \in Keys, n \in {"data", "short", "metadata"} :
             <<f, n>> \in disk' <=> <<f, n>> \in disk
        /\ \A f \in Keys : f # k => (<<f, "tmp">> \in disk => <<f, "tmp">> \in disk')
    BY <2>1, <2>2, TmpSteps
  <2>4. NothingDeleted /\ SidecarWhole' /\ OnDisk(<<k, LayoutOf(k)>>)'
    BY <1>3, <2>1, <2>3 DEF NothingDeleted, SidecarWhole, OnDisk, Named, LayoutOf
  <2>5. ChunkInv'
    BY <1>1, <1>2, <2>1, <2>2, <2>3, <2>4, ChunkPutMoves DEF PutPC
  <2>. QED BY <2>4, <2>5
<1>. QED BY <1>5, <1>6, <1>7, <1>8, <1>9

\* What leaves the files alone, and the puts that write them, keeps their part.
LEMMA ChunkIndex ==
  ASSUME StoreInv, ChunkInv, UNCHANGED disk, OneWriter', DirectWhole',
         \A p \in Puts : \/ put'[p] = put[p]
                         \/ put'[p].pc \in {"idle", "start", "finish"},
         \/ UNCHANGED hot_cache
         \/ \E k \in Keys, l \in Layouts \cup {"absent"} :
              SetEntry(k, l) /\ (l # "absent" => OnDisk(<<k, l>>))
  PROVE  ChunkInv'
<1>1. \A k, l : OnDisk(<<k, l>>)' <=> OnDisk(<<k, l>>)
  BY DEF OnDisk, Named
<1>2. SidecarWhole' /\ IndexWhole'
  BY <1>1 DEF ChunkInv, SidecarWhole, Named, IndexWhole, SetEntry, StoreInv, TypeOK
<1>3. PutWhole'
  BY <1>1 DEF ChunkInv, PutWhole, LayoutOf, OnDisk, Named
<1>. QED BY <1>2, <1>3 DEF ChunkInv

\* A put begins, publishes its entry, or ends.
LEMMA ChunkPut ==
  ASSUME BlockFirst \cap Resubmitted = {}, StoreInv, ChunkInv, NEW p \in Puts,
         PutStep(p) \/ \E k \in Keys : SubmitPutTask(p, k)
  PROVE  ChunkInv'
<1>1. /\ put \in [Puts -> [pc : PutPC, key : Keys \cup {NoKey}]]
      /\ \A q \in Puts : put[q].pc = "idle" <=> put[q].key = NoKey
  BY DEF StoreInv, TypeOK, IdleHasNoKey
<1>2. OneWriter /\ DirectWhole /\ PutWhole
  BY DEF ChunkInv
<1>3. CASE InsertKey(p)
  <2>1. PICK k \in Keys : k = put[p].key
    BY <1>1, <1>3 DEF InsertKey
  <2>2. SetEntry(k, LayoutOf(k)) /\ LayoutOf(k) \in Layouts /\ OnDisk(<<k, LayoutOf(k)>>)
    BY <1>2, <1>3, <2>1 DEF InsertKey, PutWhole, LayoutOf, Layouts
  <2>3. \A q \in Puts : /\ put'[q].key = put[q].key
                        /\ q # p => put'[q] = put[q]
                        /\ q = p => put'[q].pc = "finish"
    BY <1>1, <1>3 DEF InsertKey, PutGoes
  <2>4. OneWriter' /\ DirectWhole'
    BY <1>2, <1>3, <2>3 DEF InsertKey, OneWriter, DirectWhole, DirectStores
  <2>5. UNCHANGED disk
    BY <1>3 DEF InsertKey
  <2>. QED BY <2>2, <2>3, <2>4, <2>5, ChunkIndex
<1>4. CASE FinishPut(p)
  <2>1. PICK k \in Keys : k = put[p].key
    BY <1>1, <1>4 DEF FinishPut
  <2>2. /\ put' = [put EXCEPT ![p] = IdlePut] /\ put_tasks' = put_tasks \ {k}
        /\ UNCHANGED <<disk, hot_cache, direct>>
    BY <1>4, <2>1 DEF FinishPut
  <2>3. \A q \in Puts : put'[q] = IF q = p THEN IdlePut ELSE put[q]
    BY <1>1, <2>2
  <2>4. OneWriter'
    BY <1>2, <2>1, <2>2, <2>3 DEF OneWriter, DirectStores, IdlePut
  <2>5. DirectWhole'
    BY <1>2, <2>2 DEF DirectWhole
  <2>. QED BY <2>2, <2>3, <2>4, <2>5, ChunkIndex DEF IdlePut
<1>5. ASSUME NEW k \in Keys, SubmitPutTask(p, k) PROVE ChunkInv'
  <2>1. /\ put' = [put EXCEPT ![p] = [pc |-> "start", key |-> k]]
        /\ put_tasks' = put_tasks \cup {k} /\ put[p].pc = "idle" /\ direct.pc = "idle"
        /\ UNCHANGED <<disk, hot_cache, direct>>
        /\ k \in BlockFirst => \A q \in Puts : put[q].key # k
    BY <1>5 DEF SubmitPutTask, InFlight
  <2>2. \A q \in Puts : put'[q] = IF q = p THEN [pc |-> "start", key |-> k] ELSE put[q]
    BY <1>1, <2>1
  <2>3. OneWriter'
    BY <1>2, <2>1, <2>2 DEF OneWriter, DirectStores
  <2>4. DirectWhole'
    BY <1>2, <2>1 DEF DirectWhole
  <2>. QED BY <2>1, <2>2, <2>3, <2>4, ChunkIndex
<1>6. CASE PutRaises(p)
  <2>1. /\ put' = [put EXCEPT ![p] = IdlePut] /\ UNCHANGED <<disk, hot_cache, direct, put_tasks>>
    BY <1>6 DEF PutRaises
  <2>2. \A q \in Puts : put'[q] = IF q = p THEN IdlePut ELSE put[q]
    BY <1>1, <2>1
  <2>3. OneWriter'
    BY <1>2, <2>1, <2>2 DEF OneWriter, DirectStores, IdlePut
  <2>4. DirectWhole'
    BY <1>2, <2>1 DEF DirectWhole
  <2>. QED BY <2>1, <2>2, <2>3, <2>4, ChunkIndex DEF IdlePut
<1>. QED BY <1>3, <1>4, <1>5, <1>6, ChunkWrites DEF PutStep

\* A step of the direct store on its files.
LEMMA ChunkDirectMoves ==
  ASSUME StoreInv, ChunkInv, NEW k \in BlockFirst, k = direct.key, DirectStores(k),
         NEW pc \in {"write", "replace", "publish", "finish"}, DirectGoes(pc),
         UNCHANGED <<put_tasks, put, hot_cache>>,
         \/ disk' = disk \/ disk' = Opened(k) \/ disk' = Written(k) \/ disk' = disk \ Tmp(k)
         \/ disk' = Replaced(k) /\ <<k, "tmp">> \in disk,
         pc = "replace" => disk' = Written(k), pc = "publish" => <<k, "block_first">> \in disk'
  PROVE  ChunkInv' /\ NothingDeleted
<1>0. k \in Keys /\ direct'.key = k /\ direct'.pc = pc
  BY DEF DirectGoes, StoreInv, TypeOK
<1>2. /\ \A f \in Keys, n \in {"data", "short", "metadata"} : <<f, n>> \in disk' <=> <<f, n>> \in disk
      /\ \A f \in Keys : Named(f)' <=> Named(f)
  <2>1. \A f \in Keys, n \in {"data", "short", "metadata"} :
          <<f, n>> \in disk' <=> <<f, n>> \in disk
    BY DEF Opened, Written, Replaced, Tmp
  <2>. QED BY <2>1 DEF Named
<1>1. NothingDeleted
  <2>1. \A f \in Keys : <<f, "block_first">> \in disk => <<f, "block_first">> \in disk'
    BY <1>0, TmpSteps, ZenonT(40)
  <2>. QED BY <1>2, <2>1 DEF NothingDeleted
<1>3. \A f \in Keys : f # k => (<<f, "tmp">> \in disk => <<f, "tmp">> \in disk')
  BY DEF Opened, Written, Replaced, Tmp
<1>4. SidecarWhole' /\ IndexWhole'
  BY <1>1, <1>2, IndexStays DEF ChunkInv, SidecarWhole
<1>5. OneWriter'
  BY <1>0 DEF ChunkInv, OneWriter, DirectStores
<1>6. DirectWhole'
  BY <1>0, TmpSteps DEF DirectWhole
<1>7. PutWhole'
  <2>. SUFFICES ASSUME NEW q \in Puts
                PROVE  LET f == put[q].key IN
                       /\ put[q].pc = "sidecar" => f \notin BlockFirst /\ Named(f)'
                       /\ put[q].pc = "replace" => f \in BlockFirst /\ <<f, "tmp">> \in disk'
                       /\ put[q].pc = "publish" => OnDisk(<<f, LayoutOf(f)>>)'
    BY DEF PutWhole, LayoutOf
  <2>1. put[q].pc # "idle" => put[q].key \in Keys
    BY DEF StoreInv, TypeOK, IdleHasNoKey
  <2>2. put[q].key # k
    BY DEF ChunkInv, OneWriter
  <2>3. put[q].pc = "publish" => OnDisk(<<put[q].key, LayoutOf(put[q].key)>>)
    BY DEF ChunkInv, PutWhole
  <2>4. ASSUME NEW f \in Keys, OnDisk(<<f, LayoutOf(f)>>)
        PROVE  OnDisk(<<f, LayoutOf(f)>>)'
    BY <1>1, <2>4, OnDiskStays DEF LayoutOf, OnDisk, Named
  <2>5. put[q].pc = "publish" => OnDisk(<<put[q].key, LayoutOf(put[q].key)>>)'
    BY <2>1, <2>3, <2>4
  <2>6. /\ put[q].pc = "sidecar" => put[q].key \notin BlockFirst /\ Named(put[q].key)
        /\ put[q].pc = "replace" => put[q].key \in BlockFirst /\ <<put[q].key, "tmp">> \in disk
    BY DEF ChunkInv, PutWhole
  <2>. QED BY <1>2, <1>3, <2>1, <2>2, <2>5, <2>6
<1>. QED BY <1>1, <1>4, <1>5, <1>6, <1>7 DEF ChunkInv

\* The file steps of a direct store.
LEMMA ChunkDirect ==
  ASSUME StoreInv, ChunkInv, EnsureRegistration \/ SaveDirect \/ ReplaceDirect
  PROVE  ChunkInv' /\ NothingDeleted
<1>1. PICK k \in BlockFirst : k = direct.key
  BY DEF ChunkInv, DirectWhole, EnsureRegistration, SaveDirect, ReplaceDirect
<1>2. DirectStores(k) /\ UNCHANGED <<put_tasks, put, hot_cache>>
  BY <1>1 DEF DirectStores, EnsureRegistration, SaveDirect, ReplaceDirect
<1>3. CASE EnsureRegistration
  BY <1>1, <1>2, <1>3, ChunkDirectMoves DEF EnsureRegistration, Opened, Replaced
<1>4. CASE SaveDirect
  BY <1>1, <1>2, <1>4, ChunkDirectMoves DEF SaveDirect
<1>5. CASE ReplaceDirect
  <2>1. <<k, "tmp">> \in disk
    BY <1>1, <1>5 DEF ReplaceDirect, ChunkInv, DirectWhole
  <2>2. disk' = Replaced(k) /\ DirectGoes("publish")
    BY <1>1, <1>5, <2>1 DEF ReplaceDirect, Tmp
  <2>3. <<k, "block_first">> \in disk'
    BY <2>1, <2>2 DEF Replaced
  <2>. QED BY <1>1, <1>2, <2>1, <2>2, <2>3, ChunkDirectMoves
<1>. QED BY <1>3, <1>4, <1>5

\* The engine thread's steps that leave the files alone.
LEMMA ChunkEngine ==
  ASSUME StoreInv, ChunkInv,
         \/ ClaimKey \/ InsertDirectKey \/ FinishDirect \/ LoadDirect \/ LoadLookup \/ LoadBytes
         \/ \E k \in Keys : DirectPut(k) \/ DirectGet(k) \/ GetBlocking(k)
  PROVE  ChunkInv'
<1>1. /\ direct \in [pc : DirectPC, key : Keys \cup {NoKey}, path : Layouts]
      /\ direct.pc # "idle" => direct.key \in Keys
      /\ OneWriter /\ DirectWhole
  BY DEF StoreInv, TypeOK, IdleHasNoKey, ChunkInv
<1>2. UNCHANGED <<disk, put>>
  BY DEF ClaimKey, InsertDirectKey, FinishDirect, LoadDirect, LoadLookup, LoadBytes, DirectPut,
         DirectGet, GetBlocking
<1>3. ASSUME OneWriter', DirectWhole', UNCHANGED hot_cache PROVE ChunkInv'
  BY <1>2, <1>3, ChunkIndex
<1>4. IdleDirect.pc = "idle"
  BY DEF IdleDirect
<1>5. ASSUME NEW pc \in DirectPC, DirectGoes(pc) PROVE direct'.pc = pc /\ direct'.key = direct.key
  BY <1>1, <1>5 DEF DirectGoes
<1>6. CASE ClaimKey
  <2>1. CASE direct.key \in put_tasks
    BY <1>1, <1>2, <1>3, <1>4, <1>6, <2>1 DEF ClaimKey, OneWriter, DirectWhole, DirectStores
  <2>2. CASE direct.key \notin put_tasks
    <3>1. DirectGoes("register") /\ put_tasks' = put_tasks \cup {direct.key}
          /\ UNCHANGED hot_cache /\ direct.pc = "claim"
      BY <1>6, <2>2 DEF ClaimKey
    <3>2. direct'.pc = "register" /\ direct'.key = direct.key
      BY <1>5, <3>1 DEF DirectPC
    <3>3. OneWriter' /\ DirectWhole'
      BY <1>1, <1>2, <2>2, <3>1, <3>2 DEF OneWriter, DirectWhole, DirectStores
    <3>. QED BY <1>3, <3>1, <3>3
  <2>. QED BY <2>1, <2>2
<1>7. CASE InsertDirectKey
  <2>1. PICK k \in Keys : k = direct.key
    BY <1>1, <1>7 DEF InsertDirectKey
  <2>2. SetEntry(k, "block_first") /\ DirectGoes("finish") /\ UNCHANGED put_tasks
        /\ direct.pc = "publish" /\ OnDisk(<<k, "block_first">>)
    BY <1>1, <1>7, <2>1 DEF InsertDirectKey, DirectWhole, OnDisk, Named
  <2>3. direct'.pc = "finish" /\ direct'.key = direct.key
    BY <1>5, <2>2 DEF DirectPC
  <2>4. OneWriter' /\ DirectWhole'
    BY <1>1, <1>2, <2>2, <2>3 DEF OneWriter, DirectWhole, DirectStores
  <2>. QED BY <1>2, <2>2, <2>4, ChunkIndex DEF Layouts
<1>8. CASE FinishDirect
  <2>1. OneWriter' /\ DirectWhole' /\ UNCHANGED hot_cache
    BY <1>1, <1>2, <1>4, <1>8 DEF FinishDirect, OneWriter, DirectWhole, DirectStores
  <2>. QED BY <1>3, <2>1
<1>9. CASE LoadDirect
  <2>1. OneWriter' /\ DirectWhole' /\ UNCHANGED hot_cache
    BY <1>1, <1>2, <1>4, <1>9 DEF LoadDirect, OneWriter, DirectWhole, DirectStores
  <2>. QED BY <1>3, <2>1
<1>10. CASE LoadLookup
  <2>1. /\ direct.pc = "load" /\ (direct' = IdleDirect \/ DirectGoes("read"))
        /\ UNCHANGED <<hot_cache, put_tasks>>
    BY <1>10 DEF LoadLookup
  <2>2. direct'.pc \in {"idle", "read"}
    BY <1>4, <1>5, <2>1 DEF DirectPC
  <2>3. OneWriter' /\ DirectWhole'
    BY <1>1, <1>2, <2>1, <2>2 DEF OneWriter, DirectWhole, DirectStores
  <2>. QED BY <1>3, <2>1, <2>3
<1>11. CASE LoadBytes
  <2>1. OneWriter' /\ DirectWhole'
    BY <1>1, <1>2, <1>4, <1>11 DEF LoadBytes, OneWriter, DirectWhole, DirectStores
  <2>2. UNCHANGED hot_cache \/ \E k \in Keys : SetEntry(k, "absent")
    BY <1>1, <1>11 DEF LoadBytes
  <2>. QED BY <1>2, <2>1, <2>2, ChunkIndex
<1>12. ASSUME NEW k \in Keys, DirectPut(k) \/ DirectGet(k) \/ GetBlocking(k) PROVE ChunkInv'
  <2>1. /\ direct.pc = "idle" /\ direct'.key = k /\ UNCHANGED <<hot_cache, put_tasks>>
        /\ \/ direct'.pc = "claim" /\ k \in BlockFirst
           \/ direct'.pc \in {"edge", "load"}
    BY <1>12 DEF DirectPut, DirectGet, GetBlocking
  <2>2. OneWriter' /\ DirectWhole'
    BY <1>1, <1>2, <2>1 DEF OneWriter, DirectWhole, DirectStores
  <2>. QED BY <1>3, <2>1, <2>2
<1>. QED BY <1>6, <1>7, <1>8, <1>9, <1>10, <1>11, <1>12

\* What is found on disk has its files.
LEMMA FoundIsOnDisk ==
  ASSUME SidecarWhole, NEW k \in Keys, NEW l \in Found(k)
  PROVE  l \in Layouts /\ OnDisk(<<k, l>>)
BY DEF SidecarWhole, Found, OnDisk, Named, Layouts

\* Every step keeps chunks whole.
LEMMA ChunkStep ==
  ASSUME BlockFirst \cap Resubmitted = {}, StoreInv, ChunkInv, [Next]_vars
  PROVE  ChunkInv'
<1>0. OneWriter /\ DirectWhole /\ SidecarWhole
  BY DEF ChunkInv
<1>1. ASSUME UNCHANGED <<disk, put, direct, put_tasks>>,
             \/ UNCHANGED hot_cache
             \/ \E k \in Keys, l \in Layouts : SetEntry(k, l) /\ OnDisk(<<k, l>>)
      PROVE  ChunkInv'
  <2>1. OneWriter' /\ DirectWhole'
    BY <1>0, <1>1 DEF OneWriter, DirectWhole, DirectStores
  <2>. QED BY <1>1, <2>1, ChunkIndex DEF Layouts
<1>2. ASSUME NEW k \in Keys, Contains(k) \/ ScanMetadata(k) PROVE ChunkInv'
  <2>1. PICK l \in Found(k) : ReadMetadata(k, l)
    BY <1>2 DEF Contains, ScanMetadata
  <2>2. UNCHANGED <<disk, put, direct, put_tasks>>
    BY <1>2 DEF Contains, ScanMetadata
  <2>3. UNCHANGED hot_cache \/ SetEntry(k, l)
    BY <2>1 DEF ReadMetadata
  <2>. QED BY <1>0, <1>1, <2>2, <2>3, FoundIsOnDisk
<1>3. CASE UNCHANGED vars \/ Close \/ CloseEnds \/ ScanEnds
  BY <1>1, <1>3 DEF vars, Close, CloseEnds, ScanEnds
<1>4. CASE Restart
  <2>1. UNCHANGED disk /\ put' = [p \in Puts |-> IdlePut] /\ direct' = IdleDirect
        /\ hot_cache' = [k \in Keys |-> "absent"]
    BY <1>4 DEF Restart
  <2>2. OneWriter' /\ DirectWhole' /\ PutWhole' /\ IndexWhole'
    BY <2>1 DEF OneWriter, DirectWhole, PutWhole, IndexWhole, DirectStores, IdlePut, IdleDirect
  <2>3. SidecarWhole'
    BY <1>0, <2>1 DEF SidecarWhole, Named
  <2>. QED BY <2>2, <2>3 DEF ChunkInv
<1>5. CASE EngineStep
  BY <1>5, ChunkDirect, ChunkEngine DEF EngineStep
<1>. QED BY <1>2, <1>3, <1>4, <1>5, ChunkPut, ChunkEngine DEF Next
-----------------------------------------------------------------------------
(* The tier implements DurableTier: a chunk persists when the last of its  *)
(* files gets its name, and is indexed when its entry is set.              *)

\* A step on files gives at most one chunk the last of its names, and takes none away.
LEMMA TierPersists ==
  ASSUME UNCHANGED hot_cache, NEW k \in Keys, NEW l \in Layouts,
         \/ \A f \in Keys, m \in Layouts : OnDisk(<<f, m>>)' <=> OnDisk(<<f, m>>)
         \/ \A f \in Keys, m \in Layouts :
              OnDisk(<<f, m>>)' <=> OnDisk(<<f, m>>) \/ <<f, m>> = <<k, l>>
  PROVE  [Tier!Step]_(Tier!tierVars)
<1>1. UNCHANGED IndexedChunks
  BY DEF IndexedChunks
<1>2. CASE \A f \in Keys, m \in Layouts : OnDisk(<<f, m>>)' <=> OnDisk(<<f, m>>)
  <2>1. \A e \in Keys \X Layouts : OnDisk(e)' <=> OnDisk(e)
    BY <1>2 DEF OnDisk, Named
  <2>2. UNCHANGED DurableChunks
    BY <2>1 DEF DurableChunks
  <2>. QED BY <1>1, <2>2 DEF Tier!tierVars
<1>3. CASE \A f \in Keys, m \in Layouts :
             OnDisk(<<f, m>>)' <=> OnDisk(<<f, m>>) \/ <<f, m>> = <<k, l>>
  <2>1. \A e \in Keys \X Layouts : OnDisk(e)' <=> OnDisk(e) \/ e = <<k, l>>
    BY <1>3 DEF OnDisk, Named
  <2>2. DurableChunks' = DurableChunks \cup {<<k, l>>}
    BY <2>1 DEF DurableChunks
  <2>3. Tier!Persist(<<k, l>>)
    BY <1>1, <2>2 DEF Tier!Persist
  <2>. QED BY <2>3 DEF Tier!Step
<1>. QED BY <1>2, <1>3

\* An entry is set for a chunk that is on disk, or dropped.
LEMMA TierIndexes ==
  ASSUME StoreInv, UNCHANGED disk, NEW k \in Keys, NEW l \in Layouts \cup {"absent"},
         SetEntry(k, l), l # "absent" => OnDisk(<<k, l>>)
  PROVE  [Tier!Step]_(Tier!tierVars)
<1>1. UNCHANGED DurableChunks
  BY DEF DurableChunks, OnDisk, Named
<1>2. /\ hot_cache \in [Keys -> Layouts \cup {"absent"}]
      /\ hot_cache' = [hot_cache EXCEPT ![k] = l] /\ "absent" \notin Layouts
  BY DEF StoreInv, TypeOK, SetEntry, Layouts
<1>3. CASE l \in Layouts
  <2>1. <<k, l>> \in DurableChunks
    BY <1>2, <1>3 DEF DurableChunks
  <2>2. IndexedChunks' = {f \in IndexedChunks : ~SameKeyOf(<<k, l>>, f)} \cup {<<k, l>>}
    BY <1>2, <1>3 DEF IndexedChunks, SameKeyOf
  <2>3. Tier!Index(<<k, l>>)
    BY <1>1, <2>1, <2>2 DEF Tier!Index
  <2>. QED BY <1>3, <2>3 DEF Tier!Step
<1>4. CASE l = "absent"
  <2>1. CASE hot_cache[k] = "absent"
    <3>1. hot_cache' = hot_cache
      BY <1>2, <1>4, <2>1
    <3>. QED BY <1>1, <3>1 DEF IndexedChunks, Tier!tierVars
  <2>2. CASE hot_cache[k] \in Layouts
    <3>1. IndexedChunks' = IndexedChunks \ {<<k, hot_cache[k]>>}
      BY <1>2, <1>4, <2>2 DEF IndexedChunks
    <3>2. Tier!Forget(<<k, hot_cache[k]>>)
      BY <1>1, <3>1 DEF Tier!Forget
    <3>. QED BY <2>2, <3>2 DEF Tier!Step
  <2>. QED BY <1>2, <2>1, <2>2
<1>. QED BY <1>3, <1>4

\* The file steps of the puts and of the direct stores.
LEMMA TierFiles ==
  ASSUME StoreInv, ChunkInv,
         \/ \E p \in Puts : \/ PreparePut(p) \/ SaveGds(p) \/ SaveMetadata(p)
                            \/ SaveBlockFirst(p) \/ ReplaceBlockFirst(p)
         \/ EnsureRegistration \/ SaveDirect \/ ReplaceDirect
  PROVE  [Tier!Step]_(Tier!tierVars)
<1>0. UNCHANGED hot_cache
  BY DEF PreparePut, SaveGds, SaveMetadata, SaveBlockFirst, ReplaceBlockFirst,
         EnsureRegistration, SaveDirect, ReplaceDirect
<1>1. ASSUME NEW k \in Keys,
             disk' \in {disk, Opened(k), Written(k), disk \ Tmp(k)}
      PROVE  [Tier!Step]_(Tier!tierVars)
  <2>1. \A f \in Keys, n \in {"data", "short", "metadata", "block_first"} :
          <<f, n>> \in disk' <=> <<f, n>> \in disk
    BY <1>1 DEF Opened, Written, Tmp
  <2>2. \A f \in Keys, m \in Layouts : OnDisk(<<f, m>>)' <=> OnDisk(<<f, m>>)
    BY <2>1 DEF OnDisk, Named, Layouts
  <2>. QED BY <1>0, <1>1, <2>2, TierPersists DEF Layouts
<1>2. ASSUME NEW k \in Keys, <<k, "tmp">> \in disk, disk' = Replaced(k)
      PROVE  [Tier!Step]_(Tier!tierVars)
  <2>1. /\ \A f \in Keys, n \in {"data", "short", "metadata"} :
             <<f, n>> \in disk' <=> <<f, n>> \in disk
        /\ \A f \in Keys : <<f, "block_first">> \in disk' <=> f = k \/ <<f, "block_first">> \in disk
    BY <1>2, TmpSteps
  <2>2. \A f \in Keys, m \in Layouts :
          OnDisk(<<f, m>>)' <=> OnDisk(<<f, m>>) \/ <<f, m>> = <<k, "block_first">>
    BY <2>1 DEF OnDisk, Named, Layouts
  <2>. QED BY <1>0, <2>2, TierPersists DEF Layouts
<1>3. ASSUME NEW k \in Keys, NEW n \in {"data", "short"}, disk' = Renamed(k, n)
      PROVE  [Tier!Step]_(Tier!tierVars)
  <2>1. \A f \in Keys : <<f, "metadata">> \in disk => Named(f)
    BY DEF ChunkInv, SidecarWhole
  <2>2. \A f \in Keys, m \in Layouts : OnDisk(<<f, m>>)' <=> OnDisk(<<f, m>>)
    BY <1>3, <2>1, RenamedSteps DEF OnDisk
  <2>. QED BY <1>0, <1>3, <2>2, TierPersists DEF Layouts
<1>7. ASSUME NEW k \in Keys, disk' = disk \cup {<<k, "metadata">>}, Named(k)
      PROVE  [Tier!Step]_(Tier!tierVars)
  <2>1. \A f \in Keys, m \in Layouts :
          OnDisk(<<f, m>>)' <=> OnDisk(<<f, m>>) \/ <<f, m>> = <<k, "legacy">>
    BY <1>7 DEF OnDisk, Named, Layouts
  <2>. QED BY <1>0, <2>1, TierPersists DEF Layouts
<1>4. ASSUME NEW p \in Puts,
             \/ PreparePut(p) \/ SaveGds(p) \/ SaveMetadata(p) \/ SaveBlockFirst(p)
             \/ ReplaceBlockFirst(p)
      PROVE  [Tier!Step]_(Tier!tierVars)
  <2>1. PICK k \in Keys : k = put[p].key
    BY <1>4 DEF StoreInv, TypeOK, IdleHasNoKey, PreparePut, SaveGds, SaveMetadata,
                SaveBlockFirst, ReplaceBlockFirst
  <2>2. CASE PreparePut(p)
    BY <1>1, <2>1, <2>2 DEF PreparePut
  <2>3. CASE SaveGds(p)
    BY <1>1, <1>3, <2>1, <2>3 DEF SaveGds
  <2>4. CASE SaveMetadata(p)
    <3>1. Named(k)
      BY <2>1, <2>4 DEF SaveMetadata, ChunkInv, PutWhole
    <3>. QED BY <1>1, <1>7, <2>1, <2>4, <3>1 DEF SaveMetadata
  <2>5. CASE SaveBlockFirst(p)
    BY <1>1, <2>1, <2>5 DEF SaveBlockFirst
  <2>6. CASE ReplaceBlockFirst(p)
    <3>1. <<k, "tmp">> \in disk
      BY <2>1, <2>6 DEF ReplaceBlockFirst, ChunkInv, PutWhole
    <3>2. disk' = Replaced(k)
      BY <2>1, <2>6, <3>1 DEF ReplaceBlockFirst, Tmp
    <3>. QED BY <1>2, <3>1, <3>2
  <2>. QED BY <1>4, <2>2, <2>3, <2>4, <2>5, <2>6
<1>5. ASSUME EnsureRegistration \/ SaveDirect \/ ReplaceDirect
      PROVE  [Tier!Step]_(Tier!tierVars)
  <2>1. PICK k \in Keys : k = direct.key
    BY <1>5 DEF StoreInv, IdleHasNoKey, EnsureRegistration, SaveDirect, ReplaceDirect
  <2>2. CASE EnsureRegistration
    BY <1>1, <2>1, <2>2 DEF EnsureRegistration
  <2>3. CASE SaveDirect
    BY <1>1, <2>1, <2>3 DEF SaveDirect
  <2>4. CASE ReplaceDirect
    <3>1. <<k, "tmp">> \in disk
      BY <2>1, <2>4 DEF ReplaceDirect, ChunkInv, DirectWhole
    <3>2. disk' = Replaced(k)
      BY <2>1, <2>4, <3>1 DEF ReplaceDirect, Tmp
    <3>. QED BY <1>2, <3>1, <3>2
  <2>. QED BY <1>5, <2>2, <2>3, <2>4
<1>. QED BY <1>4, <1>5

\* Every step of the tier is a step of a durable tier, or none.
LEMMA TierStep ==
  ASSUME StoreInv, ChunkInv, [Next]_vars
  PROVE  [Tier!Step]_(Tier!tierVars)
<1>1. ASSUME UNCHANGED <<disk, hot_cache>> PROVE [Tier!Step]_(Tier!tierVars)
  BY <1>1 DEF Tier!tierVars, DurableChunks, IndexedChunks, OnDisk, Named
<1>2. ASSUME NEW p \in Puts, InsertKey(p) PROVE [Tier!Step]_(Tier!tierVars)
  <2>1. PICK k \in Keys : k = put[p].key
    BY <1>2 DEF StoreInv, TypeOK, IdleHasNoKey, InsertKey
  <2>2. SetEntry(k, LayoutOf(k)) /\ LayoutOf(k) \in Layouts /\ OnDisk(<<k, LayoutOf(k)>>)
        /\ UNCHANGED disk
    BY <1>2, <2>1 DEF InsertKey, ChunkInv, PutWhole, LayoutOf, Layouts
  <2>. QED BY <2>2, TierIndexes
<1>3. CASE InsertDirectKey
  <2>1. PICK k \in Keys : k = direct.key
    BY <1>3 DEF StoreInv, IdleHasNoKey, InsertDirectKey
  <2>2. SetEntry(k, "block_first") /\ OnDisk(<<k, "block_first">>) /\ UNCHANGED disk
    BY <1>3, <2>1 DEF InsertDirectKey, ChunkInv, DirectWhole, OnDisk, Named
  <2>. QED BY <2>2, TierIndexes DEF Layouts
<1>4. CASE LoadBytes
  <2>1. PICK k \in Keys : k = direct.key
    BY <1>4 DEF StoreInv, IdleHasNoKey, LoadBytes
  <2>2. UNCHANGED disk /\ (UNCHANGED hot_cache \/ SetEntry(k, "absent"))
    BY <1>4, <2>1 DEF LoadBytes
  <2>. QED BY <1>1, <2>2, TierIndexes
<1>5. ASSUME NEW k \in Keys, Contains(k) \/ ScanMetadata(k) PROVE [Tier!Step]_(Tier!tierVars)
  <2>1. PICK l \in Found(k) : ReadMetadata(k, l)
    BY <1>5 DEF Contains, ScanMetadata
  <2>2. UNCHANGED disk /\ (UNCHANGED hot_cache \/ SetEntry(k, l))
    BY <1>5, <2>1 DEF Contains, ScanMetadata, ReadMetadata
  <2>3. l \in Layouts /\ OnDisk(<<k, l>>)
    BY FoundIsOnDisk DEF ChunkInv
  <2>. QED BY <1>1, <2>2, <2>3, TierIndexes
<1>6. CASE Restart
  <2>1. UNCHANGED DurableChunks
    BY <1>6 DEF Restart, DurableChunks, OnDisk, Named
  <2>2. IndexedChunks' = {}
    BY <1>6 DEF Restart, IndexedChunks, Layouts
  <2>. QED BY <2>1, <2>2 DEF Tier!Step, Tier!Restart
<1>7. CASE UNCHANGED vars \/ Close \/ CloseEnds \/ ScanEnds
  BY <1>1, <1>7 DEF vars, Close, CloseEnds, ScanEnds
<1>8. CASE ClaimKey \/ FinishDirect \/ LoadDirect \/ LoadLookup
  BY <1>1, <1>8 DEF ClaimKey, FinishDirect, LoadDirect, LoadLookup
<1>9. ASSUME NEW k \in Keys, DirectPut(k) \/ DirectGet(k) \/ GetBlocking(k)
      PROVE  [Tier!Step]_(Tier!tierVars)
  BY <1>1, <1>9 DEF DirectPut, DirectGet, GetBlocking
<1>10. ASSUME NEW p \in Puts, FinishPut(p) \/ PutRaises(p) \/ \E k \in Keys : SubmitPutTask(p, k)
       PROVE  [Tier!Step]_(Tier!tierVars)
  BY <1>1, <1>10 DEF FinishPut, PutRaises, SubmitPutTask
<1>11. CASE EngineStep
  BY <1>3, <1>4, <1>8, <1>11, TierFiles DEF EngineStep
<1>12. ASSUME NEW p \in Puts, PutStep(p) PROVE [Tier!Step]_(Tier!tierVars)
  BY <1>2, <1>10, <1>12, TierFiles DEF PutStep
<1>. QED BY <1>5, <1>6, <1>7, <1>9, <1>10, <1>11, <1>12 DEF Next

\* The tier starts with an empty index over chunks it may find.
LEMMA TierInit == Init => Tier!Start
BY DEF Init, Tier!Start, DurableChunks, IndexedChunks, Layouts

\* For any keys, puts and crashes, the GDS tier implements a durable tier that deletes
\* nothing, when no block-first key is put again while it is being stored: an entry that
\* _insert_key, contains or the startup scan sets stands for a chunk whose files have their
\* names, and keep them whatever later writers, failures and restarts do.  A legacy data file
\* may be short: what it holds is not looked at before it gets its name.
THEOREM GdsTierIsDurable ==
  ASSUME BlockFirst \cap Resubmitted = {}
  PROVE  Spec => ImplementsTier
<1>1. Init => StoreInv /\ ChunkInv
  BY StoreInit, ChunkInit
<1>2. StoreInv /\ ChunkInv /\ [Next]_vars => (StoreInv /\ ChunkInv)'
  BY StoreStep, ChunkStep
<1>3. StoreInv /\ ChunkInv /\ [Next]_vars => [Tier!Step]_(Tier!tierVars)
  BY TierStep
<1>. QED BY <1>1, <1>2, <1>3, TierInit, PTL DEF Spec, ImplementsTier, Tier!Spec
=============================================================================

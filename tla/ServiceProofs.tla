--------------------------- MODULE ServiceProofs ---------------------------
(* The local disk tier keeps its cap, whatever its workers, its engine     *)
(* thread and a remover do to each other, and every reference it holds is  *)
(* accounted for; the service it belongs to keeps its storage as long as   *)
(* anything uses it.                                                       *)
EXTENDS Service, FiniteSetTheorems, TLAPS

USE DiskAssumption, ServiceAssumption
-----------------------------------------------------------------------------
(* Counting                                                                *)

\* The sets of workers that are counted are finite.
LEMMA WorkersFinite ==
  ASSUME NEW S \in SUBSET Workers
  PROVE  IsFiniteSet(S) /\ Cardinality(S) \in Nat
BY FS_Subset, FS_CardinalityType

\* So is the index.
LEMMA KeysFinite ==
  ASSUME NEW S \in SUBSET Keys
  PROVE  IsFiniteSet(S) /\ Cardinality(S) \in Nat
BY FS_Subset, FS_CardinalityType

\* A worker that joins a set of workers, or leaves one, counts for one.
LEMMA OneWorker ==
  ASSUME NEW S \in SUBSET Workers, NEW T \in SUBSET Workers, NEW w \in Workers,
         S \ {w} = T \ {w}
  PROVE  /\ w \in S /\ w \notin T => Cardinality(T) = Cardinality(S) - 1
         /\ w \notin S /\ w \in T => Cardinality(T) = Cardinality(S) + 1
         /\ (w \in S <=> w \in T) => Cardinality(T) = Cardinality(S)
<1>1. IsFiniteSet(S) /\ IsFiniteSet(T) /\ Cardinality(S) \in Nat /\ Cardinality(T) \in Nat
  BY WorkersFinite
<1>2. CASE w \in S /\ w \notin T
  <2>1. T = S \ {w}
    BY <1>2
  <2>. QED BY <1>1, <1>2, <2>1, FS_RemoveElement
<1>3. CASE w \notin S /\ w \in T
  <2>1. T = S \cup {w}
    BY <1>3
  <2>. QED BY <1>1, <1>3, <2>1, FS_AddElement
<1>4. CASE w \in S <=> w \in T
  <2>1. ASSUME NEW v PROVE v \in S <=> v \in T
    <3>1. CASE v = w
      BY <1>4, <3>1
    <3>2. CASE v # w
      <4>1. v \in S \ {w} <=> v \in T \ {w}
        OBVIOUS
      <4>. QED BY <3>2, <4>1
    <3>. QED BY <3>1, <3>2
  <2>2. T = S
    BY <2>1
  <2>. QED BY <1>4, <2>2
<1>. QED BY <1>2, <1>3, <1>4

\* A key is found in a sequence a number of times.
LEMMA TimesType ==
  ASSUME NEW s \in Seq(Keys), NEW k
  PROVE  /\ IsFiniteSet({i \in DOMAIN s : s[i] = k}) /\ Times(s, k) \in Nat
         /\ s = <<>> => Times(s, k) = 0
<1>1. IsFiniteSet(DOMAIN s)
  <2>1. DOMAIN s = 1 .. Len(s) /\ Len(s) \in Int
    OBVIOUS
  <2>. QED BY <2>1, FS_Interval
<1>2. IsFiniteSet({i \in DOMAIN s : s[i] = k})
  BY <1>1, FS_Subset
<1>3. Times(s, k) \in Nat
  BY <1>2, FS_CardinalityType DEF Times
<1>4. ASSUME s = <<>> PROVE Times(s, k) = 0
  <2>1. {i \in DOMAIN s : s[i] = k} = {}
    BY <1>4
  <2>. QED BY <2>1, FS_EmptySet DEF Times
<1>. QED BY <1>2, <1>3, <1>4

\* Once less when the first key is done with.
LEMMA TimesTail ==
  ASSUME NEW s \in Seq(Keys), s # <<>>, NEW k
  PROVE  Times(Tail(s), k) = IF Head(s) = k THEN Times(s, k) - 1 ELSE Times(s, k)
<1>. DEFINE t == Tail(s)
            A == {i \in DOMAIN t : t[i] = k}
            B == {i \in DOMAIN s : s[i] = k}
            f == [i \in A |-> i + 1]
<1>1. /\ t \in Seq(Keys) /\ Len(s) \in Nat /\ Len(s) >= 1 /\ Len(t) = Len(s) - 1
      /\ DOMAIN t = 1 .. Len(s) - 1 /\ DOMAIN s = 1 .. Len(s)
      /\ \A i \in 1 .. Len(s) - 1 : t[i] = s[i + 1]
      /\ Head(s) = s[1]
  OBVIOUS
<1>. HIDE DEF t
<1>2. IsFiniteSet(A) /\ IsFiniteSet(B)
  BY <1>1, TimesType
<1>3. \A i \in A : i \in Nat /\ i + 1 \in B \ {1}
  BY <1>1
<1>4. \A j \in B \ {1} : j - 1 \in A /\ (j - 1) + 1 = j
  BY <1>1
<1>. HIDE DEF A, B
<1>5. f \in [A -> B \ {1}]
  BY <1>3
<1>6. f \in Injection(A, B \ {1})
  BY <1>3, <1>5 DEF Injection, IsInjective
<1>7. f \in Surjection(A, B \ {1})
  BY <1>4, <1>5 DEF Surjection
<1>8. ExistsBijection(A, B \ {1})
  BY <1>6, <1>7 DEF ExistsBijection, Bijection
<1>9. Cardinality(B \ {1}) = Cardinality(A)
  BY <1>2, <1>8, FS_Bijection
<1>10. Cardinality(B \ {1}) = (IF 1 \in B THEN Cardinality(B) - 1 ELSE Cardinality(B))
  BY <1>2, FS_RemoveElement
<1>11. 1 \in B <=> Head(s) = k
  BY <1>1 DEF B
<1>12. Cardinality(B) \in Nat
  BY <1>2, FS_CardinalityType
<1>13. Times(t, k) = Cardinality(A) /\ Times(s, k) = Cardinality(B)
  BY DEF Times, A, B
<1>14. CASE Head(s) = k
  BY <1>9, <1>10, <1>11, <1>13, <1>14 DEF t
<1>15. CASE Head(s) # k
  BY <1>9, <1>10, <1>11, <1>13, <1>15 DEF t
<1>. QED BY <1>14, <1>15
-----------------------------------------------------------------------------
(* What the threads of the tier are doing                                  *)

\* One step of the tier.
DiskMove ==
  \/ \E k \in Keys : \/ \E w \in Workers : SubmitPutTask(w, k)
                     \/ PutRefused(k) \/ GetBlocking(k) \/ RemoveKey(k)
  \/ \E ks \in Batches : StartPrefetch(ks)
  \/ EngineLoad \/ WorkerStep

PutState == [pc : {"idle", "queued", "insert"}, key : Keys \cup {NoKey}]
GetState == [pc : {"idle", "allocate", "read", "unlink"}, key : Keys \cup {NoKey}]
PrefetchState ==
  [pc : {"idle", "load", "unpin", "unlink"}, todo : Seq(Keys), loaded : [Keys -> Nat],
   failed : BOOLEAN]

IndexTypes ==
  /\ dict \subseteq Keys /\ put_tasks \subseteq Keys /\ pins \in [Keys -> Nat]
  /\ current_cache_size \in Int /\ disk_lock \in {"free", "lost"}
RefTypes == refs \in [Keys -> Int] /\ stranded \in [Keys -> Nat]
PutTypes ==
  /\ put \in [Workers -> PutState]
  /\ \A w \in Workers : put[w].pc = "idle" <=> put[w].key = NoKey
GetTypes == get \in GetState /\ (get.pc = "idle" <=> get.key = NoKey)
PrefetchTypes ==
  /\ prefetch \in PrefetchState
  /\ prefetch.pc = "idle" => prefetch.todo = <<>> /\ prefetch.loaded = None
  /\ prefetch.pc = "unpin" => prefetch.todo # <<>>

DiskTypes == IndexTypes /\ RefTypes /\ PutTypes /\ GetTypes /\ PrefetchTypes

\* A put goes on, or ends.
LEMMA PutMoves ==
  ASSUME PutTypes, NEW w \in Workers,
         \/ put[w].pc # "idle" /\ PutGoes(w, "insert")
         \/ put' = [put EXCEPT ![w] = IdlePut]
         \/ \E k \in Keys : put' = [put EXCEPT ![w] = [pc |-> "queued", key |-> k]]
  PROVE  PutTypes'
<1>0. put \in [Workers -> PutState] /\ \A v \in Workers : put[v].pc = "idle" <=> put[v].key = NoKey
  BY DEF PutTypes
<1>1. ASSUME NEW x \in PutState, x.pc = "idle" <=> x.key = NoKey, put' = [put EXCEPT ![w] = x]
      PROVE  PutTypes'
  BY <1>0, <1>1 DEF PutTypes
<1>2. ASSUME put[w].pc # "idle", PutGoes(w, "insert") PROVE PutTypes'
  <2>. DEFINE x == [put[w] EXCEPT !.pc = "insert"]
  <2>1. put[w] \in PutState
    BY <1>0
  <2>2. x \in PutState /\ x.pc = "insert" /\ x.key = put[w].key
    BY <2>1 DEF PutState
  <2>3. put' = [put EXCEPT ![w] = x]
    BY <1>0, <1>2 DEF PutGoes
  <2>4. x.key # NoKey /\ x.pc # "idle"
    BY <1>0, <1>2, <2>2
  <2>. HIDE DEF x
  <2>. QED BY <1>1, <2>2, <2>3, <2>4
<1>3. IdlePut \in PutState /\ IdlePut.pc = "idle" /\ IdlePut.key = NoKey
  BY DEF IdlePut, PutState
<1>4. ASSUME NEW k \in Keys
      PROVE  /\ [pc |-> "queued", key |-> k] \in PutState
             /\ [pc |-> "queued", key |-> k].pc # "idle" /\ [pc |-> "queued", key |-> k].key # NoKey
  BY DEF PutState
<1>. QED BY <1>1, <1>2, <1>3, <1>4

\* What worker w stores.
LEMMA PutKey ==
  ASSUME PutTypes, NEW w \in Workers, put[w].pc # "idle" PROVE put[w].key \in Keys
BY DEF PutTypes, PutState

\* What the engine thread loads.
LEMMA GetKey == ASSUME GetTypes, get.pc # "idle" PROVE get.key \in Keys
BY DEF GetTypes, GetState

\* The key that is loaded next.
LEMMA NextLoaded ==
  ASSUME PrefetchTypes, prefetch.todo # <<>>
  PROVE  /\ Head(prefetch.todo) \in Keys /\ Tail(prefetch.todo) \in Seq(Keys)
         /\ prefetch.todo \in Seq(Keys)
<1>1. prefetch.todo \in Seq(Keys)
  BY DEF PrefetchTypes, PrefetchState
<1>2. ASSUME NEW t \in Seq(Keys), t # <<>> PROVE Head(t) \in Keys /\ Tail(t) \in Seq(Keys)
  BY <1>2
<1>. QED BY <1>1, <1>2

\* A load that does not hold anything.
LEMMA IdleLoads ==
  /\ IdlePrefetch.pc = "idle" /\ IdlePrefetch.todo = <<>> /\ IdlePrefetch.loaded = None
  /\ IdlePrefetch \in PrefetchState /\ None \in [Keys -> Nat] /\ \A k \in Keys : None[k] = 0
  /\ IdleGet.pc = "idle" /\ IdleGet.key = NoKey /\ IdleGet \in GetState
<1>1. None \in [Keys -> Nat] /\ \A k \in Keys : None[k] = 0
  BY DEF None
<1>. QED BY <1>1 DEF IdlePrefetch, PrefetchState, IdleGet, GetState

\* A key that is popped.
LEMMA PoppedTypes ==
  ASSUME IndexTypes, NEW k \in Keys, Popped(k), disk_lock' = disk_lock, put_tasks' = put_tasks
  PROVE  IndexTypes'
<1>1. CASE k \in dict
  <2>1. /\ dict' = dict \ {k} /\ pins' = [pins EXCEPT ![k] = 0]
        /\ current_cache_size' = current_cache_size - 1
    BY <1>1 DEF Popped
  <2>2. pins' \in [Keys -> Nat]
    BY <2>1 DEF IndexTypes
  <2>3. current_cache_size' \in Int
    BY <2>1 DEF IndexTypes
  <2>. QED BY <2>1, <2>2, <2>3 DEF IndexTypes
<1>2. CASE k \notin dict
  BY <1>2 DEF IndexTypes, Popped
<1>. QED BY <1>1, <1>2

\* A reference is taken, or given back.
LEMMA RefTaken ==
  ASSUME RefTypes, NEW k \in Keys, refs' = Count(refs, k, 1)
  PROVE  /\ refs' \in [Keys -> Int] /\ refs'[k] = refs[k] + 1
         /\ \A e \in Keys \ {k} : refs'[e] = refs[e]
BY DEF Count, RefTypes

LEMMA RefGiven ==
  ASSUME RefTypes, NEW k \in Keys, refs' = Count(refs, k, -1)
  PROVE  /\ refs' \in [Keys -> Int] /\ refs'[k] = refs[k] - 1
         /\ \A e \in Keys \ {k} : refs'[e] = refs[e]
<1>1. refs \in [Keys -> Int] /\ refs' = [refs EXCEPT ![k] = @ + (-1)]
  BY DEF Count, RefTypes
<1>2. refs[k] \in Int /\ refs[k] + (-1) = refs[k] - 1
  BY <1>1
<1>. QED BY <1>1, <1>2

\* Unpinning never goes below zero.
LEMMA UnpinTypes ==
  ASSUME IndexTypes, NEW k \in Keys, UnpinEntry(k)
  PROVE  /\ pins' \in [Keys -> Nat] /\ \A e \in Keys \ {k} : pins'[e] = pins[e]
         /\ pins'[k] = IF pins[k] > 0 THEN pins[k] - 1 ELSE 0
<1>1. CASE pins[k] > 0
  BY <1>1 DEF IndexTypes, UnpinEntry, Count
<1>2. CASE ~(pins[k] > 0)
  BY <1>2 DEF IndexTypes, UnpinEntry
<1>. QED BY <1>1, <1>2

\* A batched load that raises.
LEMMA RaisesTypes ==
  ASSUME RefTypes, PrefetchTypes, Raises
  PROVE  RefTypes' /\ PrefetchTypes'
<1>1. /\ prefetch.todo \in Seq(Keys) /\ prefetch.loaded \in [Keys -> Nat]
      /\ stranded \in [Keys -> Nat]
  BY DEF PrefetchTypes, PrefetchState, RefTypes
<1>2. ASSUME NEW k \in Keys
      PROVE  stranded[k] + Times(prefetch.todo, k) + prefetch.loaded[k] \in Nat
  <2>1. Times(prefetch.todo, k) \in Nat
    BY <1>1, TimesType
  <2>. QED BY <1>1, <2>1
<1>3. RefTypes'
  BY <1>2 DEF Raises, RefTypes
<1>4. PrefetchTypes'
  BY IdleLoads DEF Raises, PrefetchTypes
<1>. QED BY <1>3, <1>4

\* The next key of a batched load is done with, and its object kept for the caller or not.
LEMMA TailTypes ==
  ASSUME PrefetchTypes, prefetch.todo # <<>>, NEW kept \in BOOLEAN,
         prefetch' = [prefetch EXCEPT !.pc = "load", !.todo = Tail(@),
                        !.loaded = IF kept THEN Count(@, Head(prefetch.todo), 1) ELSE @]
  PROVE  PrefetchTypes'
<1>. DEFINE k == Head(prefetch.todo)
            l == IF kept THEN Count(prefetch.loaded, k, 1) ELSE prefetch.loaded
<1>1. prefetch \in PrefetchState /\ k \in Keys /\ Tail(prefetch.todo) \in Seq(Keys)
  BY NextLoaded DEF PrefetchTypes
<1>2. l \in [Keys -> Nat]
  BY <1>1 DEF PrefetchState, Count
<1>3. prefetch' = [prefetch EXCEPT !.pc = "load", !.todo = Tail(prefetch.todo), !.loaded = l]
  OBVIOUS
<1>. HIDE DEF l
<1>4. prefetch' \in PrefetchState /\ prefetch'.pc = "load"
  BY <1>1, <1>2, <1>3 DEF PrefetchState
<1>. QED BY <1>4 DEF PrefetchTypes

\* Every step of the tier keeps the types.
LEMMA DiskTypesStep == ASSUME DiskTypes, DiskMove PROVE DiskTypes'
<1>0. IndexTypes /\ RefTypes /\ PutTypes /\ GetTypes /\ PrefetchTypes
  BY DEF DiskTypes
<1>1. ASSUME NEW w \in Workers, NEW k \in Keys, SubmitPutTask(w, k) PROVE DiskTypes'
  <2>1. /\ put_tasks' = put_tasks \cup {k} /\ refs' = Count(refs, k, 1)
        /\ put' = [put EXCEPT ![w] = [pc |-> "queued", key |-> k]]
        /\ UNCHANGED <<pins, get, prefetch, stranded, disk_lock>>
    BY <1>1 DEF SubmitPutTask
  <2>2. PICK E \in Evictable :
          /\ dict' = dict \ E
          /\ current_cache_size' = current_cache_size - Cardinality(E) + 1
    BY <1>1 DEF SubmitPutTask
  <2>3. Cardinality(E) \in Nat
    BY <1>0, KeysFinite DEF IndexTypes, Evictable
  <2>4. IndexTypes'
    BY <1>0, <2>1, <2>2, <2>3 DEF IndexTypes
  <2>5. RefTypes'
    BY <1>0, <2>1, RefTaken DEF RefTypes
  <2>6. PutTypes'
    BY <1>0, <2>1, PutMoves
  <2>7. GetTypes' /\ PrefetchTypes'
    BY <1>0, <2>1 DEF GetTypes, PrefetchTypes
  <2>. QED BY <2>4, <2>5, <2>6, <2>7 DEF DiskTypes
<1>2. ASSUME NEW k \in Keys, PutRefused(k) PROVE DiskTypes'
  <2>1. PICK E \in Evictable :
          dict' = dict \ E /\ current_cache_size' = current_cache_size - Cardinality(E)
    BY <1>2 DEF PutRefused
  <2>2. Cardinality(E) \in Nat
    BY <1>0, KeysFinite DEF IndexTypes, Evictable
  <2>3. put_tasks' \subseteq Keys /\ UNCHANGED <<pins, put, refs, get, prefetch, stranded, disk_lock>>
    BY <1>0, <1>2 DEF PutRefused, IndexTypes
  <2>4. IndexTypes'
    BY <1>0, <2>1, <2>2, <2>3 DEF IndexTypes
  <2>. QED BY <1>0, <2>3, <2>4 DEF DiskTypes, RefTypes, PutTypes, GetTypes, PrefetchTypes
<1>3. ASSUME NEW w \in Workers, WriteFails(w) PROVE DiskTypes'
  <2>1. /\ put[w].pc = "queued" /\ put' = [put EXCEPT ![w] = IdlePut]
        /\ refs' = Count(refs, put[w].key, -1) /\ put_tasks' = put_tasks \ {put[w].key}
        /\ UNCHANGED <<dict, pins, current_cache_size, get, prefetch, stranded, disk_lock>>
    BY <1>3 DEF WriteFails
  <2>2. put[w].key \in Keys
    BY <1>0, <2>1, PutKey
  <2>3. RefTypes'
    BY <1>0, <2>1, <2>2, RefGiven DEF RefTypes
  <2>4. PutTypes'
    BY <1>0, <2>1, PutMoves
  <2>5. IndexTypes' /\ GetTypes' /\ PrefetchTypes'
    BY <1>0, <2>1 DEF IndexTypes, GetTypes, PrefetchTypes
  <2>. QED BY <2>3, <2>4, <2>5 DEF DiskTypes
<1>4. ASSUME NEW w \in Workers, WriteEnds(w) PROVE DiskTypes'
  <2>1. /\ put[w].pc = "queued" /\ PutGoes(w, "insert") /\ refs' = Count(refs, put[w].key, -1)
        /\ UNCHANGED <<dict, pins, put_tasks, current_cache_size, get, prefetch, stranded,
                       disk_lock>>
    BY <1>4 DEF WriteEnds
  <2>2. put[w].key \in Keys
    BY <1>0, <2>1, PutKey
  <2>3. RefTypes'
    BY <1>0, <2>1, <2>2, RefGiven DEF RefTypes
  <2>4. PutTypes'
    BY <1>0, <2>1, PutMoves
  <2>5. IndexTypes' /\ GetTypes' /\ PrefetchTypes'
    BY <1>0, <2>1 DEF IndexTypes, GetTypes, PrefetchTypes
  <2>. QED BY <2>3, <2>4, <2>5 DEF DiskTypes
<1>5. ASSUME NEW w \in Workers, InsertKey(w) PROVE DiskTypes'
  <2>1. /\ put[w].pc = "insert" /\ put' = [put EXCEPT ![w] = IdlePut]
        /\ dict' = dict \cup {put[w].key} /\ pins' = [pins EXCEPT ![put[w].key] = 0]
        /\ put_tasks' = put_tasks \ {put[w].key}
        /\ UNCHANGED <<current_cache_size, refs, get, prefetch, stranded, disk_lock>>
    BY <1>5 DEF InsertKey
  <2>2. put[w].key \in Keys
    BY <1>0, <2>1, PutKey
  <2>3. pins' \in [Keys -> Nat]
    BY <1>0, <2>1, <2>2 DEF IndexTypes
  <2>4. IndexTypes'
    BY <1>0, <2>1, <2>2, <2>3 DEF IndexTypes
  <2>5. PutTypes'
    BY <1>0, <2>1, PutMoves
  <2>6. RefTypes' /\ GetTypes' /\ PrefetchTypes'
    BY <1>0, <2>1 DEF RefTypes, GetTypes, PrefetchTypes
  <2>. QED BY <2>4, <2>5, <2>6 DEF DiskTypes
<1>6. ASSUME NEW k \in Keys, RemoveKey(k) PROVE DiskTypes'
  <2>1. Popped(k) /\ UNCHANGED <<put_tasks, put, refs, get, prefetch, stranded, disk_lock>>
    BY <1>6 DEF RemoveKey
  <2>2. IndexTypes'
    BY <1>0, <2>1, PoppedTypes
  <2>. QED BY <1>0, <2>1, <2>2 DEF DiskTypes, RefTypes, PutTypes, GetTypes, PrefetchTypes
<1>7. ASSUME NEW k \in Keys, GetBlocking(k) PROVE DiskTypes'
  <2>1. /\ get' = [pc |-> "allocate", key |-> k]
        /\ UNCHANGED <<dict, pins, put_tasks, put, current_cache_size, refs, prefetch, stranded,
                       disk_lock>>
    BY <1>7 DEF GetBlocking
  <2>2. GetTypes'
    BY <2>1 DEF GetTypes, GetState
  <2>. QED BY <1>0, <2>1, <2>2 DEF DiskTypes, IndexTypes, RefTypes, PutTypes, PrefetchTypes
<1>8. CASE Allocate
  <2>1. /\ get.pc = "allocate"
        /\ \/ get' = [get EXCEPT !.pc = "read"] /\ refs' = Count(refs, get.key, 1)
           \/ get' = IdleGet /\ UNCHANGED refs
        /\ UNCHANGED <<dict, pins, put_tasks, put, current_cache_size, prefetch, stranded,
                       disk_lock>>
    BY <1>8 DEF Allocate
  <2>2. get.key \in Keys
    BY <1>0, <2>1, GetKey
  <2>3. GetTypes'
    BY <1>0, <2>1, <2>2, IdleLoads DEF GetTypes, GetState
  <2>4. RefTypes'
    BY <1>0, <2>1, <2>2, RefTaken DEF RefTypes
  <2>. QED BY <1>0, <2>1, <2>3, <2>4 DEF DiskTypes, IndexTypes, PutTypes, PrefetchTypes
<1>9. CASE ReadFile
  <2>1. /\ get.pc = "read"
        /\ get' = IdleGet \/ get' = [get EXCEPT !.pc = "unlink"]
        /\ refs' = refs \/ refs' = Count(refs, get.key, -1)
        /\ UNCHANGED <<dict, pins, current_cache_size>> \/ Popped(get.key)
        /\ UNCHANGED <<put_tasks, put, prefetch, stranded, disk_lock>>
    BY <1>9 DEF ReadFile
  <2>2. get.key \in Keys
    BY <1>0, <2>1, GetKey
  <2>3. GetTypes'
    BY <1>0, <2>1, <2>2, IdleLoads DEF GetTypes, GetState
  <2>4. RefTypes'
    BY <1>0, <2>1, <2>2, RefGiven DEF RefTypes
  <2>5. IndexTypes'
    <3>1. CASE UNCHANGED <<dict, pins, current_cache_size>>
      BY <1>0, <2>1, <3>1 DEF IndexTypes
    <3>2. CASE Popped(get.key)
      BY <1>0, <2>1, <2>2, <3>2, PoppedTypes
    <3>. QED BY <2>1, <3>1, <3>2
  <2>. QED BY <1>0, <2>1, <2>3, <2>4, <2>5 DEF DiskTypes, PutTypes, PrefetchTypes
<1>10. CASE UnlinkUnread
  <2>1. /\ get.pc = "unlink" /\ get' = IdleGet
        /\ \/ refs' = Count(refs, get.key, -1) /\ UNCHANGED stranded
           \/ stranded' = Count(stranded, get.key, 1) /\ UNCHANGED refs
        /\ UNCHANGED <<dict, pins, put_tasks, put, current_cache_size, prefetch, disk_lock>>
    BY <1>10 DEF UnlinkUnread
  <2>2. get.key \in Keys
    BY <1>0, <2>1, GetKey
  <2>3. RefTypes'
    <3>1. CASE refs' = Count(refs, get.key, -1) /\ UNCHANGED stranded
      BY <1>0, <2>2, <3>1, RefGiven DEF RefTypes
    <3>2. CASE stranded' = Count(stranded, get.key, 1) /\ UNCHANGED refs
      BY <1>0, <2>2, <3>2 DEF RefTypes, Count
    <3>. QED BY <2>1, <3>1, <3>2
  <2>4. GetTypes'
    BY <2>1, IdleLoads DEF GetTypes
  <2>. QED BY <1>0, <2>1, <2>3, <2>4 DEF DiskTypes, IndexTypes, PutTypes, PrefetchTypes
<1>11. ASSUME NEW ks \in Batches, StartPrefetch(ks) PROVE DiskTypes'
  <2>1. /\ pins' = [k \in Keys |-> pins[k] + Times(ks, k)]
        /\ refs' = [k \in Keys |-> refs[k] + Times(ks, k)] /\ ks \in Seq(Keys)
        /\ prefetch' = [pc |-> "load", todo |-> ks, loaded |-> None, failed |-> FALSE]
        /\ UNCHANGED <<dict, put_tasks, put, current_cache_size, get, stranded, disk_lock>>
    BY <1>11 DEF StartPrefetch
  <2>2. ASSUME NEW k \in Keys
        PROVE  pins[k] + Times(ks, k) \in Nat /\ refs[k] + Times(ks, k) \in Int
    <3>1. Times(ks, k) \in Nat
      BY <2>1, TimesType
    <3>2. pins[k] \in Nat /\ refs[k] \in Int
      BY <1>0 DEF IndexTypes, RefTypes
    <3>. QED BY <3>1, <3>2
  <2>3. IndexTypes' /\ RefTypes'
    BY <1>0, <2>1, <2>2 DEF IndexTypes, RefTypes
  <2>4. PrefetchTypes'
    BY <2>1, IdleLoads DEF PrefetchTypes, PrefetchState
  <2>. QED BY <1>0, <2>1, <2>3, <2>4 DEF DiskTypes, PutTypes, GetTypes
<1>12. CASE LoadNext
  <2>1. /\ Loading(FALSE)
        /\ (PrefetchGoes("unpin") /\ UNCHANGED <<pins, refs, stranded>>) \/ Raises
        /\ UNCHANGED <<dict, put_tasks, put, current_cache_size, get, disk_lock>>
    BY <1>12 DEF LoadNext
  <2>2. UNCHANGED pins /\ RefTypes' /\ PrefetchTypes'
    <3>1. CASE PrefetchGoes("unpin") /\ UNCHANGED <<pins, refs, stranded>>
      BY <1>0, <2>1, <3>1 DEF PrefetchGoes, PrefetchTypes, PrefetchState, RefTypes, Loading
    <3>2. CASE Raises
      BY <1>0, <3>2, RaisesTypes DEF Raises
    <3>. QED BY <2>1, <3>1, <3>2
  <2>. QED BY <1>0, <2>1, <2>2 DEF DiskTypes, IndexTypes, PutTypes, GetTypes
<1>13. CASE UnpinNext
  <2>. DEFINE k == Head(prefetch.todo)
  <2>1. /\ prefetch.pc = "unpin"
        /\ UNCHANGED <<dict, put_tasks, put, current_cache_size, get>>
    BY <1>13 DEF UnpinNext
  <2>2. prefetch.todo # <<>> /\ k \in Keys
    BY <1>0, <2>1, NextLoaded DEF PrefetchTypes
  <2>3. \/ /\ UnpinEntry(k) /\ UNCHANGED <<refs, stranded, disk_lock>>
           /\ prefetch' = [prefetch EXCEPT !.pc = "load", !.todo = Tail(@), !.loaded = Count(@, k, 1)]
        \/ Raises /\ disk_lock' = "lost"
    BY <1>13 DEF UnpinNext
  <2>4. IndexTypes' /\ RefTypes' /\ PrefetchTypes'
    <3>1. CASE /\ UnpinEntry(k) /\ UNCHANGED <<refs, stranded, disk_lock>>
               /\ prefetch' = [prefetch EXCEPT !.pc = "load", !.todo = Tail(@),
                                               !.loaded = Count(@, k, 1)]
      <4>1. pins' \in [Keys -> Nat]
        BY <1>0, <2>2, <3>1, UnpinTypes
      <4>2. PrefetchTypes'
        BY <1>0, <2>2, <3>1, TailTypes
      <4>. QED BY <1>0, <2>1, <3>1, <4>1, <4>2 DEF IndexTypes, RefTypes
    <3>2. CASE Raises /\ disk_lock' = "lost"
      <4>1. RefTypes' /\ PrefetchTypes' /\ pins' = pins
        BY <1>0, <3>2, RaisesTypes DEF Raises
      <4>. QED BY <1>0, <2>1, <3>2, <4>1 DEF IndexTypes
    <3>. QED BY <2>3, <3>1, <3>2
  <2>. QED BY <1>0, <2>1, <2>4 DEF DiskTypes, PutTypes, GetTypes
<1>14. CASE LoadFails
  <2>1. /\ Loading(FALSE) /\ Popped(Head(prefetch.todo))
        /\ \E pc \in {"load", "unlink"} : prefetch' = [prefetch EXCEPT !.pc = pc, !.failed = TRUE]
        /\ UNCHANGED <<put_tasks, put, refs, get, stranded, disk_lock>>
    BY <1>14 DEF LoadFails, Loading
  <2>2. Head(prefetch.todo) \in Keys
    BY <1>0, <2>1, NextLoaded DEF Loading
  <2>3. IndexTypes'
    BY <1>0, <2>1, <2>2, PoppedTypes
  <2>4. PrefetchTypes'
    BY <1>0, <2>1 DEF PrefetchTypes, PrefetchState
  <2>. QED BY <1>0, <2>1, <2>3, <2>4 DEF DiskTypes, RefTypes, PutTypes, GetTypes
<1>15. CASE UnlinkUnloaded
  <2>1. /\ (PrefetchGoes("load") /\ UNCHANGED <<pins, refs, stranded>>) \/ Raises
        /\ UNCHANGED <<dict, put_tasks, put, current_cache_size, get, disk_lock>>
    BY <1>15 DEF UnlinkUnloaded
  <2>2. UNCHANGED pins /\ RefTypes' /\ PrefetchTypes'
    <3>1. CASE PrefetchGoes("load") /\ UNCHANGED <<pins, refs, stranded>>
      BY <1>0, <3>1 DEF PrefetchGoes, PrefetchTypes, PrefetchState, RefTypes
    <3>2. CASE Raises
      BY <1>0, <3>2, RaisesTypes DEF Raises
    <3>. QED BY <2>1, <3>1, <3>2
  <2>. QED BY <1>0, <2>1, <2>2 DEF DiskTypes, IndexTypes, PutTypes, GetTypes
<1>16. CASE DropRest
  <2>. DEFINE k == Head(prefetch.todo)
  <2>1. /\ Loading(TRUE) /\ refs' = Count(refs, k, -1)
        /\ UnpinEntry(k) \/ pins' = pins
        /\ prefetch' = [prefetch EXCEPT !.todo = Tail(@)]
        /\ UNCHANGED <<dict, put_tasks, put, current_cache_size, get, stranded, disk_lock>>
    BY <1>16 DEF DropRest
  <2>2. k \in Keys /\ prefetch.todo # <<>> /\ prefetch.pc = "load"
    BY <1>0, <2>1, NextLoaded DEF Loading
  <2>3. pins' \in [Keys -> Nat]
    BY <1>0, <2>1, <2>2, UnpinTypes DEF IndexTypes
  <2>4. RefTypes'
    BY <1>0, <2>1, <2>2, RefGiven DEF RefTypes
  <2>5. prefetch' = [prefetch EXCEPT !.pc = "load", !.todo = Tail(@),
                       !.loaded = IF FALSE THEN Count(@, Head(prefetch.todo), 1) ELSE @]
    BY <1>0, <2>1, <2>2 DEF PrefetchTypes, PrefetchState
  <2>6. PrefetchTypes'
    BY <1>0, <2>2, <2>5, TailTypes
  <2>. QED BY <1>0, <2>1, <2>3, <2>4, <2>6 DEF DiskTypes, IndexTypes, PutTypes, GetTypes
<1>17. CASE LoadReturns
  <2>1. /\ prefetch' = IdlePrefetch /\ refs' = [k \in Keys |-> refs[k] - prefetch.loaded[k]]
        /\ UNCHANGED <<dict, pins, put_tasks, put, current_cache_size, get, stranded, disk_lock>>
    BY <1>17 DEF LoadReturns
  <2>2. RefTypes'
    <3>1. prefetch.loaded \in [Keys -> Nat]
      BY <1>0 DEF PrefetchTypes, PrefetchState
    <3>. QED BY <1>0, <2>1, <3>1 DEF RefTypes
  <2>3. PrefetchTypes'
    BY <2>1, IdleLoads DEF PrefetchTypes
  <2>. QED BY <1>0, <2>1, <2>2, <2>3 DEF DiskTypes, IndexTypes, PutTypes, GetTypes
<1>. QED BY <1>1, <1>2, <1>3, <1>4, <1>5, <1>6, <1>7, <1>8, <1>9, <1>10, <1>11, <1>12, <1>13,
            <1>14, <1>15, <1>16, <1>17 DEF DiskMove, WorkerStep, EngineLoad
-----------------------------------------------------------------------------
(* The cap of the tier                                                     *)

\* The workers whose put of a key still holds its memory object.
Queued(k) == [pc |-> "queued", key |-> k]
Puts(k) == {w \in Workers : put[w] = Queued(k)}

LEMMA QueuedParts ==
  /\ \A k : Queued(k).pc = "queued" /\ Queued(k).key = k
  /\ \A e, k : Queued(e) = Queued(k) <=> e = k
<1>1. \A k : Queued(k).pc = "queued" /\ Queued(k).key = k
  BY DEF Queued
<1>. QED BY <1>1

\* An idle worker.
LEMMA IdleParts == IdlePut.pc = "idle" /\ IdlePut.key = NoKey
BY DEF IdlePut

\* A put that goes on keeps its key.
LEMMA PutGoesOn ==
  ASSUME PutTypes, NEW w \in Workers, NEW pc, PutGoes(w, pc)
  PROVE  put' = [put EXCEPT ![w] = [pc |-> pc, key |-> put[w].key]]
<1>1. put[w] \in PutState
  BY DEF PutTypes
<1>2. [put[w] EXCEPT !.pc = pc] = [pc |-> pc, key |-> put[w].key]
  BY <1>1 DEF PutState
<1>. QED BY <1>2 DEF PutGoes, PutTypes

\* What one worker does changes the sets of workers by that worker.
LEMMA PutSets ==
  ASSUME PutTypes, NEW w \in Workers, NEW x, put' = [put EXCEPT ![w] = x]
  PROVE  /\ Storing \in SUBSET Workers /\ Storing' \in SUBSET Workers
         /\ Storing \ {w} = Storing' \ {w} /\ (w \in Storing' <=> x.pc # "idle")
         /\ \A k : Puts(k)' \ {w} = Puts(k) \ {w} /\ (w \in Puts(k)' <=> x = Queued(k))
<1>1. /\ put'[w] = x /\ \A v \in Workers \ {w} : put'[v] = put[v]
  BY DEF PutTypes
<1>2. /\ Storing \ {w} = Storing' \ {w} /\ (w \in Storing' <=> x.pc # "idle")
      /\ Storing \in SUBSET Workers /\ Storing' \in SUBSET Workers
  BY <1>1 DEF Storing
<1>3. \A k : Puts(k)' \ {w} = Puts(k) \ {w} /\ (w \in Puts(k)' <=> x = Queued(k))
  BY <1>1 DEF Puts
<1>. QED BY <1>2, <1>3

\* The numbers that are compared.
LEMMA TotalTypes ==
  ASSUME DiskTypes
  PROVE  /\ IsFiniteSet(dict) /\ Cardinality(dict) \in Nat /\ Cardinality(Storing) \in Nat
         /\ current_cache_size \in Int /\ Capacity \in Nat
<1>1. dict \in SUBSET Keys /\ current_cache_size \in Int
  BY DEF DiskTypes, IndexTypes
<1>2. Storing \in SUBSET Workers
  BY DEF Storing
<1>. QED BY <1>1, <1>2, KeysFinite, WorkersFinite

\* A key that is popped leaves the index and the cache size together.
LEMMA PoppedTotals ==
  ASSUME DiskTypes, DiskCapRespected, NEW k \in Keys, Popped(k), put' = put
  PROVE  DiskCapRespected'
<1>0. Storing' = Storing
  BY DEF Storing
<1>1. CASE k \in dict
  <2>1. dict' = dict \ {k} /\ current_cache_size' = current_cache_size - 1
    BY <1>1 DEF Popped
  <2>2. Cardinality(dict') = Cardinality(dict) - 1
    BY <1>1, <2>1, TotalTypes, FS_RemoveElement
  <2>. QED BY <1>0, <2>1, <2>2, TotalTypes, SMTT(20) DEF DiskCapRespected
<1>2. CASE k \notin dict
  <2>1. dict' = dict /\ current_cache_size' = current_cache_size
    BY <1>2 DEF Popped
  <2>. QED BY <1>0, <2>1 DEF DiskCapRespected
<1>. QED BY <1>1, <1>2

\* What is evicted leaves the index.
LEMMA EvictedTotals ==
  ASSUME DiskTypes, DiskCapRespected, NEW E \in Evictable, dict' = dict \ E
  PROVE  /\ Cardinality(E) \in Nat /\ Cardinality(dict') = Cardinality(dict) - Cardinality(E)
         /\ current_cache_size + 1 - Capacity <= Needed
         /\ Needed = 0 \/ Needed = current_cache_size + 1 - Capacity
<1>1. E \subseteq dict /\ IsFiniteSet(dict) /\ IsFiniteSet(E) /\ Cardinality(E) \in Nat
  BY TotalTypes, FS_Subset, FS_CardinalityType DEF Evictable
<1>2. Cardinality(dict') = Cardinality(dict) - Cardinality(E)
  <2>1. dict \cap E = E
    BY <1>1
  <2>2. Cardinality(dict \ E) = Cardinality(dict) - Cardinality(dict \cap E)
    BY <1>1, FS_Difference
  <2>. QED BY <2>1, <2>2
<1>3. ASSUME NEW n \in Int PROVE Max({0, n}) = IF n > 0 THEN n ELSE 0
  BY DEF Max
<1>4. current_cache_size + 1 - Capacity \in Int
  BY TotalTypes
<1>5. Needed = IF current_cache_size + 1 - Capacity > 0 THEN current_cache_size + 1 - Capacity ELSE 0
  BY <1>3, <1>4 DEF Needed
<1>. QED BY <1>1, <1>2, <1>4, <1>5

\* Every step of the tier keeps the cap.
LEMMA DiskTotalsStep == ASSUME DiskTypes, DiskCapRespected, DiskMove PROVE DiskCapRespected'
<1>0. IndexTypes /\ RefTypes /\ PutTypes /\ GetTypes /\ PrefetchTypes
  BY DEF DiskTypes
<1>. DEFINE D == Cardinality(dict)
            S == Cardinality(Storing)
<1>01. /\ D \in Nat /\ S \in Nat /\ current_cache_size \in Int /\ Capacity \in Nat
       /\ D + S <= current_cache_size /\ current_cache_size <= Capacity
  BY TotalTypes DEF DiskCapRespected
<1>1. ASSUME NEW w \in Workers, NEW k \in Keys, SubmitPutTask(w, k) PROVE DiskCapRespected'
  <2>. DEFINE x == [pc |-> "queued", key |-> k]
  <2>1. put[w].pc = "idle" /\ put' = [put EXCEPT ![w] = x]
    BY <1>1 DEF SubmitPutTask
  <2>2. PICK E \in Evictable :
          /\ Cardinality(E) = Needed
          /\ dict' = dict \ E
          /\ current_cache_size' = current_cache_size - Cardinality(E) + 1
    BY <1>1 DEF SubmitPutTask
  <2>3. x.pc = "queued"
    OBVIOUS
  <2>. HIDE DEF x
  <2>4. w \notin Storing /\ w \in Storing'
    BY <1>0, <2>1, <2>3, PutSets DEF Storing
  <2>5. Cardinality(Storing') = S + 1
    BY <1>0, <2>1, <2>4, PutSets, OneWorker
  <2>6. /\ Cardinality(E) \in Nat /\ Cardinality(dict') = D - Cardinality(E)
        /\ current_cache_size + 1 - Capacity <= Cardinality(E)
        /\ Cardinality(E) = 0 \/ Cardinality(E) = current_cache_size + 1 - Capacity
    BY <2>2, EvictedTotals
  <2>. HIDE DEF D, S
  <2>7. /\ Cardinality(dict') + Cardinality(Storing') <= current_cache_size'
        /\ current_cache_size' <= Capacity
    BY <1>01, <2>2, <2>5, <2>6, SMTT(20)
  <2>. QED BY <2>7 DEF DiskCapRespected
<1>2. ASSUME NEW k \in Keys, PutRefused(k) PROVE DiskCapRespected'
  <2>1. PICK E \in Evictable :
          dict' = dict \ E /\ current_cache_size' = current_cache_size - Cardinality(E)
    BY <1>2 DEF PutRefused
  <2>2. Cardinality(E) \in Nat /\ Cardinality(dict') = D - Cardinality(E)
    BY <2>1, EvictedTotals
  <2>3. Storing' = Storing
    BY <1>2 DEF PutRefused, Storing
  <2>. HIDE DEF D
  <2>. QED BY <1>01, <2>1, <2>2, <2>3, SMTT(20) DEF DiskCapRespected
<1>3. ASSUME NEW w \in Workers, WriteFails(w) \/ InsertKey(w) PROVE DiskCapRespected'
  <2>1. /\ put[w].pc # "idle" /\ put' = [put EXCEPT ![w] = IdlePut]
        /\ dict' = dict \/ dict' = dict \cup {put[w].key}
        /\ current_cache_size' = current_cache_size
    BY <1>3 DEF WriteFails, InsertKey
  <2>2. w \in Storing /\ w \notin Storing'
    <3>1. w \in Storing
      BY <2>1 DEF Storing
    <3>. QED BY <1>0, <2>1, <3>1, PutSets, IdleParts
  <2>3. Cardinality(Storing') = S - 1
    BY <1>0, <2>1, <2>2, PutSets, OneWorker
  <2>4. Cardinality(dict') = D \/ Cardinality(dict') = D + 1
    BY <2>1, TotalTypes, FS_AddElement
  <2>. HIDE DEF D, S
  <2>. QED BY <1>01, <2>1, <2>3, <2>4 DEF DiskCapRespected
<1>4. ASSUME NEW w \in Workers, WriteEnds(w) PROVE DiskCapRespected'
  <2>. DEFINE x == [pc |-> "insert", key |-> put[w].key]
  <2>1. /\ put[w].pc = "queued" /\ PutGoes(w, "insert")
        /\ dict' = dict /\ current_cache_size' = current_cache_size
    BY <1>4 DEF WriteEnds
  <2>2. put' = [put EXCEPT ![w] = x] /\ x.pc = "insert"
    <3>1. put' = [put EXCEPT ![w] = [pc |-> "insert", key |-> put[w].key]]
      BY <1>0, <2>1, PutGoesOn
    <3>. QED BY <3>1
  <2>. HIDE DEF x
  <2>3. w \in Storing /\ w \in Storing'
    BY <1>0, <2>1, <2>2, PutSets DEF Storing
  <2>4. Cardinality(Storing') = S
    BY <1>0, <2>2, <2>3, PutSets, OneWorker
  <2>. QED BY <2>1, <2>4 DEF DiskCapRespected
<1>5. ASSUME NEW k \in Keys, RemoveKey(k) PROVE DiskCapRespected'
  BY <1>5, PoppedTotals DEF RemoveKey
<1>6. ASSUME UNCHANGED <<dict, put, current_cache_size>> PROVE DiskCapRespected'
  BY <1>6 DEF DiskCapRespected, Storing
<1>7. CASE ReadFile
  <2>1. /\ get.pc = "read" /\ put' = put
        /\ UNCHANGED <<dict, current_cache_size>> \/ Popped(get.key)
    BY <1>7 DEF ReadFile
  <2>. QED BY <1>0, <1>6, <2>1, GetKey, PoppedTotals
<1>8. CASE LoadFails
  <2>1. prefetch.todo # <<>> /\ Popped(Head(prefetch.todo)) /\ put' = put
    BY <1>8 DEF LoadFails, Loading
  <2>. QED BY <1>0, <2>1, NextLoaded, PoppedTotals
<1>9. CASE \/ Allocate \/ UnlinkUnread \/ UnlinkUnloaded \/ LoadNext \/ UnpinNext \/ DropRest
           \/ LoadReturns \/ \E k \in Keys : GetBlocking(k)
           \/ \E ks \in Batches : StartPrefetch(ks)
  BY <1>6, <1>9 DEF Allocate, UnlinkUnread, UnlinkUnloaded, LoadNext, UnpinNext, DropRest,
                    LoadReturns, GetBlocking, StartPrefetch
<1>. QED BY <1>1, <1>2, <1>3, <1>4, <1>5, <1>7, <1>8, <1>9 DEF DiskMove, WorkerStep, EngineLoad
-----------------------------------------------------------------------------
(* What is held of memory objects and pins                                 *)

\* What the engine thread's load holds.
HoldsOne(h, k) == Cardinality({g \in {h} : g.key = k /\ g.pc \in {"read", "unlink"}})
Got(k) == HoldsOne(get, k)

LEMMA GotOne ==
  ASSUME NEW g, NEW k
  PROVE  HoldsOne(g, k) = IF g.key = k /\ g.pc \in {"read", "unlink"} THEN 1 ELSE 0
<1>. DEFINE G == {h \in {g} : h.key = k /\ h.pc \in {"read", "unlink"}}
<1>1. CASE g.key = k /\ g.pc \in {"read", "unlink"}
  <2>1. G = {g}
    BY <1>1
  <2>. QED BY <1>1, <2>1, FS_Singleton DEF HoldsOne
<1>2. CASE ~(g.key = k /\ g.pc \in {"read", "unlink"})
  <2>1. G = {}
    BY <1>2
  <2>2. Cardinality({}) = 0
    BY FS_EmptySet
  <2>. QED BY <1>2, <2>1, <2>2 DEF HoldsOne
<1>. QED BY <1>1, <1>2

\* What a key's puts and loads hold.
Underway(k) == Cardinality(Puts(k)) + Got(k) + Times(prefetch.todo, k) + prefetch.loaded[k]

\* A key that is not in the index has no pins: a batched load that finds its entry gone has
\* none to take off.
HeldInv ==
  \A k \in Keys :
    /\ refs[k] = Underway(k) + stranded[k]
    /\ pins[k] <= Times(prefetch.todo, k) + stranded[k]
    /\ k \notin dict => pins[k] = 0

\* The numbers that are compared.
LEMMA HeldTypes ==
  ASSUME DiskTypes, NEW k \in Keys
  PROVE  /\ Puts(k) \in SUBSET Workers /\ Cardinality(Puts(k)) \in Nat /\ Got(k) \in Nat
         /\ Times(prefetch.todo, k) \in Nat /\ prefetch.loaded[k] \in Nat
         /\ pins[k] \in Nat /\ refs[k] \in Int /\ stranded[k] \in Nat
<1>1. Puts(k) \in SUBSET Workers
  BY DEF Puts
<1>2. prefetch.todo \in Seq(Keys) /\ prefetch.loaded \in [Keys -> Nat]
  BY DEF DiskTypes, PrefetchTypes, PrefetchState
<1>3. Got(k) \in Nat
  BY GotOne DEF Got
<1>. QED BY <1>1, <1>2, <1>3, WorkersFinite, TimesType DEF DiskTypes, IndexTypes, RefTypes

\* A put that begins, or has its object given back, counts for one on its key.
LEMMA PutHolds ==
  ASSUME PutTypes, NEW w \in Workers, NEW x, put' = [put EXCEPT ![w] = x], NEW k \in Keys
  PROVE  /\ put[w] = Queued(k) /\ x # Queued(k) => Cardinality(Puts(k)') = Cardinality(Puts(k)) - 1
         /\ put[w] # Queued(k) /\ x = Queued(k) => Cardinality(Puts(k)') = Cardinality(Puts(k)) + 1
         /\ (put[w] = Queued(k) <=> x = Queued(k)) => Cardinality(Puts(k)') = Cardinality(Puts(k))
<1>1. /\ Puts(k)' \ {w} = Puts(k) \ {w} /\ (w \in Puts(k)' <=> x = Queued(k))
      /\ Puts(k) \in SUBSET Workers /\ Puts(k)' \in SUBSET Workers
      /\ w \in Puts(k) <=> put[w] = Queued(k)
  <2>1. Puts(k)' \ {w} = Puts(k) \ {w} /\ (w \in Puts(k)' <=> x = Queued(k))
    BY PutSets
  <2>. QED BY <2>1 DEF Puts
<1>. QED BY <1>1, OneWorker

\* A step that keeps the references in step with what is under way, and no entry gains pins.
LEMMA HeldIf ==
  ASSUME DiskTypes, DiskTypes', HeldInv,
         \A e \in Keys :
           /\ refs'[e] - refs[e] = Underway(e)' - Underway(e) + stranded'[e] - stranded[e]
           /\ pins'[e] <= Times(prefetch'.todo, e) + stranded'[e]
           /\ e \notin dict' => pins'[e] = 0
  PROVE  HeldInv'
<1>1. ASSUME NEW e \in Keys PROVE Underway(e) \in Int /\ Underway(e)' \in Int
  <2>1. Underway(e) \in Int
    BY HeldTypes DEF Underway
  <2>2. /\ Cardinality(Puts(e)') \in Nat /\ Got(e)' \in Nat /\ Times(prefetch'.todo, e) \in Nat
        /\ prefetch'.loaded[e] \in Nat
    <3>1. Puts(e)' \in SUBSET Workers
      BY DEF Puts
    <3>2. prefetch'.todo \in Seq(Keys) /\ prefetch'.loaded \in [Keys -> Nat]
      BY DEF DiskTypes, PrefetchTypes, PrefetchState
    <3>3. Got(e)' \in Nat
      BY GotOne DEF Got
    <3>. QED BY <3>1, <3>2, <3>3, WorkersFinite, TimesType
  <2>. QED BY <2>1, <2>2 DEF Underway
<1>2. ASSUME NEW e \in Keys PROVE refs'[e] = Underway(e)' + stranded'[e]
  <2>1. refs[e] = Underway(e) + stranded[e] /\ refs[e] \in Int /\ stranded[e] \in Nat
    BY HeldTypes DEF HeldInv
  <2>2. refs'[e] \in Int /\ stranded'[e] \in Nat
    BY DEF DiskTypes, RefTypes
  <2>3. refs'[e] - refs[e] = Underway(e)' - Underway(e) + stranded'[e] - stranded[e]
    OBVIOUS
  <2>. QED BY <1>1, <2>1, <2>2, <2>3, SMTT(20)
<1>. QED BY <1>2 DEF HeldInv

\* What does not move holds what it held.
LEMMA Standing ==
  /\ put' = put => \A e : Puts(e)' = Puts(e)
  /\ get' = get => \A e : Got(e)' = Got(e)
BY DEF Puts, Got

\* A key is popped with its pins.
LEMMA PoppedPins ==
  ASSUME DiskTypes, HeldInv, NEW k \in Keys, Popped(k), NEW e \in Keys
  PROVE  pins'[e] \in Nat /\ pins'[e] <= pins[e] /\ (e \notin dict' => pins'[e] = 0)
<1>0. IndexTypes /\ pins[e] \in Nat /\ (e \notin dict => pins[e] = 0)
  BY HeldTypes DEF DiskTypes, HeldInv
<1>1. CASE k \in dict
  <2>1. dict' = dict \ {k} /\ pins' = [pins EXCEPT ![k] = 0]
    BY <1>1 DEF Popped
  <2>2. pins'[e] = IF e = k THEN 0 ELSE pins[e]
    BY <1>0, <2>1 DEF IndexTypes
  <2>. QED BY <1>0, <2>1, <2>2
<1>2. CASE k \notin dict
  <2>1. dict' = dict /\ pins' = pins
    BY <1>2 DEF Popped
  <2>. QED BY <1>0, <2>1
<1>. QED BY <1>1, <1>2

\* What is evicted has no pins.
LEMMA EvictedPins ==
  ASSUME HeldInv, NEW E \in Evictable, dict' = dict \ E, pins' = pins, NEW e \in Keys
  PROVE  e \notin dict' => pins'[e] = 0
BY DEF HeldInv, Evictable

\* A batched load that raises leaves behind what it holds.
LEMMA RaisesHeld ==
  ASSUME DiskTypes, HeldInv, Raises, NEW e \in Keys
  PROVE  /\ refs'[e] = refs[e] /\ pins'[e] = pins[e]
         /\ Times(prefetch'.todo, e) = 0 /\ prefetch'.loaded[e] = 0
         /\ stranded'[e] = stranded[e] + Times(prefetch.todo, e) + prefetch.loaded[e]
<1>1. prefetch'.todo = <<>> /\ prefetch'.loaded[e] = 0
  BY IdleLoads DEF Raises
<1>2. <<>> \in Seq(Keys)
  OBVIOUS
<1>3. Times(prefetch'.todo, e) = 0
  BY <1>1, <1>2, TimesType
<1>. QED BY <1>1, <1>3 DEF Raises

\* What is left of a batch.
LEMMA TailTimes ==
  ASSUME PrefetchTypes, prefetch.todo # <<>>, NEW e PROVE Times(Tail(prefetch.todo), e) \in Nat
BY NextLoaded, TimesType

\* What is held of four kinds changes by what the first two change by.
LEMMA Sums ==
  ASSUME NEW q \in Nat, NEW g \in Nat, NEW t \in Nat, NEW l \in Nat, NEW p \in Nat,
         NEW h \in Nat, NEW n \in Int, p + h = q + g + n
  PROVE  p + h + t + l = q + g + t + l + n /\ q + g + t + l \in Int
OBVIOUS

LEMMA Moved ==
  ASSUME NEW r \in Int, NEW u \in Int, NEW s \in Int, NEW n \in Int
  PROVE  (r + n) - r = (u + n) - u + s - s
OBVIOUS

\* Every step of the tier keeps what is held.
LEMMA DiskHeldStep == ASSUME DiskTypes, HeldInv, DiskMove PROVE HeldInv'
<1>0. DiskTypes' /\ IndexTypes /\ RefTypes /\ PutTypes /\ GetTypes /\ PrefetchTypes
  BY DiskTypesStep DEF DiskTypes
<1>. DEFINE Step(e) ==
              /\ refs'[e] - refs[e] = Underway(e)' - Underway(e) + stranded'[e] - stranded[e]
              /\ pins'[e] <= Times(prefetch'.todo, e) + stranded'[e]
              /\ e \notin dict' => pins'[e] = 0
<1>01. ASSUME \A e \in Keys : Step(e) PROVE HeldInv'
  BY <1>0, <1>01, HeldIf
<1>. DEFINE Numbers(e) ==
              /\ Cardinality(Puts(e)) \in Nat /\ Got(e) \in Nat /\ stranded[e] \in Nat
              /\ Times(prefetch.todo, e) \in Nat /\ prefetch.loaded[e] \in Nat
              /\ pins[e] \in Nat /\ refs[e] \in Int
              /\ pins[e] <= Times(prefetch.todo, e) + stranded[e] /\ (e \notin dict => pins[e] = 0)
<1>02. ASSUME NEW e \in Keys PROVE Numbers(e)
  BY HeldTypes DEF HeldInv
<1>03. ASSUME NEW e \in Keys, NEW n \in Int, refs'[e] = refs[e] + n,
              Cardinality(Puts(e)') + Got(e)' = Cardinality(Puts(e)) + Got(e) + n,
              Cardinality(Puts(e)') \in Nat, Got(e)' \in Nat,
              prefetch' = prefetch, stranded' = stranded, pins'[e] \in Nat, pins'[e] <= pins[e],
              e \notin dict' => pins'[e] = 0
       PROVE  Step(e)
  <2>0. Numbers(e)
    BY <1>02
  <2>1. /\ Underway(e) = Cardinality(Puts(e)) + Got(e) + Times(prefetch.todo, e) + prefetch.loaded[e]
        /\ Underway(e)' = Cardinality(Puts(e)') + Got(e)' + Times(prefetch.todo, e) + prefetch.loaded[e]
    BY <1>03 DEF Underway
  <2>2. Underway(e)' = Underway(e) + n /\ Underway(e) \in Int
    <3>. DEFINE q == Cardinality(Puts(e))
                g == Got(e)
                t == Times(prefetch.todo, e)
                l == prefetch.loaded[e]
                p == Cardinality(Puts(e)')
                h == Got(e)'
    <3>1. /\ q \in Nat /\ g \in Nat /\ t \in Nat /\ l \in Nat /\ p \in Nat /\ h \in Nat
          /\ n \in Int /\ p + h = q + g + n
      BY <1>03, <2>0
    <3>2. Underway(e) = q + g + t + l /\ Underway(e)' = p + h + t + l
      BY <2>1
    <3>. HIDE DEF q, g, t, l, p, h
    <3>3. p + h + t + l = q + g + t + l + n /\ q + g + t + l \in Int
      BY <3>1, Sums
    <3>. QED BY <3>2, <3>3
  <2>3. refs'[e] - refs[e] = Underway(e)' - Underway(e) + stranded'[e] - stranded[e]
    BY <1>03, <2>0, <2>2, Moved
  <2>4. pins'[e] <= Times(prefetch.todo, e) + stranded[e]
    <3>. DEFINE a == pins'[e]
                b == pins[e]
                c == Times(prefetch.todo, e)
                d == stranded[e]
    <3>1. a \in Nat /\ b \in Nat /\ a <= b /\ b <= c + d /\ c \in Nat /\ d \in Nat
      BY <1>03, <2>0
    <3>. HIDE DEF a, b, c, d
    <3>2. a <= c + d
      BY <3>1
    <3>. QED BY <3>2 DEF a, c, d
  <2>. QED BY <1>03, <2>3, <2>4
<1>04. ASSUME NEW e \in Keys, NEW n \in Int, refs'[e] = refs[e] + n,
              Cardinality(Puts(e)') = Cardinality(Puts(e)) + n, get' = get,
              prefetch' = prefetch, stranded' = stranded, pins'[e] \in Nat, pins'[e] <= pins[e],
              e \notin dict' => pins'[e] = 0
       PROVE  Step(e)
  <2>1. Got(e)' = Got(e) /\ Cardinality(Puts(e)') \in Nat
    <3>1. Puts(e)' \in SUBSET Workers
      BY DEF Puts
    <3>. QED BY <1>04, <3>1, Standing, WorkersFinite
  <2>2. Cardinality(Puts(e)') + Got(e)' = Cardinality(Puts(e)) + Got(e) + n
    BY <1>02, <1>04, <2>1
  <2>. HIDE DEF Step
  <2>. QED BY <1>02, <1>03, <1>04, <2>1, <2>2
<1>05. ASSUME NEW e \in Keys, NEW n \in Int, refs'[e] = refs[e] + n, Got(e)' = Got(e) + n,
              Got(e)' \in Nat, put' = put,
              prefetch' = prefetch, stranded' = stranded, pins'[e] \in Nat, pins'[e] <= pins[e],
              e \notin dict' => pins'[e] = 0
       PROVE  Step(e)
  <2>1. Cardinality(Puts(e)') = Cardinality(Puts(e))
    BY <1>05, Standing
  <2>2. Cardinality(Puts(e)') + Got(e)' = Cardinality(Puts(e)) + Got(e) + n
    BY <1>02, <1>05, <2>1
  <2>. HIDE DEF Step
  <2>. QED BY <1>02, <1>03, <1>05, <2>1, <2>2
<1>06. ASSUME NEW e \in Keys, refs' = refs, put' = put, get' = get,
              prefetch' = prefetch, stranded' = stranded, pins'[e] \in Nat, pins'[e] <= pins[e],
              e \notin dict' => pins'[e] = 0
       PROVE  Step(e)
  <2>. DEFINE n == 0
  <2>1. refs'[e] = refs[e] + n /\ Cardinality(Puts(e)') = Cardinality(Puts(e)) + n /\ n \in Int
    BY <1>02, <1>06, Standing
  <2>. HIDE DEF n, Step
  <2>. QED BY <1>04, <1>06, <2>1
<1>1. ASSUME NEW w \in Workers, NEW k \in Keys, SubmitPutTask(w, k) PROVE HeldInv'
  <2>1. /\ put[w].pc = "idle" /\ put' = [put EXCEPT ![w] = Queued(k)] /\ refs' = Count(refs, k, 1)
        /\ UNCHANGED <<pins, get, prefetch, stranded>>
    BY <1>1 DEF SubmitPutTask, Queued
  <2>2. PICK E \in Evictable : dict' = dict \ E
    BY <1>1 DEF SubmitPutTask
  <2>3. \A e : put[w] # Queued(e) /\ (Queued(k) = Queued(e) <=> e = k)
    BY <2>1, QueuedParts
  <2>4. ASSUME NEW e \in Keys PROVE Step(e)
    <3>. DEFINE n == IF e = k THEN 1 ELSE 0
    <3>1. refs'[e] = refs[e] + n
      BY <1>0, <1>02, <2>1, RefTaken
    <3>2. Cardinality(Puts(e)') = Cardinality(Puts(e)) + n
      <4>1. put' = [put EXCEPT ![w] = Queued(k)] /\ put[w] # Queued(e)
        BY <2>1, <2>3
      <4>2. e = k => Cardinality(Puts(e)') = Cardinality(Puts(e)) + 1
        BY <1>0, <4>1, PutHolds, Zenon
      <4>3. e # k => Cardinality(Puts(e)') = Cardinality(Puts(e))
        <5>1. e # k => Queued(k) # Queued(e)
          BY <2>3
        <5>. QED BY <1>0, <4>1, <5>1, PutHolds, Zenon
      <4>4. Numbers(e)
        BY <1>02
      <4>. QED BY <4>2, <4>3, <4>4
    <3>3. pins'[e] \in Nat /\ pins'[e] <= pins[e] /\ (e \notin dict' => pins'[e] = 0)
      BY <1>02, <2>1, <2>2, EvictedPins
    <3>4. n \in Int
      OBVIOUS
    <3>. HIDE DEF n, Step
    <3>. QED BY <1>04, <2>1, <3>1, <3>2, <3>3, <3>4
  <2>. QED BY <1>01, <2>4
<1>2. ASSUME NEW k \in Keys, PutRefused(k) PROVE HeldInv'
  <2>1. PICK E \in Evictable : dict' = dict \ E
    BY <1>2 DEF PutRefused
  <2>2. UNCHANGED <<pins, put, refs, get, prefetch, stranded>>
    BY <1>2 DEF PutRefused
  <2>3. ASSUME NEW e \in Keys PROVE Step(e)
    <3>1. pins'[e] \in Nat /\ pins'[e] <= pins[e] /\ (e \notin dict' => pins'[e] = 0)
      BY <1>02, <2>1, <2>2, EvictedPins
    <3>. HIDE DEF Step
    <3>. QED BY <1>06, <2>2, <3>1
  <2>. QED BY <1>01, <2>3
<1>3. ASSUME NEW w \in Workers, WriteFails(w) \/ WriteEnds(w) PROVE HeldInv'
  <2>. DEFINE k == put[w].key
  <2>1. /\ put[w].pc = "queued" /\ refs' = Count(refs, k, -1)
        /\ put' = [put EXCEPT ![w] = IdlePut] \/ PutGoes(w, "insert")
        /\ UNCHANGED <<dict, pins, get, prefetch, stranded>>
    BY <1>3 DEF WriteFails, WriteEnds
  <2>2. PICK x : put' = [put EXCEPT ![w] = x] /\ x.pc # "queued"
    BY <1>0, <2>1, PutGoesOn, IdleParts
  <2>3. k \in Keys /\ \A e : put[w] = Queued(e) <=> e = k
    <3>1. put[w] = Queued(k)
      BY <1>0, <2>1 DEF PutTypes, PutState, Queued
    <3>. QED BY <1>0, <2>1, <3>1, PutKey, QueuedParts
  <2>4. \A e : x # Queued(e)
    BY <2>2, QueuedParts
  <2>. HIDE DEF k
  <2>5. ASSUME NEW e \in Keys PROVE Step(e)
    <3>. DEFINE n == IF e = k THEN -1 ELSE 0
    <3>1. refs'[e] = refs[e] + n
      BY <1>0, <1>02, <2>1, <2>3, RefGiven
    <3>2. Cardinality(Puts(e)') = Cardinality(Puts(e)) + n
      <4>1. put' = [put EXCEPT ![w] = x] /\ x # Queued(e)
        BY <2>2, <2>4
      <4>2. e = k => Cardinality(Puts(e)') = Cardinality(Puts(e)) - 1
        BY <1>0, <2>3, <4>1, PutHolds, Zenon
      <4>3. e # k => Cardinality(Puts(e)') = Cardinality(Puts(e))
        <5>1. e # k => put[w] # Queued(e)
          BY <2>3
        <5>. QED BY <1>0, <4>1, <5>1, PutHolds, Zenon
      <4>4. Numbers(e)
        BY <1>02
      <4>. QED BY <4>2, <4>3, <4>4
    <3>3. n \in Int /\ pins'[e] \in Nat /\ pins'[e] <= pins[e] /\ (e \notin dict' => pins'[e] = 0)
      BY <1>02, <2>1
    <3>. HIDE DEF n, Step
    <3>. QED BY <1>04, <2>1, <3>1, <3>2, <3>3
  <2>. QED BY <1>01, <2>5
<1>4. ASSUME NEW w \in Workers, InsertKey(w) PROVE HeldInv'
  <2>. DEFINE k == put[w].key
  <2>1. /\ put[w].pc = "insert" /\ put' = [put EXCEPT ![w] = IdlePut]
        /\ dict' = dict \cup {k} /\ pins' = [pins EXCEPT ![k] = 0]
        /\ UNCHANGED <<refs, get, prefetch, stranded>>
    BY <1>4 DEF InsertKey
  <2>2. k \in Keys
    BY <1>0, <2>1, PutKey
  <2>3. \A e : put[w] # Queued(e) /\ IdlePut # Queued(e)
    BY <2>1, IdleParts, QueuedParts
  <2>. HIDE DEF k
  <2>4. ASSUME NEW e \in Keys PROVE Step(e)
    <3>. DEFINE n == 0
    <3>1. refs'[e] = refs[e] + n /\ n \in Int
      BY <1>02, <2>1
    <3>2. Cardinality(Puts(e)') = Cardinality(Puts(e)) + n
      <4>1. put' = [put EXCEPT ![w] = IdlePut] /\ put[w] # Queued(e) /\ IdlePut # Queued(e)
        BY <2>1, <2>3
      <4>2. Cardinality(Puts(e)') = Cardinality(Puts(e))
        BY <1>0, <4>1, PutHolds, Zenon
      <4>3. Numbers(e)
        BY <1>02
      <4>. QED BY <4>2, <4>3
    <3>3. pins'[e] = IF e = k THEN 0 ELSE pins[e]
      BY <1>0, <2>1, <2>2 DEF IndexTypes
    <3>4. pins'[e] \in Nat /\ pins'[e] <= pins[e] /\ (e \notin dict' => pins'[e] = 0)
      BY <1>02, <2>1, <3>3
    <3>. HIDE DEF n, Step
    <3>. QED BY <1>04, <2>1, <3>1, <3>2, <3>4
  <2>. QED BY <1>01, <2>4
<1>5. ASSUME NEW k \in Keys, RemoveKey(k) PROVE HeldInv'
  <2>1. Popped(k) /\ UNCHANGED <<put, refs, get, prefetch, stranded>>
    BY <1>5 DEF RemoveKey
  <2>2. ASSUME NEW e \in Keys PROVE Step(e)
    <3>1. pins'[e] \in Nat /\ pins'[e] <= pins[e] /\ (e \notin dict' => pins'[e] = 0)
      BY <2>1, PoppedPins
    <3>. HIDE DEF Step
    <3>. QED BY <1>06, <2>1, <3>1
  <2>. QED BY <1>01, <2>2
<1>6. ASSUME \/ \E k \in Keys : GetBlocking(k)
             \/ Allocate \/ ReadFile \/ UnlinkUnread
      PROVE  HeldInv'
  <2>1. UNCHANGED <<put, prefetch>>
    BY <1>6 DEF GetBlocking, Allocate, ReadFile, UnlinkUnread
  <2>2. ASSUME NEW e \in Keys
        PROVE  /\ Got(e) = IF get.key = e /\ get.pc \in {"read", "unlink"} THEN 1 ELSE 0
               /\ Got(e)' = IF get'.key = e /\ get'.pc \in {"read", "unlink"} THEN 1 ELSE 0
               /\ Got(e)' \in Nat
    BY GotOne DEF Got
  <2>3. ASSUME NEW k \in Keys, GetBlocking(k), NEW e \in Keys PROVE Step(e)
    <3>1. /\ get.pc = "idle" /\ get'.pc = "allocate"
          /\ UNCHANGED <<dict, pins, refs, stranded>>
      BY <2>3 DEF GetBlocking
    <3>. DEFINE m == 0
    <3>2. Got(e)' = Got(e) + m /\ m \in Int /\ refs'[e] = refs[e] + m
      BY <1>02, <2>2, <3>1
    <3>3. pins'[e] \in Nat /\ pins'[e] <= pins[e] /\ (e \notin dict' => pins'[e] = 0)
      BY <1>02, <3>1
    <3>. HIDE DEF m, Step
    <3>. QED BY <1>05, <2>1, <2>2, <3>1, <3>2, <3>3
  <2>4. ASSUME Allocate, NEW e \in Keys PROVE Step(e)
    <3>1. get.pc = "allocate" /\ get.key \in Keys /\ UNCHANGED <<dict, pins, stranded>>
      BY <1>0, <2>4, GetKey DEF Allocate
    <3>2. PICK m \in Int : refs'[e] = refs[e] + m /\ Got(e)' = Got(e) + m
      <4>1. CASE get' = [get EXCEPT !.pc = "read"] /\ refs' = Count(refs, get.key, 1)
        <5>1. get'.key = get.key /\ get'.pc = "read"
          BY <1>0, <4>1 DEF GetTypes, GetState
        <5>2. refs'[e] = refs[e] + (IF get.key = e THEN 1 ELSE 0)
          BY <1>0, <1>02, <3>1, <4>1, RefTaken
        <5>3. Got(e)' = Got(e) + (IF get.key = e THEN 1 ELSE 0)
          BY <2>2, <3>1, <5>1
        <5>. QED BY <5>2, <5>3
      <4>2. CASE get' = IdleGet /\ UNCHANGED refs
        <5>1. Got(e)' = Got(e) + 0
          BY <2>2, <3>1, <4>2, IdleLoads
        <5>2. refs'[e] = refs[e] + 0
          BY <1>02, <4>2
        <5>. QED BY <5>1, <5>2
      <4>. QED BY <2>4, <4>1, <4>2 DEF Allocate
    <3>3. pins'[e] \in Nat /\ pins'[e] <= pins[e] /\ (e \notin dict' => pins'[e] = 0)
      BY <1>02, <3>1
    <3>. HIDE DEF Step
    <3>. QED BY <1>05, <2>1, <2>2, <3>1, <3>2, <3>3
  <2>5. ASSUME ReadFile, NEW e \in Keys PROVE Step(e)
    <3>1. get.pc = "read" /\ get.key \in Keys /\ UNCHANGED stranded
      BY <1>0, <2>5, GetKey DEF ReadFile
    <3>2. PICK m \in Int : refs'[e] = refs[e] + m /\ Got(e)' = Got(e) + m
      <4>1. CASE get' = IdleGet /\ refs' = Count(refs, get.key, -1)
        <5>1. refs'[e] = refs[e] + (IF get.key = e THEN -1 ELSE 0)
          BY <1>0, <1>02, <3>1, <4>1, RefGiven
        <5>2. Got(e)' = Got(e) + (IF get.key = e THEN -1 ELSE 0)
          BY <2>2, <3>1, <4>1, IdleLoads
        <5>. QED BY <5>1, <5>2
      <4>2. CASE get' = [get EXCEPT !.pc = "unlink"] /\ UNCHANGED refs
        <5>1. get'.key = get.key /\ get'.pc = "unlink"
          BY <1>0, <4>2 DEF GetTypes, GetState
        <5>2. Got(e)' = Got(e) + 0
          BY <2>2, <3>1, <5>1
        <5>3. refs'[e] = refs[e] + 0
          BY <1>02, <4>2
        <5>. QED BY <5>2, <5>3
      <4>. QED BY <2>5, <4>1, <4>2 DEF ReadFile
    <3>3. pins'[e] \in Nat /\ pins'[e] <= pins[e] /\ (e \notin dict' => pins'[e] = 0)
      <4>1. UNCHANGED <<dict, pins>> \/ Popped(get.key)
        BY <2>5 DEF ReadFile
      <4>. QED BY <1>02, <3>1, <4>1, PoppedPins
    <3>. HIDE DEF Step
    <3>. QED BY <1>05, <2>1, <2>2, <3>1, <3>2, <3>3
  <2>6. ASSUME UnlinkUnread, NEW e \in Keys PROVE Step(e)
    <3>1. /\ get.pc = "unlink" /\ get.key \in Keys /\ get' = IdleGet
          /\ UNCHANGED <<dict, pins>>
      BY <1>0, <2>6, GetKey DEF UnlinkUnread
    <3>. DEFINE m == IF get.key = e THEN -1 ELSE 0
    <3>2. Got(e)' = Got(e) + m /\ m \in Int
      BY <2>2, <3>1, IdleLoads
    <3>3. CASE refs' = Count(refs, get.key, -1) /\ UNCHANGED stranded
      <4>1. refs'[e] = refs[e] + m
        BY <1>0, <1>02, <3>1, <3>3, RefGiven
      <4>2. pins'[e] \in Nat /\ pins'[e] <= pins[e] /\ (e \notin dict' => pins'[e] = 0)
        BY <1>02, <3>1
      <4>3. m \in Int
        OBVIOUS
      <4>. HIDE DEF m, Step
      <4>. QED BY <1>05, <2>1, <2>2, <3>2, <3>3, <4>1, <4>2, <4>3
    <3>4. CASE stranded' = Count(stranded, get.key, 1) /\ UNCHANGED refs
      <4>1. stranded'[e] = stranded[e] - m
        BY <1>0, <1>02, <3>1, <3>4 DEF RefTypes, Count
      <4>2. m <= 0 /\ m \in Int
        OBVIOUS
      <4>. HIDE DEF m
      <4>3. /\ Underway(e) = Cardinality(Puts(e)) + Got(e) + Times(prefetch.todo, e) + prefetch.loaded[e]
            /\ Underway(e)' = Cardinality(Puts(e)) + Got(e) + m + Times(prefetch.todo, e)
                                + prefetch.loaded[e]
        <5>1. Puts(e)' = Puts(e) /\ prefetch' = prefetch /\ Got(e)' = Got(e) + m
          BY <2>1, <3>2, Standing
        <5>2. Cardinality(Puts(e)) + Got(e)' = Cardinality(Puts(e)) + Got(e) + m
          BY <1>02, <4>2, <5>1
        <5>. QED BY <5>1, <5>2 DEF Underway
      <4>4. refs'[e] - refs[e] = Underway(e)' - Underway(e) + stranded'[e] - stranded[e]
        BY <1>02, <3>4, <4>1, <4>2, <4>3, SMTT(20)
      <4>5. pins'[e] <= Times(prefetch'.todo, e) + stranded'[e]
        <5>1. pins'[e] = pins[e] /\ prefetch' = prefetch
          BY <2>1, <3>1
        <5>. QED BY <1>02, <4>1, <4>2, <5>1
      <4>. QED BY <1>02, <3>1, <4>4, <4>5
    <3>. QED BY <2>6, <3>3, <3>4 DEF UnlinkUnread
  <2>. QED BY <1>01, <1>6, <2>3, <2>4, <2>5, <2>6
<1>7. ASSUME NEW ks \in Batches, StartPrefetch(ks) PROVE HeldInv'
  <2>1. /\ prefetch.pc = "idle" /\ ToSet(ks) \subseteq dict /\ ks \in Seq(Keys)
        /\ pins' = [k \in Keys |-> pins[k] + Times(ks, k)]
        /\ refs' = [k \in Keys |-> refs[k] + Times(ks, k)]
        /\ prefetch' = [pc |-> "load", todo |-> ks, loaded |-> None, failed |-> FALSE]
        /\ UNCHANGED <<dict, put, get, stranded>>
    BY <1>7 DEF StartPrefetch
  <2>2. ASSUME NEW e \in Keys PROVE Step(e)
    <3>1. prefetch.todo = <<>> /\ prefetch.todo \in Seq(Keys) /\ prefetch.loaded = None
      BY <1>0, <2>1 DEF PrefetchTypes, PrefetchState
    <3>2. Times(prefetch.todo, e) = 0 /\ Times(ks, e) \in Nat
      BY <2>1, <3>1, TimesType
    <3>3. prefetch'.todo = ks /\ prefetch'.loaded[e] = prefetch.loaded[e]
      BY <2>1, <3>1
    <3>4. e \notin dict => Times(ks, e) = 0
      <4>1. ASSUME e \notin dict PROVE {i \in DOMAIN ks : ks[i] = e} = {}
        BY <2>1, <4>1 DEF ToSet
      <4>. QED BY <4>1, FS_EmptySet DEF Times
    <3>5. refs'[e] = refs[e] + Times(ks, e) /\ pins'[e] = pins[e] + Times(ks, e)
      BY <2>1
    <3>6. Puts(e)' = Puts(e) /\ Got(e)' = Got(e)
      BY <2>1, Standing
    <3>. QED BY <1>02, <2>1, <3>2, <3>3, <3>4, <3>5, <3>6, SMTT(20) DEF Underway
  <2>. QED BY <1>01, <2>2
<1>8. CASE LoadNext \/ UnlinkUnloaded
  <2>1. UNCHANGED <<dict, put, get>>
    BY <1>8 DEF LoadNext, UnlinkUnloaded
  <2>2. ASSUME NEW e \in Keys PROVE Puts(e)' = Puts(e) /\ Got(e)' = Got(e)
    BY <2>1, Standing
  <2>3. CASE \E pc : PrefetchGoes(pc) /\ UNCHANGED <<pins, refs, stranded>>
    <3>1. prefetch'.todo = prefetch.todo /\ prefetch'.loaded = prefetch.loaded
      BY <1>0, <2>3 DEF PrefetchTypes, PrefetchState, PrefetchGoes
    <3>2. ASSUME NEW e \in Keys PROVE Step(e)
      BY <1>02, <2>1, <2>2, <2>3, <3>1 DEF Underway
    <3>. QED BY <1>01, <3>2
  <2>4. CASE Raises
    <3>1. ASSUME NEW e \in Keys PROVE Step(e)
      BY <1>02, <2>1, <2>2, <2>4, RaisesHeld, SMTT(20) DEF Underway
    <3>. QED BY <1>01, <3>1
  <2>. QED BY <1>8, <2>3, <2>4 DEF LoadNext, UnlinkUnloaded
<1>9. CASE UnpinNext
  <2>. DEFINE k == Head(prefetch.todo)
  <2>1. prefetch.pc = "unpin" /\ UNCHANGED <<dict, put, get>>
    BY <1>9 DEF UnpinNext
  <2>2. ASSUME NEW e \in Keys PROVE Puts(e)' = Puts(e) /\ Got(e)' = Got(e)
    BY <2>1, Standing
  <2>3. CASE /\ UnpinEntry(k) /\ UNCHANGED <<refs, stranded>>
             /\ prefetch' = [prefetch EXCEPT !.pc = "load", !.todo = Tail(@),
                                             !.loaded = Count(@, k, 1)]
    <3>1. /\ prefetch.todo # <<>> /\ k \in Keys /\ prefetch.todo \in Seq(Keys)
          /\ prefetch \in PrefetchState
      BY <1>0, <2>1, NextLoaded DEF PrefetchTypes
    <3>. DEFINE h == k
    <3>0. UnpinEntry(h) /\ refs' = refs /\ stranded' = stranded /\ h \in Keys
      BY <2>3, <3>1
    <3>2. /\ prefetch'.todo = Tail(prefetch.todo)
          /\ prefetch'.loaded = Count(prefetch.loaded, k, 1)
      BY <2>3, <3>1 DEF PrefetchState
    <3>3. ASSUME NEW e \in Keys PROVE Step(e)
      <4>. DEFINE n == IF e = k THEN 1 ELSE 0
      <4>1. Times(prefetch'.todo, e) = Times(prefetch.todo, e) - n
        BY <1>02, <3>1, <3>2, TimesTail
      <4>2. prefetch'.loaded[e] = prefetch.loaded[e] + n
        <5>1. Numbers(e) /\ prefetch.loaded \in [Keys -> Nat]
          BY <1>02, <3>1 DEF PrefetchState
        <5>2. prefetch'.loaded = [prefetch.loaded EXCEPT ![k] = @ + 1]
          BY <3>2 DEF Count
        <5>. QED BY <5>1, <5>2
      <4>3. pins'[e] = IF e = k /\ pins[e] > 0 THEN pins[e] - 1 ELSE pins[e]
        <5>. HIDE DEF h
        <5>1. pins'[e] = IF e = h /\ pins[e] > 0 THEN pins[e] - 1 ELSE pins[e]
          BY <1>0, <1>02, <3>0, UnpinTypes
        <5>. QED BY <5>1 DEF h
      <4>4. n = 0 \/ n = 1
        OBVIOUS
      <4>5. pins'[e] <= Times(prefetch'.todo, e) + stranded'[e]
        <5>1. n = IF e = k THEN 1 ELSE 0
          OBVIOUS
        <5>. HIDE DEF n, k
        <5>2. Numbers(e) /\ (e = k => n = 1) /\ (e # k => n = 0)
          BY <1>02, <5>1
        <5>3. CASE e = k /\ pins[e] > 0
          BY <3>0, <4>1, <4>3, <5>2, <5>3
        <5>4. CASE e = k /\ ~(pins[e] > 0)
          <6>1. pins'[e] = 0 /\ prefetch'.todo = Tail(prefetch.todo)
            BY <3>2, <4>3, <5>2, <5>4
          <6>2. Times(prefetch'.todo, e) \in Nat
            BY <1>0, <3>1, <6>1, TailTimes
          <6>. QED BY <3>0, <5>2, <6>1, <6>2
        <5>5. CASE e # k
          BY <3>0, <4>1, <4>3, <5>2, <5>5
        <5>. QED BY <5>3, <5>4, <5>5
      <4>6. e \notin dict' => pins'[e] = 0
        BY <1>02, <2>1, <4>3
      <4>7. refs'[e] - refs[e] = Underway(e)' - Underway(e) + stranded'[e] - stranded[e]
        <5>. HIDE DEF n
        <5>. QED BY <1>02, <2>2, <3>0, <4>1, <4>2, <4>4, SMTT(20) DEF Underway
      <4>. QED BY <4>5, <4>6, <4>7
    <3>. QED BY <1>01, <3>3
  <2>4. CASE Raises
    <3>1. ASSUME NEW e \in Keys PROVE Step(e)
      BY <1>02, <2>1, <2>2, <2>4, RaisesHeld, SMTT(20) DEF Underway
    <3>. QED BY <1>01, <3>1
  <2>. QED BY <1>9, <2>3, <2>4 DEF UnpinNext
<1>10. CASE LoadFails
  <2>1. /\ prefetch.todo # <<>> /\ Popped(Head(prefetch.todo))
        /\ \E p : prefetch' = [prefetch EXCEPT !.pc = p, !.failed = TRUE]
        /\ UNCHANGED <<put, refs, get, stranded>>
    BY <1>10 DEF LoadFails, Loading
  <2>2. prefetch'.todo = prefetch.todo /\ prefetch'.loaded = prefetch.loaded
    BY <1>0, <2>1 DEF PrefetchTypes, PrefetchState
  <2>3. ASSUME NEW e \in Keys PROVE Step(e)
    <3>1. Puts(e)' = Puts(e) /\ Got(e)' = Got(e)
      BY <2>1, Standing
    <3>2. pins'[e] \in Nat /\ pins'[e] <= pins[e] /\ (e \notin dict' => pins'[e] = 0)
      BY <1>0, <2>1, NextLoaded, PoppedPins
    <3>. QED BY <1>02, <2>1, <2>2, <3>1, <3>2, SMTT(20) DEF Underway
  <2>. QED BY <1>01, <2>3
<1>11. CASE DropRest
  <2>. DEFINE k == Head(prefetch.todo)
  <2>1. /\ prefetch.todo # <<>> /\ refs' = Count(refs, k, -1)
        /\ UnpinEntry(k) \/ (k \notin dict /\ pins' = pins)
        /\ prefetch' = [prefetch EXCEPT !.todo = Tail(@)]
        /\ UNCHANGED <<dict, put, get, stranded>>
    BY <1>11 DEF DropRest, Loading
  <2>2. /\ k \in Keys /\ prefetch.todo \in Seq(Keys) /\ prefetch \in PrefetchState
        /\ prefetch.todo # <<>> /\ stranded' = stranded /\ dict' = dict
    BY <1>0, <2>1, NextLoaded DEF PrefetchTypes
  <2>3. prefetch'.todo = Tail(prefetch.todo) /\ prefetch'.loaded = prefetch.loaded
    BY <2>1, <2>2 DEF PrefetchState
  <2>4. ASSUME NEW e \in Keys PROVE Step(e)
    <3>. DEFINE n == IF e = k THEN 1 ELSE 0
    <3>1. Times(prefetch'.todo, e) = Times(prefetch.todo, e) - n
      BY <1>02, <2>2, <2>3, TimesTail
    <3>2. refs'[e] = refs[e] - n
      <4>. DEFINE h == k
      <4>1. refs' = Count(refs, h, -1) /\ h \in Keys
        BY <2>1, <2>2
      <4>2. e = k <=> e = h
        OBVIOUS
      <4>. HIDE DEF h, k
      <4>. QED BY <1>0, <1>02, <4>1, <4>2, RefGiven
    <3>3. pins'[e] = IF e = k /\ pins[e] > 0 THEN pins[e] - 1 ELSE pins[e]
      <4>1. CASE UnpinEntry(k)
        <5>. DEFINE h == k
        <5>1. UnpinEntry(h) /\ h \in Keys /\ pins[e] \in Nat /\ pins[h] \in Nat
          BY <1>02, <2>2, <4>1
        <5>2. pins'[e] = IF e = h /\ pins[e] > 0 THEN pins[e] - 1 ELSE pins[e]
          <6>. HIDE DEF h
          <6>. QED BY <1>0, <5>1, UnpinTypes
        <5>. QED BY <5>2
      <4>2. CASE k \notin dict /\ pins' = pins
        BY <1>02, <2>2, <4>2
      <4>. QED BY <2>1, <4>1, <4>2
    <3>4. n = 0 \/ n = 1
      OBVIOUS
    <3>5. Puts(e)' = Puts(e) /\ Got(e)' = Got(e)
      BY <2>1, Standing
    <3>6. pins'[e] <= Times(prefetch'.todo, e) + stranded'[e]
      <4>1. n = IF e = k THEN 1 ELSE 0
        OBVIOUS
      <4>. HIDE DEF n, k
      <4>2. Numbers(e) /\ (e = k => n = 1) /\ (e # k => n = 0)
        BY <1>02, <4>1
      <4>3. CASE e = k /\ pins[e] > 0
        BY <2>2, <3>1, <3>3, <4>2, <4>3
      <4>4. CASE e = k /\ ~(pins[e] > 0)
        <5>1. pins'[e] = 0
          BY <3>3, <4>2, <4>4
        <5>2. Times(prefetch'.todo, e) \in Nat
          BY <1>0, <2>2, <2>3, TailTimes
        <5>. QED BY <2>2, <4>2, <5>1, <5>2
      <4>5. CASE e # k
        BY <2>2, <3>1, <3>3, <4>2, <4>5
      <4>. QED BY <4>3, <4>4, <4>5
    <3>7. e \notin dict' => pins'[e] = 0
      BY <1>02, <2>1, <3>3
    <3>8. refs'[e] - refs[e] = Underway(e)' - Underway(e) + stranded'[e] - stranded[e]
      <4>. HIDE DEF n
      <4>1. Underway(e)' = Underway(e) - n
        BY <1>02, <2>3, <3>1, <3>4, <3>5, SMTT(20) DEF Underway
      <4>2. Underway(e) \in Int
        BY <1>02 DEF Underway
      <4>. QED BY <1>02, <2>2, <3>2, <3>4, <4>1, <4>2
    <3>. QED BY <3>6, <3>7, <3>8
  <2>. QED BY <1>01, <2>4
<1>12. CASE LoadReturns
  <2>1. /\ prefetch.todo = <<>> /\ refs' = [k \in Keys |-> refs[k] - prefetch.loaded[k]]
        /\ prefetch' = IdlePrefetch /\ UNCHANGED <<dict, pins, put, get, stranded>>
    BY <1>12 DEF LoadReturns
  <2>2. ASSUME NEW e \in Keys PROVE Step(e)
    <3>1. prefetch'.todo = prefetch.todo /\ prefetch'.loaded[e] = 0
      BY <2>1, IdleLoads
    <3>2. Puts(e)' = Puts(e) /\ Got(e)' = Got(e)
      BY <2>1, Standing
    <3>3. refs'[e] = refs[e] - prefetch.loaded[e]
      BY <2>1
    <3>. QED BY <1>02, <2>1, <3>1, <3>2, <3>3, SMTT(20) DEF Underway
  <2>. QED BY <1>01, <2>2
<1>. QED BY <1>1, <1>2, <1>3, <1>4, <1>5, <1>6, <1>7, <1>8, <1>9, <1>10, <1>11, <1>12
     DEF DiskMove, WorkerStep, EngineLoad
-----------------------------------------------------------------------------
(* The tier inside the service                                             *)

DiskInv == DiskTypes /\ DiskCapRespected /\ HeldInv

\* A new disk backend, with a lock of its own.
NewDisk ==
  /\ Drained
  /\ dict' = {} /\ pins' = None /\ put_tasks' = {}
  /\ current_cache_size' = 0 /\ disk_lock' = "free"
  /\ UNCHANGED <<put, refs, get, prefetch, stranded>>

\* What a step of the service does to the tier.
LEMMA ServiceMoves ==
  ASSUME Next PROVE DiskMove \/ NewDisk \/ UNCHANGED diskVars
<1>1. CASE DiskStep
  BY <1>1 DEF DiskStep, DiskMove, Asked
<1>2. ASSUME NEW b \in Recreatable, RecreateBackend(b) PROVE NewDisk \/ UNCHANGED diskVars
  BY <1>2 DEF RecreateBackend, Renewed, Closes, NewDisk
<1>3. CASE InitComponent \/ StartServices \/ PostInit \/ RecreateLookup \/ StopServices
           \/ CloseTimesOut \/ CloseHangs \/ CloseReturns \/ CloseRaises \/ Stopping
  BY <1>3 DEF InitComponent, StartServices, PostInit, RecreateLookup, StopServices, CloseTimesOut,
              CloseHangs, CloseReturns, CloseRaises, Stopping, StartClose, SkipBackend, CloseBackend, StopLoop,
              Stopped
<1>. QED BY <1>1, <1>2, <1>3 DEF Next

\* A tier with nothing in it.
LEMMA EmptyTier ==
  ASSUME DiskTypes, dict = {}, current_cache_size = 0, \A w \in Workers : put[w].pc = "idle"
  PROVE  DiskCapRespected
<1>1. Storing = {}
  BY DEF Storing
<1>2. Cardinality({}) = 0
  BY FS_EmptySet
<1>. QED BY <1>1, <1>2 DEF DiskCapRespected

\* It holds at the start ...
LEMMA DiskStarts == ASSUME Init PROVE DiskInv
<1>1. DiskInit
  BY DEF Init
<1>2. DiskTypes
  <2>1. IndexTypes /\ RefTypes
    BY <1>1, IdleLoads DEF DiskInit, IndexTypes, RefTypes
  <2>2. PutTypes
    BY <1>1 DEF DiskInit, PutTypes, PutState, IdlePut
  <2>3. GetTypes /\ PrefetchTypes
    BY <1>1, IdleLoads DEF DiskInit, GetTypes, PrefetchTypes
  <2>. QED BY <2>1, <2>2, <2>3 DEF DiskTypes
<1>3. DiskCapRespected
  <2>1. \A w \in Workers : put[w].pc = "idle"
    BY <1>1, IdleParts DEF DiskInit
  <2>. QED BY <1>1, <1>2, <2>1, EmptyTier DEF DiskInit
<1>4. HeldInv
  <2>1. ASSUME NEW k \in Keys
        PROVE  /\ refs[k] = Underway(k) + stranded[k]
               /\ pins[k] = 0 /\ Times(prefetch.todo, k) + stranded[k] = 0
    <3>1. Puts(k) = {}
      BY <1>1, IdleParts, QueuedParts DEF DiskInit, Puts
    <3>2. prefetch.todo = <<>> /\ <<>> \in Seq(Keys) /\ prefetch.loaded[k] = 0
      BY <1>1, IdleLoads DEF DiskInit
    <3>3. refs[k] = 0 /\ pins[k] = 0 /\ stranded[k] = 0
      BY <1>1, IdleLoads DEF DiskInit
    <3>4. Got(k) = 0
      BY <1>1, GotOne, IdleLoads DEF DiskInit, Got
    <3>5. Times(prefetch.todo, k) = 0 /\ Cardinality(Puts(k)) = 0
      <4>1. Cardinality({}) = 0
        BY FS_EmptySet
      <4>. QED BY <3>1, <3>2, <4>1, TimesType
    <3>. QED BY <3>2, <3>3, <3>4, <3>5 DEF Underway
  <2>. QED BY <2>1 DEF HeldInv
<1>. QED BY <1>2, <1>3, <1>4 DEF DiskInv

\* ... and every step of the service keeps it.
LEMMA DiskKeeps == ASSUME DiskInv, [Next]_vars PROVE DiskInv'
<1>0. DiskTypes /\ DiskCapRespected /\ HeldInv
  BY DEF DiskInv
<1>1. CASE DiskMove
  BY <1>0, <1>1, DiskTypesStep, DiskTotalsStep, DiskHeldStep DEF DiskInv
<1>2. CASE NewDisk
  <2>1. /\ dict' = {} /\ pins' = None /\ put_tasks' = {}
        /\ current_cache_size' = 0 /\ disk_lock' = "free"
        /\ UNCHANGED <<put, refs, get, prefetch, stranded>>
        /\ \A w \in Workers : put[w].pc = "idle"
    BY <1>2 DEF NewDisk, Drained
  <2>2. IndexTypes'
    BY <1>0, <2>1, IdleLoads DEF DiskTypes, IndexTypes
  <2>3. RefTypes' /\ PutTypes' /\ GetTypes' /\ PrefetchTypes'
    BY <1>0, <2>1 DEF DiskTypes, RefTypes, PutTypes, GetTypes, PrefetchTypes
  <2>4. DiskTypes'
    BY <2>2, <2>3 DEF DiskTypes
  <2>5. DiskCapRespected'
    <3>1. Storing' = {}
      BY <2>1 DEF Storing
    <3>2. Cardinality({}) = 0
      BY FS_EmptySet
    <3>. QED BY <2>1, <3>1, <3>2 DEF DiskCapRespected
  <2>6. HeldInv'
    <3>1. ASSUME NEW k \in Keys
          PROVE  /\ pins'[k] = 0 /\ Underway(k)' = Underway(k)
                 /\ Times(prefetch.todo, k) + stranded[k] \in Nat
                 /\ refs[k] = Underway(k) + stranded[k]
      BY <1>0, <2>1, HeldTypes, IdleLoads, Standing DEF HeldInv, Underway
    <3>. QED BY <2>1, <3>1 DEF HeldInv
  <2>. QED BY <2>4, <2>5, <2>6 DEF DiskInv
<1>3. CASE UNCHANGED diskVars
  <2>1. UNCHANGED <<dict, pins, put_tasks, put, current_cache_size, refs, get, prefetch,
                    stranded, disk_lock>>
    BY <1>3 DEF diskVars
  <2>2. DiskTypes'
    BY <1>0, <2>1 DEF DiskTypes, IndexTypes, RefTypes, PutTypes, GetTypes, PrefetchTypes
  <2>3. DiskCapRespected'
    BY <1>0, <2>1 DEF DiskCapRespected, Storing
  <2>4. HeldInv'
    BY <1>0, <2>1, Standing DEF HeldInv, Underway
  <2>. QED BY <2>2, <2>3, <2>4 DEF DiskInv
<1>. QED BY <1>1, <1>2, <1>3, ServiceMoves DEF vars

\* The types of the tier, with counters that are never negative.
LEMMA DiskTyped == ASSUME DiskInv PROVE DiskTypeOK
<1>1. DiskTypes /\ DiskCapRespected /\ HeldInv
  BY DEF DiskInv
<1>2. current_cache_size \in Nat
  BY <1>1, TotalTypes DEF DiskCapRespected
<1>3. refs \in [Keys -> Nat]
  <2>1. ASSUME NEW k \in Keys PROVE refs[k] \in Nat
    <3>1. /\ Cardinality(Puts(k)) \in Nat /\ Got(k) \in Nat /\ Times(prefetch.todo, k) \in Nat
          /\ prefetch.loaded[k] \in Nat /\ stranded[k] \in Nat
      BY <1>1, HeldTypes
    <3>2. refs[k] = Underway(k) + stranded[k]
      BY <1>1 DEF HeldInv
    <3>. QED BY <3>1, <3>2 DEF Underway
  <2>. QED BY <1>1, <2>1 DEF DiskTypes, RefTypes
<1>4. dict \subseteq Keys /\ put_tasks \subseteq Keys /\ pins \in [Keys -> Nat]
  BY <1>1 DEF DiskTypes, IndexTypes
<1>5. /\ put \in [Workers -> PutState] /\ get \in GetState /\ prefetch \in PrefetchState
      /\ stranded \in [Keys -> Nat] /\ disk_lock \in {"free", "lost"}
  BY <1>1 DEF DiskTypes, IndexTypes, RefTypes, PutTypes, GetTypes, PrefetchTypes
<1>. QED BY <1>2, <1>3, <1>4, <1>5 DEF DiskTypeOK, PutState, GetState, PrefetchState

\* What is on disk or on its way there is counted by the cache size and never exceeds
\* max_cache_size: puts that are refused half-way or fail, loads that remove what they cannot
\* read, unlinks that raise, a remover, a lock that is lost and a recreated backend, in every
\* interleaving.
THEOREM DiskTotals == Spec => []DiskCapRespected
<1>1. DiskInv => DiskCapRespected
  BY DEF DiskInv
<1>. QED BY <1>1, DiskStarts, DiskKeeps, PTL DEF Spec

\* The references held are those of the puts and loads under way and those that loads which
\* raised have left behind; no entry has more pins than such loads account for.
THEOREM HeldGivenBack == Spec => []HeldMatches
<1>1. DiskInv => HeldMatches
  BY DEF DiskInv, HeldInv, HeldMatches, Underway, Puts, Queued, Got, HoldsOne
<1>. QED BY <1>1, DiskStarts, DiskKeeps, PTL DEF Spec
-----------------------------------------------------------------------------
(* The parts of the service                                                *)

PartTypes ==
  /\ role \in Roles /\ life \in {"init", "started", "serving", "stopping", "stopped"}
  /\ todo \in Seq(Parts) /\ parts \subseteq Parts /\ closing \in Parts \cup {NoPart}
  /\ init_failed \in BOOLEAN /\ engine_failed \in BOOLEAN /\ late \in BOOLEAN
  /\ hung \in BOOLEAN

\* The orders in which parts are created and stopped name parts.
LEMMA InitOrderType == ASSUME NEW r PROVE InitOrder(r) \in Seq(Parts)
<1>. DEFINE a == IF r = "worker" THEN <<"engine", "lookup_server", "offload_server">>
                 ELSE (IF Bypass THEN <<"engine">> ELSE <<>>) \o <<"lookup_client">>
            b == IF FirstRank THEN <<"api_server", "plugins">> ELSE <<>>
<1>1. ASSUME NEW s \in Seq(Parts), NEW t \in Seq(Parts) PROVE s \o t \in Seq(Parts)
  OBVIOUS
<1>2. /\ <<"engine", "lookup_server", "offload_server">> \in Seq(Parts) /\ <<"engine">> \in Seq(Parts)
      /\ <<>> \in Seq(Parts) /\ <<"lookup_client">> \in Seq(Parts)
      /\ <<"api_server", "plugins">> \in Seq(Parts)
  BY DEF Parts
<1>3. a \in Seq(Parts)
  BY <1>1, <1>2
<1>4. b \in Seq(Parts)
  BY <1>2
<1>. HIDE DEF a, b
<1>5. a \o b \in Seq(Parts)
  BY <1>1, <1>3, <1>4
<1>. QED BY <1>5 DEF InitOrder, a, b

LEMMA StopOrderType == StopOrder \in Seq(Parts)
<1>1. ASSUME NEW s \in Seq(Parts), NEW t \in Seq(Parts) PROVE s \o t \in Seq(Parts)
  OBVIOUS
<1>2. ASSUME NEW p \in Parts PROVE IfThere(p) \in Seq(Parts)
  BY DEF IfThere
<1>3. /\ IfThere("health_monitor") \in Seq(Parts) /\ IfThere("offload_server") \in Seq(Parts)
      /\ IfThere("plugins") \in Seq(Parts) /\ IfThere("api_server") \in Seq(Parts)
      /\ IfThere("lookup_server") \in Seq(Parts) /\ IfThere("lookup_client") \in Seq(Parts)
  BY <1>2 DEF Parts
<1>4. <<"engine">> \in Seq(Parts)
  BY DEF Parts
<1>. QED BY <1>1, <1>3, <1>4 DEF StopOrder

\* What is left of the parts.
LEMMA NextPart ==
  ASSUME NEW s \in Seq(Parts), s # <<>>
  PROVE  Head(s) \in Parts /\ Tail(s) \in Seq(Parts)
OBVIOUS

\* Every step of the service keeps the types of its parts, and an engine that says it is
\* healthy keeps its storage manager.
LEMMA PartsKeep ==
  ASSUME PartTypes, HealthyHasStorage, [Next]_vars
  PROVE  PartTypes' /\ HealthyHasStorage'
<1>1. ASSUME UNCHANGED <<role, life, todo, parts, closing, hung, late, init_failed, engine_failed>>,
             storage' = storage \/ (storage # "none" /\ storage' # "none")
      PROVE  PartTypes' /\ HealthyHasStorage'
  BY <1>1 DEF PartTypes, HealthyHasStorage, EngineHealthy
<1>2. CASE InitComponent
  <2>1. /\ life = "init" /\ todo # <<>> /\ UNCHANGED <<role, life, closing, hung, late, engine_failed>>
        /\ \/ parts' = parts \cup {Head(todo)} /\ todo' = Tail(todo) /\ UNCHANGED init_failed
           \/ todo' = <<>> /\ init_failed' = TRUE /\ UNCHANGED parts
    BY <1>2 DEF InitComponent
  <2>2. todo \in Seq(Parts) /\ Head(todo) \in Parts /\ Tail(todo) \in Seq(Parts)
    BY <2>1, NextPart DEF PartTypes
  <2>3. HealthyHasStorage'
    BY <2>1 DEF HealthyHasStorage
  <2>4. parts' \subseteq Parts /\ todo' \in Seq(Parts) /\ init_failed' \in BOOLEAN
    <3>1. CASE parts' = parts \cup {Head(todo)} /\ todo' = Tail(todo) /\ UNCHANGED init_failed
      BY <2>2, <3>1 DEF PartTypes
    <3>2. CASE todo' = <<>> /\ init_failed' = TRUE /\ UNCHANGED parts
      BY <3>2 DEF PartTypes
    <3>. QED BY <2>1, <3>1, <3>2
  <2>. QED BY <2>1, <2>3, <2>4 DEF PartTypes
<1>3. CASE StartServices
  BY <1>3 DEF StartServices, healthVars, PartTypes, HealthyHasStorage
<1>4. CASE PostInit
  <2>1. /\ life = "started" /\ life' = "serving" /\ UNCHANGED <<role, todo, closing, hung, late>>
        /\ parts' \subseteq Parts
        /\ init_failed' \in BOOLEAN /\ engine_failed' \in BOOLEAN
        /\ "engine" \notin parts' \/ engine_failed' \/ storage' # "none"
    BY <1>4 DEF PostInit, PartTypes, Parts
  <2>. QED BY <2>1 DEF PartTypes, HealthyHasStorage, EngineHealthy
<1>5. CASE RecreateLookup
  <2>. DEFINE p == IF role = "worker" THEN "lookup_server" ELSE "lookup_client"
  <2>1. /\ p \in Parts /\ p # "engine" /\ parts' \in {parts \ {p}, parts \cup {p}}
        /\ UNCHANGED <<role, life, todo, closing, hung, late, init_failed, engine_failed, storage>>
    BY <1>5 DEF RecreateLookup, Parts, healthVars, storageVars
  <2>. HIDE DEF p
  <2>. QED BY <2>1 DEF PartTypes, HealthyHasStorage, EngineHealthy
<1>6. CASE StopServices
  <2>1. /\ life' = "stopping" /\ todo' = StopOrder
        /\ UNCHANGED <<role, parts, closing, hung, late, init_failed, engine_failed>>
    BY <1>6 DEF StopServices, healthVars
  <2>. QED BY <2>1, StopOrderType DEF PartTypes, HealthyHasStorage
<1>7. CASE StartClose
  <2>1. /\ life = "stopping" /\ todo # <<>> /\ closing' = Head(todo) /\ todo' = Tail(todo)
        /\ UNCHANGED <<role, life, parts, hung, late, init_failed, engine_failed>>
    BY <1>7 DEF StartClose, healthVars
  <2>2. Head(todo) \in Parts /\ Tail(todo) \in Seq(Parts)
    BY <2>1, NextPart DEF PartTypes
  <2>. QED BY <2>1, <2>2 DEF PartTypes, HealthyHasStorage
<1>8. CASE CloseTimesOut \/ CloseHangs
  BY <1>8 DEF CloseTimesOut, CloseHangs, healthVars, storageVars, PartTypes, HealthyHasStorage, EngineHealthy
<1>9. CASE CloseReturns
  BY <1>9 DEF CloseReturns, healthVars, storageVars, PartTypes, HealthyHasStorage, EngineHealthy
<1>10. CASE Stopped
  BY <1>10 DEF Stopped, healthVars, PartTypes, HealthyHasStorage
<1>11. CASE DiskStep \/ (\E b \in Recreatable : RecreateBackend(b)) \/ CloseRaises \/ SkipBackend
            \/ CloseBackend \/ StopLoop
  <2>1. /\ UNCHANGED <<role, life, todo, parts, closing, hung, late, init_failed, engine_failed>>
        /\ storage' = storage \/ (storage # "none" /\ storage' # "none")
    BY <1>11 DEF DiskStep, RecreateBackend, CloseRaises, SkipBackend, CloseBackend, StopLoop,
                 partVars, healthVars, storageVars
  <2>. QED BY <1>1, <2>1
<1>12. CASE UNCHANGED vars
  BY <1>1, <1>12 DEF vars
<1>. QED BY <1>2, <1>3, <1>4, <1>5, <1>6, <1>7, <1>8, <1>9, <1>10, <1>11, <1>12 DEF Next, Stopping
-----------------------------------------------------------------------------
(* The close of the storage manager                                        *)

\* "Backends are created dependency-first": the shared allocators come before the disk tier
\* that borrows from them, and stay where they are while the service runs.
DependencyFirst ==
  /\ Shared \cap Recreatable = {}
  /\ \A i, j \in DOMAIN Backends : Backends[i] \in Shared /\ Backends[j] = Disk => i < j

Borrowed(s) == \A i, j \in DOMAIN s : s[i] \in Shared /\ s[j] = Disk => i < j
ClosedLast(s) == \A i, j \in DOMAIN s : s[i] \in Shared /\ s[j] = Disk => j < i

\* Sequences with the same members.
LEMMA SameMembers ==
  ASSUME NEW s, NEW t, \A i \in DOMAIN s : \E j \in DOMAIN t : s[i] = t[j],
         \A j \in DOMAIN t : \E i \in DOMAIN s : t[j] = s[i]
  PROVE  ToSet(s) = ToSet(t)
<1>1. ASSUME NEW x \in ToSet(s) PROVE x \in ToSet(t)
  <2>1. PICK i \in DOMAIN s : x = s[i]
    BY DEF ToSet
  <2>. QED BY <2>1 DEF ToSet
<1>2. ASSUME NEW x \in ToSet(t) PROVE x \in ToSet(s)
  <2>1. PICK j \in DOMAIN t : x = t[j]
    BY DEF ToSet
  <2>. QED BY <2>1 DEF ToSet
<1>. QED BY <1>1, <1>2

\* The close goes backwards.
LEMMA Backwards ==
  ASSUME NEW T, NEW s \in Seq(T)
  PROVE  /\ Reverse(s) \in Seq(T) /\ ToSet(Reverse(s)) = ToSet(s)
         /\ Borrowed(s) => ClosedLast(Reverse(s))
<1>. DEFINE n == Len(s)
            t == Reverse(s)
<1>1. /\ n \in Nat /\ t \in Seq(T) /\ DOMAIN s = 1 .. n /\ DOMAIN t = 1 .. n
      /\ \A i \in 1 .. n : t[i] = s[n - i + 1]
  <2>1. n \in Nat /\ DOMAIN s = 1 .. n /\ \A i \in 1 .. n : s[i] \in T
    OBVIOUS
  <2>. HIDE DEF n
  <2>2. \A i \in 1 .. n : n - i + 1 \in 1 .. n
    BY <2>1
  <2>3. t = [i \in 1 .. n |-> s[n - i + 1]]
    BY DEF Reverse, n
  <2>. HIDE DEF t
  <2>4. t \in [1 .. n -> T]
    BY <2>1, <2>2, <2>3
  <2>5. t \in Seq(T)
    BY <2>1, <2>4
  <2>. QED BY <2>1, <2>3, <2>4, <2>5
<1>. HIDE DEF n, t
<1>2. \A i \in 1 .. n : n - i + 1 \in 1 .. n /\ n - (n - i + 1) + 1 = i
  BY <1>1
<1>3. ToSet(t) = ToSet(s)
  <2>1. ASSUME NEW i \in 1 .. n PROVE \E j \in 1 .. n : t[i] = s[j]
    BY <1>1, <1>2
  <2>2. ASSUME NEW i \in 1 .. n PROVE \E j \in 1 .. n : s[i] = t[j]
    <3>. DEFINE j == n - i + 1
    <3>1. j \in 1 .. n /\ n - j + 1 = i
      BY <1>2
    <3>. HIDE DEF j
    <3>. QED BY <1>1, <3>1
  <2>3. DOMAIN s = 1 .. n /\ DOMAIN t = 1 .. n
    BY <1>1
  <2>4. \A i \in DOMAIN t : \E j \in DOMAIN s : t[i] = s[j]
    BY <2>1, <2>3
  <2>5. \A i \in DOMAIN s : \E j \in DOMAIN t : s[i] = t[j]
    BY <2>2, <2>3
  <2>. QED BY <2>4, <2>5, SameMembers
<1>4. ASSUME Borrowed(s), NEW i \in DOMAIN t, NEW j \in DOMAIN t, t[i] \in Shared, t[j] = Disk
      PROVE  j < i
  <2>1. n - i + 1 < n - j + 1
    BY <1>1, <1>2, <1>4 DEF Borrowed
  <2>. QED BY <1>1, <2>1
<1>. QED BY <1>1, <1>3, <1>4 DEF ClosedLast, t

\* A backend that is recreated comes last.
LEMMA Recreated ==
  ASSUME NEW T, NEW s \in Seq(T), NEW i \in DOMAIN s, s[i] \notin Shared
  PROVE  LET u == Append(RemoveAt(s, i), s[i]) IN
         /\ u \in Seq(T) /\ ToSet(u) = ToSet(s) /\ (Borrowed(s) => Borrowed(u))
<1>. DEFINE n == Len(s)
            u == Append(RemoveAt(s, i), s[i])
            f(m) == IF m < i THEN m ELSE m + 1
<1>1. n \in Nat /\ DOMAIN s = 1 .. n /\ i \in 1 .. n /\ n >= 1 /\ n - 1 \in Nat
  OBVIOUS
<1>2. /\ RemoveAt(s, i) \in Seq(T) /\ Len(RemoveAt(s, i)) = n - 1
      /\ \A m \in 1 .. n - 1 : RemoveAt(s, i)[m] = IF m < i THEN s[m] ELSE s[m + 1]
  <2>1. SubSeq(s, 1, i - 1) \in Seq(T) /\ Len(SubSeq(s, 1, i - 1)) = i - 1
    BY <1>1
  <2>2. SubSeq(s, i + 1, n) \in Seq(T) /\ Len(SubSeq(s, i + 1, n)) = n - i
    BY <1>1
  <2>3. \A m \in 1 .. i - 1 : SubSeq(s, 1, i - 1)[m] = s[m]
    BY <1>1
  <2>4. \A m \in 1 .. n - i : SubSeq(s, i + 1, n)[m] = s[i + m]
    BY <1>1
  <2>. DEFINE a == SubSeq(s, 1, i - 1)
              b == SubSeq(s, i + 1, n)
  <2>. HIDE DEF a, b
  <2>5. a \o b \in Seq(T) /\ Len(a \o b) = (i - 1) + (n - i)
    BY <2>1, <2>2 DEF a, b
  <2>6. ASSUME NEW m \in 1 .. n - 1 PROVE (a \o b)[m] = IF m < i THEN s[m] ELSE s[m + 1]
    <3>1. CASE m < i
      BY <1>1, <2>1, <2>2, <2>3, <3>1 DEF a, b
    <3>2. CASE ~(m < i)
      <4>1. m - (i - 1) \in 1 .. n - i /\ i + (m - (i - 1)) = m + 1
        BY <1>1, <3>2
      <4>2. (a \o b)[m] = b[m - (i - 1)]
        <5>1. ASSUME NEW c \in Seq(T), NEW d \in Seq(T), NEW x \in Len(c) + 1 .. Len(c) + Len(d)
              PROVE  (c \o d)[x] = d[x - Len(c)]
          OBVIOUS
        <5>2. m \in Len(a) + 1 .. Len(a) + Len(b) /\ Len(a) = i - 1
          BY <1>1, <2>1, <2>2, <3>2 DEF a, b
        <5>3. a \in Seq(T) /\ b \in Seq(T)
          BY <2>1, <2>2 DEF a, b
        <5>. QED BY <5>1, <5>2, <5>3, SMTT(20)
      <4>. QED BY <2>4, <3>2, <4>1, <4>2 DEF b
    <3>. QED BY <3>1, <3>2
  <2>7. RemoveAt(s, i) = a \o b /\ (i - 1) + (n - i) = n - 1
    BY <1>1 DEF RemoveAt, a, b
  <2>. QED BY <2>5, <2>6, <2>7
<1>3. /\ u \in Seq(T) /\ Len(u) = n /\ DOMAIN u = 1 .. n /\ u[n] = s[i]
      /\ \A m \in 1 .. n - 1 : u[m] = s[f(m)] /\ f(m) \in 1 .. n
  <2>1. s[i] \in T
    OBVIOUS
  <2>2. ASSUME NEW r \in Seq(T), Len(r) = n - 1, NEW x \in T
        PROVE  /\ Append(r, x) \in Seq(T) /\ Len(Append(r, x)) = n /\ Append(r, x)[n] = x
               /\ DOMAIN Append(r, x) = 1 .. n
               /\ \A m \in 1 .. n - 1 : Append(r, x)[m] = r[m]
    <3>0. (n - 1) + 1 = n
      BY <1>1
    <3>1. Len(Append(r, x)) = (n - 1) + 1
      BY <2>2
    <3>2. Append(r, x) \in Seq(T)
      BY <2>2
    <3>3. Append(r, x)[(n - 1) + 1] = x
      BY <2>2
    <3>4. \A m \in 1 .. n - 1 : Append(r, x)[m] = r[m]
      BY <2>2
    <3>5. DOMAIN Append(r, x) = 1 .. Len(Append(r, x))
      BY <3>2
    <3>. QED BY <3>0, <3>1, <3>2, <3>3, <3>4, <3>5
  <2>3. /\ u \in Seq(T) /\ Len(u) = n /\ DOMAIN u = 1 .. n /\ u[n] = s[i]
        /\ \A m \in 1 .. n - 1 : u[m] = RemoveAt(s, i)[m]
    BY <1>2, <2>1, <2>2
  <2>4. \A m \in 1 .. n - 1 : f(m) \in 1 .. n /\ s[f(m)] = IF m < i THEN s[m] ELSE s[m + 1]
    BY <1>1
  <2>. HIDE DEF u, f
  <2>. QED BY <1>2, <2>3, <2>4
<1>. HIDE DEF n, u
<1>4. ToSet(u) = ToSet(s)
  <2>1. \A m \in 1 .. n : m = i \/ \E j \in 1 .. n - 1 : f(j) = m
    <3>1. ASSUME NEW m \in 1 .. n, m < i PROVE m \in 1 .. n - 1 /\ f(m) = m
      BY <1>1, <3>1
    <3>2. ASSUME NEW m \in 1 .. n, m > i PROVE m - 1 \in 1 .. n - 1 /\ f(m - 1) = m
      BY <1>1, <3>2
    <3>. HIDE DEF f
    <3>. QED BY <1>1, <3>1, <3>2
  <2>2. n \in DOMAIN u /\ \A m \in 1 .. n - 1 : m \in DOMAIN u
    BY <1>1, <1>3
  <2>3. \A m \in 1 .. n : m = n \/ m \in 1 .. n - 1
    BY <1>1
  <2>. HIDE DEF f
  <2>4. ASSUME NEW m \in 1 .. n PROVE \E j \in 1 .. n : u[m] = s[j]
    BY <1>1, <1>3, <2>3
  <2>5. ASSUME NEW m \in 1 .. n PROVE \E j \in DOMAIN u : s[m] = u[j]
    <3>1. CASE m = i
      BY <1>3, <2>2, <3>1
    <3>2. CASE m # i
      <4>1. PICK j \in 1 .. n - 1 : f(j) = m
        BY <2>1, <3>2
      <4>. QED BY <1>3, <2>2, <4>1
    <3>. QED BY <3>1, <3>2
  <2>6. DOMAIN s = 1 .. n /\ DOMAIN u = 1 .. n
    BY <1>1, <1>3
  <2>. QED BY <2>4, <2>5, <2>6, SameMembers
<1>5. ASSUME Borrowed(s), NEW j \in DOMAIN u, NEW k \in DOMAIN u, u[j] \in Shared, u[k] = Disk
      PROVE  j < k
  <2>1. j # n /\ j \in 1 .. n - 1
    BY <1>1, <1>3, <1>5
  <2>2. CASE k = n
    BY <1>1, <2>1, <2>2
  <2>3. CASE k # n
    <3>1. k \in 1 .. n - 1
      BY <1>1, <1>3, <2>3
    <3>2. f(j) < f(k)
      <4>. HIDE DEF f
      <4>. QED BY <1>1, <1>3, <1>5, <2>1, <3>1 DEF Borrowed
    <3>. QED BY <2>1, <3>1, <3>2, <1>1
  <2>. QED BY <2>2, <2>3
<1>. QED BY <1>3, <1>4, <1>5 DEF Borrowed, u

\* The next backend is gone through.
LEMMA NextClosed ==
  ASSUME NEW T, NEW s \in Seq(T), s # <<>>, ClosedLast(s)
  PROVE  /\ Head(s) \in T /\ Tail(s) \in Seq(T) /\ ToSet(s) = ToSet(Tail(s)) \cup {Head(s)}
         /\ ClosedLast(Tail(s)) /\ (Head(s) \in Shared => Disk \notin ToSet(s))
<1>. DEFINE n == Len(s)
            t == Tail(s)
<1>1. /\ n \in Nat /\ n >= 1 /\ DOMAIN s = 1 .. n /\ Head(s) = s[1] /\ s[1] \in T
      /\ t \in Seq(T) /\ DOMAIN t = 1 .. n - 1 /\ \A i \in 1 .. n - 1 : t[i] = s[i + 1]
  OBVIOUS
<1>. HIDE DEF n, t
<1>2. ToSet(s) = ToSet(t) \cup {Head(s)}
  <2>1. ASSUME NEW x \in ToSet(s) PROVE x \in ToSet(t) \cup {Head(s)}
    <3>1. PICK i \in 1 .. n : x = s[i]
      BY <1>1 DEF ToSet
    <3>2. CASE i = 1
      BY <1>1, <3>1, <3>2
    <3>3. CASE i # 1
      <4>. DEFINE j == i - 1
      <4>1. j \in 1 .. n - 1 /\ j + 1 = i
        BY <1>1, <3>3
      <4>. HIDE DEF j
      <4>2. x = t[j] /\ j \in DOMAIN t
        BY <1>1, <3>1, <4>1
      <4>. QED BY <4>2 DEF ToSet
    <3>. QED BY <3>2, <3>3
  <2>2. ASSUME NEW x \in ToSet(t) PROVE x \in ToSet(s)
    <3>1. PICK i \in 1 .. n - 1 : x = t[i]
      BY <1>1 DEF ToSet
    <3>2. x = s[i + 1] /\ i + 1 \in DOMAIN s
      BY <1>1, <3>1
    <3>. QED BY <3>2 DEF ToSet
  <2>3. Head(s) \in ToSet(s)
    <3>1. Head(s) = s[1] /\ 1 \in DOMAIN s
      BY <1>1
    <3>. QED BY <3>1 DEF ToSet
  <2>. QED BY <2>1, <2>2, <2>3
<1>3. ASSUME NEW i \in DOMAIN t, NEW j \in DOMAIN t, t[i] \in Shared, t[j] = Disk PROVE j < i
  <2>1. i + 1 \in DOMAIN s /\ j + 1 \in DOMAIN s /\ t[i] = s[i + 1] /\ t[j] = s[j + 1]
    BY <1>1
  <2>2. j + 1 < i + 1
    BY <1>3, <2>1 DEF ClosedLast
  <2>. QED BY <1>1, <2>2
<1>4. ASSUME Head(s) \in Shared, Disk \in ToSet(s) PROVE FALSE
  <2>1. PICK j \in DOMAIN s : s[j] = Disk
    BY <1>4 DEF ToSet
  <2>2. 1 \in DOMAIN s /\ j \in 1 .. n
    BY <1>1
  <2>3. j < 1
    BY <1>1, <1>4, <2>1, <2>2 DEF ClosedLast
  <2>. QED BY <1>1, <2>2, <2>3
<1>. QED BY <1>1, <1>2, <1>3, <1>4 DEF ClosedLast, t

StorageTypes ==
  /\ storage \in {"none", "open", "closing", "closed"}
  /\ storage_backends \in Seq(ToSet(Backends)) /\ to_close \in Seq(ToSet(Backends))
  /\ shut \subseteq ToSet(Backends) /\ raised \subseteq ToSet(Backends)

\* As long as the tier has work, the disk backend is one that is open, or has yet to be
\* closed, or a close has raised: and then no shared allocator is closed any more.
Lingers ==
  ~Drained => \/ storage = "open" /\ Disk \in ToSet(storage_backends)
              \/ storage = "closing" /\ Disk \in ToSet(to_close)
              \/ storage \in {"closing", "closed"} /\ raised # {}

CloseInv ==
  /\ life \in {"init", "started"} => storage = "none"
  /\ Borrowed(storage_backends) /\ ClosedLast(to_close)
  /\ storage \in {"none", "open"} => shut = {} /\ raised = {}
  /\ Lingers /\ AllocatorOutlives
  /\ storage \in {"closing", "closed"} =>
       \A b \in ToSet(storage_backends) \ Shared : b \in ToSet(to_close) \cup shut \cup raised
  /\ storage = "closed" => to_close = <<>>

\* A tier with nothing left to do stays so unless it is asked for something.
LEMMA DrainedStays ==
  ASSUME Drained, EngineLoad \/ WorkerStep PROVE Drained'
<1>1. ~WorkerStep
  BY DEF Drained, WorkerStep, WriteFails, WriteEnds, InsertKey, LoadNext, UnpinNext, LoadFails,
         UnlinkUnloaded, DropRest, LoadReturns, Loading
<1>2. put' = put /\ prefetch' = prefetch
  BY <1>1 DEF EngineLoad, Allocate, ReadFile, UnlinkUnread
<1>. QED BY <1>2 DEF Drained

\* Nothing of the storage manager changes, and what is left to do in the tier does not grow.
LEMMA CloseUnmoved ==
  ASSUME StorageTypes, CloseInv, UNCHANGED storageVars,
         Drained => Drained', life' \in {"init", "started"} => life \in {"init", "started"}
  PROVE  StorageTypes' /\ CloseInv'
<1>1. UNCHANGED <<storage, storage_backends, shut, to_close, raised>>
  BY DEF storageVars
<1>2. StorageTypes'
  BY <1>1 DEF StorageTypes
<1>3. Lingers' /\ AllocatorOutlives'
  BY <1>1 DEF CloseInv, Lingers, AllocatorOutlives
<1>. QED BY <1>1, <1>2, <1>3 DEF CloseInv

\* Every step of the service keeps the order of the close.
LEMMA CloseKeeps ==
  ASSUME DependencyFirst, StorageTypes, CloseInv, PartTypes, [Next]_vars
  PROVE  StorageTypes' /\ CloseInv'
<1>. DEFINE Goal == StorageTypes' /\ CloseInv'
<1>0. ASSUME UNCHANGED diskVars PROVE Drained' <=> Drained
  BY <1>0 DEF diskVars, Drained
<1>1. CASE DiskStep
  <2>1. UNCHANGED storageVars /\ life' = life
    BY <1>1 DEF DiskStep, partVars
  <2>2. CASE Asked
    <3>1. storage = "open" /\ Disk \in ToSet(storage_backends)
      BY <2>2 DEF Asked, DiskOpen
    <3>2. UNCHANGED <<storage, storage_backends, shut, to_close, raised>>
      BY <2>1 DEF storageVars
    <3>3. Lingers' /\ AllocatorOutlives'
      BY <3>1, <3>2 DEF CloseInv, Lingers, AllocatorOutlives
    <3>4. StorageTypes'
      BY <3>2 DEF StorageTypes
    <3>. QED BY <2>1, <3>2, <3>3, <3>4 DEF CloseInv
  <2>3. CASE EngineLoad \/ WorkerStep
    BY <2>1, <2>3, DrainedStays, CloseUnmoved
  <2>. QED BY <1>1, <2>2, <2>3 DEF DiskStep
<1>2. ASSUME NEW b \in Recreatable, RecreateBackend(b) PROVE Goal
  <2>1. /\ life = "serving" /\ life' = life /\ storage = "open"
        /\ UNCHANGED <<storage, shut, to_close, raised>> /\ Closes(b) /\ Renewed(b)
    BY <1>2 DEF RecreateBackend, partVars
  <2>2. PICK i \in DOMAIN storage_backends :
          /\ storage_backends[i] = b
          /\ storage_backends' = Append(RemoveAt(storage_backends, i), b)
    BY <1>2 DEF RecreateBackend
  <2>3. b \notin Shared
    BY DEF DependencyFirst
  <2>4. /\ storage_backends' \in Seq(ToSet(Backends))
        /\ ToSet(storage_backends') = ToSet(storage_backends) /\ Borrowed(storage_backends')
    <3>1. storage_backends \in Seq(ToSet(Backends)) /\ Borrowed(storage_backends)
      BY DEF StorageTypes, CloseInv
    <3>. QED BY <2>2, <2>3, <3>1, Recreated
  <2>5. Drained => Drained'
    <3>1. CASE b = Disk
      BY <2>1, <3>1 DEF Renewed, Drained
    <3>2. CASE b # Disk
      BY <1>0, <2>1, <3>2 DEF Renewed
    <3>. QED BY <3>1, <3>2
  <2>6. StorageTypes'
    BY <2>1, <2>4 DEF StorageTypes
  <2>7. Lingers' /\ AllocatorOutlives'
    <3>1. Lingers /\ shut = {}
      BY <2>1 DEF CloseInv
    <3>2. ToSet(storage_backends)' = ToSet(storage_backends)
      BY <2>4
    <3>. QED BY <2>1, <2>5, <3>1, <3>2 DEF Lingers, AllocatorOutlives
  <2>8. Borrowed(storage_backends)' /\ ClosedLast(to_close)'
    BY <2>1, <2>4 DEF CloseInv
  <2>. QED BY <2>1, <2>6, <2>7, <2>8 DEF CloseInv
<1>3. CASE PostInit
  <2>1. /\ life = "started" /\ life' = "serving" /\ UNCHANGED diskVars
        /\ UNCHANGED <<shut, to_close, raised>>
        /\ \/ UNCHANGED <<storage, storage_backends>>
           \/ storage' = "open" /\ storage_backends' = Backends
    BY <1>3 DEF PostInit
  <2>2. storage = "none" /\ Drained /\ Drained' /\ shut = {} /\ raised = {}
    BY <1>0, <2>1 DEF CloseInv, Lingers
  <2>3. /\ storage_backends' \in Seq(ToSet(Backends)) /\ Borrowed(storage_backends)'
        /\ storage' \in {"none", "open"}
    BY <2>1, <2>2 DEF StorageTypes, CloseInv, DependencyFirst, Borrowed
  <2>4. Lingers' /\ AllocatorOutlives'
    BY <2>2 DEF Lingers, AllocatorOutlives
  <2>5. StorageTypes'
    BY <2>1, <2>3 DEF StorageTypes
  <2>6. ClosedLast(to_close)'
    BY <2>1 DEF CloseInv
  <2>. QED BY <2>1, <2>2, <2>3, <2>4, <2>5, <2>6 DEF CloseInv
<1>4. CASE StartClose
  <2>1. /\ life = "stopping" /\ life' = life /\ UNCHANGED diskVars
        /\ UNCHANGED <<storage_backends, shut, raised>>
        /\ \/ storage = "open" /\ storage' = "closing" /\ to_close' = Reverse(storage_backends)
           \/ UNCHANGED <<storage, to_close>>
    BY <1>4 DEF StartClose
  <2>2. CASE storage = "open" /\ storage' = "closing" /\ to_close' = Reverse(storage_backends)
    <3>1. storage_backends \in Seq(ToSet(Backends)) /\ Borrowed(storage_backends)
      BY DEF StorageTypes, CloseInv
    <3>2. /\ to_close' \in Seq(ToSet(Backends)) /\ ToSet(to_close') = ToSet(storage_backends)
          /\ ClosedLast(to_close')
      BY <2>2, <3>1, Backwards
    <3>3. /\ ToSet(to_close)' = ToSet(storage_backends) /\ ClosedLast(to_close)'
          /\ ToSet(storage_backends)' = ToSet(storage_backends)
      BY <2>1, <3>2
    <3>4. StorageTypes'
      BY <2>1, <2>2, <3>2 DEF StorageTypes
    <3>5. Lingers' /\ AllocatorOutlives'
      BY <1>0, <2>1, <2>2, <3>3 DEF CloseInv, Lingers, AllocatorOutlives
    <3>6. Borrowed(storage_backends)'
      BY <2>1, <3>1
    <3>. QED BY <2>1, <2>2, <3>3, <3>4, <3>5, <3>6 DEF CloseInv
  <2>3. CASE UNCHANGED <<storage, to_close>>
    BY <1>0, <2>1, <2>3, CloseUnmoved DEF storageVars
  <2>. QED BY <2>1, <2>2, <2>3
<1>5. ASSUME storage = "closing", to_close # <<>>, to_close' = Tail(to_close), life' = life,
             UNCHANGED <<storage, storage_backends>>, UNCHANGED diskVars,
             \/ Skipped(Head(to_close)) /\ UNCHANGED <<shut, raised>>
             \/ /\ ~Skipped(Head(to_close)) /\ Closes(Head(to_close))
                /\ shut' = shut \cup {Head(to_close)} /\ UNCHANGED raised
             \/ raised' = raised \cup {Head(to_close)} /\ UNCHANGED shut
      PROVE  Goal
  <2>. DEFINE h == Head(to_close)
  <2>1. /\ h \in ToSet(Backends) /\ to_close' \in Seq(ToSet(Backends))
        /\ ToSet(to_close) = ToSet(to_close') \cup {h} /\ ClosedLast(to_close')
        /\ h \in Shared => Disk \notin ToSet(to_close)
    <3>1. to_close \in Seq(ToSet(Backends)) /\ ClosedLast(to_close)
      BY DEF StorageTypes, CloseInv
    <3>. QED BY <1>5, <3>1, NextClosed
  <2>. HIDE DEF h
  <2>2. StorageTypes'
    BY <1>5, <2>1 DEF StorageTypes, h
  <2>3. ToSet(to_close)' = ToSet(to_close') /\ ClosedLast(to_close)' /\ Borrowed(storage_backends)'
        /\ ToSet(storage_backends)' = ToSet(storage_backends)
    BY <1>5, <2>1 DEF CloseInv
  <2>4. Lingers'
    <3>1. ~Drained => Disk \in ToSet(to_close) \/ raised # {}
      BY <1>5 DEF CloseInv, Lingers
    <3>2. raised # {} => raised' # {}
      BY <1>5
    <3>3. ~Drained /\ raised' = {} => Disk \in ToSet(to_close')
      <4>. SUFFICES ASSUME ~Drained, raised' = {} PROVE Disk \in ToSet(to_close')
        OBVIOUS
      <4>1. raised = {} /\ Disk \in ToSet(to_close)
        BY <3>1, <3>2
      <4>2. Closes(h)
        BY <1>5, <4>1 DEF Skipped, h
      <4>3. h # Disk
        BY <4>2 DEF Closes
      <4>. QED BY <2>1, <4>1, <4>3
    <3>. QED BY <1>0, <1>5, <2>3, <3>3 DEF Lingers
  <2>5. AllocatorOutlives'
    <3>1. ASSUME NEW b \in Shared, b \in shut', b \notin shut PROVE Drained
      <4>1. b = h /\ ~Skipped(h) /\ raised = {}
        BY <1>5, <3>1 DEF Skipped, h
      <4>2. Disk \notin ToSet(to_close)
        BY <2>1, <3>1, <4>1
      <4>. QED BY <1>5, <4>1, <4>2 DEF CloseInv, Lingers
    <3>2. \A b \in Shared : b \in shut' => Drained
      BY <3>1 DEF CloseInv, AllocatorOutlives
    <3>. QED BY <1>0, <1>5, <3>2 DEF AllocatorOutlives
  <2>6. \A b \in ToSet(storage_backends) \ Shared : b \in ToSet(to_close') \cup shut' \cup raised'
    <3>1. \A b \in ToSet(storage_backends) \ Shared : b \in ToSet(to_close) \cup shut \cup raised
      BY <1>5 DEF CloseInv
    <3>2. h \in Shared \/ h \in shut' \cup raised'
      BY <1>5 DEF Skipped, h
    <3>3. shut \subseteq shut' /\ raised \subseteq raised'
      BY <1>5
    <3>. QED BY <2>1, <3>1, <3>2, <3>3
  <2>7. life' \in {"init", "started"} => storage' = "none"
    BY <1>5 DEF CloseInv
  <2>. QED BY <1>5, <2>2, <2>3, <2>4, <2>5, <2>6, <2>7 DEF CloseInv
<1>6. CASE SkipBackend \/ CloseBackend \/ CloseRaises
  BY <1>5, <1>6 DEF SkipBackend, CloseBackend, CloseRaises, partVars
<1>7. CASE StopLoop
  <2>1. /\ storage = "closing" /\ to_close = <<>> /\ storage' = "closed" /\ UNCHANGED diskVars
        /\ life' = life /\ UNCHANGED <<storage_backends, shut, to_close, raised>>
    BY <1>7 DEF StopLoop, partVars
  <2>2. ToSet(to_close) = {}
    BY <2>1 DEF ToSet
  <2>3. StorageTypes'
    BY <2>1 DEF StorageTypes
  <2>4. Lingers' /\ AllocatorOutlives'
    BY <1>0, <2>1, <2>2 DEF CloseInv, Lingers, AllocatorOutlives
  <2>. QED BY <2>1, <2>2, <2>3, <2>4 DEF CloseInv
<1>8. CASE \/ InitComponent \/ StartServices \/ RecreateLookup \/ StopServices \/ CloseTimesOut
           \/ CloseHangs \/ CloseReturns \/ Stopped \/ UNCHANGED vars
  <2>1. /\ UNCHANGED diskVars /\ UNCHANGED storageVars
        /\ life' \in {"init", "started"} => life \in {"init", "started"}
    BY <1>8 DEF InitComponent, StartServices, RecreateLookup, StopServices, CloseTimesOut,
                CloseHangs, CloseReturns, Stopped, vars, storageVars
  <2>. QED BY <1>0, <2>1, CloseUnmoved
<1>. QED BY <1>1, <1>2, <1>3, <1>4, <1>6, <1>7, <1>8 DEF Next, Stopping

\* A service that has not begun: no part, no storage manager, nothing in the tier.
LEMMA ServiceStarts ==
  ASSUME Init
  PROVE  PartTypes /\ HealthyHasStorage /\ StorageTypes /\ CloseInv
<1>1. /\ role \in Roles /\ life = "init" /\ todo = InitOrder(role)
      /\ parts = {} /\ closing = NoPart /\ late = FALSE /\ hung = FALSE
      /\ init_failed = FALSE /\ engine_failed = FALSE
      /\ storage = "none" /\ storage_backends = <<>>
      /\ shut = {} /\ to_close = <<>> /\ raised = {}
  BY DEF Init
<1>2. PartTypes /\ HealthyHasStorage
  BY <1>1, InitOrderType DEF PartTypes, HealthyHasStorage
<1>3. StorageTypes
  BY <1>1 DEF StorageTypes
<1>4. Drained
  BY IdleParts DEF Init, DiskInit, Drained, IdlePrefetch
<1>5. Lingers /\ AllocatorOutlives
  BY <1>4 DEF Lingers, AllocatorOutlives
<1>6. Borrowed(storage_backends) /\ ClosedLast(to_close)
  BY <1>1 DEF Borrowed, ClosedLast
<1>. QED BY <1>1, <1>2, <1>3, <1>5, <1>6 DEF CloseInv

\* Storage is there as long as anything uses it and goes when nothing does, for every set of
\* backends that is created dependency-first: an engine that says it is healthy has its
\* storage manager, close goes through every backend however many of them raise, and a shared
\* allocator is closed only when no put and no batched load of the disk tier is in flight.
THEOREM StorageOutlives ==
  ASSUME DependencyFirst PROVE Spec => []StorageLife
<1>. DEFINE Inv == DiskInv /\ PartTypes /\ HealthyHasStorage /\ StorageTypes /\ CloseInv
<1>1. Init => Inv
  BY DiskStarts, ServiceStarts
<1>2. Inv /\ [Next]_vars => Inv'
  BY DiskKeeps, PartsKeep, CloseKeeps
<1>3. Inv => StorageLife
  <2>. SUFFICES ASSUME Inv PROVE StorageLife
    OBVIOUS
  <2>1. TypeOK
    BY DiskTyped DEF TypeOK, PartTypes, StorageTypes
  <2>2. SiblingsClosed
    <3>. SUFFICES ASSUME storage = "closed", NEW b \in ToSet(storage_backends) \ Shared
                  PROVE  b \in shut \cup raised
      BY DEF SiblingsClosed
    <3>1. ToSet(to_close) = {}
      BY DEF CloseInv, ToSet
    <3>. QED BY <3>1 DEF CloseInv
  <2>. QED BY <2>1, <2>2 DEF StorageLife, CloseInv
<1>. HIDE DEF Inv
<1>. QED BY <1>1, <1>2, <1>3, PTL DEF Spec
=============================================================================

------------------------ MODULE AsyncLoadingProofs ------------------------
(* The weighted semaphore keeps concurrent loads within their budget.      *)
(* Asynchronous lookups use the weighted semaphore as it is meant to be:   *)
(* every step of them is one of the semaphore's or leaves it alone.  So    *)
(* whatever the tiers answer, and whichever loads come short or raise, the *)
(* loads of all requests keep within the budget.  What the scheduler is    *)
(* told has been loaded, and the references are released as owed: both     *)
(* rest on the tasks of a request dividing its chunks among them, and on a *)
(* task ending once, where it has the serializer.                          *)
EXTENDS AsyncLoading, ByteTotalsProofs

(***************************************************************************)
(* The weighted semaphore keeps within its budget, for any number of loads *)
(* and any budget of at least two chunks.                                  *)
(***************************************************************************)
USE BudgetAssumption

\* A coroutine that waits holds nothing.
OneRequest == \A l \in Loads : asked[l] > 0 => held[l] = 0

(* OversizedExclusive and SharesAddUp need each other: a load is let in by *)
(* what is left, which says nothing of the others unless the shares add up.*)
SemaphoreInv == TypeOK /\ OneRequest /\ OversizedExclusive /\ SharesAddUp

\* Half of the budget.
LEMMA CapBounds ==
  /\ _concurrent_budget_cap \in Nat
  /\ _concurrent_budget_cap <= Budget
  /\ Budget >= 2 => _concurrent_budget_cap >= 1
BY DEF _concurrent_budget_cap

\* One share is at most the total of the shares.
LEMMA ShareBound ==
  ASSUME NEW f \in [Loads -> 0 .. Budget]
  PROVE  /\ Total(f) \in Nat
         /\ \A l \in Loads : f[l] <= Total(f)
         /\ (\A l \in Loads : f[l] = 0) => Total(f) = 0
<1>1. f \in [Loads -> Nat] /\ Total(f) \in Nat
  <2>1. f \in [Loads -> Nat]
    OBVIOUS
  <2>. QED BY <2>1, UnitsFinite
<1>2. ASSUME NEW l \in Loads PROVE f[l] <= Total(f)
  <2>. DEFINE g == [f EXCEPT ![l] = 0]
  <2>0. 0 \in Nat
    OBVIOUS
  <2>1. Total(g) = Total(f) - f[l] + 0
    BY <1>1, <2>0, BudgetAssumption, TotalUpdate, Zenon
  <2>2. g \in [Loads -> Nat]
    BY <1>1
  <2>3. Total(g) \in Nat
    <3>. HIDE DEF g
    <3>. QED BY <2>2, UnitsFinite
  <2>4. f[l] \in Nat
    BY <1>1
  <2>. HIDE DEF g
  <2>. QED BY <1>1, <2>1, <2>3, <2>4
<1>3. ASSUME \A l \in Loads : f[l] = 0 PROVE Total(f) = 0
  <2>1. f = [l \in Loads |-> 0]
    BY <1>3
  <2>. QED BY <2>1, TotalZero
<1>. QED BY <1>1, <1>2, <1>3

\* The total after one share has changed.
LEMMA ShareChange ==
  ASSUME held \in [Loads -> 0 .. Budget], NEW l \in Loads, NEW n \in 0 .. Budget,
         held' = [held EXCEPT ![l] = n]
  PROVE  Total(held)' = Total(held) - held[l] + n
<1>1. held \in [Loads -> Nat] /\ n \in Nat
  OBVIOUS
<1>2. Total([held EXCEPT ![l] = n]) = Total(held) - held[l] + n
  BY <1>1, TotalUpdate
<1>3. Total(held)' = Total(held')
  BY DEF Total, Units
<1>. QED BY <1>2, <1>3

\* It holds at the start.
LEMMA SemaphoreInit == ASSUME Budget >= 2 PROVE Init => SemaphoreInv
<1>. SUFFICES ASSUME Init PROVE SemaphoreInv
  OBVIOUS
<1>1. TypeOK /\ OneRequest
  BY CapBounds DEF Init, TypeOK, OneRequest
<1>2. \A l \in Loads : held[l] = 0 /\ ~Oversized(held[l])
  BY CapBounds DEF Init, Oversized
<1>3. Total(held) = 0
  BY <1>1, <1>2, ShareBound DEF TypeOK
<1>4. SharesAddUp
  BY <1>2, <1>3, CapBounds DEF Init, SharesAddUp
<1>. QED BY <1>1, <1>2, <1>4 DEF SemaphoreInv, OversizedExclusive

\* Every step keeps it.
LEMMA SemaphoreStep ==
  ASSUME Budget >= 2, SemaphoreInv, [Next]_vars
  PROVE  SemaphoreInv'
<1>. DEFINE cap == _concurrent_budget_cap
<1>0. /\ TypeOK /\ OneRequest /\ OversizedExclusive /\ SharesAddUp
      /\ held \in [Loads -> 0 .. Budget] /\ asked \in [Loads -> 0 .. Budget]
      /\ _current_chunks \in 0 .. cap /\ cap \in Nat /\ cap >= 1 /\ cap <= Budget
      /\ Total(held) \in Nat
  BY CapBounds, ShareBound DEF SemaphoreInv, TypeOK
<1>. HIDE DEF cap
<1>1. ASSUME NEW l \in Loads, NEW n \in 1 .. Budget, Run(l, n) PROVE SemaphoreInv'
  <2>1. TypeOK' /\ OneRequest'
    BY <1>0, <1>1 DEF Run, Idle, TypeOK, OneRequest
  <2>2. held' = held /\ _current_chunks' = _current_chunks
    BY <1>1 DEF Run
  <2>. QED BY <1>0, <2>1, <2>2 DEF SemaphoreInv, OversizedExclusive, SharesAddUp, Oversized, Total, Units
<1>2. ASSUME NEW l \in Loads, Acquire(l) PROVE SemaphoreInv'
  <2>1. /\ asked[l] \in 1 .. cap /\ _current_chunks >= asked[l] /\ held[l] = 0
        /\ _current_chunks' = _current_chunks - asked[l]
        /\ held' = [held EXCEPT ![l] = asked[l]] /\ asked' = [asked EXCEPT ![l] = 0]
    BY <1>0, <1>2 DEF Acquire, Take, OneRequest, cap
  <2>2. \A m \in Loads : ~Oversized(held[m])
    BY <1>0, <2>1 DEF SharesAddUp
  <2>3. \A m \in Loads : ~Oversized(held[m])'
    BY <1>0, <2>1, <2>2 DEF Oversized, cap
  <2>4. Total(held)' = Total(held) - held[l] + asked[l]
    BY <1>0, ShareChange, <2>1
  <2>5. SharesAddUp'
    <3>1. _current_chunks + Total(held) = cap
      BY <1>0, <2>2 DEF SharesAddUp, cap
    <3>2. _current_chunks' + Total(held)' = cap
      BY <1>0, <2>1, <2>4, <3>1
    <3>. QED BY <2>3, <3>2 DEF SharesAddUp, cap
  <2>6. TypeOK' /\ OneRequest'
    <3>1. held' \in [Loads -> 0 .. Budget] /\ asked' \in [Loads -> 0 .. Budget]
      BY <1>0, <2>1
    <3>2. _current_chunks' \in 0 .. cap
      BY <1>0, <2>1
    <3>. QED BY <1>0, <2>1, <3>1, <3>2 DEF TypeOK, OneRequest, cap
  <2>. QED BY <2>3, <2>5, <2>6 DEF SemaphoreInv, OversizedExclusive
<1>3. ASSUME NEW l \in Loads, AcquireOversized(l) PROVE SemaphoreInv'
  <2>1. /\ Oversized(asked[l]) /\ _current_chunks = cap /\ _current_chunks' = 0
        /\ held' = [held EXCEPT ![l] = asked[l]] /\ asked' = [asked EXCEPT ![l] = 0]
    BY <1>3 DEF AcquireOversized, Take, Oversized, cap
  <2>2. \A m \in Loads : ~Oversized(held[m])
    BY <1>0, <2>1 DEF SharesAddUp
  <2>3. Total(held) = 0
    BY <1>0, <2>1, <2>2 DEF SharesAddUp, cap
  <2>4. \A m \in Loads : held[m] = 0
    BY <1>0, <2>3, ShareBound
  <2>5. OversizedExclusive'
    BY <1>0, <2>1, <2>4 DEF OversizedExclusive, Oversized, cap
  <2>6. SharesAddUp'
    BY <1>0, <2>1 DEF SharesAddUp, Oversized
  <2>7. TypeOK' /\ OneRequest'
    BY <1>0, <2>1 DEF TypeOK, OneRequest, cap
  <2>. QED BY <2>5, <2>6, <2>7 DEF SemaphoreInv
<1>4. ASSUME NEW l \in Loads, Release(l) PROVE SemaphoreInv'
  <2>0. held[l] > 0 /\ held' = [held EXCEPT ![l] = 0] /\ asked' = asked
    BY <1>4 DEF Release
  <2>1. \A m \in Loads : ~Oversized(held[m])'
    <3>1. \A m \in Loads \ {l} : ~Oversized(held[m])
      BY <1>0, <2>0 DEF OversizedExclusive, Oversized, cap
    <3>. QED BY <1>0, <2>0, <3>1 DEF Oversized, cap
  <2>2. Total(held)' = Total(held) - held[l] + 0
    <3>1. 0 \in 0 .. Budget
      OBVIOUS
    <3>. QED BY <1>0, <2>0, <3>1, ShareChange, Zenon
  <2>3. _current_chunks' \in 0 .. cap /\ _current_chunks' + Total(held)' = cap
    <3>1. CASE Oversized(held[l])
      <4>1. _current_chunks' = cap
        BY <1>0, <1>4, <3>1 DEF Release, Oversized, cap
      <4>2. held' \in [Loads -> 0 .. Budget] /\ \A m \in Loads : held'[m] = 0
        BY <1>0, <2>0, <3>1 DEF OversizedExclusive
      <4>3. Total(held') = 0
        BY <4>2, ShareBound
      <4>4. Total(held)' = 0
        BY <4>3 DEF Total, Units
      <4>. QED BY <1>0, <4>1, <4>4
    <3>2. CASE ~Oversized(held[l])
      <4>1. _current_chunks' = _current_chunks + held[l]
        BY <1>0, <1>4, <3>2 DEF Release, Oversized, cap
      <4>2. \A m \in Loads : ~Oversized(held[m])
        BY <1>0, <2>0, <2>1, <3>2 DEF Oversized
      <4>3. _current_chunks + Total(held) = cap
        BY <1>0, <4>2 DEF SharesAddUp, cap
      <4>4. held[l] <= Total(held) /\ held[l] \in Nat
        BY <1>0, ShareBound
      <4>. QED BY <1>0, <2>2, <4>1, <4>3, <4>4
    <3>. QED BY <3>1, <3>2
  <2>4. TypeOK' /\ OneRequest'
    BY <1>0, <2>0, <2>3 DEF TypeOK, OneRequest, cap
  <2>5. SharesAddUp'
    BY <2>1, <2>3 DEF SharesAddUp, cap
  <2>. QED BY <2>1, <2>4, <2>5 DEF SemaphoreInv, OversizedExclusive
<1>5. CASE UNCHANGED vars
  <2>1. UNCHANGED <<_current_chunks, asked, held>>
    BY <1>5 DEF vars
  <2>. QED BY <2>1 DEF SemaphoreInv, TypeOK, OneRequest, OversizedExclusive, SharesAddUp,
         Oversized, Total, Units
<1>. QED BY <1>1, <1>2, <1>3, <1>4, <1>5 DEF Next

\* The invariant bounds what is held.
LEMMA SemaphoreBudget == ASSUME Budget >= 2, SemaphoreInv PROVE WithinBudget
<1>0. /\ held \in [Loads -> 0 .. Budget] /\ Total(held) \in Nat
      /\ _current_chunks \in Nat /\ _concurrent_budget_cap \in Nat
      /\ _concurrent_budget_cap <= Budget
  BY CapBounds, ShareBound DEF SemaphoreInv, TypeOK
<1>1. CASE \E l \in Loads : Oversized(held[l])
  <2>. PICK l \in Loads : Oversized(held[l])
    BY <1>1
  <2>1. \A m \in Loads \ {l} : held[m] = 0
    BY DEF SemaphoreInv, OversizedExclusive
  <2>. DEFINE g == [held EXCEPT ![l] = 0]
  <2>2. g \in [Loads -> 0 .. Budget] /\ \A m \in Loads : g[m] = 0
    BY <1>0, <2>1
  <2>3. Total(g) = 0
    <3>. HIDE DEF g
    <3>. QED BY <2>2, ShareBound
  <2>4. Total(g) = Total(held) - held[l] + 0
    <3>1. held \in [Loads -> Nat] /\ 0 \in Nat
      BY <1>0
    <3>. QED BY <3>1, BudgetAssumption, TotalUpdate, Zenon
  <2>5. held[l] \in 0 .. Budget
    BY <1>0
  <2>. HIDE DEF g
  <2>. QED BY <1>0, <2>3, <2>4, <2>5 DEF WithinBudget
<1>2. CASE ~ \E l \in Loads : Oversized(held[l])
  BY <1>0, <1>2 DEF SemaphoreInv, SharesAddUp, WithinBudget
<1>. QED BY <1>1, <1>2

\* With a budget of at least two chunks, concurrent loads never hold more than the
\* allocator's budget together, a load of more than half of it runs alone, and no chunk
\* of the half is lost to later loads.
THEOREM LoadsWithinBudget ==
  ASSUME Budget >= 2 PROVE Spec => [](WithinBudget /\ OversizedExclusive /\ SharesAddUp)
<1>1. Init => SemaphoreInv
  BY SemaphoreInit
<1>2. SemaphoreInv /\ [Next]_vars => SemaphoreInv'
  BY SemaphoreStep
<1>3. SemaphoreInv => WithinBudget /\ OversizedExclusive /\ SharesAddUp
  BY SemaphoreBudget DEF SemaphoreInv
<1>. QED BY <1>1, <1>2, <1>3, PTL DEF Spec
-----------------------------------------------------------------------------
(***************************************************************************)
(* The asynchronous lookups.                                               *)
(***************************************************************************)
USE LoadingAssumption

(* A request has at most one loading task per tier it has asked: the task  *)
(* it hands to the serializer is one the semaphore knows.                  *)
TasksInv ==
  /\ got \in [Requests -> Seq(Int)]
  /\ tier \in [Requests -> 1 .. NumTiers + 1]
  /\ \A r \in Requests : Len(got[r]) < tier[r]

\* It holds at the start.
LEMMA TasksInit == LoadingInit => TasksInv
BY DEF LoadingInit, TasksInv

\* Every step keeps it.
LEMMA TasksStep == TasksInv /\ [LoadingNext]_loadingVars => TasksInv'
<1>. SUFFICES ASSUME TasksInv, [LoadingNext]_loadingVars PROVE TasksInv'
  OBVIOUS
<1>1. ASSUME NEW r \in Requests, NEW h \in 0 .. NumChunks, Contains(r, h) PROVE TasksInv'
  <2>1. tier' = [tier EXCEPT ![r] = @ + 1] /\ tier[r] <= NumTiers
    BY <1>1 DEF Contains
  <2>2. CASE UNCHANGED got
    BY <2>1, <2>2 DEF TasksInv
  <2>3. CASE got' = [got EXCEPT ![r] = Append(@, Pending)]
    BY <2>1, <2>3 DEF TasksInv, Pending
  <2>. QED BY <1>1, <2>2, <2>3 DEF Contains
<1>2. ASSUME NEW r \in Requests, NEW i \in DOMAIN got[r], NEW g \in Int,
             got' = [got EXCEPT ![r][i] = g], UNCHANGED tier
      PROVE  TasksInv'
  <2>1. [got[r] EXCEPT ![i] = g] \in Seq(Int) /\ Len([got[r] EXCEPT ![i] = g]) = Len(got[r])
    BY DEF TasksInv
  <2>. QED BY <1>2, <2>1 DEF TasksInv
<1>3. ASSUME NEW r \in Requests, NEW i \in DOMAIN got[r], LoadEnds(r, i) PROVE TasksInv'
  <2>1. CASE LoadRaises(r, i)
    <3>1. Failed \in Int
      BY DEF Failed
    <3>2. got' = [got EXCEPT ![r][i] = Failed] /\ UNCHANGED tier
      BY <2>1 DEF LoadRaises
    <3>. QED BY <1>2, <3>1, <3>2
  <2>2. ASSUME NEW g \in 0 .. NumChunks, EndLoad(r, i, g) PROVE TasksInv'
    <3>1. g \in Int
      OBVIOUS
    <3>2. got' = [got EXCEPT ![r][i] = g] /\ UNCHANGED tier
      BY <2>2, Zenon DEF EndLoad
    <3>. QED BY <1>2, <3>1, <3>2
  <2>. QED BY <1>3, <2>1, <2>2 DEF LoadEnds
<1>4. ASSUME UNCHANGED <<got, tier>> PROVE TasksInv'
  BY <1>4 DEF TasksInv
<1>5. ASSUME NEW r \in Requests,
             \/ AsyncLookup(r) \/ LookupEnds(r) \/ AllDone(r) \/ LookupUnpin(r)
             \/ \E i \in DOMAIN got[r] : BeginLoad(r, i)
             \/ \E n \in 0 .. MaxComputed : Retrieve(r, n)
      PROVE  TasksInv'
  BY <1>4, <1>5 DEF AsyncLookup, LookupEnds, AllDone, LookupUnpin, BeginLoad, Retrieve
<1>6. CASE UNCHANGED loadingVars
  BY <1>4, <1>6 DEF loadingVars
<1>. QED BY <1>1, <1>3, <1>5, <1>6 DEF LoadingNext, LookupStep

\* A loading task of a request is one of the semaphore's loads.
LEMMA TaskIsLoad ==
  ASSUME TasksInv, NEW r \in Requests, NEW i \in 1 .. NumTiers
  PROVE  <<r, i>> \in Loads
BY DEF LoadTasks, Tiers

\* A step of the lookups is a step of the semaphore, or none.
LEMMA LoadingSimulates ==
  ASSUME TasksInv, [LoadingNext]_loadingVars
  PROVE  [Next]_vars
<1>1. ASSUME NEW r \in Requests, NEW h \in 0 .. NumChunks, Contains(r, h)
      PROVE  [Next]_vars
  <2>1. CASE Run(<<r, Len(got[r]) + 1>>, h)
    <3>1. Len(got[r]) + 1 \in 1 .. NumTiers
      BY <1>1 DEF TasksInv, Contains
    <3>2. h \in 1 .. Budget
      BY <2>1 DEF Run
    <3>. QED BY <2>1, <3>1, <3>2, TaskIsLoad DEF Next
  <2>2. CASE UNCHANGED vars
    BY <2>2
  <2>. QED BY <1>1, <2>1, <2>2 DEF Contains
<1>2. ASSUME NEW r \in Requests, NEW i \in DOMAIN got[r] PROVE <<r, i>> \in Loads
  <2>1. i \in 1 .. NumTiers
    BY DEF TasksInv
  <2>. QED BY <2>1, TaskIsLoad
<1>3. ASSUME NEW r \in Requests, NEW i \in DOMAIN got[r], BeginLoad(r, i)
      PROVE  [Next]_vars
  BY <1>2, <1>3 DEF BeginLoad, Next
<1>4. ASSUME NEW r \in Requests, NEW i \in DOMAIN got[r], LeaveSerializer(r, i)
      PROVE  [Next]_vars
  BY <1>2, <1>4 DEF LeaveSerializer, Next
<1>5. ASSUME NEW r \in Requests, NEW i \in DOMAIN got[r], LoadEnds(r, i)
      PROVE  [Next]_vars
  BY <1>4, <1>5 DEF LoadEnds, LoadRaises, EndLoad
<1>6. ASSUME NEW r \in Requests,
             \/ AsyncLookup(r) \/ LookupEnds(r) \/ AllDone(r) \/ LookupUnpin(r)
             \/ \E n \in 0 .. MaxComputed : Retrieve(r, n)
      PROVE  [Next]_vars
  BY <1>6 DEF AsyncLookup, LookupEnds, AllDone, LookupUnpin, Retrieve
<1>7. CASE UNCHANGED loadingVars
  BY <1>7 DEF loadingVars
<1>. QED BY <1>1, <1>3, <1>5, <1>6, <1>7 DEF LoadingNext, LookupStep

\* The lookups implement the semaphore's specification.
THEOREM LoadingImplementsSemaphore == LoadingSpec => Spec
<1>1. LoadingInit => Init /\ TasksInv
  BY TasksInit DEF LoadingInit
<1>2. TasksInv /\ [LoadingNext]_loadingVars => TasksInv' /\ [Next]_vars
  BY TasksStep, LoadingSimulates
<1>. QED BY <1>1, <1>2, PTL DEF LoadingSpec, Spec

\* Whatever the tiers answer, and whichever loads come short or raise, concurrent loads
\* never hold more chunks than the allocator's budget, a load of more than half of it runs
\* alone, and a load that raised took no chunk with it.
THEOREM LookupsWithinBudget ==
  ASSUME Budget >= 2
  PROVE  LoadingSpec => [](WithinBudget /\ OversizedExclusive /\ SharesAddUp)
BY LoadingImplementsSemaphore, LoadsWithinBudget, PTL
-----------------------------------------------------------------------------
(* Sums of the chunks of the first tasks                                   *)

\* The sum of the first numbers of a sequence is a natural number, and grows with them.
LEMMA SumGrows ==
  ASSUME NEW s, NEW n \in Nat, \A i \in 1 .. n : s[i] \in Nat, NEW m \in 0 .. n
  PROVE  SumTo(s, m) \in Nat /\ SumTo(s, n) \in Nat /\ SumTo(s, m) <= SumTo(s, n)
<1>. DEFINE f == [i \in 1 .. m |-> s[i]]
            g == [i \in 1 .. n |-> s[i]]
<1>1. f \in [1 .. m -> Nat] /\ g \in [1 .. n -> Nat]
  OBVIOUS
<1>2. IsFiniteSet(1 .. m) /\ IsFiniteSet(1 .. n)
  BY FS_Interval
<1>3. Units(f) \subseteq Units(g)
  BY DEF Units
<1>. HIDE DEF f, g
<1>4. IsFiniteSet(Units(f)) /\ Total(f) \in Nat /\ IsFiniteSet(Units(g)) /\ Total(g) \in Nat
  BY <1>1, <1>2, UnitsFinite
<1>5. Total(f) <= Total(g)
  BY <1>3, <1>4, FS_Subset DEF Total
<1>. QED BY <1>4, <1>5 DEF SumTo, f, g

\* One more number.
LEMMA SumNext ==
  ASSUME NEW s, NEW n \in Nat, \A i \in 1 .. n + 1 : s[i] \in Nat
  PROVE  SumTo(s, n + 1) = SumTo(s, n) + s[n + 1]
<1>. DEFINE f == [i \in 1 .. n |-> s[i]]
            g == [i \in 1 .. n + 1 |-> s[i]]
            C == Column(n + 1, s[n + 1])
<1>1. f \in [1 .. n -> Nat] /\ IsFiniteSet(1 .. n)
  BY FS_Interval
<1>2. Units(g) = Units(f) \cup C
  BY DEF Units
<1>3. Units(f) \cap C = {}
  BY DEF Units, Column
<1>4. IsFiniteSet(C) /\ Cardinality(C) = s[n + 1] /\ s[n + 1] \in Nat
  BY ColumnSize
<1>5. IsFiniteSet(Units(f)) /\ Total(f) \in Nat
  <2>. HIDE DEF f
  <2>. QED BY <1>1, UnitsFinite
<1>6. Cardinality(Units(f) \cup C) = Total(f) + s[n + 1]
  <2>1. Cardinality(Units(f) \cap C) = 0
    BY <1>3, FS_EmptySet
  <2>. HIDE DEF f, C
  <2>2. Cardinality(Units(f) \cup C)
          = Cardinality(Units(f)) + Cardinality(C) - Cardinality(Units(f) \cap C)
    BY <1>4, <1>5, FS_Union
  <2>. QED BY <1>4, <1>5, <2>1, <2>2 DEF Total
<1>. QED BY <1>2, <1>6 DEF SumTo, Total

\* Numbers that are the same have the same sum, and no numbers have none.
LEMMA SumSame ==
  ASSUME NEW s, NEW t, NEW n \in Nat, \A i \in 1 .. n : s[i] = t[i]
  PROVE  SumTo(s, n) = SumTo(t, n)
<1>1. [i \in 1 .. n |-> s[i]] = [i \in 1 .. n |-> t[i]]
  OBVIOUS
<1>. QED BY <1>1 DEF SumTo

LEMMA SumNone == ASSUME NEW s PROVE SumTo(s, 0) = 0
<1>1. [i \in 1 .. 0 |-> s[i]] = [i \in {} |-> 0]
  OBVIOUS
<1>. QED BY <1>1, TotalZero DEF SumTo
-----------------------------------------------------------------------------
(* The loading tasks.  A task that has the serializer, or waits for it,    *)
(* has not ended: it ends once.                                            *)

LoadTypes ==
  /\ stage \in [Requests -> Stages]
  /\ expected \in [Requests -> Seq(Chunks)]
  /\ source \in [Requests -> Seq(Tiers)]
  /\ got \in [Requests -> Seq({Pending, Failed} \cup 0 .. NumChunks)]
  /\ serializer \in Serializers /\ computed \in [Requests -> 0 .. MaxComputed]
  /\ event \in [Requests -> {"not_found", "ongoing", "done"}]
  /\ response \in [Requests -> Int]
  /\ refs \in [Requests -> [Chunks -> Int]]

Running(r, i) == serving = <<r, i>> \/ asked[<<r, i>>] > 0 \/ held[<<r, i>>] > 0

RunningInv ==
  /\ asked \in [Loads -> Nat] /\ held \in [Loads -> Nat]
  /\ \A l \in Loads : asked[l] = 0 \/ held[l] = 0
  /\ serving = Nobody \/ serving \in Loads
  /\ IF serializer = "single" THEN \A l \in Loads : asked[l] = 0 /\ held[l] = 0
                              ELSE serving = Nobody
  /\ \A r \in Requests, i \in Tiers :
       Running(r, i) => i \in DOMAIN got[r] /\ got[r][i] = Pending

\* A task's result takes its place.
LEMMA ResultType ==
  ASSUME LoadTypes, NEW r \in Requests, NEW i \in DOMAIN got[r],
         NEW g \in {Pending, Failed} \cup 0 .. NumChunks, got' = [got EXCEPT ![r][i] = g]
  PROVE  /\ got' \in [Requests -> Seq({Pending, Failed} \cup 0 .. NumChunks)]
         /\ Len(got'[r]) = Len(got[r]) /\ DOMAIN got'[r] = DOMAIN got[r]
         /\ got'[r][i] = g /\ \A j \in DOMAIN got[r] \ {i} : got'[r][j] = got[r][j]
         /\ \A q \in Requests \ {r} : got'[q] = got[q]
<1>. DEFINE T == {Pending, Failed} \cup 0 .. NumChunks
<1>1. got[r] \in Seq(T)
  BY DEF LoadTypes
<1>. HIDE DEF T
<1>2. g \in T
  BY DEF T
<1>3. [got[r] EXCEPT ![i] = g] \in Seq(T) /\ Len([got[r] EXCEPT ![i] = g]) = Len(got[r])
  BY <1>1, <1>2
<1>4. got'[r] = [got[r] EXCEPT ![i] = g]
  BY DEF LoadTypes
<1>5. got' \in [Requests -> Seq(T)]
  BY <1>3 DEF LoadTypes, T
<1>. QED BY <1>1, <1>3, <1>4, <1>5 DEF LoadTypes, T

Over(r) == \A i \in DOMAIN got[r] : got[r][i] >= 0

\* A gather that has ended without a raise has every result.
LEMMA GatheredIsOver ==
  ASSUME LoadTypes, NEW r \in Requests, Gathered(r), ~Raised(r)
  PROVE  Over(r)
BY DEF LoadTypes, Gathered, Raised, Over, Pending, Failed

\* One step of a request, and which part of the state it may touch.
RequestStep(r) ==
  \/ AsyncLookup(r) \/ LookupStep(r)
  \/ \E i \in DOMAIN got[r] : BeginLoad(r, i) \/ LoadEnds(r, i)
  \/ (\E n \in 0 .. MaxComputed : Retrieve(r, n)) \/ LookupUnpin(r)

\* References are numbers.
LEMMA LetGoType ==
  ASSUME LoadTypes, NEW r \in Requests, NEW C, LetGo(r, C)
  PROVE  /\ refs' \in [Requests -> [Chunks -> Int]]
         /\ \A q \in Requests \ {r} : refs'[q] = refs[q]
         /\ \A c \in Chunks : refs'[r][c] = IF c \in C THEN refs[r][c] - 1 ELSE refs[r][c]
<1>. DEFINE f == [c \in Chunks |-> IF c \in C THEN refs[r][c] - 1 ELSE refs[r][c]]
<1>0. refs \in [Requests -> [Chunks -> Int]]
  BY DEF LoadTypes
<1>1. f \in [Chunks -> Int]
  BY <1>0
<1>2. refs' = [refs EXCEPT ![r] = f]
  BY DEF LetGo
<1>. QED BY <1>0, <1>1, <1>2

\* A load that ends takes one reference on each chunk it returns.
Returned(r, i, g) ==
  {c \in Chunks : SumTo(expected[r], i - 1) < c /\ c <= SumTo(expected[r], i - 1) + g}

LEMMA EndLoadRefs ==
  ASSUME LoadTypes, NEW r \in Requests, NEW i, NEW g, EndLoad(r, i, g)
  PROVE  /\ refs' \in [Requests -> [Chunks -> Int]]
         /\ \A q \in Requests \ {r} : refs'[q] = refs[q]
         /\ \A c \in Chunks :
              refs'[r][c] = IF c \in Returned(r, i, g) THEN refs[r][c] + 1 ELSE refs[r][c]
<1>. DEFINE f == [c \in Chunks |->
                    IF c \in Returned(r, i, g) THEN refs[r][c] + 1 ELSE refs[r][c]]
<1>0. refs \in [Requests -> [Chunks -> Int]]
  BY DEF LoadTypes
<1>1. f \in [Chunks -> Int]
  BY <1>0
<1>2. refs' = [refs EXCEPT ![r] = f]
  BY DEF EndLoad, Returned
<1>. QED BY <1>0, <1>1, <1>2

\* Every step of a request keeps the types, and leaves the other requests alone.
LEMMA RequestTypes ==
  ASSUME LoadTypes, TasksInv, NEW r \in Requests, RequestStep(r)
  PROVE  /\ LoadTypes'
         /\ \A q \in Requests \ {r} :
              /\ stage'[q] = stage[q] /\ expected'[q] = expected[q] /\ source'[q] = source[q]
              /\ got'[q] = got[q] /\ computed'[q] = computed[q] /\ event'[q] = event[q]
              /\ response'[q] = response[q] /\ refs'[q] = refs[q]
<1>. DEFINE Goal ==
         /\ LoadTypes'
         /\ \A q \in Requests \ {r} :
              /\ stage'[q] = stage[q] /\ expected'[q] = expected[q] /\ source'[q] = source[q]
              /\ got'[q] = got[q] /\ computed'[q] = computed[q] /\ event'[q] = event[q]
              /\ response'[q] = response[q] /\ refs'[q] = refs[q]
<1>1. CASE AsyncLookup(r)
  BY <1>1 DEF AsyncLookup, LoadTypes, Stages
<1>2. ASSUME NEW h \in 0 .. NumChunks, Contains(r, h) PROVE Goal
  <2>1. UNCHANGED <<stage, serializer, computed, event, response, refs>>
    BY <1>2 DEF Contains
  <2>2. CASE h = 0
    BY <1>2, <2>1, <2>2 DEF Contains, LoadTypes
  <2>3. CASE h # 0
    <3>1. /\ expected' = [expected EXCEPT ![r] = Append(@, h)]
          /\ source' = [source EXCEPT ![r] = Append(@, tier[r])]
          /\ got' = [got EXCEPT ![r] = Append(@, Pending)]
          /\ tier[r] <= NumTiers
      BY <1>2, <2>3 DEF Contains
    <3>2. h \in Chunks /\ tier[r] \in Tiers
      BY <2>3, <3>1 DEF Chunks, Tiers, TasksInv
    <3>3. expected' \in [Requests -> Seq(Chunks)] /\ source' \in [Requests -> Seq(Tiers)]
      BY <3>1, <3>2 DEF LoadTypes
    <3>4. got' \in [Requests -> Seq({Pending, Failed} \cup 0 .. NumChunks)]
      BY <3>1, SMTT(20) DEF LoadTypes
    <3>. QED BY <2>1, <3>1, <3>3, <3>4 DEF LoadTypes
  <2>. QED BY <2>2, <2>3
<1>3. CASE LookupEnds(r)
  <2>1. UNCHANGED <<expected, source, got, serializer, computed, refs>>
    BY <1>3 DEF LookupEnds
  <2>2. \/ /\ stage' = [stage EXCEPT ![r] = "answered"]
           /\ response' = [response EXCEPT ![r] = 0] /\ UNCHANGED event
        \/ /\ stage' = [stage EXCEPT ![r] = "loading"]
           /\ event' = [event EXCEPT ![r] = "ongoing"] /\ UNCHANGED response
    BY <1>3 DEF LookupEnds
  <2>3. stage' \in [Requests -> Stages] /\ \A q \in Requests \ {r} : stage'[q] = stage[q]
    BY <2>2 DEF LoadTypes, Stages
  <2>4. /\ response' \in [Requests -> Int] /\ event' \in [Requests -> {"not_found", "ongoing", "done"}]
        /\ \A q \in Requests \ {r} : response'[q] = response[q] /\ event'[q] = event[q]
    <3>1. response' = response \/ response' = [response EXCEPT ![r] = 0]
      BY <2>2
    <3>2. event' = event \/ event' = [event EXCEPT ![r] = "ongoing"]
      BY <2>2
    <3>3. response' \in [Requests -> Int] /\ \A q \in Requests \ {r} : response'[q] = response[q]
      BY <3>1 DEF LoadTypes
    <3>4. event \in [Requests -> {"not_found", "ongoing", "done"}]
      BY DEF LoadTypes
    <3>5. /\ event' \in [Requests -> {"not_found", "ongoing", "done"}]
          /\ \A q \in Requests \ {r} : event'[q] = event[q]
      BY <3>2, <3>4
    <3>. QED BY <3>3, <3>5
  <2>. QED BY <2>1, <2>3, <2>4 DEF LoadTypes
<1>4. CASE AllDone(r)
  <2>1. UNCHANGED <<expected, source, got, serializer, computed, refs>>
    BY <1>4 DEF AllDone
  <2>2. event' = [event EXCEPT ![r] = "done"]
    BY <1>4 DEF AllDone
  <2>3. PICK s \in DOMAIN got[r] :
               IF Raised(r) \/ \E i \in s + 1 .. Len(got[r]) : got[r][i] > 0
               THEN stage' = [stage EXCEPT ![r] = "silent"] /\ UNCHANGED response
               ELSE /\ stage' = [stage EXCEPT ![r] = "answered"]
                    /\ response' = [response EXCEPT ![r] = SumTo(got[r], s)]
    BY <1>4 DEF AllDone
  <2>4. CASE stage' = [stage EXCEPT ![r] = "silent"] /\ UNCHANGED response
    BY <2>1, <2>2, <2>4 DEF LoadTypes, Stages
  <2>5. CASE /\ stage' = [stage EXCEPT ![r] = "answered"] /\ ~Raised(r)
             /\ response' = [response EXCEPT ![r] = SumTo(got[r], s)]
    <3>1. Over(r)
      BY <1>4, <2>5, GatheredIsOver DEF AllDone
    <3>2. s \in Nat /\ \A i \in 1 .. s : got[r][i] \in Nat
      <4>1. got[r] \in Seq({Pending, Failed} \cup 0 .. NumChunks)
        BY DEF LoadTypes
      <4>2. s \in 1 .. Len(got[r]) /\ Len(got[r]) \in Nat
        BY <4>1
      <4>3. \A i \in 1 .. s : i \in DOMAIN got[r] /\ got[r][i] \in {Pending, Failed} \cup 0 .. NumChunks
        BY <4>1, <4>2
      <4>. QED BY <3>1, <4>2, <4>3 DEF Over, Pending, Failed
    <3>3. SumTo(got[r], s) \in Int
      BY <3>2, SumGrows
    <3>. QED BY <2>1, <2>2, <2>5, <3>3 DEF LoadTypes, Stages
  <2>. QED BY <2>3, <2>4, <2>5
<1>5. ASSUME NEW i \in DOMAIN got[r], BeginLoad(r, i) PROVE Goal
  BY <1>5 DEF BeginLoad, LoadTypes
<1>6. ASSUME NEW i \in DOMAIN got[r], LoadRaises(r, i) PROVE Goal
  <2>1. /\ got' = [got EXCEPT ![r][i] = Failed]
        /\ UNCHANGED <<stage, expected, source, serializer, computed, event, response, refs>>
    BY <1>6 DEF LoadRaises
  <2>2. /\ got' \in [Requests -> Seq({Pending, Failed} \cup 0 .. NumChunks)]
        /\ \A q \in Requests \ {r} : got'[q] = got[q]
    BY <2>1, ResultType
  <2>. QED BY <2>1, <2>2 DEF LoadTypes
<1>7. ASSUME NEW i \in DOMAIN got[r], NEW g \in 0 .. NumChunks, EndLoad(r, i, g) PROVE Goal
  <2>1. /\ got' = [got EXCEPT ![r][i] = g]
        /\ UNCHANGED <<stage, expected, source, serializer, computed, event, response>>
    BY <1>7, Zenon DEF EndLoad
  <2>2. /\ got' \in [Requests -> Seq({Pending, Failed} \cup 0 .. NumChunks)]
        /\ \A q \in Requests \ {r} : got'[q] = got[q]
    BY <2>1, ResultType
  <2>3. /\ refs' \in [Requests -> [Chunks -> Int]]
        /\ \A q \in Requests \ {r} : refs'[q] = refs[q]
    BY <1>7, EndLoadRefs
  <2>. QED BY <2>1, <2>2, <2>3 DEF LoadTypes
<1>8. ASSUME NEW n \in 0 .. MaxComputed, Retrieve(r, n) PROVE Goal
  <2>1. /\ stage' = [stage EXCEPT ![r] = "retrieved"] /\ computed' = [computed EXCEPT ![r] = n]
        /\ UNCHANGED <<expected, source, got, serializer, event, response>>
        /\ LetGo(r, LoadedChunks(r) \ Used(r, n))
    BY <1>8 DEF Retrieve
  <2>. QED BY <2>1, LetGoType, ZenonT(40) DEF LoadTypes, Stages
<1>9. CASE LookupUnpin(r)
  <2>1. /\ stage' = [stage EXCEPT ![r] = "closed"]
        /\ UNCHANGED <<expected, source, got, serializer, computed, response>>
        /\ UNCHANGED event \/ event' = [event EXCEPT ![r] = "not_found"]
        /\ UNCHANGED refs \/ LetGo(r, LoadedChunks(r))
    BY <1>9 DEF LookupUnpin
  <2>2. /\ refs' \in [Requests -> [Chunks -> Int]]
        /\ \A q \in Requests \ {r} : refs'[q] = refs[q]
    BY <2>1, LetGoType DEF LoadTypes
  <2>. QED BY <2>1, <2>2 DEF LoadTypes, Stages
<1>. QED BY <1>1, <1>2, <1>3, <1>4, <1>5, <1>6, <1>7, <1>8, <1>9
     DEF RequestStep, LookupStep, LoadEnds

\* A task ends where it has the serializer, and then has it no more.
LEMMA RunningStep ==
  ASSUME LoadTypes, TasksInv, RunningInv, NEW r \in Requests, RequestStep(r)
  PROVE  RunningInv'
<1>0. /\ asked \in [Loads -> Nat] /\ held \in [Loads -> Nat] /\ Loads = Requests \X Tiers
      /\ \A q \in Requests, i \in Tiers : <<q, i>> \in Loads
  BY DEF RunningInv, LoadTasks
<1>1. \A q \in Requests : DOMAIN got[q] = 1 .. Len(got[q]) /\ Len(got[q]) \in Nat
  BY DEF LoadTypes
<1>2. \A i \in DOMAIN got[r] : i \in Tiers
  BY <1>1 DEF TasksInv, Tiers
<1>7. serializer' = serializer
  BY DEF RequestStep, AsyncLookup, LookupStep, Contains, LookupEnds, AllDone, BeginLoad,
         LoadEnds, LoadRaises, EndLoad, Retrieve, LookupUnpin
<1>3. ASSUME UNCHANGED <<got, serving, vars>> PROVE RunningInv'
  BY <1>3, <1>7 DEF vars, RunningInv, Running
<1>4. ASSUME NEW h \in 0 .. NumChunks, Contains(r, h) PROVE RunningInv'
  <2>. DEFINE n == Len(got[r]) + 1
  <2>1. CASE h = 0
    BY <1>3, <1>4, <2>1 DEF Contains
  <2>2. CASE h # 0
    <3>1. /\ got' = [got EXCEPT ![r] = Append(@, Pending)] /\ serving' = serving
          /\ (Run(<<r, n>>, h) /\ serializer # "single") \/ UNCHANGED vars
      BY <1>4, <2>2 DEF Contains
    <3>2. n \in Tiers
      BY <1>1, <1>4 DEF Contains, Tiers, TasksInv
    <3>3. /\ \A q \in Requests : DOMAIN got[q] \subseteq DOMAIN got'[q]
          /\ \A q \in Requests : \A i \in DOMAIN got[q] : got'[q][i] = got[q][i]
          /\ n \in DOMAIN got'[r] /\ got'[r][n] = Pending
      BY <1>1, <3>1 DEF LoadTypes
    <3>4. /\ held' = held /\ asked' \in [Loads -> Nat]
          /\ \A l \in Loads : asked'[l] = asked[l] \/ (l = <<r, n>> /\ held[l] = 0)
      <4>1. CASE UNCHANGED vars
        BY <1>0, <4>1 DEF vars
      <4>2. CASE Run(<<r, n>>, h)
        <5>1. /\ asked' = [asked EXCEPT ![<<r, n>>] = h] /\ held' = held
              /\ held[<<r, n>>] = 0 /\ h \in Nat
          BY <4>2 DEF Run, Idle
        <5>. HIDE DEF n
        <5>. QED BY <1>0, <5>1
      <4>. QED BY <3>1, <4>1, <4>2
    <3>5. ASSUME NEW q \in Requests, NEW i \in Tiers, Running(q, i)'
          PROVE  i \in DOMAIN got'[q] /\ got'[q][i] = Pending
      <4>1. CASE Running(q, i)
        BY <3>3, <4>1 DEF RunningInv
      <4>2. CASE ~Running(q, i)
        <5>1. <<q, i>> = <<r, n>>
          BY <1>0, <3>1, <3>4, <3>5, <4>2 DEF Running
        <5>2. q = r /\ i = n
          BY <5>1
        <5>. QED BY <3>3, <5>2
      <4>. QED BY <4>1, <4>2
    <3>6. IF serializer = "single" THEN \A l \in Loads : asked'[l] = 0 /\ held'[l] = 0
                                   ELSE serving' = Nobody
      BY <3>1, <3>4 DEF RunningInv, vars
    <3>. HIDE DEF n
    <3>. QED BY <1>0, <1>7, <3>1, <3>4, <3>5, <3>6 DEF RunningInv
  <2>. QED BY <2>1, <2>2
<1>5. ASSUME NEW i \in DOMAIN got[r], BeginLoad(r, i) PROVE RunningInv'
  <2>1. got[r][i] = Pending /\ got' = got /\ <<r, i>> \in Loads /\ i \in Tiers
    BY <1>0, <1>2, <1>5 DEF BeginLoad
  <2>2. CASE serializer = "single" /\ serving' = <<r, i>> /\ UNCHANGED vars
    <3>1. ASSUME NEW q \in Requests, NEW j \in Tiers, Running(q, j)'
          PROVE  j \in DOMAIN got[q] /\ got[q][j] = Pending
      <4>1. Running(q, j) \/ <<q, j>> = <<r, i>>
        BY <2>2, <3>1 DEF Running, vars
      <4>. QED BY <2>1, <4>1 DEF RunningInv
    <3>. QED BY <1>0, <1>7, <2>1, <2>2, <3>1 DEF RunningInv, vars
  <2>3. CASE /\ serializer # "single" /\ (Acquire(<<r, i>>) \/ AcquireOversized(<<r, i>>))
             /\ UNCHANGED serving
    <3>1. /\ held' = [held EXCEPT ![<<r, i>>] = asked[<<r, i>>]]
          /\ asked' = [asked EXCEPT ![<<r, i>>] = 0]
      BY <2>3 DEF Acquire, AcquireOversized, Take
    <3>2. /\ held' \in [Loads -> Nat] /\ asked' \in [Loads -> Nat]
          /\ \A l \in Loads : asked'[l] = 0 \/ held'[l] = 0
      BY <1>0, <2>1, <3>1 DEF RunningInv
    <3>3. ASSUME NEW q \in Requests, NEW j \in Tiers, Running(q, j)'
          PROVE  j \in DOMAIN got[q] /\ got[q][j] = Pending
      <4>1. Running(q, j) \/ <<q, j>> = <<r, i>>
        BY <1>0, <2>1, <2>3, <3>1, <3>3 DEF Running
      <4>. QED BY <2>1, <4>1 DEF RunningInv
    <3>. QED BY <1>7, <2>1, <2>3, <3>2, <3>3 DEF RunningInv
  <2>. QED BY <1>5, <2>2, <2>3 DEF BeginLoad
<1>6. ASSUME NEW i \in DOMAIN got[r], NEW g \in {Failed} \cup 0 .. NumChunks,
             LeaveSerializer(r, i), got' = [got EXCEPT ![r][i] = g]
      PROVE  RunningInv'
  <2>1. <<r, i>> \in Loads /\ i \in Tiers
    BY <1>0, <1>2
  <2>2. /\ \A q \in Requests : DOMAIN got'[q] = DOMAIN got[q]
        /\ \A q \in Requests : \A j \in DOMAIN got[q] :
             <<q, j>> = <<r, i>> \/ got'[q][j] = got[q][j]
    BY <1>6, ResultType
  <2>3. ASSUME NEW q \in Requests, NEW j \in Tiers, Running(q, j), <<q, j>> # <<r, i>>
        PROVE  j \in DOMAIN got'[q] /\ got'[q][j] = Pending
    BY <2>2, <2>3 DEF RunningInv
  <2>4. CASE serializer = "single" /\ serving = <<r, i>> /\ serving' = Nobody /\ UNCHANGED vars
    <3>1. ASSUME NEW q \in Requests, NEW j \in Tiers PROVE ~Running(q, j)'
      <4>1. <<q, j>> \in Loads /\ asked' = asked /\ held' = held
        BY <1>0, <2>4 DEF vars
      <4>2. asked[<<q, j>>] = 0 /\ held[<<q, j>>] = 0
        BY <2>4, <4>1 DEF RunningInv
      <4>. QED BY <2>4, <4>1, <4>2 DEF Running, Nobody
    <3>. QED BY <1>7, <2>4, <3>1 DEF RunningInv, vars
  <2>5. CASE serializer # "single" /\ Release(<<r, i>>) /\ UNCHANGED serving
    <3>1. /\ held' = [held EXCEPT ![<<r, i>>] = 0] /\ asked' = asked
          /\ held[<<r, i>>] > 0 /\ serving = Nobody /\ serving' = Nobody
      BY <2>5 DEF Release, RunningInv
    <3>2. asked[<<r, i>>] = 0
      BY <1>0, <2>1, <3>1 DEF RunningInv
    <3>3. /\ held' \in [Loads -> Nat] /\ \A l \in Loads : asked'[l] = 0 \/ held'[l] = 0
      BY <1>0, <2>1, <3>1 DEF RunningInv
    <3>4. ASSUME NEW q \in Requests, NEW j \in Tiers, Running(q, j)'
          PROVE  j \in DOMAIN got'[q] /\ got'[q][j] = Pending
      <4>1. Running(q, j) /\ <<q, j>> # <<r, i>>
        <5>1. asked[<<q, j>>] > 0 \/ held'[<<q, j>>] > 0
          BY <3>1, <3>4 DEF Running, Nobody
        <5>2. <<q, j>> # <<r, i>>
          BY <1>0, <2>1, <3>1, <3>2, <5>1
        <5>3. held'[<<q, j>>] = held[<<q, j>>]
          BY <1>0, <2>1, <3>1, <5>2
        <5>. QED BY <5>1, <5>2, <5>3 DEF Running
      <4>. QED BY <2>3, <4>1
    <3>. QED BY <1>0, <1>7, <2>5, <3>1, <3>3, <3>4 DEF RunningInv
  <2>. QED BY <1>6, <2>4, <2>5 DEF LeaveSerializer
<1>8. ASSUME NEW i \in DOMAIN got[r], LoadEnds(r, i) PROVE RunningInv'
  <2>1. CASE LoadRaises(r, i)
    BY <1>6, <2>1 DEF LoadRaises
  <2>2. ASSUME NEW g \in 0 .. NumChunks, EndLoad(r, i, g) PROVE RunningInv'
    <3>1. LeaveSerializer(r, i) /\ got' = [got EXCEPT ![r][i] = g]
      BY <2>2, Zenon DEF EndLoad
    <3>. QED BY <1>6, <3>1
  <2>. QED BY <1>8, <2>1, <2>2 DEF LoadEnds
<1>9. CASE \/ AsyncLookup(r) \/ LookupEnds(r) \/ AllDone(r) \/ LookupUnpin(r)
           \/ \E n \in 0 .. MaxComputed : Retrieve(r, n)
  BY <1>3, <1>9 DEF AsyncLookup, LookupEnds, AllDone, LookupUnpin, Retrieve
<1>. QED BY <1>4, <1>5, <1>8, <1>9 DEF RequestStep, LookupStep
-----------------------------------------------------------------------------
(* What a request has loaded.  The tasks of a request divide the chunks it *)
(* was promised among them, so that a chunk is loaded by one task at most; *)
(* that every promised chunk has a task is carried along from task to      *)
(* task, since each is added to what the earlier ones cover.               *)

Promised(r) == SumTo(expected[r], Len(expected[r]))

Aligned(r) ==
  /\ Len(expected[r]) = Len(got[r]) /\ Len(source[r]) = Len(got[r])
  /\ \A i \in DOMAIN got[r] : got[r][i] <= expected[r][i]
  /\ Promised(r) <= NumChunks
  /\ \A c \in 1 .. Promised(r) :
       \E i \in DOMAIN got[r] :
         SumTo(expected[r], i - 1) < c /\ c <= SumTo(expected[r], i)

Ended(r) ==
  /\ stage[r] \in {"answered", "retrieved"} => Over(r)
  /\ stage[r] \in {"silent", "closed"} => Over(r) \/ Raised(r)
  /\ stage[r] \in {"answered", "silent", "retrieved"} => event[r] = "done" \/ got[r] = <<>>

\* The references of a request, stage by stage.
RefsExact(r) ==
  \A c \in Chunks :
    /\ stage[r] \notin {"retrieved", "closed"} \/ Raised(r)
         => refs[r][c] = IF c \in LoadedChunks(r) THEN 1 ELSE 0
    /\ stage[r] = "retrieved" => refs[r][c] = IF c \in Used(r, computed[r]) THEN 1 ELSE 0
    /\ stage[r] = "closed" /\ ~Raised(r)
         => refs[r][c] = IF c \in LoadedChunks(r) \ Used(r, computed[r]) THEN refs[r][c] ELSE 0
    /\ stage[r] = "closed" /\ ~Raised(r) => refs[r][c] \in {-1, 0}

AnswerLoaded(r) == response[r] > 0 => 1 .. response[r] \subseteq LoadedChunks(r)
Answered(r) == response[r] \in {Pending} \cup 0 .. NumChunks

\* The bounds of the tasks of a request.
LEMMA TaskBounds ==
  ASSUME LoadTypes, NEW r \in Requests
  PROVE  /\ Len(expected[r]) \in Nat /\ Len(got[r]) \in Nat /\ DOMAIN got[r] = 1 .. Len(got[r])
         /\ \A i \in 1 .. Len(expected[r]) : expected[r][i] \in Nat /\ expected[r][i] \in Chunks
         /\ \A n \in 0 .. Len(expected[r]) : SumTo(expected[r], n) \in Nat
         /\ \A n \in 0 .. Len(expected[r]), m \in 0 .. Len(expected[r]) :
              m <= n => SumTo(expected[r], m) <= SumTo(expected[r], n)
         /\ \A i \in 1 .. Len(expected[r]) :
              SumTo(expected[r], i) = SumTo(expected[r], i - 1) + expected[r][i]
<1>1. expected[r] \in Seq(Chunks) /\ got[r] \in Seq({Pending, Failed} \cup 0 .. NumChunks)
  BY DEF LoadTypes
<1>2. /\ Len(expected[r]) \in Nat /\ Len(got[r]) \in Nat /\ DOMAIN got[r] = 1 .. Len(got[r])
      /\ \A i \in 1 .. Len(expected[r]) : expected[r][i] \in Nat /\ expected[r][i] \in Chunks
  BY <1>1 DEF Chunks
<1>3. ASSUME NEW n \in 0 .. Len(expected[r]), NEW m \in 0 .. n
      PROVE  /\ SumTo(expected[r], m) \in Nat /\ SumTo(expected[r], n) \in Nat
             /\ SumTo(expected[r], m) <= SumTo(expected[r], n)
  <2>1. n \in Nat /\ \A i \in 1 .. n : expected[r][i] \in Nat
    BY <1>2
  <2>. QED BY <2>1, SumGrows
<1>4. ASSUME NEW i \in 1 .. Len(expected[r])
      PROVE  SumTo(expected[r], i) = SumTo(expected[r], i - 1) + expected[r][i]
  <2>. DEFINE n == i - 1
  <2>1. n \in Nat /\ i = n + 1 /\ \A j \in 1 .. n + 1 : expected[r][j] \in Nat
    BY <1>2
  <2>. HIDE DEF n
  <2>2. SumTo(expected[r], n + 1) = SumTo(expected[r], n) + expected[r][n + 1]
    BY <2>1, SumNext
  <2>. QED BY <2>1, <2>2 DEF n
<1>. QED BY <1>2, <1>3, <1>4

\* Where the chunks of a task begin and end.
LEMMA TaskAt ==
  ASSUME LoadTypes, NEW r \in Requests, NEW i \in 1 .. Len(expected[r])
  PROVE  /\ SumTo(expected[r], i - 1) \in Nat /\ expected[r][i] \in Nat
         /\ SumTo(expected[r], i) \in Nat
         /\ SumTo(expected[r], i) = SumTo(expected[r], i - 1) + expected[r][i]
         /\ SumTo(expected[r], i) <= Promised(r)
         /\ \A j \in 1 .. Len(expected[r]) :
              j < i => SumTo(expected[r], j) <= SumTo(expected[r], i - 1)
<1>. DEFINE n == i - 1
<1>1. /\ n \in 0 .. Len(expected[r]) /\ i \in 0 .. Len(expected[r])
      /\ Len(expected[r]) \in 0 .. Len(expected[r]) /\ i <= Len(expected[r])
      /\ \A j \in 1 .. Len(expected[r]) : j < i => j \in 0 .. Len(expected[r]) /\ j <= n
  BY TaskBounds
<1>2. SumTo(expected[r], i) = SumTo(expected[r], n) + expected[r][i]
  BY TaskBounds
<1>. HIDE DEF n
<1>3. SumTo(expected[r], n) \in Nat /\ SumTo(expected[r], i) \in Nat /\ expected[r][i] \in Nat
  BY <1>1, TaskBounds
<1>4. SumTo(expected[r], i) <= Promised(r)
  BY <1>1, TaskBounds DEF Promised
<1>5. ASSUME NEW j \in 1 .. Len(expected[r]), j < i
      PROVE  SumTo(expected[r], j) <= SumTo(expected[r], n)
  BY <1>1, <1>5, TaskBounds
<1>. QED BY <1>2, <1>3, <1>4, <1>5 DEF n

\* A task that has not ended, or has raised, has loaded nothing.
LEMMA NothingLoaded ==
  ASSUME LoadTypes, NEW r \in Requests, NEW i \in 1 .. Len(expected[r]),
         got[r][i] \in {Pending, Failed}
  PROVE  Loaded(r, i) = {}
<1>1. SumTo(expected[r], i - 1) \in Nat
  BY TaskBounds
<1>. QED BY <1>1 DEF Loaded, Pending, Failed, Chunks

\* Two spans that follow one another have no number in common.
LEMMA SpansApart ==
  ASSUME NEW a \in Nat, NEW b \in Nat, NEW x \in Nat, NEW y \in Nat, NEW g \in Int,
         NEW z \in Int, NEW c \in Nat, g <= x, z <= y, a + x <= b \/ b + y <= a,
         a < c, c <= a + g, b < c, c <= b + z
  PROVE  FALSE
OBVIOUS

\* The chunks a task returns are nobody else's.
LEMMA ReturnedAlone ==
  ASSUME LoadTypes, NEW r \in Requests, Aligned(r), NEW i \in DOMAIN got[r],
         got[r][i] = Pending, NEW g \in 0 .. NumChunks, g <= expected[r][i]
  PROVE  Returned(r, i, g) \cap LoadedChunks(r) = {}
<1>. SUFFICES ASSUME NEW c \in Returned(r, i, g), NEW j \in DOMAIN got[r], c \in Loaded(r, j)
              PROVE  FALSE
  BY DEF LoadedChunks
<1>. DEFINE S(n) == SumTo(expected[r], n)
<1>0. /\ i \in 1 .. Len(expected[r]) /\ j \in 1 .. Len(expected[r]) /\ Len(expected[r]) \in Nat
      /\ got[r][j] <= expected[r][j]
  BY TaskBounds DEF Aligned
<1>1. /\ S(i - 1) \in Nat /\ S(j - 1) \in Nat /\ S(i) = S(i - 1) + expected[r][i]
      /\ S(j) = S(j - 1) + expected[r][j]
      /\ expected[r][i] \in Nat /\ expected[r][j] \in Nat
      /\ j < i => S(j) <= S(i - 1)
      /\ i < j => S(i) <= S(j - 1)
  BY <1>0, TaskAt
<1>2. got[r][j] \in Int /\ c \in Nat
  <2>1. got[r][j] \in {Pending, Failed} \cup 0 .. NumChunks
    BY DEF LoadTypes
  <2>. QED BY <2>1 DEF Pending, Failed, Returned, Chunks
<1>3. /\ S(i - 1) < c /\ c <= S(i - 1) + g /\ S(j - 1) < c /\ c <= S(j - 1) + got[r][j]
  BY DEF Returned, Loaded
<1>4. CASE j = i
  <2>1. S(j - 1) < c /\ c <= S(j - 1) - 1 /\ S(j - 1) \in Nat
    <3>. HIDE DEF S
    <3>. QED BY <1>1, <1>2, <1>3, <1>4 DEF Pending
  <2>. HIDE DEF S
  <2>. QED BY <1>2, <2>1
<1>5. CASE j < i
  <2>1. S(j - 1) + expected[r][j] <= S(i - 1)
    BY <1>1, <1>5
  <2>2. g \in Int /\ S(i - 1) \in Nat /\ S(j - 1) \in Nat
    BY <1>1
  <2>3. expected[r][i] \in Nat /\ expected[r][j] \in Nat
    BY <1>1
  <2>. HIDE DEF S
  <2>. QED BY <1>0, <1>2, <1>3, <2>1, <2>2, <2>3, SpansApart
<1>6. CASE i < j
  <2>1. S(i - 1) + expected[r][i] <= S(j - 1)
    BY <1>1, <1>6
  <2>2. g \in Int /\ S(i - 1) \in Nat /\ S(j - 1) \in Nat
    BY <1>1
  <2>3. expected[r][i] \in Nat /\ expected[r][j] \in Nat
    BY <1>1
  <2>. HIDE DEF S
  <2>. QED BY <1>0, <1>2, <1>3, <2>1, <2>2, <2>3, SpansApart
<1>. QED BY <1>0, <1>4, <1>5, <1>6

\* What a request has loaded after one of its tasks has ended.
LEMMA LoadedAfter ==
  ASSUME LoadTypes, NEW r \in Requests, Aligned(r), NEW i \in DOMAIN got[r],
         got[r][i] = Pending, NEW g \in {Failed} \cup 0 .. NumChunks,
         got' = [got EXCEPT ![r][i] = g], expected' = expected
  PROVE  /\ LoadedChunks(r)' = LoadedChunks(r) \cup Returned(r, i, g)
         /\ g = Failed => Returned(r, i, g) = {}
<1>1. /\ DOMAIN got'[r] = DOMAIN got[r]
      /\ got'[r][i] = g /\ \A j \in DOMAIN got[r] \ {i} : got'[r][j] = got[r][j]
  BY ResultType
<1>2. \A j \in DOMAIN got[r] \ {i} : Loaded(r, j)' = Loaded(r, j)
  BY <1>1 DEF Loaded
<1>3. Loaded(r, i)' = Returned(r, i, g)
  BY <1>1 DEF Loaded, Returned
<1>4. i \in 1 .. Len(expected[r])
  BY TaskBounds DEF Aligned
<1>5. Loaded(r, i) = {}
  BY <1>4, NothingLoaded
<1>6. g = Failed => Returned(r, i, g) = {}
  <2>1. SumTo(expected[r], i - 1) \in Nat
    BY <1>4, TaskAt
  <2>. SUFFICES ASSUME g = Failed, NEW c \in Returned(r, i, g) PROVE FALSE
    OBVIOUS
  <2>2. /\ c \in Nat /\ SumTo(expected[r], i - 1) < c
        /\ c <= SumTo(expected[r], i - 1) - 2
    BY <2>1 DEF Returned, Failed, Chunks
  <2>. QED BY <2>1, <2>2
<1>. QED BY <1>1, <1>2, <1>3, <1>5, <1>6 DEF LoadedChunks

\* One more task leaves the chunks of the earlier ones where they are.
LEMMA AppendSums ==
  ASSUME NEW e \in Seq(Nat), NEW h \in Nat
  PROVE  /\ \A m \in 0 .. Len(e) : SumTo(Append(e, h), m) = SumTo(e, m)
         /\ SumTo(Append(e, h), Len(e) + 1) = SumTo(e, Len(e)) + h
<1>. DEFINE f == Append(e, h)
<1>1. /\ Len(e) \in Nat /\ \A i \in 1 .. Len(e) : f[i] = e[i] /\ e[i] \in Nat
      /\ f[Len(e) + 1] = h
  OBVIOUS
<1>. HIDE DEF f
<1>2. ASSUME NEW m \in 0 .. Len(e) PROVE SumTo(f, m) = SumTo(e, m)
  <2>1. m \in Nat /\ \A i \in 1 .. m : f[i] = e[i]
    BY <1>1
  <2>. QED BY <2>1, SumSame
<1>3. SumTo(f, Len(e) + 1) = SumTo(f, Len(e)) + f[Len(e) + 1]
  <2>1. \A i \in 1 .. Len(e) + 1 : f[i] \in Nat
    BY <1>1
  <2>. QED BY <1>1, <2>1, SumNext
<1>. QED BY <1>1, <1>2, <1>3 DEF f

\* A request whose tasks a step leaves alone has loaded what it had.
LEMMA SameLoaded ==
  ASSUME NEW q, expected'[q] = expected[q], got'[q] = got[q]
  PROVE  /\ LoadedChunks(q)' = LoadedChunks(q) /\ (Raised(q)' <=> Raised(q))
         /\ (Over(q)' <=> Over(q)) /\ (source'[q] = source[q] /\ Aligned(q) => Aligned(q)')
         /\ \A n : Used(q, n)' = Used(q, n)
<1>1. LoadedChunks(q)' = LoadedChunks(q)
  BY DEF LoadedChunks, Loaded
<1>2. (Raised(q)' <=> Raised(q)) /\ (Over(q)' <=> Over(q))
  BY DEF Raised, Over
<1>3. Promised(q)' = Promised(q)
  BY DEF Promised
<1>4. source'[q] = source[q] /\ Aligned(q) => Aligned(q)'
  BY <1>3 DEF Aligned
<1>5. \A n : Used(q, n)' = Used(q, n)
  BY <1>1 DEF Used
<1>. QED BY <1>1, <1>2, <1>4, <1>5

\* A request whose use of its chunks is the same uses the same chunks.
LEMMA SameUsed ==
  ASSUME NEW q, expected'[q] = expected[q], got'[q] = got[q], computed'[q] = computed[q]
  PROVE  Used(q, computed[q])' = Used(q, computed[q])
BY SameLoaded DEF Used

RequestInv(r) == Aligned(r) /\ Ended(r) /\ RefsExact(r) /\ AnswerLoaded(r) /\ Answered(r)

\* A step of another request.
LEMMA OtherRequest ==
  ASSUME NEW q, RequestInv(q),
         stage'[q] = stage[q], expected'[q] = expected[q], source'[q] = source[q],
         got'[q] = got[q], computed'[q] = computed[q], event'[q] = event[q],
         response'[q] = response[q], refs'[q] = refs[q]
  PROVE  RequestInv(q)'
<1>1. Aligned(q)'
  BY SameLoaded DEF RequestInv
<1>2. Ended(q)'
  BY SameLoaded DEF RequestInv, Ended
<1>3. RefsExact(q)'
  BY SameLoaded, SameUsed DEF RequestInv, RefsExact
<1>4. AnswerLoaded(q)' /\ Answered(q)'
  BY SameLoaded DEF RequestInv, AnswerLoaded, Answered
<1>. QED BY <1>1, <1>2, <1>3, <1>4 DEF RequestInv

\* A tier that answers with hits adds a task; one that has none does nothing.
LEMMA ContainsKeeps ==
  ASSUME LoadTypes, TasksInv, NEW r \in Requests, RequestInv(r),
         NEW h \in 0 .. NumChunks, Contains(r, h)
  PROVE  RequestInv(r)'
<1>0. /\ stage[r] = "lookup" /\ h <= Remaining(r)
      /\ stage' = stage /\ event' = event /\ response' = response /\ refs' = refs
      /\ computed' = computed
  BY DEF Contains
<1>1. CASE h = 0
  <2>1. expected' = expected /\ source' = source /\ got' = got
    BY <1>1 DEF Contains
  <2>. QED BY <1>0, <2>1, OtherRequest
<1>2. CASE h # 0
  <2>. DEFINE e == expected[r]
              n == Len(expected[r])
              f == expected'[r]
  <2>1. /\ expected' = [expected EXCEPT ![r] = Append(@, h)]
        /\ source' = [source EXCEPT ![r] = Append(@, tier[r])]
        /\ got' = [got EXCEPT ![r] = Append(@, Pending)]
    BY <1>2 DEF Contains
  <2>2. f = Append(e, h) /\ e \in Seq(Nat) /\ h \in Nat /\ n \in Nat /\ Len(f) = n + 1
    BY <2>1 DEF LoadTypes, Chunks
  <2>3. /\ \A m \in 0 .. n : SumTo(f, m) = SumTo(e, m)
        /\ SumTo(f, n + 1) = SumTo(e, n) + h
    BY <2>2, AppendSums
  <2>4. /\ Len(got[r]) = n /\ Len(source[r]) = n
        /\ Len(got'[r]) = n + 1 /\ Len(source'[r]) = n + 1
        /\ DOMAIN got[r] = 1 .. n /\ DOMAIN got'[r] = 1 .. n + 1
        /\ \A i \in 1 .. n : got'[r][i] = got[r][i] /\ f[i] = e[i]
        /\ got'[r][n + 1] = Pending /\ f[n + 1] = h
    BY <2>1, <2>2 DEF RequestInv, Aligned, LoadTypes
  <2>. HIDE DEF e, f, n
  <2>5. Promised(r) = SumTo(e, n) /\ Promised(r) \in Nat /\ Promised(r)' = Promised(r) + h
    <3>1. Promised(r) = SumTo(e, n) /\ Promised(r)' = SumTo(f, Len(f))
      BY DEF Promised, e, n, f
    <3>2. SumTo(e, n) \in Nat
      BY <2>2, TaskBounds DEF e, n
    <3>. QED BY <2>2, <2>3, <3>1, <3>2
  <2>6. Promised(r)' <= NumChunks
    BY <1>0, <2>2, <2>5 DEF Remaining, Promised, e, n
  <2>7. Aligned(r)'
    <3>1. Len(expected'[r]) = Len(got'[r]) /\ Len(source'[r]) = Len(got'[r])
      BY <2>2, <2>4 DEF f
    <3>2. \A i \in DOMAIN got'[r] : got'[r][i] <= expected'[r][i]
      <4>1. \A i \in 1 .. n : got'[r][i] <= f[i]
        BY <2>4 DEF RequestInv, Aligned, e
      <4>2. got'[r][n + 1] <= f[n + 1]
        BY <2>2, <2>4 DEF Pending
      <4>. QED BY <2>2, <2>4, <4>1, <4>2 DEF f
    <3>3. ASSUME NEW c \in 1 .. Promised(r)'
          PROVE  \E i \in DOMAIN got'[r] : SumTo(f, i - 1) < c /\ c <= SumTo(f, i)
      <4>1. CASE c <= Promised(r)
        <5>1. PICK i \in 1 .. n : SumTo(e, i - 1) < c /\ c <= SumTo(e, i)
          BY <2>4, <2>5, <4>1 DEF RequestInv, Aligned, e
        <5>2. i - 1 \in 0 .. n /\ i \in 0 .. n /\ i \in DOMAIN got'[r]
          BY <2>2, <2>4
        <5>. QED BY <2>3, <5>1, <5>2
      <4>2. CASE c > Promised(r)
        <5>1. SumTo(f, n) = SumTo(e, n) /\ (n + 1) - 1 = n /\ n + 1 \in DOMAIN got'[r]
          BY <2>2, <2>3, <2>4
        <5>2. SumTo(f, n) < c /\ c <= SumTo(f, n + 1)
          BY <2>3, <2>5, <4>2, <5>1
        <5>. QED BY <5>1, <5>2
      <4>. QED BY <2>5, <4>1, <4>2
    <3>. QED BY <2>6, <3>1, <3>2, <3>3 DEF Aligned, f
  <2>8. LoadedChunks(r)' = LoadedChunks(r)
    <3>1. ASSUME NEW i \in 1 .. n PROVE Loaded(r, i)' = Loaded(r, i)
      <4>1. i - 1 \in 0 .. n
        BY <2>2
      <4>2. SumTo(f, i - 1) = SumTo(e, i - 1)
        BY <2>3, <4>1
      <4>. QED BY <2>4, <4>2 DEF Loaded, e, f
    <3>2. ASSUME NEW i \in Nat, i = n + 1 PROVE Loaded(r, i)' = {}
      <4>1. i - 1 = n /\ SumTo(f, n) \in Nat /\ got'[r][i] = Pending
        BY <2>2, <2>3, <2>4, <2>5, <3>2
      <4>2. Loaded(r, i)' = {c \in Chunks : SumTo(f, n) < c /\ c <= SumTo(f, n) - 1}
        BY <4>1 DEF Loaded, f, Pending
      <4>. QED BY <4>1, <4>2 DEF Chunks
    <3>3. PICK m \in Nat : m = n
      BY <2>2
    <3>4. Loaded(r, m + 1)' = {} /\ \A i \in 1 .. m : Loaded(r, i)' = Loaded(r, i)
      BY <3>1, <3>2, <3>3
    <3>5. LoadedChunks(r)' = UNION {Loaded(r, i)' : i \in 1 .. m + 1}
      BY <2>4, <3>3 DEF LoadedChunks
    <3>6. LoadedChunks(r) = UNION {Loaded(r, i) : i \in 1 .. m}
      BY <2>4, <3>3 DEF LoadedChunks
    <3>7. 1 .. m + 1 = (1 .. m) \cup {m + 1}
      OBVIOUS
    <3>. QED BY <3>4, <3>5, <3>6, <3>7
  <2>9. Ended(r)' /\ AnswerLoaded(r)' /\ Answered(r)'
    BY <1>0, <2>8 DEF RequestInv, Ended, AnswerLoaded, Answered
  <2>10. RefsExact(r)'
    BY <1>0, <2>8 DEF RequestInv, RefsExact
  <2>. QED BY <2>7, <2>9, <2>10 DEF RequestInv
<1>. QED BY <1>1, <1>2

\* A task that leaves the serializer had not ended, and neither had its request, unless
\* another of its tasks has raised.
LEMMA LeavesOnce ==
  ASSUME LoadTypes, TasksInv, RunningInv, NEW r \in Requests, RequestInv(r),
         NEW i \in DOMAIN got[r], LeaveSerializer(r, i)
  PROVE  /\ got[r][i] = Pending /\ stage[r] \notin {"answered", "retrieved"}
         /\ stage[r] \in {"silent", "closed"} => Raised(r)
<1>1. i \in Tiers
  BY TaskBounds DEF TasksInv, Tiers
<1>2. Running(r, i)
  BY DEF LeaveSerializer, Release, Running
<1>3. got[r][i] = Pending
  BY <1>1, <1>2 DEF RunningInv
<1>4. ~Over(r)
  BY <1>3 DEF Over, Pending
<1>. QED BY <1>3, <1>4 DEF RequestInv, Ended

\* A load that ends, with chunks or without, adds a reference on each chunk it returns.
LEMMA LoadEndKeeps ==
  ASSUME LoadTypes, TasksInv, RunningInv, NEW r \in Requests, RequestInv(r),
         NEW i \in DOMAIN got[r], LeaveSerializer(r, i),
         NEW g \in {Failed} \cup 0 .. NumChunks, g <= expected[r][i],
         got' = [got EXCEPT ![r][i] = g],
         UNCHANGED <<stage, expected, source, computed, event, response>>,
         \A c \in Chunks :
           refs'[r][c] = IF c \in Returned(r, i, g) THEN refs[r][c] + 1 ELSE refs[r][c]
  PROVE  RequestInv(r)'
<1>1. /\ got[r][i] = Pending /\ stage[r] \notin {"answered", "retrieved"}
      /\ stage[r] \in {"silent", "closed"} => Raised(r)
  BY LeavesOnce
<1>2. Aligned(r)
  BY DEF RequestInv
<1>3. /\ Len(got'[r]) = Len(got[r]) /\ DOMAIN got'[r] = DOMAIN got[r]
      /\ got'[r][i] = g /\ \A j \in DOMAIN got[r] \ {i} : got'[r][j] = got[r][j]
  BY ResultType
<1>4. LoadedChunks(r)' = LoadedChunks(r) \cup Returned(r, i, g)
  BY <1>1, <1>2, LoadedAfter
<1>5. Returned(r, i, g) \cap LoadedChunks(r) = {}
  <2>1. CASE g = Failed
    BY <1>1, <1>2, <2>1, LoadedAfter
  <2>2. CASE g \in 0 .. NumChunks
    BY <1>1, <1>2, <2>2, ReturnedAlone
  <2>. QED BY <2>1, <2>2
<1>6. Raised(r) => Raised(r)'
  BY <1>1, <1>3 DEF Raised, Pending, Failed
<1>7. Aligned(r)'
  <2>1. Promised(r)' = Promised(r)
    BY DEF Promised
  <2>2. \A j \in DOMAIN got'[r] : got'[r][j] <= expected'[r][j]
    BY <1>2, <1>3 DEF Aligned
  <2>. QED BY <1>2, <1>3, <2>1, <2>2 DEF Aligned
<1>8. Ended(r)'
  <2>1. stage[r] = "silent" => event[r] = "done"
    BY <1>3 DEF RequestInv, Ended
  <2>. QED BY <1>1, <1>6, <2>1 DEF Ended
<1>9. RefsExact(r)'
  <2>1. \A c \in Chunks : refs[r][c] = IF c \in LoadedChunks(r) THEN 1 ELSE 0
    BY <1>1 DEF RequestInv, RefsExact
  <2>2. \A c \in Chunks : refs'[r][c] = IF c \in LoadedChunks(r)' THEN 1 ELSE 0
    BY <1>4, <1>5, <2>1
  <2>. QED BY <1>1, <1>6, <2>2 DEF RefsExact
<1>10. AnswerLoaded(r)' /\ Answered(r)'
  BY <1>4 DEF RequestInv, AnswerLoaded, Answered
<1>. QED BY <1>7, <1>8, <1>9, <1>10 DEF RequestInv

\* What the callback reports has been loaded: the tasks before the first that came short
\* returned all they had promised.
LEMMA ReportIsLoaded ==
  ASSUME LoadTypes, NEW r \in Requests, Aligned(r), Over(r),
         NEW s \in DOMAIN got[r], FirstShort(r, s)
  PROVE  SumTo(got[r], s) \in 0 .. NumChunks /\ 1 .. SumTo(got[r], s) \subseteq LoadedChunks(r)
<1>. DEFINE e == expected[r]
            G == got[r]
            n == s - 1
<1>1. /\ DOMAIN G = 1 .. Len(e) /\ s \in 1 .. Len(e) /\ Len(e) \in Nat
      /\ n \in Nat /\ n + 1 = s /\ n \in 0 .. Len(e)
  BY TaskBounds DEF Aligned
<1>2. \A i \in 1 .. Len(e) : G[i] \in Nat /\ e[i] \in Nat /\ G[i] <= e[i]
  <2>1. ASSUME NEW i \in 1 .. Len(e) PROVE G[i] \in Nat
    <3>1. G \in Seq({Pending, Failed} \cup 0 .. NumChunks) /\ i \in DOMAIN G
      BY <1>1 DEF LoadTypes
    <3>2. G[i] \in {Pending, Failed} \cup 0 .. NumChunks /\ G[i] >= 0
      BY <3>1 DEF Over
    <3>. QED BY <3>2 DEF Pending, Failed
  <2>. QED BY <1>1, <2>1, TaskBounds DEF Aligned
<1>3. \A i \in 1 .. n : G[i] = e[i]
  <2>1. ASSUME NEW i \in 1 .. n PROVE G[i] = e[i]
    <3>1. G[i] >= e[i]
      BY DEF FirstShort
    <3>2. i \in 1 .. Len(e)
      BY <1>1
    <3>. HIDE DEF G, e
    <3>. QED BY <1>2, <3>1, <3>2
  <2>. QED BY <2>1
<1>4. /\ \A i \in 1 .. n + 1 : G[i] \in Nat
      /\ SumTo(e, n) \in Nat /\ SumTo(e, s) = SumTo(e, n) + e[s] /\ SumTo(e, s) <= Promised(r)
      /\ SumTo(e, s) \in Nat /\ Promised(r) <= NumChunks /\ Promised(r) \in Nat
  <2>1. /\ SumTo(e, n) \in Nat /\ SumTo(e, s) = SumTo(e, n) + e[s] /\ SumTo(e, s) <= Promised(r)
        /\ SumTo(e, s) \in Nat
    BY <1>1, TaskAt
  <2>2. Promised(r) \in Nat /\ Promised(r) <= NumChunks
    BY <1>1, TaskBounds DEF Promised, Aligned
  <2>3. \A i \in 1 .. n + 1 : G[i] \in Nat
    BY <1>1, <1>2
  <2>. QED BY <2>1, <2>2, <2>3
<1>. HIDE DEF e, G, n
<1>5. SumTo(G, s) = SumTo(e, n) + G[s]
  <2>1. SumTo(G, n) = SumTo(e, n)
    BY <1>1, <1>3, SumSame
  <2>2. SumTo(G, n + 1) = SumTo(G, n) + G[n + 1]
    BY <1>1, <1>4, SumNext
  <2>. QED BY <1>1, <2>1, <2>2
<1>6. SumTo(G, s) \in 0 .. NumChunks /\ SumTo(G, s) <= SumTo(e, s)
  BY <1>1, <1>2, <1>4, <1>5, SMTT(20)
<1>7. ASSUME NEW c \in 1 .. SumTo(G, s) PROVE c \in LoadedChunks(r)
  <2>1. c \in 1 .. Promised(r) /\ c \in Chunks
    BY <1>4, <1>6 DEF Chunks
  <2>2. PICK i \in DOMAIN G : SumTo(e, i - 1) < c /\ c <= SumTo(e, i)
    BY <2>1 DEF Aligned, e, G
  <2>3. /\ i \in 1 .. Len(e) /\ SumTo(e, i - 1) \in Nat /\ SumTo(e, i) = SumTo(e, i - 1) + e[i]
        /\ s < i => SumTo(e, s) <= SumTo(e, i - 1)
    BY <1>1, TaskAt DEF e
  <2>4. i <= s
    BY <1>1, <1>4, <1>6, <2>2, <2>3, SMTT(20)
  <2>5. CASE i = s
    <3>1. SumTo(e, i - 1) < c /\ c <= SumTo(e, i - 1) + G[i]
      BY <1>1, <1>5, <2>2, <2>5 DEF n
    <3>2. c \in Loaded(r, i)
      BY <2>1, <3>1 DEF Loaded, e, G
    <3>. QED BY <3>2 DEF LoadedChunks, G
  <2>6. CASE i < s
    <3>1. i \in 1 .. n
      BY <1>1, <2>3, <2>6
    <3>2. G[i] = e[i]
      BY <1>3, <3>1
    <3>3. SumTo(e, i - 1) < c /\ c <= SumTo(e, i - 1) + G[i]
      BY <2>2, <2>3, <3>2
    <3>4. c \in Loaded(r, i)
      BY <2>1, <3>3 DEF Loaded, e, G
    <3>. QED BY <3>4 DEF LoadedChunks, G
  <2>. QED BY <1>1, <2>3, <2>4, <2>5, <2>6
<1>. QED BY <1>6, <1>7 DEF G

\* The steps of a lookup that load nothing.
LEMMA LookupKeeps ==
  ASSUME LoadTypes, NEW r \in Requests, RequestInv(r), AsyncLookup(r) \/ LookupEnds(r) \/ AllDone(r)
  PROVE  RequestInv(r)'
<1>1. /\ expected' = expected /\ source' = source /\ got' = got /\ computed' = computed
      /\ refs' = refs /\ stage[r] \in {"new", "lookup", "loading"}
  BY DEF AsyncLookup, LookupEnds, AllDone
<1>2. stage'[r] \notin {"retrieved", "closed"}
  BY DEF AsyncLookup, LookupEnds, AllDone, LoadTypes
<1>3. /\ LoadedChunks(r)' = LoadedChunks(r) /\ (Raised(r)' <=> Raised(r))
      /\ (Over(r)' <=> Over(r)) /\ Aligned(r)'
  BY <1>1, SameLoaded DEF RequestInv
<1>4. RefsExact(r)'
  BY <1>1, <1>2, <1>3 DEF RequestInv, RefsExact
<1>5. CASE AsyncLookup(r)
  <2>1. stage'[r] = "lookup" /\ response' = response
    BY <1>5 DEF AsyncLookup, LoadTypes
  <2>. QED BY <1>3, <1>4, <2>1 DEF RequestInv, Ended, AnswerLoaded, Answered
<1>6. CASE LookupEnds(r)
  <2>1. CASE expected[r] = <<>>
    <3>1. stage'[r] = "answered" /\ response'[r] = 0
      BY <1>6, <2>1 DEF LookupEnds, LoadTypes
    <3>2. got[r] = <<>>
      <4>1. Len(got[r]) = 0
        BY <2>1 DEF RequestInv, Aligned
      <4>. QED BY <4>1 DEF LoadTypes
    <3>3. Over(r)
      BY <3>2 DEF Over
    <3>. QED BY <1>1, <1>3, <1>4, <3>1, <3>2, <3>3 DEF RequestInv, Ended, AnswerLoaded, Answered
  <2>2. CASE expected[r] # <<>>
    <3>1. stage'[r] = "loading" /\ response' = response
      BY <1>6, <2>2 DEF LookupEnds, LoadTypes
    <3>. QED BY <1>3, <1>4, <3>1 DEF RequestInv, Ended, AnswerLoaded, Answered
  <2>. QED BY <2>1, <2>2
<1>7. CASE AllDone(r)
  <2>1. event'[r] = "done" /\ (Over(r) \/ Raised(r))
    BY <1>7, GatheredIsOver DEF AllDone, LoadTypes
  <2>2. PICK s \in DOMAIN got[r] :
          /\ FirstShort(r, s)
          /\ IF Raised(r) \/ \E i \in s + 1 .. Len(got[r]) : got[r][i] > 0
               THEN stage' = [stage EXCEPT ![r] = "silent"] /\ UNCHANGED response
               ELSE /\ stage' = [stage EXCEPT ![r] = "answered"]
                    /\ response' = [response EXCEPT ![r] = SumTo(got[r], s)]
    BY <1>7 DEF AllDone
  <2>3. CASE stage' = [stage EXCEPT ![r] = "silent"] /\ UNCHANGED response
    <3>1. stage'[r] = "silent"
      BY <2>3 DEF LoadTypes
    <3>. QED BY <1>3, <1>4, <2>1, <2>3, <3>1 DEF RequestInv, Ended, AnswerLoaded, Answered
  <2>4. CASE /\ ~Raised(r) /\ stage' = [stage EXCEPT ![r] = "answered"]
             /\ response' = [response EXCEPT ![r] = SumTo(got[r], s)]
    <3>1. stage'[r] = "answered" /\ response'[r] = SumTo(got[r], s) /\ Over(r)
      BY <2>1, <2>4 DEF LoadTypes
    <3>2. /\ SumTo(got[r], s) \in 0 .. NumChunks
          /\ 1 .. SumTo(got[r], s) \subseteq LoadedChunks(r)
      BY <2>2, <3>1, ReportIsLoaded DEF RequestInv
    <3>3. AnswerLoaded(r)' /\ Answered(r)'
      BY <1>3, <3>1, <3>2 DEF AnswerLoaded, Answered
    <3>. QED BY <1>3, <1>4, <2>1, <3>1, <3>3 DEF RequestInv, Ended
  <2>. QED BY <2>2, <2>3, <2>4
<1>. QED BY <1>5, <1>6, <1>7

\* A retrieve keeps the references of the chunks it uses.
LEMMA RetrieveKeeps ==
  ASSUME LoadTypes, NEW r \in Requests, RequestInv(r), NEW n \in 0 .. MaxComputed, Retrieve(r, n)
  PROVE  RequestInv(r)'
<1>1. /\ expected' = expected /\ source' = source /\ got' = got /\ event' = event
      /\ response' = response /\ stage[r] = "answered" /\ LetGo(r, LoadedChunks(r) \ Used(r, n))
      /\ computed'[r] = n /\ stage'[r] = "retrieved"
  BY DEF Retrieve, LoadTypes
<1>2. /\ LoadedChunks(r)' = LoadedChunks(r) /\ (Raised(r)' <=> Raised(r))
      /\ (Over(r)' <=> Over(r)) /\ Aligned(r)' /\ Used(r, n)' = Used(r, n)
  BY <1>1, SameLoaded DEF RequestInv
<1>3. Over(r) /\ ~Raised(r)
  BY <1>1 DEF RequestInv, Ended, Over, Raised, Failed
<1>4. Used(r, computed[r])' = Used(r, n)
  BY <1>1, <1>2 DEF Used
<1>5. Used(r, n) \subseteq LoadedChunks(r)
  BY DEF Used, Chunks
<1>6. \A c \in Chunks : refs'[r][c] = IF c \in Used(r, n) THEN 1 ELSE 0
  <2>1. \A c \in Chunks : refs[r][c] = IF c \in LoadedChunks(r) THEN 1 ELSE 0
    BY <1>1 DEF RequestInv, RefsExact
  <2>2. \A c \in Chunks :
          refs'[r][c] = IF c \in LoadedChunks(r) \ Used(r, n) THEN refs[r][c] - 1 ELSE refs[r][c]
    BY <1>1, LetGoType
  <2>. QED BY <1>5, <2>1, <2>2
<1>7. RefsExact(r)'
  BY <1>1, <1>2, <1>3, <1>4, <1>6 DEF RefsExact
<1>8. Ended(r)'
  BY <1>1, <1>2, <1>3 DEF RequestInv, Ended
<1>9. AnswerLoaded(r)' /\ Answered(r)'
  BY <1>1, <1>2 DEF RequestInv, AnswerLoaded, Answered
<1>. QED BY <1>2, <1>7, <1>8, <1>9 DEF RequestInv

\* The clean-up releases every chunk once: those a retrieve had let go of are released
\* twice, and no reference stays behind.
LEMMA UnpinKeeps ==
  ASSUME LoadTypes, NEW r \in Requests, RequestInv(r), LookupUnpin(r)
  PROVE  RequestInv(r)'
<1>1. /\ expected' = expected /\ source' = source /\ got' = got /\ computed' = computed
      /\ response' = response /\ stage[r] \in {"answered", "silent", "retrieved"}
      /\ stage'[r] = "closed"
  BY DEF LookupUnpin, LoadTypes
<1>2. /\ LoadedChunks(r)' = LoadedChunks(r) /\ (Raised(r)' <=> Raised(r))
      /\ (Over(r)' <=> Over(r)) /\ Aligned(r)'
      /\ Used(r, computed[r])' = Used(r, computed[r])
  BY <1>1, SameLoaded, SameUsed DEF RequestInv
<1>3. Ended(r)'
  BY <1>1, <1>2 DEF RequestInv, Ended
<1>4. AnswerLoaded(r)' /\ Answered(r)'
  BY <1>1, <1>2 DEF RequestInv, AnswerLoaded, Answered
<1>5. Used(r, computed[r]) \subseteq LoadedChunks(r)
  <2>1. computed[r] \in Nat
    BY DEF LoadTypes
  <2>. QED BY <2>1 DEF Used, Chunks
<1>6. CASE Raised(r)
  <2>1. refs' = refs
    BY <1>6 DEF LookupUnpin
  <2>. QED BY <1>1, <1>2, <1>3, <1>4, <1>6, <2>1 DEF RequestInv, RefsExact
<1>7. CASE ~Raised(r)
  <2>1. \A c \in Chunks :
          refs'[r][c] = IF c \in LoadedChunks(r) THEN refs[r][c] - 1 ELSE refs[r][c]
    <3>1. CASE event[r] = "done"
      <4>1. LetGo(r, LoadedChunks(r))
        BY <1>7, <3>1 DEF LookupUnpin
      <4>. QED BY <4>1, LetGoType
    <3>2. CASE event[r] # "done"
      <4>1. refs' = refs /\ got[r] = <<>>
        BY <1>1, <3>2 DEF LookupUnpin, RequestInv, Ended
      <4>2. LoadedChunks(r) = {}
        BY <4>1 DEF LoadedChunks
      <4>. QED BY <4>1, <4>2
    <3>. QED BY <3>1, <3>2
  <2>2. CASE stage[r] = "retrieved"
    <3>1. \A c \in Chunks : refs[r][c] = IF c \in Used(r, computed[r]) THEN 1 ELSE 0
      BY <2>2 DEF RequestInv, RefsExact
    <3>2. \A c \in Chunks : refs'[r][c] = IF c \in LoadedChunks(r) \ Used(r, computed[r]) THEN -1 ELSE 0
      BY <1>5, <2>1, <3>1
    <3>. QED BY <1>1, <1>2, <1>3, <1>4, <1>7, <3>2 DEF RequestInv, RefsExact
  <2>3. CASE stage[r] # "retrieved"
    <3>1. \A c \in Chunks : refs[r][c] = IF c \in LoadedChunks(r) THEN 1 ELSE 0
      BY <1>1, <2>3 DEF RequestInv, RefsExact
    <3>2. \A c \in Chunks : refs'[r][c] = 0
      BY <2>1, <3>1
    <3>. QED BY <1>1, <1>2, <1>3, <1>4, <1>7, <3>2 DEF RequestInv, RefsExact
  <2>. QED BY <2>2, <2>3
<1>. QED BY <1>6, <1>7
-----------------------------------------------------------------------------
LookupInv == LoadTypes /\ TasksInv /\ RunningInv /\ \A r \in Requests : RequestInv(r)

\* It holds before the first lookup.
LEMMA LookupInit == LoadingInit => LookupInv
<1>. SUFFICES ASSUME LoadingInit PROVE LookupInv
  OBVIOUS
<1>1. LoadTypes
  BY DEF LoadingInit, LoadTypes, Stages, Pending
<1>2. RunningInv
  <2>1. asked = [l \in Loads |-> 0] /\ held = [l \in Loads |-> 0] /\ serving = Nobody
    BY DEF LoadingInit, Init
  <2>2. \A r \in Requests, i \in Tiers : <<r, i>> \in Loads /\ <<r, i>> # Nobody
    BY DEF LoadTasks, Nobody
  <2>. QED BY <2>1, <2>2 DEF RunningInv, Running
<1>3. ASSUME NEW r \in Requests PROVE RequestInv(r)
  <2>1. /\ stage[r] = "new" /\ expected[r] = <<>> /\ got[r] = <<>> /\ source[r] = <<>>
        /\ response[r] = Pending /\ refs[r] = [c \in Chunks |-> 0]
    BY DEF LoadingInit
  <2>2. LoadedChunks(r) = {}
    BY <2>1 DEF LoadedChunks
  <2>3. Promised(r) = 0
    BY <2>1, SumNone DEF Promised
  <2>4. Aligned(r)
    BY <2>1, <2>3 DEF Aligned
  <2>. QED BY <2>1, <2>2, <2>4 DEF RequestInv, Ended, RefsExact, AnswerLoaded, Answered, Pending
<1>. QED BY <1>1, <1>2, <1>3, TasksInit DEF LookupInv

\* Every step keeps what is known of the request that takes it.
LEMMA RequestKeeps ==
  ASSUME LookupInv, NEW r \in Requests, RequestStep(r)
  PROVE  RequestInv(r)'
<1>0. LoadTypes /\ TasksInv /\ RunningInv /\ RequestInv(r)
  BY DEF LookupInv
<1>1. ASSUME NEW h \in 0 .. NumChunks, Contains(r, h) PROVE RequestInv(r)'
  BY <1>0, <1>1, ContainsKeeps
<1>2. CASE AsyncLookup(r) \/ LookupEnds(r) \/ AllDone(r)
  BY <1>0, <1>2, LookupKeeps
<1>3. ASSUME NEW i \in DOMAIN got[r], BeginLoad(r, i) PROVE RequestInv(r)'
  BY <1>0, <1>3, OtherRequest DEF BeginLoad
<1>4. ASSUME NEW i \in DOMAIN got[r], LoadRaises(r, i) PROVE RequestInv(r)'
  <2>1. /\ LeaveSerializer(r, i) /\ got' = [got EXCEPT ![r][i] = Failed]
        /\ UNCHANGED <<stage, expected, source, computed, event, response, refs>>
    BY <1>4 DEF LoadRaises
  <2>2. got[r][i] = Pending /\ i \in 1 .. Len(expected[r]) /\ Aligned(r)
    BY <1>0, <2>1, LeavesOnce, TaskBounds DEF RequestInv, Aligned
  <2>3. Failed <= expected[r][i]
    <3>1. expected[r][i] \in Nat
      BY <1>0, <2>2, TaskBounds
    <3>. QED BY <3>1 DEF Failed
  <2>4. Returned(r, i, Failed) = {}
    <3>1. SumTo(expected[r], i - 1) \in Nat
      BY <1>0, <2>2, TaskAt
    <3>. QED BY <3>1 DEF Returned, Failed, Chunks
  <2>5. \A c \in Chunks :
          refs'[r][c] = IF c \in Returned(r, i, Failed) THEN refs[r][c] + 1 ELSE refs[r][c]
    BY <2>1, <2>4
  <2>6. Failed \in {Failed} \cup 0 .. NumChunks
    OBVIOUS
  <2>. QED BY <1>0, <2>1, <2>3, <2>5, <2>6, LoadEndKeeps
<1>5. ASSUME NEW i \in DOMAIN got[r], NEW g \in 0 .. NumChunks, EndLoad(r, i, g)
      PROVE  RequestInv(r)'
  <2>1. /\ LeaveSerializer(r, i) /\ got' = [got EXCEPT ![r][i] = g]
        /\ UNCHANGED <<stage, expected, source, computed, event, response>>
        /\ g = expected[r][i] \/ g < expected[r][i]
    BY <1>5, Zenon DEF EndLoad
  <2>2. \A c \in Chunks :
          refs'[r][c] = IF c \in Returned(r, i, g) THEN refs[r][c] + 1 ELSE refs[r][c]
    BY <1>0, <1>5, EndLoadRefs
  <2>3. g <= expected[r][i]
    <3>1. i \in 1 .. Len(expected[r])
      BY <1>0, TaskBounds DEF RequestInv, Aligned
    <3>2. expected[r][i] \in Nat
      BY <1>0, <3>1, TaskBounds
    <3>. QED BY <2>1, <3>2
  <2>4. g \in {Failed} \cup 0 .. NumChunks
    OBVIOUS
  <2>. QED BY <1>0, <2>1, <2>2, <2>3, <2>4, LoadEndKeeps
<1>6. ASSUME NEW n \in 0 .. MaxComputed, Retrieve(r, n) PROVE RequestInv(r)'
  BY <1>0, <1>6, RetrieveKeeps
<1>7. CASE LookupUnpin(r)
  BY <1>0, <1>7, UnpinKeeps
<1>. QED BY <1>1, <1>2, <1>3, <1>4, <1>5, <1>6, <1>7 DEF RequestStep, LookupStep, LoadEnds

\* Every step keeps the invariant.
LEMMA LookupStepKeeps == LookupInv /\ [LoadingNext]_loadingVars => LookupInv'
<1>. SUFFICES ASSUME LookupInv, [LoadingNext]_loadingVars PROVE LookupInv'
  OBVIOUS
<1>0. LoadTypes /\ TasksInv /\ RunningInv /\ \A q \in Requests : RequestInv(q)
  BY DEF LookupInv
<1>1. ASSUME NEW r \in Requests, RequestStep(r) PROVE LookupInv'
  <2>1. /\ LoadTypes'
        /\ \A q \in Requests \ {r} :
              /\ stage'[q] = stage[q] /\ expected'[q] = expected[q] /\ source'[q] = source[q]
              /\ got'[q] = got[q] /\ computed'[q] = computed[q] /\ event'[q] = event[q]
              /\ response'[q] = response[q] /\ refs'[q] = refs[q]
    BY <1>0, <1>1, RequestTypes
  <2>2. RunningInv'
    BY <1>0, <1>1, RunningStep
  <2>3. TasksInv'
    BY <1>0, TasksStep
  <2>4. ASSUME NEW q \in Requests \ {r} PROVE RequestInv(q)'
    BY <1>0, <2>1, OtherRequest
  <2>5. RequestInv(r)'
    BY <1>1, RequestKeeps
  <2>. QED BY <2>1, <2>2, <2>3, <2>4, <2>5 DEF LookupInv
<1>2. CASE UNCHANGED loadingVars
  <2>1. /\ stage' = stage /\ expected' = expected /\ source' = source /\ got' = got
        /\ computed' = computed /\ event' = event /\ response' = response /\ refs' = refs
        /\ serializer' = serializer /\ serving' = serving /\ asked' = asked /\ held' = held
    BY <1>2 DEF loadingVars, vars
  <2>2. \A q \in Requests : RequestInv(q)'
    BY <1>0, <2>1, OtherRequest
  <2>3. LoadTypes' /\ RunningInv'
    BY <1>0, <2>1 DEF LoadTypes, RunningInv, Running
  <2>4. TasksInv'
    BY <1>0, TasksStep
  <2>. QED BY <2>2, <2>3, <2>4 DEF LookupInv
<1>3. LoadingNext => \E r \in Requests : RequestStep(r)
  BY DEF LoadingNext, RequestStep
<1>. QED BY <1>1, <1>2, <1>3

\* Whatever the tiers promise, return and raise, and in whatever order the loads of all
\* requests end, prefetch_all_done_callback reports a prefix of which every chunk has been
\* loaded: the scheduler never skips the computation of a chunk nobody has.
THEOREM AnswersAreLoaded == LoadingSpec => []AnswerIsLoadedPrefix
<1>1. LookupInv => AnswerIsLoadedPrefix
  BY DEF LookupInv, RequestInv, AnswerLoaded, AnswerIsLoadedPrefix
<1>. QED BY <1>1, LookupInit, LookupStepKeeps, PTL DEF LoadingSpec

\* Whatever part of a prefetch the retrieve uses, the objects it copies keep their one
\* reference until cleanup_memory_objs, and a request that is closed leaves none behind
\* unless one of its loads raised.
THEOREM ReferencesReleased ==
  ASSUME Budget >= 2
  PROVE  LoadingSpec => []ReferencesCover
<1>1. LoadingInit => LookupInv /\ SemaphoreInv
  BY LookupInit, SemaphoreInit DEF LoadingInit
<1>2. LookupInv /\ SemaphoreInv /\ [LoadingNext]_loadingVars => LookupInv' /\ SemaphoreInv'
  BY LookupStepKeeps, LoadingSimulates, SemaphoreStep DEF LookupInv
<1>3. ASSUME LookupInv, SemaphoreInv PROVE ReferencesCover
  <2>1. /\ LoadTypes /\ TasksInv /\ RunningInv /\ TypeOK
        /\ \A r \in Requests : RefsExact(r) /\ Answered(r)
    BY <1>3 DEF LookupInv, RequestInv, SemaphoreInv
  <2>2. serving = Nobody \/ (serving[1] \in Requests /\ serving[2] \in DOMAIN got[serving[1]])
    <3>1. CASE serving \in Loads
      <4>1. PICK r \in Requests, i \in Tiers : serving = <<r, i>>
        BY <3>1 DEF LoadTasks
      <4>2. i \in DOMAIN got[r]
        BY <2>1, <4>1 DEF RunningInv, Running
      <4>. QED BY <4>1, <4>2
    <3>. QED BY <2>1, <3>1 DEF RunningInv
  <2>3. LoadingTypeOK
    <3>1. response \in [Requests -> {Pending} \cup 0 .. NumChunks]
      BY <2>1 DEF LoadTypes, Answered
    <3>. QED BY <2>1, <2>2, <3>1 DEF LoadingTypeOK, LoadTypes, TasksInv
  <2>4. ASSUME NEW r \in Requests, stage[r] # "closed",
               NEW c \in IF stage[r] = "retrieved" THEN Used(r, computed[r]) ELSE LoadedChunks(r)
        PROVE  refs[r][c] = 1
    <3>1. computed[r] \in Nat
      BY <2>1 DEF LoadTypes
    <3>2. c \in Chunks
      BY <2>4 DEF Used, LoadedChunks, Loaded
    <3>. QED BY <2>1, <2>4, <3>2 DEF RefsExact
  <2>5. ASSUME NEW r \in Requests, stage[r] = "closed", ~Raised(r), NEW c \in Chunks
        PROVE  refs[r][c] \in IF c \in LoadedChunks(r) \ Used(r, computed[r])
                              THEN {-1, 0} ELSE {0}
    BY <2>1, <2>5 DEF RefsExact
  <2>. QED BY <2>3, <2>4, <2>5 DEF ReferencesCover, KeptForUse, GivenBack
<1>. QED BY <1>1, <1>2, <1>3, PTL DEF LoadingSpec
=============================================================================

---------------------------- MODULE AsyncLoading ----------------------------
(***************************************************************************)
(* Asynchronous lookup and prefetch: StorageManager.                       *)
(* async_lookup_and_prefetch with its callback                             *)
(* (lmcache_hcu/v1/storage_backend/storage_manager.py), and the engine     *)
(* calls that use and release what was loaded                              *)
(* (lmcache_hcu/v1/cache_engine.py).                                       *)
(*                                                                         *)
(* A request's chunks are numbered 1 .. NumChunks.  The tiers are asked in *)
(* turn for a prefix of what is left; each tier with a hit gets a loading  *)
(* task, and the serializer admits the loading tasks of all requests: one  *)
(* at a time, or as many as the weighted semaphore lets in.  A tier is     *)
(* external: it may know of any number of the chunks asked for and, where  *)
(* chunks can be evicted between the lookup and the load, return fewer     *)
(* than it promised, or raise.  When all tasks of a request have ended, or *)
(* one has raised, a callback tells the scheduler how much was loaded; the *)
(* worker then retrieves the chunks and, at the end of the step, lets go   *)
(* of them.                                                                *)
(***************************************************************************)
EXTENDS Sequences, WeightedSemaphore

CONSTANTS
  Requests,    \* lookup ids
  NumTiers,    \* active storage backends, in the order they are searched
  NumChunks,   \* chunks of a request
  ShortTiers,  \* the tiers that may load fewer chunks than they promised
  RaisingTiers,\* the tiers whose loads may raise
  Serializers, \* "single" (AsyncSingleSerializer), "multi" (AsyncMultiSerializer)
  MaxComputed  \* bounds the leading chunks the scheduler has already computed

Tiers == 1 .. NumTiers
Chunks == 1 .. NumChunks
LoadTasks == Requests \X Tiers

ASSUME LoadingAssumption ==
  /\ IsFiniteSet(Requests)
  /\ NumTiers \in Nat /\ NumChunks \in Nat /\ MaxComputed \in Nat
  /\ ShortTiers \subseteq Tiers /\ RaisingTiers \subseteq Tiers
  /\ Serializers \subseteq {"single", "multi"}
  /\ Loads = LoadTasks

VARIABLES
  stage,     \* where the request is
  tier,      \* the tier its lookup asks next
  expected,  \* tier_expected_chunks, one number per loading task
  source,    \* the tier of each loading task
  got,       \* chunks each loading task has returned, or Pending
  serializer,\* which serializer is used
  serving,   \* the loading task that holds the single serializer's lock
  computed,  \* leading chunks the scheduler had computed when it retrieved
  event,     \* status of the request's LOADING event
  response,  \* chunks reported to the scheduler, or Pending
  refs       \* references held on the memory object of each chunk

loadingVars == <<vars, stage, tier, expected, source, got, serializer, serving, computed, event,
                 response, refs>>

Pending == -1
Failed == -2
Nobody == <<>>

Stages == {"new", "lookup", "loading", "answered", "silent", "retrieved", "closed"}

LoadingTypeOK ==
  /\ TypeOK
  /\ stage \in [Requests -> Stages]
  /\ tier \in [Requests -> 1 .. NumTiers + 1]
  /\ expected \in [Requests -> Seq(Chunks)]
  /\ source \in [Requests -> Seq(Tiers)]
  /\ got \in [Requests -> Seq({Pending, Failed} \cup 0 .. NumChunks)]
  /\ serializer \in Serializers /\ computed \in [Requests -> 0 .. MaxComputed]
  /\ serving = Nobody \/ (serving[1] \in Requests /\ serving[2] \in DOMAIN got[serving[1]])
  /\ event \in [Requests -> {"not_found", "ongoing", "done"}]
  /\ response \in [Requests -> {Pending} \cup 0 .. NumChunks]
  /\ refs \in [Requests -> [Chunks -> Int]]

\* The sum of the first n numbers of s.
SumTo(s, n) == Total([i \in 1 .. n |-> s[i]])

Remaining(r) == NumChunks - SumTo(expected[r], Len(expected[r]))

\* The chunks a loading task has returned: a prefix of those it was asked for.
Loaded(r, i) ==
  LET before == SumTo(expected[r], i - 1) IN
  {c \in Chunks : before < c /\ c <= before + got[r][i]}

LoadedChunks(r) == UNION {Loaded(r, i) : i \in DOMAIN got[r]}

LetGo(r, C) == refs' = [refs EXCEPT ![r] = [c \in Chunks |-> IF c \in C THEN @[c] - 1 ELSE @[c]]]
-----------------------------------------------------------------------------
AsyncLookup(r) ==
  /\ stage[r] = "new"
  /\ stage' = [stage EXCEPT ![r] = "lookup"]
  /\ UNCHANGED <<vars, computed, tier, expected, source, got, serializer, serving, event, response, refs>>

\* One tier answers batched_async_contains; a tier with hits gets a loading task.
Contains(r, h) ==
  /\ stage[r] = "lookup" /\ tier[r] <= NumTiers /\ Remaining(r) > 0
  /\ h \in 0 .. Remaining(r)
  /\ tier' = [tier EXCEPT ![r] = @ + 1]
  /\ IF h = 0
       THEN UNCHANGED <<vars, expected, source, got>>
       ELSE /\ expected' = [expected EXCEPT ![r] = Append(@, h)]
            /\ source' = [source EXCEPT ![r] = Append(@, tier[r])]
            /\ got' = [got EXCEPT ![r] = Append(@, Pending)]
            /\ IF serializer = "multi" THEN Run(<<r, Len(got[r]) + 1>>, h) ELSE UNCHANGED vars
  /\ UNCHANGED <<stage, serializer, serving, computed, event, response, refs>>

\* Every tier was asked, or nothing is left to ask for.
LookupEnds(r) ==
  /\ stage[r] = "lookup" /\ (tier[r] > NumTiers \/ Remaining(r) = 0)
  /\ IF expected[r] = <<>>
       THEN /\ stage' = [stage EXCEPT ![r] = "answered"]
            /\ response' = [response EXCEPT ![r] = 0]
            /\ UNCHANGED event
       ELSE /\ stage' = [stage EXCEPT ![r] = "loading"]
            /\ event' = [event EXCEPT ![r] = "ongoing"]
            /\ UNCHANGED response
  /\ UNCHANGED <<vars, tier, expected, source, got, serializer, serving, computed, refs>>

\* The serializer's run takes its lock, or its chunks ...
BeginLoad(r, i) ==
  /\ got[r][i] = Pending
  /\ IF serializer = "single"
       THEN serving = Nobody /\ serving' = <<r, i>> /\ UNCHANGED vars
       ELSE (Acquire(<<r, i>>) \/ AcquireOversized(<<r, i>>)) /\ UNCHANGED serving
  /\ UNCHANGED <<stage, tier, expected, source, got, serializer, computed, event, response, refs>>

\* ... gives them back, whatever becomes of the load ...
LeaveSerializer(r, i) ==
  IF serializer = "single"
    THEN serving = <<r, i>> /\ serving' = Nobody /\ UNCHANGED vars
    ELSE Release(<<r, i>>) /\ UNCHANGED serving

\* ... and batched_get_non_blocking ends with what it found ...
EndLoad(r, i, g) ==
  /\ LeaveSerializer(r, i)
  /\ g = expected[r][i] \/ (source[r][i] \in ShortTiers /\ g < expected[r][i])
  /\ got' = [got EXCEPT ![r][i] = g]
  /\ refs' = [refs EXCEPT ![r] =
       [c \in Chunks |->
          LET before == SumTo(expected[r], i - 1) IN
          IF before < c /\ c <= before + g THEN @[c] + 1 ELSE @[c]]]
  /\ UNCHANGED <<stage, tier, expected, source, serializer, computed, event, response>>

\* ... or raises.
LoadRaises(r, i) ==
  /\ source[r][i] \in RaisingTiers
  /\ LeaveSerializer(r, i)
  /\ got' = [got EXCEPT ![r][i] = Failed]
  /\ UNCHANGED <<stage, tier, expected, source, serializer, computed, event, response, refs>>

\* The first loading task that came short, or the last when none did.
FirstShort(r, s) ==
  /\ \A i \in 1 .. s - 1 : got[r][i] >= expected[r][i]
  /\ s = Len(got[r]) \/ got[r][s] < expected[r][s]

\* gather ends with the last load, or with the first that raises.
Raised(r) == \E i \in DOMAIN got[r] : got[r][i] = Failed
Gathered(r) == Raised(r) \/ \A i \in DOMAIN got[r] : got[r][i] # Pending

\* Variant: the chunks after a gap are counted too.
AllDoneCountingAll(r) ==
  /\ stage[r] = "loading" /\ Gathered(r)
  /\ event' = [event EXCEPT ![r] = "done"]
  /\ stage' = [stage EXCEPT ![r] = "answered"]
  /\ response' = [response EXCEPT ![r] = SumTo(got[r], Len(got[r]))]
  /\ UNCHANGED <<vars, tier, expected, source, got, serializer, serving, computed, refs>>

\* prefetch_all_done_callback: the result of a gather that raised raises again.  The
\* results are pairs of a key and a memory object: the release of the chunks after a gap
\* calls ref_count_down on a pair, which raises before the answer is sent.
AllDone(r) ==
  /\ stage[r] = "loading" /\ Gathered(r)
  /\ event' = [event EXCEPT ![r] = "done"]
  /\ \E s \in DOMAIN got[r] :
       /\ FirstShort(r, s)
       /\ IF Raised(r) \/ \E i \in s + 1 .. Len(got[r]) : got[r][i] > 0
            THEN stage' = [stage EXCEPT ![r] = "silent"] /\ UNCHANGED response
            ELSE /\ stage' = [stage EXCEPT ![r] = "answered"]
                 /\ response' = [response EXCEPT ![r] = SumTo(got[r], s)]
  /\ UNCHANGED <<vars, tier, expected, source, got, serializer, serving, computed, refs>>
-----------------------------------------------------------------------------
\* The chunks a retrieve copies when the first n are not asked for.
Used(r, n) == {c \in Chunks : c > n /\ n + 1 .. c \subseteq LoadedChunks(r)}

\* Variant: chunks that are used are released as well.
RetrieveAndRelease(r, n) ==
  /\ stage[r] = "answered" /\ n < response[r]
  /\ stage' = [stage EXCEPT ![r] = "retrieved"]
  /\ LetGo(r, LoadedChunks(r))
  /\ computed' = [computed EXCEPT ![r] = n]
  /\ UNCHANGED <<vars, tier, expected, source, got, serializer, serving, event, response>>

\* retrieve with _async_process_tokens_internal, for a request of which the scheduler has
\* computed n chunks: chunks that are not used are released.
Retrieve(r, n) ==
  /\ stage[r] = "answered" /\ n < response[r]
  /\ stage' = [stage EXCEPT ![r] = "retrieved"]
  /\ LetGo(r, LoadedChunks(r) \ Used(r, n))
  /\ computed' = [computed EXCEPT ![r] = n]
  /\ UNCHANGED <<vars, tier, expected, source, got, serializer, serving, event, response>>

\* lookup_unpin, at the end of the step or for an aborted request: cleanup_memory_objs
\* pops a finished event and releases every chunk of it, unless it is that of a gather that
\* raised.
LookupUnpin(r) ==
  /\ stage[r] \in {"answered", "silent", "retrieved"}
  /\ stage' = [stage EXCEPT ![r] = "closed"]
  /\ IF event[r] = "done"
       THEN /\ event' = [event EXCEPT ![r] = "not_found"]
            /\ IF Raised(r) THEN UNCHANGED refs ELSE LetGo(r, LoadedChunks(r))
       ELSE UNCHANGED <<event, refs>>
  /\ UNCHANGED <<vars, tier, expected, source, got, serializer, serving, computed, response>>
-----------------------------------------------------------------------------
LoadingInit ==
  /\ Init
  /\ stage = [r \in Requests |-> "new"]
  /\ tier = [r \in Requests |-> 1]
  /\ expected = [r \in Requests |-> <<>>]
  /\ source = [r \in Requests |-> <<>>]
  /\ got = [r \in Requests |-> <<>>]
  /\ serializer \in Serializers /\ serving = Nobody
  /\ computed = [r \in Requests |-> 0]
  /\ event = [r \in Requests |-> "not_found"]
  /\ response = [r \in Requests |-> Pending]
  /\ refs = [r \in Requests |-> [c \in Chunks |-> 0]]

LoadEnds(r, i) == LoadRaises(r, i) \/ \E g \in 0 .. NumChunks : EndLoad(r, i, g)

LookupStep(r) == (\E h \in 0 .. NumChunks : Contains(r, h)) \/ LookupEnds(r) \/ AllDone(r)

LoadingNext ==
  \E r \in Requests :
    \/ AsyncLookup(r) \/ LookupStep(r)
    \/ \E i \in DOMAIN got[r] : BeginLoad(r, i) \/ LoadEnds(r, i)
    \/ (\E n \in 0 .. MaxComputed : Retrieve(r, n)) \/ LookupUnpin(r)

LoadingSpec == LoadingInit /\ [][LoadingNext]_loadingVars

\* The event loop runs every coroutine that is ready, loads end, and the loads that wait
\* for the serializer get their turn: the lock is handed over in the order it was asked
\* for, and there are only so many loads to wait for chunks behind.
FairLoading ==
  /\ LoadingSpec
  /\ \A r \in Requests :
       /\ WF_loadingVars(LookupStep(r))
       /\ \A i \in Tiers :
            /\ SF_loadingVars(i \in DOMAIN got[r] /\ BeginLoad(r, i))
            /\ WF_loadingVars(i \in DOMAIN got[r] /\ LoadEnds(r, i))
-----------------------------------------------------------------------------
\* What the scheduler is told is a prefix that was really loaded: chunks that a lookup
\* promised and an eviction took, and everything behind them, are not counted.
AnswerIsLoadedPrefix ==
  \A r \in Requests : response[r] > 0 => 1 .. response[r] \subseteq LoadedChunks(r)

\* Every lookup gets its answer, the lookups with a tier that came short included: the
\* scheduler holds the request back until then.
EveryLookupAnswered ==
  \A r \in Requests : stage[r] = "lookup" ~> response[r] # Pending

\* A tier came short, or raised, before one that did not.
Broken(r) ==
  \/ Raised(r)
  \/ \E i, j \in DOMAIN got[r] :
       i < j /\ got[r][i] \in 0 .. expected[r][i] - 1 /\ got[r][j] > 0

\* A lookup is answered unless one of its own loads raised or left a gap: a load of another
\* request that raises, or that is too large to run beside others, takes neither the
\* serializer nor its chunks with it.
AnsweredUnlessBroken ==
  \A r \in Requests : stage[r] = "lookup" ~> (response[r] # Pending \/ Broken(r))

\* Until a request is closed, the objects it still needs keep exactly the reference their load
\* took: every loaded chunk before the retrieve, and the chunks the retrieve copies after it,
\* though the retrieve lets go of the others (_async_process_tokens_internal).
KeptForUse ==
  \A r \in Requests :
    stage[r] # "closed" =>
      \A c \in IF stage[r] = "retrieved" THEN Used(r, computed[r]) ELSE LoadedChunks(r) :
        refs[r][c] = 1

\* A request that is closed has given back every reference, though its tiers came short, and
\* given none back twice but those of the chunks it loaded and did not use: the retrieve lets
\* go of these, and cleanup_memory_objs lets go of every chunk.
GivenBack ==
  \A r \in Requests :
    stage[r] = "closed" /\ ~Raised(r) =>
      \A c \in Chunks :
        refs[r][c] \in IF c \in LoadedChunks(r) \ Used(r, computed[r]) THEN {-1, 0} ELSE {0}

\* The references a request holds cover its use of the objects, and end with it: the retrieve
\* and cleanup_memory_objs between them forget none and take none away too early.
ReferencesCover == LoadingTypeOK /\ KeptForUse /\ GivenBack
=============================================================================

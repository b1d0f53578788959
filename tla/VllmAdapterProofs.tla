------------------------- MODULE VllmAdapterProofs -------------------------
(* The connector's picture of every request is vLLM's, and every pin it    *)
(* takes is one it remembers, for any requests, tiers, chunk size, local   *)
(* hits and preemptions.  When only whole chunks are saved, and as long as *)
(* no retrieve drops a chunk it had loaded, for any requests and any loads *)
(* that fail: every gap a load leaves is reported, and what is stored was  *)
(* computed from KV that is there, or behind a gap that is reported.       *)
EXTENDS VllmAdapter, FiniteSetTheorems, WellFoundedInduction, TLAPS

USE EngineAssumption, AdapterAssumption
-----------------------------------------------------------------------------
(* Sequences of positions, and numbers                                     *)

\* The first n positions are a list of n of them.
LEMMA FirstType ==
  ASSUME NEW n \in 0 .. MaxTokens PROVE First(n) \in Seq(Keys) /\ Len(First(n)) = n
BY DEF First, Keys

LEMMA FirstLen == ASSUME NEW n \in Nat PROVE First(n) \in Seq(Nat) /\ Len(First(n)) = n
BY DEF First

\* The positions after the first a.
After(a, n) == [i \in 1 .. n |-> a + i]

LEMMA FirstAfter ==
  ASSUME NEW a \in Nat, NEW n \in Nat PROVE First(a) \o After(a, n) = First(a + n)
<1>1. /\ First(a) \in Seq(Nat) /\ Len(First(a)) = a /\ After(a, n) \in Seq(Nat)
      /\ Len(After(a, n)) = n
  BY FirstLen DEF After
<1>. DEFINE s == First(a) \o After(a, n)
<1>2. s \in Seq(Nat) /\ Len(s) = a + n
  BY <1>1
<1>0. /\ \A i \in 1 .. a : s[i] = First(a)[i]
      /\ \A i \in a + 1 .. a + n : s[i] = After(a, n)[i - a]
  BY <1>1
<1>. HIDE DEF s
<1>3. ASSUME NEW i \in 1 .. a + n PROVE s[i] = i
  <2>1. CASE i <= a
    <3>1. i \in 1 .. a
      BY <2>1
    <3>. QED BY <1>0, <3>1 DEF First
  <2>2. CASE i > a
    <3>1. i \in a + 1 .. a + n /\ i - a \in 1 .. n /\ a + (i - a) = i
      BY <2>2
    <3>2. After(a, n)[i - a] = a + (i - a)
      BY <3>1 DEF After
    <3>. QED BY <1>0, <3>1, <3>2
  <2>. QED BY <2>1, <2>2
<1>4. s = [i \in 1 .. a + n |-> i]
  BY <1>2, <1>3
<1>. QED BY <1>4 DEF s, First

\* A table of blocks grows by what vLLM adds, in whichever of its forms it is sent.
LEMMA TableGrows ==
  ASSUME NEW a \in Nat, NEW n \in Nat, NEW s \in {After(a, n), First(a) \o After(a, n)}
  PROVE  Table(First(a), s) = First(a + n)
<1>1. /\ First(a) \in Seq(Nat) /\ Len(First(a)) = a /\ After(a, n) \in Seq(Nat)
      /\ Len(After(a, n)) = n /\ First(a) \o After(a, n) = First(a + n)
      /\ First(a + n) \in Seq(Nat) /\ Len(First(a + n)) = a + n
  <2>1. a + n \in Nat
    OBVIOUS
  <2>2. After(a, n) \in Seq(Nat) /\ Len(After(a, n)) = n
    BY DEF After
  <2>. QED BY <2>1, <2>2, FirstLen, FirstAfter
<1>2. CASE s = First(a) \o After(a, n)
  <2>1. SubSeq(First(a + n), 1, a) = First(a)
    BY <1>1 DEF First
  <2>. QED BY <1>1, <1>2, <2>1 DEF Table
<1>3. CASE s = After(a, n) /\ a = 0
  <2>1. After(0, n) = First(0 + n)
    BY DEF After, First
  <2>. QED BY <1>1, <1>3, <2>1 DEF Table
<1>4. CASE s = After(a, n) /\ a > 0
  <2>1. ASSUME a <= n PROVE SubSeq(s, 1, a) # First(a)
    <3>1. SubSeq(s, 1, a)[1] = a + 1
      BY <1>1, <1>4, <2>1 DEF After
    <3>2. First(a)[1] = 1
      BY <1>4 DEF First
    <3>. QED BY <1>4, <3>1, <3>2
  <2>. QED BY <1>1, <1>4, <2>1 DEF Table
<1>. QED BY <1>2, <1>3, <1>4

\* What ends at a chunk's end.
LEMMA WholeChunks == ASSUME NEW n \in Nat PROVE (n \div ChunkSize) * ChunkSize \in Nat
<1>1. n \div ChunkSize \in Nat
  OBVIOUS
<1>2. ASSUME NEW a \in Nat, NEW b \in Nat PROVE a * b \in Nat
  OBVIOUS
<1>. QED BY <1>1, <1>2

LEMMA TwoMin ==
  ASSUME NEW a \in Nat, NEW b \in Nat PROVE Min({a, b}) \in Nat /\ Min({a, b}) <= b
BY DEF Min

LEMMA TwoMax ==
  ASSUME NEW a \in Nat, NEW b \in Nat PROVE Max({a, b}) = IF a > b THEN a ELSE b
BY DEF Max
-----------------------------------------------------------------------------
(* What holds of every request                                             *)

Listed(s) == s = First(Len(s))

\* The variables with a value for each request.
Tables ==
  /\ phase = [q \in Requests |-> phase[q]] /\ computed = [q \in Requests |-> computed[q]]
  /\ total = [q \in Requests |-> total[q]] /\ step = [q \in Requests |-> step[q]]
  /\ lookup_cache = [q \in Requests |-> lookup_cache[q]]
  /\ load_specs = [q \in Requests |-> load_specs[q]]
  /\ trackers = [q \in Requests |-> trackers[q]] /\ meta = [q \in Requests |-> meta[q]]
  /\ gpu = [q \in Requests |-> gpu[q]]
  /\ invalid = [q \in Requests |-> invalid[q]]
  /\ preemptions = [q \in Requests |-> preemptions[q]]

RequestTypes(q) ==
  /\ phase[q] \in Phases /\ computed[q] \in Nat /\ step[q] \in Nat
  /\ total[q] \in 1 .. MaxTokens
  /\ lookup_cache[q] \in 0 .. total[q] \cup {NotCached}
  /\ load_specs[q] \in LoadSpec \cup {None} /\ meta[q] \in ReqMeta \cup {None}
  /\ trackers[q] \in RequestTracker \cup {None}
  /\ gpu[q] \subseteq Keys /\ invalid[q] \subseteq Keys

\* What a step of a request relies on: its tracker has the tokens the step brings it to,
\* and no load is expected to bring more than the token after those vLLM takes for computed.
Stepping(q) ==
  /\ trackers[q] \in RequestTracker
  /\ step[q] >= 1 /\ computed[q] + step[q] <= total[q]
  /\ Len(trackers[q].tokens) = computed[q] + step[q]
  /\ Len(trackers[q].blocks) >= computed[q] + step[q]
  /\ invalid[q] \subseteq 1 .. computed[q] + step[q]

Expected(q) ==
  meta[q] # None /\ meta[q].load # None /\ meta[q].load.can_load
    => meta[q].load.lmcache <= computed[q] + 1

Matched(q) ==
  /\ load_specs[q] \in LoadSpec
  /\ load_specs[q].vllm + step[q] < total[q]
  /\ step[q] > 0 => load_specs[q].lmcache <= load_specs[q].vllm + step[q] + 1
  /\ load_specs[q].lmcache <= total[q]

Allocated(q) ==
  /\ load_specs[q] \in LoadSpec /\ computed[q] < total[q]
  /\ load_specs[q].can_load => load_specs[q].lmcache <= computed[q] + 1

RequestInv(q) ==
  /\ RequestTypes(q)
  /\ trackers[q] # None => Listed(trackers[q].tokens) /\ Listed(trackers[q].blocks)
  /\ phase[q] = "matched" => Matched(q)
  /\ phase[q] = "allocated" => Allocated(q)
  /\ phase[q] \in {"load", "forward", "save", "output"} => Stepping(q)
  /\ phase[q] = "load" => Expected(q)
  /\ phase[q] = "running" =>
       /\ trackers[q] \in RequestTracker /\ computed[q] <= total[q]
       /\ Len(trackers[q].tokens) >= computed[q] /\ Len(trackers[q].blocks) >= computed[q]
  /\ phase[q] \notin {"forward", "save", "output"} => invalid[q] = {}

StoreTypes == wrong \subseteq Keys

AdapterInv == EngineTypeOK /\ Tables /\ StoreTypes /\ \A q \in Requests : RequestInv(q)

\* Nothing about a request changes.
Same(q) ==
  /\ phase'[q] = phase[q] /\ computed'[q] = computed[q] /\ total'[q] = total[q]
  /\ step'[q] = step[q] /\ lookup_cache'[q] = lookup_cache[q]
  /\ load_specs'[q] = load_specs[q] /\ trackers'[q] = trackers[q] /\ meta'[q] = meta[q]
  /\ gpu'[q] = gpu[q] /\ invalid'[q] = invalid[q]

LEMMA SameKeeps ==
  ASSUME NEW q \in Requests, RequestInv(q), Same(q) PROVE RequestInv(q)'
BY DEF RequestInv, Same, RequestTypes, Stepping, Expected, Matched, Allocated

\* A step of one request leaves the others alone.
LEMMA OthersSame ==
  ASSUME Tables, NEW r \in Requests, Request(r)
  PROVE  Tables' /\ \A q \in Requests \ {r} : Same(q)
<1>. USE DEF Goes
<1>1. CASE \E c \in LocalHits : GetNumNewMatchedTokens(r, c)
  BY <1>1 DEF GetNumNewMatchedTokens, Tables, Same, vllmVars
<1>2. CASE NotScheduled(r)
  BY <1>2 DEF NotScheduled, Tables, Same, schedulerVars, vllmVars
<1>3. CASE UpdateStateAfterAlloc(r)
  BY <1>3 DEF UpdateStateAfterAlloc, Tables, Same
<1>4. CASE \E n \in 1 .. MaxTokens : BuildConnectorMeta(r, n)
  <2>1. PICK n \in 1 .. MaxTokens : BuildConnectorMeta(r, n)
    BY <1>4
  <2>. DEFINE Attached == /\ phase' = [phase EXCEPT ![r] = phase'[r]]
                          /\ meta' = [meta EXCEPT ![r] = meta'[r]]
                          /\ trackers' = [trackers EXCEPT ![r] = trackers'[r]]
                          /\ load_specs' = [load_specs EXCEPT ![r] = load_specs'[r]]
  <2>2. ASSUME NEW t, NEW load, Attach(r, t, load), phase' = [phase EXCEPT ![r] = "load"] PROVE Attached
    BY <2>2 DEF Attach, Tables
  <2>. HIDE DEF Attached
  <2>3. ASSUME BuildNew(r, n) PROVE Attached
    BY <2>2, <2>3 DEF BuildNew
  <2>4. ASSUME BuildResumed(r, n) PROVE Attached
    <3>1. CASE phase' = [phase EXCEPT ![r] = "crashed"] /\ UNCHANGED <<meta, trackers, load_specs>>
      BY <3>1 DEF Tables, Attached
    <3>. QED BY <2>2, <2>4, <3>1 DEF BuildResumed
  <2>5. ASSUME BuildRunning(r, n) PROVE Attached
    BY <2>2, <2>5 DEF BuildRunning
  <2>6. Attached
    BY <2>1, <2>3, <2>4, <2>5 DEF BuildConnectorMeta
  <2>7. /\ UNCHANGED <<computed, total, gpu, preemptions>>
        /\ lookup_cache' = lookup_cache /\ invalid' = invalid /\ step' = [step EXCEPT ![r] = n]
    BY <2>1 DEF BuildConnectorMeta, vllmVars
  <2>. QED BY <2>6, <2>7 DEF Tables, Same, Attached
<1>5. CASE StartLoadKv(r)
  BY <1>5 DEF StartLoadKv, Tables, Same, schedulerVars
<1>6. CASE Forward(r)
  BY <1>6 DEF Forward, Tables, Same, schedulerVars
<1>7. CASE WaitForSave(r)
  BY <1>7 DEF WaitForSave, Tables, Same, schedulerVars, vllmVars
<1>8. CASE UpdateFromOutput(r)
  BY <1>8 DEF UpdateFromOutput, Tables, Same, schedulerVars
<1>9. CASE Preempt(r)
  BY <1>9 DEF Preempt, Tables, Same, schedulerVars
<1>10. CASE RequestFinished(r)
  BY <1>10 DEF RequestFinished, Tables, Same, vllmVars
<1>. QED BY <1>1, <1>2, <1>3, <1>4, <1>5, <1>6, <1>7, <1>8, <1>9, <1>10 DEF Request, Worker
-----------------------------------------------------------------------------
(* The scheduler                                                           *)

\* A request is matched with what the lookup found, less the token it must compute.
LEMMA MatchKeeps ==
  ASSUME Tables, NEW r \in Requests, RequestInv(r), NEW c \in LocalHits,
         GetNumNewMatchedTokens(r, c)
  PROVE  RequestInv(r)'
<1>1. PICK hit \in 0 .. total[r] :
        /\ lookup_cache' = [lookup_cache EXCEPT ![r] = hit]
        /\ load_specs' = [load_specs EXCEPT ![r] = [vllm |-> c, lmcache |-> hit, can_load |-> FALSE]]
        /\ step' = [step EXCEPT ![r] = Needed(hit, c, total[r])]
  BY DEF GetNumNewMatchedTokens
<1>. DEFINE spec == [vllm |-> c, lmcache |-> hit, can_load |-> FALSE]
            need == Needed(hit, c, total[r])
<1>2. /\ phase[r] \in {"waiting", "preempted"} /\ c < total[r] /\ phase'[r] = "matched"
      /\ computed' = computed /\ total' = total /\ UNCHANGED gpu /\ trackers' = trackers
      /\ meta' = meta /\ invalid' = invalid
      /\ lookup_cache'[r] = hit /\ load_specs'[r] = spec /\ step'[r] = need
  BY <1>1 DEF GetNumNewMatchedTokens, Goes, Tables, vllmVars
<1>3. RequestTypes(r) /\ total[r] \in Nat /\ c \in Nat /\ hit \in Nat /\ hit <= total[r]
  BY DEF RequestInv, RequestTypes
<1>4. /\ need \in Nat /\ c + need < total[r] /\ (need > 0 => hit <= c + need + 1)
  BY <1>2, <1>3 DEF Needed
<1>5. spec \in LoadSpec /\ spec.vllm = c /\ spec.lmcache = hit
  BY <1>3 DEF LoadSpec
<1>. HIDE DEF spec, need
<1>6. Matched(r)'
  BY <1>2, <1>3, <1>4, <1>5 DEF Matched
<1>7. RequestTypes(r)'
  BY <1>2, <1>3, <1>4, <1>5 DEF RequestTypes, Phases
<1>. QED BY <1>2, <1>6, <1>7 DEF RequestInv

LEMMA AllocKeeps ==
  ASSUME Tables, NEW r \in Requests, RequestInv(r), UpdateStateAfterAlloc(r)
  PROVE  RequestInv(r)'
<1>1. /\ phase[r] = "matched" /\ phase'[r] = "allocated" /\ lookup_cache'[r] = NotCached
      /\ load_specs'[r] = [load_specs[r] EXCEPT !.can_load = step[r] > 0]
      /\ computed'[r] = load_specs[r].vllm + step[r] /\ gpu'[r] = 1 .. load_specs[r].vllm
      /\ total' = total /\ step' = step /\ trackers' = trackers /\ meta' = meta
      /\ invalid' = invalid
  BY DEF UpdateStateAfterAlloc, Goes, Tables
<1>2. /\ RequestTypes(r) /\ Matched(r) /\ load_specs[r] \in LoadSpec
      /\ step[r] \in Nat /\ total[r] \in 1 .. MaxTokens
  BY <1>1 DEF RequestInv, RequestTypes, Matched
<1>3. /\ load_specs'[r] \in LoadSpec /\ load_specs'[r].lmcache = load_specs[r].lmcache
      /\ load_specs'[r].can_load => step[r] > 0
      /\ load_specs[r].vllm \in Nat /\ load_specs[r].lmcache \in Nat
  <2>. DEFINE b == step[r] > 0
  <2>1. b \in BOOLEAN /\ load_specs'[r] = [load_specs[r] EXCEPT !.can_load = b]
    BY <1>1
  <2>. HIDE DEF b
  <2>2. /\ load_specs'[r] \in LoadSpec /\ load_specs'[r].lmcache = load_specs[r].lmcache
        /\ load_specs'[r].can_load = b
        /\ load_specs[r].vllm \in Nat /\ load_specs[r].lmcache \in Nat
    BY <1>2, <2>1 DEF LoadSpec
  <2>. QED BY <2>2 DEF b
<1>4. Allocated(r)'
  <2>1. computed'[r] < total'[r]
    BY <1>1, <1>2 DEF Matched
  <2>2. load_specs'[r].can_load => load_specs'[r].lmcache <= computed'[r] + 1
    BY <1>1, <1>2, <1>3 DEF Matched
  <2>. QED BY <1>3, <2>1, <2>2 DEF Allocated
<1>5. gpu'[r] \subseteq Keys /\ computed'[r] \in Nat
  BY <1>1, <1>2, <1>3, SMTT(20) DEF Matched, Keys
<1>6. RequestTypes(r)'
  BY <1>1, <1>2, <1>3, <1>5 DEF RequestTypes, Phases
<1>. QED BY <1>1, <1>4, <1>6 DEF RequestInv

\* The end of the last whole chunk of n tokens.
Floor(n) == (n \div ChunkSize) * ChunkSize

\* The metadata of a step has its load and all its tokens, or its whole chunks.
MetaOf(x, load, m) == x # None => x.load = load /\ x.tokens \in {Floor(m), m}

\* The metadata of a step, for a tracker that has the step's tokens.
LEMMA AttachKeeps ==
  ASSUME Tables, NEW r \in Requests, RequestInv(r), NEW t \in RequestTracker,
         NEW load \in LoadSpec \cup {None}, NEW n \in 1 .. total[r] - computed[r],
         Attach(r, t, load), Listed(t.tokens), Listed(t.blocks),
         Len(t.tokens) = computed[r] + n, Len(t.blocks) >= computed[r] + n,
         load # None /\ load.can_load => load.lmcache <= computed[r] + 1,
         phase'[r] = "load", step'[r] = n, invalid[r] = {},
         UNCHANGED <<computed, total, gpu, lookup_cache, invalid>>
  PROVE  /\ RequestInv(r)' /\ (load # None => meta'[r] # None)
         /\ MetaOf(meta'[r], load, computed[r] + n)
<1>1. /\ meta'[r] = Meta(t, load) /\ trackers'[r] = Saved(t) /\ load_specs'[r] = None
  BY DEF Attach, Tables
<1>2. RequestTypes(r) /\ computed[r] \in Nat /\ total[r] \in 1 .. MaxTokens
  BY DEF RequestInv, RequestTypes
<1>3. /\ t.tokens \in Seq(Keys) /\ t.blocks \in Seq(Keys) /\ t.saved \in Nat /\ t.decode \in BOOLEAN
      /\ Len(t.tokens) \in Nat
  BY DEF RequestTracker
<1>4. ToSave(t) \in Nat
  BY <1>3, WholeChunks DEF ToSave
<1>5. /\ Saved(t) \in RequestTracker /\ Saved(t).tokens = t.tokens /\ Saved(t).blocks = t.blocks
  BY <1>4 DEF Saved, RequestTracker
<1>6. Meta(t, load) \in ReqMeta \cup {None} /\ (load # None => Meta(t, load) # None)
  <2>1. SkipSave(t) \in BOOLEAN
    BY DEF SkipSave
  <2>. DEFINE m == [tokens |-> ToSave(t), load |-> load, skip |-> t.saved, can_save |-> ~SkipSave(t)]
  <2>2. m \in ReqMeta
    BY <1>3, <1>4, <2>1 DEF ReqMeta
  <2>3. m # None
    BY <2>2
  <2>4. Meta(t, load) = IF SkipSave(t) /\ load = None THEN None ELSE m
    BY DEF Meta
  <2>. HIDE DEF m
  <2>. QED BY <2>2, <2>3, <2>4
<1>7. Meta(t, load) # None => Meta(t, load).load = load
  BY DEF Meta
<1>8. Stepping(r)' /\ Expected(r)'
  BY <1>1, <1>2, <1>5, <1>7 DEF Stepping, Expected
<1>9. RequestTypes(r)'
  BY <1>1, <1>2, <1>5, <1>6 DEF RequestTypes, Phases
<1>10. MetaOf(meta'[r], load, computed[r] + n)
  <2>1. ToSave(t) \in {Floor(Len(t.tokens)), Len(t.tokens)}
    BY DEF ToSave, Floor
  <2>2. Meta(t, load) # None => Meta(t, load).tokens = ToSave(t)
    BY DEF Meta
  <2>. QED BY <1>1, <1>7, <2>1, <2>2 DEF MetaOf
<1>. QED BY <1>1, <1>5, <1>6, <1>8, <1>9, <1>10 DEF RequestInv

\* A list of the first positions is no longer than there are tokens.
LEMMA ListedBound ==
  ASSUME NEW s \in Seq(Keys), Listed(s) PROVE Len(s) \in 0 .. MaxTokens
<1>1. CASE Len(s) = 0
  BY <1>1
<1>2. CASE Len(s) > 0
  <2>1. s[Len(s)] \in Keys /\ Len(s) \in Nat
    BY <1>2
  <2>2. s[Len(s)] = Len(s)
    BY <1>2, <2>1 DEF Listed, First
  <2>. QED BY <2>1, <2>2 DEF Keys
<1>. QED BY <1>1, <1>2

LEMMA FirstListed == ASSUME NEW n \in Nat PROVE Listed(First(n))
BY FirstLen DEF Listed

\* A tracker that is rolled back has the request's tokens, and keeps its table.
LEMMA RollBack ==
  ASSUME NEW t \in RequestTracker, Listed(t.tokens), Listed(t.blocks), NEW c \in Nat
  PROVE  /\ RolledBack(t, c) \in RequestTracker /\ RolledBack(t, c).blocks = t.blocks
         /\ Listed(RolledBack(t, c).tokens)
         /\ c <= Len(t.tokens) /\ c <= Len(t.blocks) => RolledBack(t, c).tokens = First(c)
<1>1. /\ t.tokens \in Seq(Keys) /\ t.blocks \in Seq(Keys) /\ t.saved \in Nat
      /\ Len(t.tokens) \in 0 .. MaxTokens /\ Len(t.blocks) \in 0 .. MaxTokens
  BY ListedBound DEF RequestTracker
<1>2. CASE c >= Len(t.tokens)
  <2>1. RolledBack(t, c) = t
    BY <1>2 DEF RolledBack
  <2>. QED BY <1>1, <1>2, <2>1 DEF Listed
<1>3. CASE c < Len(t.tokens)
  <2>. DEFINE keep == IF Len(t.blocks) < c THEN Len(t.blocks) ELSE c
              kept == IF t.saved < keep THEN t.saved ELSE keep
  <2>1. keep \in 0 .. MaxTokens /\ kept \in Nat /\ (c <= Len(t.blocks) => keep = c)
    BY <1>1, <1>3
  <2>2. RolledBack(t, c) = [t EXCEPT !.tokens = First(keep), !.saved = kept]
    BY <1>1, <1>3 DEF RolledBack
  <2>. HIDE DEF keep, kept
  <2>3. First(keep) \in Seq(Keys) /\ Listed(First(keep))
    BY <2>1, FirstType, FirstListed
  <2>4. /\ RolledBack(t, c) \in RequestTracker /\ RolledBack(t, c).blocks = t.blocks
        /\ RolledBack(t, c).tokens = First(keep)
    BY <2>1, <2>2, <2>3 DEF RequestTracker
  <2>. QED BY <2>1, <2>3, <2>4
<1>. QED BY <1>1, <1>2, <1>3

\* A request that is scheduled for the first time.
LEMMA NewKeeps ==
  ASSUME Tables, NEW r \in Requests, RequestInv(r), NEW n \in 1 .. total[r] - computed[r],
         BuildNew(r, n), step'[r] = n, UNCHANGED <<computed, total, gpu, lookup_cache, invalid>>
  PROVE  /\ RequestInv(r)' /\ (phase'[r] = "load" => meta'[r] # None)
         /\ phase'[r] = "load" => MetaOf(meta'[r], load_specs[r], computed[r] + n)
<1>. DEFINE load == load_specs[r]
            t == Created(load, computed[r], n)
            m == computed[r] + n
<1>1. phase[r] = "allocated" /\ Attach(r, t, load) /\ phase'[r] = "load"
  BY DEF BuildNew, Goes, Tables
<1>2. /\ Allocated(r) /\ load \in LoadSpec /\ load.lmcache \in Nat /\ invalid[r] = {}
      /\ computed[r] \in Nat /\ total[r] \in 1 .. MaxTokens
  BY <1>1 DEF RequestInv, RequestTypes, Allocated, LoadSpec
<1>3. m \in 0 .. MaxTokens
  BY <1>2
<1>4. First(m) \in Seq(Keys) /\ Len(First(m)) = m /\ Listed(First(m))
  BY <1>3, FirstType, FirstListed
<1>5. t \in RequestTracker /\ t.tokens = First(m) /\ t.blocks = First(m)
  BY <1>2, <1>4 DEF Created, RequestTracker
<1>6. load.can_load => load.lmcache <= computed[r] + 1
  BY <1>2 DEF Allocated
<1>. HIDE DEF t, m, load
<1>7. /\ RequestInv(r)' /\ (load # None => meta'[r] # None)
      /\ MetaOf(meta'[r], load, computed[r] + n)
  BY <1>1, <1>2, <1>4, <1>5, <1>6, AttachKeeps, SMTT(30) DEF m
<1>. QED BY <1>2, <1>7 DEF load

\* One that was preempted: the assertion makes its tracker begin where vLLM does.
LEMMA ResumedKeeps ==
  ASSUME Tables, NEW r \in Requests, RequestInv(r), NEW n \in 1 .. total[r] - computed[r],
         BuildResumed(r, n), step'[r] = n, UNCHANGED <<computed, total, gpu, lookup_cache, invalid>>
  PROVE  /\ RequestInv(r)' /\ (phase'[r] = "load" => meta'[r] # None)
         /\ phase'[r] = "load" => MetaOf(meta'[r], load_specs[r], computed[r] + n)
<1>. DEFINE load == load_specs[r]
            old == RolledBack(trackers[r], computed[r])
            m == computed[r] + n
            t == Resumed(old, load, n, First(m))
<1>1. /\ phase[r] = "allocated" /\ trackers[r] # None
      /\ \/ phase'[r] = "crashed" /\ UNCHANGED <<meta, trackers, load_specs>>
         \/ /\ computed[r] = Max({load.lmcache, load.vllm}) /\ Attach(r, t, load)
            /\ phase'[r] = "load"
  BY DEF BuildResumed, Goes, Tables
<1>2. /\ Allocated(r) /\ load \in LoadSpec /\ load.lmcache \in Nat /\ load.vllm \in Nat
      /\ invalid[r] = {} /\ computed[r] \in Nat /\ total[r] \in 1 .. MaxTokens
      /\ trackers[r] \in RequestTracker /\ RequestTypes(r)
      /\ Listed(trackers[r].tokens) /\ Listed(trackers[r].blocks)
  BY <1>1 DEF RequestInv, RequestTypes, Allocated, LoadSpec
<1>3. CASE phase'[r] = "crashed" /\ UNCHANGED <<meta, trackers, load_specs>>
  <2>1. RequestTypes(r)'
    BY <1>2, <1>3 DEF RequestTypes, Phases
  <2>. QED BY <1>2, <1>3, <2>1 DEF RequestInv
<1>4. CASE computed[r] = Max({load.lmcache, load.vllm}) /\ Attach(r, t, load) /\ phase'[r] = "load"
  <2>1. m \in 0 .. MaxTokens
    BY <1>2
  <2>2. First(m) \in Seq(Keys) /\ Len(First(m)) = m /\ Listed(First(m))
    BY <2>1, FirstType, FirstListed
  <2>3. old \in RequestTracker
    BY <1>2, RollBack
  <2>. DEFINE b == old.decode \/ n = 1
              have == IF load.lmcache > load.vllm THEN load.lmcache ELSE load.vllm
  <2>4. have = computed[r]
    BY <1>2, <1>4, TwoMax
  <2>5. b \in BOOLEAN
    BY <2>3 DEF RequestTracker
  <2>6. t = [old EXCEPT !.tokens = First(m), !.blocks = First(m), !.saved = load.lmcache, !.decode = b]
    BY <2>4 DEF Resumed
  <2>. HIDE DEF b, old, m, have, t
  <2>7. t \in RequestTracker /\ t.tokens = First(m) /\ t.blocks = First(m)
    BY <1>2, <2>2, <2>3, <2>5, <2>6 DEF RequestTracker
  <2>8. load.can_load => load.lmcache <= computed[r] + 1
    BY <1>2 DEF Allocated
  <2>9. load # None
    BY <1>2
  <2>. HIDE DEF load
  <2>10. RequestInv(r)' /\ meta'[r] # None /\ MetaOf(meta'[r], load, computed[r] + n)
    BY <1>2, <1>4, <2>2, <2>7, <2>8, <2>9, AttachKeeps, SMTT(30) DEF m
  <2>. QED BY <2>10 DEF load
<1>. QED BY <1>1, <1>3, <1>4

\* One that goes on, perhaps rolled back, with its table in either form.
LEMMA RunningKeeps ==
  ASSUME Tables, NEW r \in Requests, RequestInv(r), NEW n \in 1 .. total[r] - computed[r],
         BuildRunning(r, n), step'[r] = n, UNCHANGED <<computed, total, gpu, lookup_cache, invalid>>
  PROVE  RequestInv(r)' /\ MetaOf(meta'[r], None, computed[r] + n)
<1>. DEFINE c == computed[r]
            old == RolledBack(trackers[r], c)
            have == Len(old.blocks)
            want == c + n
            d == IF want > have THEN want - have ELSE 0
<1>1. /\ phase[r] = "running" /\ phase'[r] = "load"
      /\ \E s \in {After(have, d), First(have) \o After(have, d)} :
           Attach(r, Continued(old, c, n, s), None)
  BY DEF BuildRunning, Goes, Tables, After
<1>2. /\ invalid[r] = {} /\ c \in Nat /\ total[r] \in 1 .. MaxTokens
      /\ trackers[r] \in RequestTracker /\ trackers[r] # None
      /\ Listed(trackers[r].tokens) /\ Listed(trackers[r].blocks)
      /\ c <= Len(trackers[r].tokens) /\ c <= Len(trackers[r].blocks)
  BY <1>1 DEF RequestInv, RequestTypes
<1>3. PICK s \in {After(have, d), First(have) \o After(have, d)} :
        Attach(r, Continued(old, c, n, s), None)
  BY <1>1
<1>. DEFINE t == Continued(old, c, n, s)
            b == old.decode \/ n = 1
<1>4. old \in RequestTracker /\ old.tokens = First(c) /\ old.blocks = trackers[r].blocks
  BY <1>2, RollBack
<1>5. old.blocks \in Seq(Keys) /\ old.blocks = First(have) /\ have \in 0 .. MaxTokens /\ b \in BOOLEAN
  BY <1>2, <1>4, ListedBound DEF Listed, RequestTracker
<1>6. /\ n \in Nat /\ d \in Nat /\ have \in Nat /\ have + d \in 0 .. MaxTokens
      /\ have + d >= want /\ want \in 0 .. MaxTokens
  <2>1. n \in Nat /\ c + n <= total[r] /\ c + n \in 0 .. MaxTokens
    BY <1>2, SMTT(30)
  <2>. HIDE DEF have, c, old
  <2>. QED BY <1>2, <1>5, <2>1
<1>7. t = [old EXCEPT !.tokens = old.tokens \o After(c, n), !.blocks = Table(old.blocks, s), !.decode = b]
  BY DEF Continued, After
<1>. HIDE DEF t, b, d, old, have, want, c
<1>8. old.tokens \o After(c, n) = First(want)
  BY <1>2, <1>4, <1>6, FirstAfter DEF want
<1>9. Table(old.blocks, s) = First(have + d)
  BY <1>5, <1>6, TableGrows
<1>10. /\ First(want) \in Seq(Keys) /\ Len(First(want)) = want /\ Listed(First(want))
       /\ First(have + d) \in Seq(Keys) /\ Len(First(have + d)) = have + d
       /\ Listed(First(have + d))
  BY <1>6, FirstType, FirstListed
<1>11. t \in RequestTracker /\ t.tokens = First(want) /\ t.blocks = First(have + d)
  BY <1>4, <1>5, <1>7, <1>8, <1>9, <1>10 DEF RequestTracker
<1>. QED BY <1>1, <1>2, <1>3, <1>6, <1>10, <1>11, AttachKeeps DEF want, t, c

LEMMA BuildKeeps ==
  ASSUME Tables, NEW r \in Requests, RequestInv(r), NEW n \in 1 .. MaxTokens,
         BuildConnectorMeta(r, n)
  PROVE  /\ RequestInv(r)'
         /\ phase[r] = "allocated" /\ phase'[r] = "load" =>
              meta'[r] # None /\ MetaOf(meta'[r], load_specs[r], computed[r] + n)
         /\ phase[r] = "running" => MetaOf(meta'[r], None, computed[r] + n)
<1>1. /\ n \in 1 .. total[r] - computed[r] /\ step'[r] = n
      /\ UNCHANGED <<computed, total, gpu, lookup_cache, invalid>>
  BY DEF BuildConnectorMeta, Tables, vllmVars
<1>2. CASE BuildNew(r, n)
  BY <1>1, <1>2, NewKeeps DEF BuildNew
<1>3. CASE BuildResumed(r, n)
  BY <1>1, <1>3, ResumedKeeps DEF BuildResumed
<1>4. CASE BuildRunning(r, n)
  BY <1>1, <1>4, RunningKeeps DEF BuildRunning
<1>. QED BY <1>2, <1>3, <1>4 DEF BuildConnectorMeta

\* A request that is not scheduled, is preempted or is over expects nothing.
LEMMA WaitingKeeps ==
  ASSUME Tables, NEW r \in Requests, RequestInv(r),
         NotScheduled(r) \/ Preempt(r) \/ RequestFinished(r)
  PROVE  RequestInv(r)'
<1>1. CASE NotScheduled(r)
  <2>1. /\ phase[r] = "matched" /\ phase'[r] \in {"waiting", "preempted"}
        /\ computed' = computed /\ total' = total /\ step' = step /\ lookup_cache' = lookup_cache
        /\ load_specs' = load_specs /\ trackers' = trackers /\ meta' = meta
        /\ UNCHANGED <<gpu, invalid>>
    BY <1>1 DEF NotScheduled, Goes, Tables, schedulerVars, vllmVars
  <2>. QED BY <2>1 DEF RequestInv, RequestTypes, Phases
<1>2. CASE Preempt(r)
  <2>1. /\ phase[r] = "running" /\ phase'[r] = "preempted"
        /\ computed'[r] = 0 /\ gpu'[r] = {} /\ total' = total /\ step' = step
        /\ lookup_cache' = lookup_cache /\ load_specs' = load_specs /\ trackers' = trackers
        /\ meta' = meta /\ invalid' = invalid
    BY <1>2 DEF Preempt, Goes, Tables, schedulerVars
  <2>. QED BY <2>1 DEF RequestInv, RequestTypes, Phases
<1>3. CASE RequestFinished(r)
  <2>1. /\ phase[r] \notin {"forward", "save", "output"} /\ phase'[r] = "finished"
        /\ trackers'[r] = None /\ UNCHANGED <<computed, gpu, total>>
        /\ step' = step /\ lookup_cache' = lookup_cache /\ load_specs' = load_specs
        /\ meta' = meta /\ invalid' = invalid
    BY <1>3 DEF RequestFinished, Goes, Tables, vllmVars
  <2>. QED BY <2>1 DEF RequestInv, RequestTypes, Phases
<1>. QED BY <1>1, <1>2, <1>3
-----------------------------------------------------------------------------
(* The engine                                                              *)

Mappings == [Places -> SUBSET Keys]

\* The chunks of tokens there can be are keys, and the tokens of a key are too.
LEMMA ChunksAreKeys ==
  ASSUME NEW n \in 0 .. MaxTokens, NEW skip PROVE Chunks(n, skip) \subseteq Keys
BY DEF Chunks, Keys

LEMMA TokensAreKeys == ASSUME NEW k \in Keys PROVE TokensOf(k) \subseteq Keys
<1>1. k \in Nat /\ k - 1 \in Nat /\ k <= MaxTokens
  BY DEF Keys
<1>2. Start(k) \in Nat
  BY <1>1, WholeChunks DEF Start
<1>. QED BY <1>1, <1>2 DEF TokensOf, Keys

LEMMA BlockMappingsType ==
  ASSUME NEW K, K \subseteq Keys PROVE BlockMappings(K) \subseteq Mappings
BY DEF BlockMappings, Mappings

LEMMA FoundType ==
  ASSUME NEW n \in 0 .. MaxTokens PROVE Found(n) \subseteq Mappings
<1>1. NoPins \in Mappings
  BY DEF NoPins, Mappings
<1>. QED BY <1>1, ChunksAreKeys, BlockMappingsType DEF Found

LEMMA RetrieveMappingsType ==
  ASSUME NEW r, NEW K, K \subseteq Keys PROVE RetrieveMappings(r, K) \subseteq Mappings
<1>. DEFINE pinned == {l \in Places : lookup_pins[r][l] # {}}
<1>1. [l \in Places |-> IF l \in pinned THEN K ELSE {}] \in Mappings
  BY DEF Mappings
<1>. QED BY <1>1, BlockMappingsType DEF RetrieveMappings

\* Lookup, unpin, retrieve and store keep the engine's types.
LEMMA LookupType ==
  ASSUME EngineTypeOK, NEW r \in Requests, NEW mapping \in Mappings, Lookup(r, mapping)
  PROVE  pins' \in [Places -> [Keys -> Nat]] /\ lookup_pins' \in [Requests -> [Places -> SUBSET Keys]]
<1>1. pins \in [Places -> [Keys -> Nat]] /\ lookup_pins \in [Requests -> [Places -> SUBSET Keys]]
  BY DEF EngineTypeOK
<1>2. CASE UNCHANGED <<pins, lookup_pins>>
  BY <1>1, <1>2
<1>3. CASE /\ pins' = [l \in Places |->
                         [k \in Keys |-> IF k \in mapping[l] THEN pins[l][k] + 1 ELSE pins[l][k]]]
           /\ lookup_pins' = [lookup_pins EXCEPT ![r] = mapping]
  <2>1. \A l \in Places, k \in Keys : pins[l][k] \in Nat
    BY <1>1
  <2>2. pins' \in [Places -> [Keys -> Nat]]
    BY <1>3, <2>1
  <2>. QED BY <1>1, <1>3, <2>2 DEF Mappings
<1>. QED BY <1>2, <1>3 DEF Lookup

LEMMA UnpinType ==
  ASSUME EngineTypeOK, NEW r \in Requests, Unpin(r)
  PROVE  pins' \in [Places -> [Keys -> Nat]] /\ lookup_pins' \in [Requests -> [Places -> SUBSET Keys]]
<1>1. \A l \in Places, k \in Keys : pins[l][k] \in Nat
  BY DEF EngineTypeOK
<1>2. pins' \in [Places -> [Keys -> Nat]]
  BY <1>1 DEF Unpin
<1>3. lookup_pins' \in [Requests -> [Places -> SUBSET Keys]]
  BY DEF Unpin, NoPins, EngineTypeOK
<1>. QED BY <1>2, <1>3

LEMMA TransferType ==
  ASSUME NEW mapping \in Mappings, NEW t \in Transfers(mapping)
  PROVE  /\ AllOf(mapping) \subseteq Keys
         /\ t.direct \subseteq Keys /\ Staged(mapping, t) \subseteq Keys
         /\ Copied(mapping, t) \subseteq Keys
<1>1. AllOf(mapping) \subseteq Keys
  BY DEF AllOf, Mappings
<1>2. t.direct \subseteq Keys
  BY <1>1 DEF Transfers
<1>3. Staged(mapping, t) \subseteq Keys
  BY DEF Staged, BeforeFailure, Mappings
<1>4. Copied(mapping, t) \subseteq Keys
  BY <1>2, <1>3, TokensAreKeys DEF Copied, Reordered
<1>. QED BY <1>1, <1>2, <1>3, <1>4

LEMMA RetrieveType ==
  ASSUME EngineTypeOK, NEW mapping \in Mappings, NEW t, Retrieve(mapping, t)
  PROVE  refs' \in [Keys -> Nat] /\ stored' \in [Places -> SUBSET Keys]
<1>1. refs' \in [Keys -> Nat]
  BY DEF Retrieve, EngineTypeOK
<1>2. stored' \in [Places -> SUBSET Keys]
  <2>1. ASSUME NEW l \in Places
        PROVE  UNION {mapping[m] \ t.direct : m \in Places \ (Failed(mapping, t) \cup {l})} \subseteq Keys
    BY DEF Mappings
  <2>2. \A l \in Places : stored[l] \subseteq Keys
    BY DEF EngineTypeOK
  <2>. QED BY <2>1, <2>2 DEF Retrieve
<1>. QED BY <1>1, <1>2

LEMMA StoreType ==
  ASSUME EngineTypeOK, NEW K, K \subseteq Keys, Store(K) PROVE stored' \in [Places -> SUBSET Keys]
BY DEF Store, EngineTypeOK

LEMMA EngineKeeps == ASSUME EngineTypeOK, Engine PROVE EngineTypeOK'
<1>1. CASE \E n \in 1 .. MaxTokens : Clear(n)
  BY <1>1 DEF Clear, EngineTypeOK
<1>2. CASE \E l \in Places, k \in Keys : Evict(l, k)
  BY <1>2 DEF Evict, EngineTypeOK
<1>3. CASE \E m \in {"normal", "frozen", "unhealthy"} : SetMode(m)
  BY <1>3 DEF SetMode, EngineTypeOK
<1>. QED BY <1>1, <1>2, <1>3 DEF Engine
-----------------------------------------------------------------------------
(* The worker, and vLLM                                                    *)

\* A load reports blocks of the step's own tokens, and brings keys.
LEMMA LoadKeeps ==
  ASSUME AdapterInv, NEW r \in Requests, StartLoadKv(r)
  PROVE  EngineTypeOK' /\ RequestInv(r)'
<1>1. /\ Tables /\ EngineTypeOK /\ RequestInv(r) /\ phase[r] = "load" /\ phase'[r] = "forward"
      /\ UNCHANGED <<pins, lookup_pins, mode, computed, total, schedulerVars, step, meta>>
  BY DEF AdapterInv, StartLoadKv, Goes, Tables
<1>2. /\ RequestTypes(r) /\ Stepping(r) /\ Expected(r) /\ invalid[r] = {}
      /\ computed[r] \in Nat /\ step[r] \in Nat /\ total[r] \in 1 .. MaxTokens
  BY <1>1 DEF RequestInv, RequestTypes
<1>3. /\ stored' \in [Places -> SUBSET Keys] /\ refs' \in [Keys -> Nat]
      /\ gpu'[r] \subseteq Keys
      /\ invalid'[r] \subseteq 1 .. computed[r] + step[r]
  <2>1. CASE UNCHANGED <<stored, refs, gpu, invalid>>
    BY <1>1, <1>2, <2>1 DEF EngineTypeOK, RequestTypes
  <2>2. CASE meta[r] # None /\ meta[r].load # None /\ meta[r].load.can_load
    <3>. DEFINE load == meta[r].load
                n == Min({meta[r].tokens, load.lmcache})
                masked == (load.vllm \div ChunkSize) * ChunkSize
    <3>1. /\ load \in LoadSpec /\ meta[r].tokens \in Nat /\ load.lmcache \in Nat
          /\ load.vllm \in Nat
      BY <1>2, <2>2 DEF RequestTypes, ReqMeta, LoadSpec
    <3>2. n \in Nat /\ n <= computed[r] + 1 /\ masked \in Nat
      BY <1>2, <2>2, <3>1, TwoMin, WholeChunks DEF Expected
    <3>3. n <= computed[r] + step[r] /\ n \in 0 .. MaxTokens
      BY <1>2, <3>2 DEF Stepping
    <3>. HIDE DEF n, masked
    <3>4. \A mask : FailedBlocks(masked, n, mask) \subseteq 1 .. computed[r] + step[r]
      BY <1>2, <3>2, <3>3 DEF FailedBlocks
    <3>5. CASE /\ invalid' = [invalid EXCEPT ![r] = FailedBlocks(masked, n, {})]
               /\ UNCHANGED <<stored, refs, gpu>>
      <4>1. invalid'[r] = FailedBlocks(masked, n, {})
        BY <1>1, <3>5 DEF Tables
      <4>. QED BY <1>1, <1>2, <3>4, <3>5, <4>1 DEF EngineTypeOK, RequestTypes
    <3>6. ASSUME NEW mapping \in RetrieveMappings(r, Chunks(n, masked)),
                 NEW t \in Transfers(mapping), Retrieve(mapping, t),
                 gpu' = [gpu EXCEPT ![r] = @ \cup Copied(mapping, t)],
                 invalid' = [invalid EXCEPT ![r] =
                   IF Cardinality(RetMask(mapping, t)) < load.lmcache - load.vllm
                     THEN FailedBlocks(masked, n, RetMask(mapping, t)) ELSE {}]
          PROVE  /\ stored' \in [Places -> SUBSET Keys] /\ refs' \in [Keys -> Nat]
                 /\ gpu'[r] \subseteq Keys
                 /\ invalid'[r] \subseteq 1 .. computed[r] + step[r]
      <4>1. mapping \in Mappings
        BY <3>3, <3>6, ChunksAreKeys, RetrieveMappingsType
      <4>2. stored' \in [Places -> SUBSET Keys] /\ refs' \in [Keys -> Nat]
        BY <1>1, <3>6, <4>1, RetrieveType
      <4>3. gpu'[r] \subseteq Keys
        <5>1. gpu'[r] = gpu[r] \cup Copied(mapping, t)
          BY <1>1, <3>6 DEF Tables
        <5>. QED BY <1>2, <4>1, <5>1, TransferType DEF RequestTypes
      <4>4. invalid'[r] \in {FailedBlocks(masked, n, RetMask(mapping, t)), {}}
        BY <1>1, <3>6 DEF Tables
      <4>. QED BY <3>4, <4>2, <4>3, <4>4
    <3>7. \/ /\ invalid' = [invalid EXCEPT ![r] = FailedBlocks(masked, n, {})]
             /\ UNCHANGED <<stored, refs, gpu>>
          \/ \E mapping \in RetrieveMappings(r, Chunks(n, masked)) : \E t \in Transfers(mapping) :
               /\ Retrieve(mapping, t)
               /\ gpu' = [gpu EXCEPT ![r] = @ \cup Copied(mapping, t)]
               /\ invalid' = [invalid EXCEPT ![r] =
                    IF Cardinality(RetMask(mapping, t)) < load.lmcache - load.vllm
                      THEN FailedBlocks(masked, n, RetMask(mapping, t)) ELSE {}]
      BY <2>2 DEF StartLoadKv, n, masked
    <3>. QED BY <3>5, <3>6, <3>7
  <2>. QED BY <2>1, <2>2 DEF StartLoadKv
<1>4. EngineTypeOK'
  BY <1>1, <1>3 DEF EngineTypeOK
<1>5. invalid'[r] \subseteq Keys
  BY <1>2, <1>3 DEF Stepping, Keys
<1>6. RequestTypes(r)'
  BY <1>1, <1>2, <1>3, <1>5 DEF RequestTypes, Phases, schedulerVars
<1>7. Stepping(r)'
  BY <1>1, <1>2, <1>3 DEF Stepping, schedulerVars
<1>8. trackers'[r] # None => Listed(trackers'[r].tokens) /\ Listed(trackers'[r].blocks)
  BY <1>1 DEF RequestInv, schedulerVars
<1>. QED BY <1>1, <1>4, <1>6, <1>7, <1>8 DEF RequestInv

LEMMA ForwardKeeps ==
  ASSUME AdapterInv, NEW r \in Requests, Forward(r) PROVE EngineTypeOK' /\ RequestInv(r)'
<1>1. /\ Tables /\ EngineTypeOK /\ RequestInv(r) /\ phase[r] = "forward" /\ phase'[r] = "save"
      /\ UNCHANGED <<engineVars, computed, total, schedulerVars, step, meta, invalid>>
      /\ gpu'[r] \subseteq gpu[r] \cup computed[r] + 1 .. computed[r] + step[r]
  BY DEF AdapterInv, Forward, Goes, Tables
<1>2. RequestTypes(r) /\ Stepping(r)
  BY <1>1 DEF RequestInv
<1>3. computed[r] + 1 .. computed[r] + step[r] \subseteq Keys
  BY <1>2 DEF RequestTypes, Stepping, Keys
<1>4. RequestTypes(r)'
  BY <1>1, <1>2, <1>3 DEF RequestTypes, Phases, schedulerVars
<1>5. Stepping(r)'
  BY <1>1, <1>2 DEF Stepping, schedulerVars
<1>6. EngineTypeOK'
  BY <1>1 DEF EngineTypeOK, engineVars
<1>. QED BY <1>1, <1>4, <1>5, <1>6 DEF RequestInv, schedulerVars

\* Only chunks of tokens whose blocks are known are stored.
LEMMA SaveKeeps ==
  ASSUME AdapterInv, NEW r \in Requests, WaitForSave(r)
  PROVE  EngineTypeOK' /\ StoreTypes' /\ RequestInv(r)'
<1>1. /\ Tables /\ EngineTypeOK /\ RequestInv(r) /\ phase[r] = "save" /\ phase'[r] = "output"
      /\ UNCHANGED <<refs, mode, vllmVars, schedulerVars, step, meta, invalid>>
      /\ StoreTypes
  BY DEF AdapterInv, WaitForSave, Goes, Tables
<1>2. RequestTypes(r) /\ Stepping(r)
  BY <1>1 DEF RequestInv
<1>3. pins' \in [Places -> [Keys -> Nat]] /\ lookup_pins' \in [Requests -> [Places -> SUBSET Keys]]
  <2>1. CASE UNCHANGED <<pins, lookup_pins>>
    BY <1>1, <2>1 DEF EngineTypeOK
  <2>2. CASE Unpin(r)
    BY <1>1, <2>2, UnpinType
  <2>. QED BY <2>1, <2>2 DEF WaitForSave
<1>4. stored' \in [Places -> SUBSET Keys] /\ StoreTypes'
  <2>1. CASE UNCHANGED <<stored, wrong>>
    BY <1>1, <2>1 DEF EngineTypeOK, StoreTypes
  <2>2. CASE meta[r] # None /\ ~(Len(trackers[r].blocks) < meta[r].tokens) /\ ~UNCHANGED <<stored, wrong>>
    <3>. DEFINE K == Chunks(meta[r].tokens, (meta[r].skip \div ChunkSize) * ChunkSize)
    <3>1. Store(K) /\ wrong' \subseteq wrong \cup K
      BY <2>2 DEF WaitForSave
    <3>2. meta[r].tokens \in Nat /\ trackers[r].blocks \in Seq(Keys) /\ Listed(trackers[r].blocks)
      BY <1>1, <1>2, <2>2 DEF RequestTypes, ReqMeta, Stepping, RequestTracker, RequestInv
    <3>3. meta[r].tokens \in 0 .. MaxTokens
      BY <2>2, <3>2, ListedBound
    <3>4. K \subseteq Keys
      BY <3>3, ChunksAreKeys
    <3>5. stored' \in [Places -> SUBSET Keys]
      BY <1>1, <3>1, <3>4, StoreType
    <3>. QED BY <1>1, <3>1, <3>4, <3>5 DEF StoreTypes
  <2>. QED BY <2>1, <2>2 DEF WaitForSave
<1>5. EngineTypeOK'
  BY <1>1, <1>3, <1>4 DEF EngineTypeOK
<1>6. RequestTypes(r)'
  BY <1>1, <1>2 DEF RequestTypes, Phases, schedulerVars, vllmVars
<1>7. Stepping(r)'
  BY <1>1, <1>2 DEF Stepping, schedulerVars, vllmVars
<1>. QED BY <1>1, <1>4, <1>5, <1>6, <1>7 DEF RequestInv, schedulerVars, vllmVars

\* vLLM goes on from where the tracker is, or from before it.
LEMMA OutputKeeps ==
  ASSUME AdapterInv, NEW r \in Requests, UpdateFromOutput(r) PROVE EngineTypeOK' /\ RequestInv(r)'
<1>1. /\ Tables /\ EngineTypeOK /\ RequestInv(r) /\ phase[r] = "output"
      /\ UNCHANGED <<engineVars, schedulerVars>>
      /\ invalid'[r] = {} /\ meta'[r] = None /\ step'[r] = 0
  BY DEF AdapterInv, UpdateFromOutput, Tables
<1>2. /\ RequestTypes(r) /\ Stepping(r) /\ computed[r] \in Nat /\ step[r] \in Nat
      /\ total[r] \in 1 .. MaxTokens
  BY <1>1 DEF RequestInv, RequestTypes
<1>3. PICK done \in 0 .. total[r] :
        /\ IF invalid[r] = {} THEN done = computed[r] + step[r]
           ELSE done + 1 \in invalid[r] /\ \A q \in invalid[r] : done < q
        /\ computed' = [computed EXCEPT ![r] = done]
        /\ gpu' = [gpu EXCEPT ![r] = @ \cap 1 .. done]
        /\ IF done < total[r]
             THEN Goes(r, "running") /\ UNCHANGED total
             ELSE IF total[r] < MaxTokens
                    THEN Goes(r, "running") /\ total' = [total EXCEPT ![r] = @ + 1]
                    ELSE Goes(r, "finished") /\ UNCHANGED total
  BY DEF UpdateFromOutput
<1>4. /\ computed'[r] = done /\ gpu'[r] = gpu[r] \cap 1 .. done
      /\ phase'[r] \in {"running", "finished"}
      /\ total'[r] \in 1 .. MaxTokens /\ total[r] <= total'[r]
  BY <1>1, <1>2, <1>3 DEF Tables, Goes
<1>5. done \in Nat /\ done <= computed[r] + step[r] /\ done <= total'[r]
  <2>1. invalid[r] \subseteq 1 .. computed[r] + step[r]
    BY <1>2 DEF Stepping
  <2>2. done = computed[r] + step[r] \/ done + 1 \in invalid[r]
    BY <1>3
  <2>. QED BY <1>2, <1>4, <2>1, <2>2
<1>6. RequestTypes(r)'
  BY <1>1, <1>2, <1>4, <1>5 DEF RequestTypes, Phases, schedulerVars
<1>7. /\ trackers'[r] \in RequestTracker /\ computed'[r] <= total'[r]
      /\ Len(trackers'[r].tokens) >= computed'[r] /\ Len(trackers'[r].blocks) >= computed'[r]
  <2>1. trackers'[r] = trackers[r]
    BY <1>1 DEF schedulerVars
  <2>2. Len(trackers[r].tokens) \in Nat /\ Len(trackers[r].blocks) \in Nat
    BY <1>2 DEF Stepping, RequestTracker
  <2>. QED BY <1>2, <1>4, <1>5, <2>1, <2>2, SMTT(30) DEF Stepping
<1>8. EngineTypeOK'
  BY <1>1 DEF EngineTypeOK, engineVars
<1>. QED BY <1>1, <1>4, <1>6, <1>7, <1>8 DEF RequestInv, schedulerVars
-----------------------------------------------------------------------------
LEMMA AdapterInit == Init => AdapterInv
<1>. SUFFICES ASSUME Init PROVE AdapterInv
  OBVIOUS
<1>1. Chunks(MaxTokens, 0) \subseteq Keys
  BY ChunksAreKeys
<1>2. EngineTypeOK
  BY <1>1 DEF Init, EngineInit, EngineTypeOK, NoPins
<1>3. Tables /\ StoreTypes
  BY DEF Init, Tables, StoreTypes
<1>4. ASSUME NEW q \in Requests PROVE RequestInv(q)
  <2>1. /\ phase[q] = "waiting" /\ computed[q] = 0 /\ total[q] = PromptLen /\ step[q] = 0
        /\ lookup_cache[q] = NotCached /\ load_specs[q] = None /\ trackers[q] = None
        /\ meta[q] = None /\ gpu[q] = {} /\ invalid[q] = {}
    BY DEF Init
  <2>2. RequestTypes(q)
    BY <2>1 DEF RequestTypes, Phases
  <2>. QED BY <2>1, <2>2 DEF RequestInv
<1>. QED BY <1>2, <1>3, <1>4 DEF AdapterInv

LEMMA SchedulerEngine ==
  ASSUME AdapterInv, NEW r \in Requests,
         \/ \E c \in LocalHits : GetNumNewMatchedTokens(r, c)
         \/ NotScheduled(r) \/ UpdateStateAfterAlloc(r)
         \/ \E n \in 1 .. MaxTokens : BuildConnectorMeta(r, n)
         \/ Preempt(r) \/ RequestFinished(r)
  PROVE  EngineTypeOK' /\ StoreTypes'
<1>0. EngineTypeOK /\ StoreTypes /\ RequestInv(r)
  BY DEF AdapterInv
<1>1. CASE \E c \in LocalHits : GetNumNewMatchedTokens(r, c)
  <2>1. UNCHANGED <<stored, refs, mode, wrong>>
    BY <1>1 DEF GetNumNewMatchedTokens
  <2>2. \/ UNCHANGED <<pins, lookup_pins>>
        \/ \E mapping \in Found(total[r]) : Lookup(r, mapping)
    BY <1>1 DEF GetNumNewMatchedTokens
  <2>3. total[r] \in 0 .. MaxTokens
    BY <1>0 DEF RequestInv, RequestTypes
  <2>4. pins' \in [Places -> [Keys -> Nat]] /\ lookup_pins' \in [Requests -> [Places -> SUBSET Keys]]
    BY <1>0, <2>2, <2>3, FoundType, LookupType DEF EngineTypeOK
  <2>. QED BY <1>0, <2>1, <2>4 DEF EngineTypeOK, StoreTypes
<1>2. CASE UNCHANGED <<engineVars, wrong>>
  BY <1>0, <1>2 DEF EngineTypeOK, engineVars, StoreTypes
<1>. QED BY <1>1, <1>2 DEF NotScheduled, UpdateStateAfterAlloc, BuildConnectorMeta, Preempt,
                           RequestFinished

LEMMA AdapterStep == AdapterInv /\ [Next]_vars => AdapterInv'
<1>. SUFFICES ASSUME AdapterInv, [Next]_vars PROVE AdapterInv'
  OBVIOUS
<1>0. EngineTypeOK /\ Tables /\ StoreTypes /\ \A q \in Requests : RequestInv(q)
  BY DEF AdapterInv
<1>1. ASSUME NEW r \in Requests, Request(r) PROVE AdapterInv'
  <2>1. Tables' /\ \A q \in Requests \ {r} : RequestInv(q)'
    BY <1>0, <1>1, OthersSame, SameKeeps
  <2>2. EngineTypeOK' /\ StoreTypes' /\ RequestInv(r)'
    <3>1. CASE \E c \in LocalHits : GetNumNewMatchedTokens(r, c)
      BY <1>0, <3>1, MatchKeeps, SchedulerEngine
    <3>2. CASE NotScheduled(r) \/ Preempt(r) \/ RequestFinished(r)
      BY <1>0, <3>2, WaitingKeeps, SchedulerEngine
    <3>3. CASE UpdateStateAfterAlloc(r)
      BY <1>0, <3>3, AllocKeeps, SchedulerEngine
    <3>4. CASE \E n \in 1 .. MaxTokens : BuildConnectorMeta(r, n)
      BY <1>0, <3>4, BuildKeeps, SchedulerEngine
    <3>5. CASE StartLoadKv(r)
      <4>1. UNCHANGED wrong
        BY <3>5 DEF StartLoadKv
      <4>. QED BY <1>0, <3>5, <4>1, LoadKeeps DEF StoreTypes
    <3>6. CASE Forward(r)
      <4>1. UNCHANGED wrong
        BY <3>6 DEF Forward
      <4>. QED BY <1>0, <3>6, <4>1, ForwardKeeps DEF StoreTypes
    <3>7. CASE WaitForSave(r)
      BY <3>7, SaveKeeps
    <3>8. CASE UpdateFromOutput(r)
      <4>1. UNCHANGED wrong
        BY <3>8 DEF UpdateFromOutput
      <4>. QED BY <1>0, <3>8, <4>1, OutputKeeps DEF StoreTypes
    <3>. QED BY <1>1, <3>1, <3>2, <3>3, <3>4, <3>5, <3>6, <3>7, <3>8 DEF Request, Worker
  <2>. QED BY <2>1, <2>2 DEF AdapterInv
<1>2. CASE Engine /\ UNCHANGED adapterVars
  <2>1. EngineTypeOK'
    BY <1>0, <1>2, EngineKeeps
  <2>2. Tables' /\ StoreTypes' /\ \A q \in Requests : Same(q)
    BY <1>0, <1>2 DEF adapterVars, vllmVars, schedulerVars, Tables, Same, StoreTypes
  <2>. QED BY <1>0, <2>1, <2>2, SameKeeps DEF AdapterInv
<1>3. CASE UNCHANGED vars
  <2>1. EngineTypeOK'
    BY <1>0, <1>3 DEF EngineTypeOK, engineVars, vars
  <2>2. Tables' /\ StoreTypes' /\ \A q \in Requests : Same(q)
    BY <1>0, <1>3 DEF vars, Tables, Same, StoreTypes
  <2>. QED BY <1>0, <2>1, <2>2, SameKeeps DEF AdapterInv
<1>. QED BY <1>1, <1>2, <1>3 DEF Next

\* The connector's tokens and block table of a request are vLLM's, whatever roll-backs of
\* failed loads and preemptions it went through and in whichever form vLLM sent its blocks
\* (RequestTracker.update and its guards, build_connector_meta).
THEOREM TrackersFollow == Spec => []TrackersMatch
<1>1. AdapterInv => TrackersMatch
  <2>. SUFFICES ASSUME AdapterInv PROVE TrackersMatch
    OBVIOUS
  <2>1. EngineTypeOK /\ Tables /\ StoreTypes /\ \A q \in Requests : RequestInv(q)
    BY DEF AdapterInv
  <2>2. \A q \in Requests : RequestTypes(q)
    BY <2>1 DEF RequestInv
  <2>3. /\ phase \in [Requests -> Phases] /\ computed \in [Requests -> Nat]
        /\ total \in [Requests -> Nat] /\ step \in [Requests -> Nat]
        /\ lookup_cache \in [Requests -> Nat \cup {NotCached}]
    <3>1. /\ \A q \in Requests : total[q] \in Nat
          /\ \A q \in Requests : lookup_cache[q] \in Nat \cup {NotCached}
      BY <2>2 DEF RequestTypes
    <3>. QED BY <2>1, <2>2, <3>1 DEF Tables, RequestTypes
  <2>4. TypeOK
    BY <2>1, <2>2, <2>3 DEF TypeOK, RequestTypes, StoreTypes
  <2>5. TokensMatch /\ BlocksMatch
    BY <2>1 DEF TokensMatch, BlocksMatch, RequestInv, Listed
  <2>. QED BY <2>4, <2>5 DEF TrackersMatch
<1>. QED BY <1>1, AdapterInit, AdapterStep, PTL DEF Spec
-----------------------------------------------------------------------------
(* Pins                                                                    *)

\* The requests whose lookup pinned k in l.
Holders(l, k) == {q \in Requests : k \in lookup_pins[q][l]}

\* A request holds pins from its lookup to the end of the step it is scheduled in, and
\* while it waits with its lookup remembered.
PinnedWhen(q) ==
  /\ phase[q] \in {"waiting", "preempted"} /\ lookup_cache[q] = NotCached => lookup_pins[q] = NoPins
  /\ phase[q] = "matched" => lookup_cache[q] # NotCached
  /\ phase[q] \in {"running", "output"} => lookup_pins[q] = NoPins
  /\ phase[q] \in {"load", "forward", "save"} /\ meta[q] = None => lookup_pins[q] = NoPins

\* What is gone is not pinned.
PinsStored == \A l \in Places, k \in Keys : k \notin stored[l] => pins[l][k] = 0

PinInv == AdapterInv /\ PinsRemembered /\ PinsStored /\ \A q \in Requests : PinnedWhen(q)

LEMMA HoldersFinite == ASSUME NEW l, NEW k PROVE IsFiniteSet(Holders(l, k))
BY FS_Subset DEF Holders

LEMMA HoldersCount == ASSUME NEW l, NEW k PROVE Cardinality(Holders(l, k)) \in Nat
BY HoldersFinite, FS_CardinalityType

\* Another holder counts for one pin more, one less for one less.
LEMMA OneMore ==
  ASSUME NEW S, IsFiniteSet(S), NEW x, x \notin S
  PROVE  Cardinality(S \cup {x}) = Cardinality(S) + 1 /\ Cardinality(S) \in Nat
BY FS_AddElement, FS_CardinalityType

\* What a lookup finds is stored where it is found.
LEMMA FoundStored ==
  ASSUME NEW n, NEW mapping \in Found(n), NEW l \in Places PROVE mapping[l] \subseteq stored[l]
<1>1. CASE mapping = NoPins
  BY <1>1 DEF NoPins
<1>2. CASE mapping \in BlockMappings(Chunks(n, 0))
  <2>1. PICK i \in DOMAIN Locations : l = Locations[i]
    BY DEF Places
  <2>. DEFINE K == Chunks(n, 0) \ UNION {mapping[Locations[j]] : j \in 1 .. i - 1}
  <2>2. mapping[l] = LeadingHits(l, K)
    BY <1>2, <2>1 DEF BlockMappings
  <2>3. K \subseteq Int
    BY DEF Chunks
  <2>. HIDE DEF K
  <2>4. LeadingHits(l, K) \subseteq stored[l]
    <3>1. ASSUME NEW k \in LeadingHits(l, K) PROVE k \in stored[l]
      <4>1. k \in K /\ \A j \in K : j <= k => j \in stored[l]
        BY DEF LeadingHits
      <4>2. k <= k
        BY <2>3, <4>1
      <4>. QED BY <4>1, <4>2
    <3>. QED BY <3>1
  <2>. QED BY <2>2, <2>4
<1>. QED BY <1>1, <1>2 DEF Found

\* A lookup of a request that holds no pin.
LEMMA LookupPins ==
  ASSUME PinInv, NEW r \in Requests, lookup_pins[r] = NoPins, NEW n \in 0 .. MaxTokens,
         NEW mapping \in Found(n), Lookup(r, mapping), UNCHANGED stored
  PROVE  PinsRemembered' /\ PinsStored'
<1>0. /\ EngineTypeOK /\ PinsRemembered /\ PinsStored /\ mapping \in Mappings
      /\ pins \in [Places -> [Keys -> Nat]]
  BY FoundType DEF PinInv, AdapterInv, EngineTypeOK
<1>1. CASE UNCHANGED <<pins, lookup_pins>>
  BY <1>0, <1>1 DEF PinsRemembered, PinsStored
<1>2. CASE /\ pins' = [l \in Places |->
                         [k \in Keys |-> IF k \in mapping[l] THEN pins[l][k] + 1 ELSE pins[l][k]]]
           /\ lookup_pins' = [lookup_pins EXCEPT ![r] = mapping]
  <2>1. ASSUME NEW l \in Places, NEW k \in Keys
        PROVE  pins'[l][k] <= Cardinality(Holders(l, k)') /\ (k \notin stored'[l] => pins'[l][k] = 0)
    <3>1. /\ pins[l][k] \in Nat /\ pins[l][k] <= Cardinality(Holders(l, k))
          /\ k \notin stored[l] => pins[l][k] = 0
      BY <1>0 DEF PinsRemembered, PinsStored, Holders
    <3>2. lookup_pins'[r] = mapping /\ \A q \in Requests \ {r} : lookup_pins'[q] = lookup_pins[q]
      BY <1>0, <1>2 DEF EngineTypeOK
    <3>3. r \notin Holders(l, k)
      BY DEF Holders, NoPins
    <3>4. CASE k \in mapping[l]
      <4>1. pins'[l][k] = pins[l][k] + 1
        BY <1>2, <3>4
      <4>2. Holders(l, k)' = Holders(l, k) \cup {r}
        BY <3>2, <3>4 DEF Holders
      <4>3. /\ Cardinality(Holders(l, k)') = Cardinality(Holders(l, k)) + 1
            /\ Cardinality(Holders(l, k)) \in Nat
        BY <3>3, <4>2, HoldersFinite, OneMore
      <4>4. k \in stored'[l]
        BY <3>4, FoundStored
      <4>. QED BY <3>1, <4>1, <4>3, <4>4
    <3>5. CASE k \notin mapping[l]
      <4>1. pins'[l][k] = pins[l][k]
        BY <1>2, <3>5
      <4>2. Holders(l, k)' = Holders(l, k)
        BY <3>2, <3>3, <3>5 DEF Holders
      <4>. QED BY <3>1, <4>1, <4>2
    <3>. QED BY <3>4, <3>5
  <2>. QED BY <2>1 DEF PinsRemembered, PinsStored, Holders
<1>. QED BY <1>1, <1>2 DEF Lookup

\* Unpinning gives back what is remembered, but for what is gone and not pinned.
LEMMA UnpinPins ==
  ASSUME PinInv, NEW r \in Requests, Unpin(r),
         \A l \in Places : stored[l] \subseteq stored'[l]
  PROVE  PinsRemembered' /\ PinsStored' /\ lookup_pins'[r] = NoPins
<1>0. /\ EngineTypeOK /\ PinsRemembered /\ PinsStored /\ pins \in [Places -> [Keys -> Nat]]
      /\ lookup_pins \in [Requests -> [Places -> SUBSET Keys]]
  BY DEF PinInv, AdapterInv, EngineTypeOK
<1>1. /\ lookup_pins'[r] = NoPins /\ \A q \in Requests \ {r} : lookup_pins'[q] = lookup_pins[q]
  BY <1>0 DEF Unpin
<1>2. ASSUME NEW l \in Places, NEW k \in Keys
      PROVE  pins'[l][k] <= Cardinality(Holders(l, k)') /\ (k \notin stored'[l] => pins'[l][k] = 0)
  <2>1. /\ pins[l][k] \in Nat /\ pins[l][k] <= Cardinality(Holders(l, k))
        /\ k \notin stored[l] => pins[l][k] = 0
    BY <1>0 DEF PinsRemembered, PinsStored, Holders
  <2>2. pins'[l][k] = IF k \in lookup_pins[r][l] /\ k \in stored[l] /\ pins[l][k] > 0
                        THEN pins[l][k] - 1 ELSE pins[l][k]
    BY DEF Unpin
  <2>3. r \notin Holders(l, k)'
    BY <1>1 DEF Holders, NoPins
  <2>4. /\ IsFiniteSet(Holders(l, k)') /\ Cardinality(Holders(l, k)') \in Nat
    <3>1. Holders(l, k)' \subseteq Requests
      BY DEF Holders
    <3>. QED BY <3>1, FS_Subset, FS_CardinalityType
  <2>5. CASE k \in lookup_pins[r][l]
    <3>1. Holders(l, k) = Holders(l, k)' \cup {r}
      BY <1>1, <2>5 DEF Holders, NoPins
    <3>2. Cardinality(Holders(l, k)) = Cardinality(Holders(l, k)') + 1
      BY <2>3, <2>4, <3>1, OneMore
    <3>. QED BY <2>1, <2>2, <2>4, <2>5, <3>2
  <2>6. CASE k \notin lookup_pins[r][l]
    <3>1. Holders(l, k) = Holders(l, k)'
      BY <1>1, <2>6 DEF Holders, NoPins
    <3>. QED BY <2>1, <2>2, <2>6, <3>1
  <2>. QED BY <2>5, <2>6
<1>. QED BY <1>1, <1>2 DEF PinsRemembered, PinsStored, Holders

\* What is stored grows while pins stay.
LEMMA SamePins ==
  ASSUME PinInv, UNCHANGED <<pins, lookup_pins>>, \A l \in Places : stored[l] \subseteq stored'[l]
  PROVE  PinsRemembered' /\ PinsStored'
BY DEF PinInv, PinsRemembered, PinsStored

\* Clearing and evicting take no pin without its chunk.
LEMMA EnginePins == ASSUME PinInv, Engine PROVE PinsRemembered' /\ PinsStored' /\ UNCHANGED lookup_pins
<1>0. /\ EngineTypeOK /\ PinsRemembered /\ PinsStored /\ pins \in [Places -> [Keys -> Nat]]
      /\ stored \in [Places -> SUBSET Keys]
  BY DEF PinInv, AdapterInv, EngineTypeOK
<1>1. ASSUME NEW n \in 1 .. MaxTokens, Clear(n)
      PROVE  PinsRemembered' /\ PinsStored' /\ UNCHANGED lookup_pins
  <2>1. ASSUME NEW l \in Places, NEW k \in Keys
        PROVE  pins'[l][k] <= Cardinality(Holders(l, k)') /\ (k \notin stored'[l] => pins'[l][k] = 0)
    <3>1. /\ Holders(l, k)' = Holders(l, k) /\ Cardinality(Holders(l, k)) \in Nat
          /\ pins[l][k] \in Nat
      <4>1. lookup_pins' = lookup_pins
        BY <1>1 DEF Clear
      <4>2. Holders(l, k)' = Holders(l, k)
        BY <4>1 DEF Holders
      <4>. QED BY <1>0, <4>2, HoldersCount
    <3>2. pins'[l][k] = IF k \in Chunks(n, 0) THEN 0 ELSE pins[l][k]
      BY <1>1 DEF Clear
    <3>3. stored'[l] = stored[l] \ Chunks(n, 0)
      BY <1>1 DEF Clear
    <3>4. pins[l][k] <= Cardinality(Holders(l, k)) /\ (k \notin stored[l] => pins[l][k] = 0)
      BY <1>0 DEF PinsRemembered, PinsStored, Holders
    <3>. QED BY <3>1, <3>2, <3>3, <3>4
  <2>. QED BY <1>1, <2>1 DEF PinsRemembered, PinsStored, Holders, Clear
<1>2. ASSUME NEW l \in Places, NEW k \in Keys, Evict(l, k)
      PROVE  PinsRemembered' /\ PinsStored' /\ UNCHANGED lookup_pins
  <2>1. pins' = pins /\ lookup_pins' = lookup_pins
    BY <1>2 DEF Evict
  <2>2. PinsStored'
    BY <1>0, <1>2, <2>1 DEF PinsStored, Evict
  <2>. QED BY <1>0, <2>1, <2>2 DEF PinsRemembered
<1>3. CASE \E m \in {"normal", "frozen", "unhealthy"} : SetMode(m)
  BY <1>0, <1>3 DEF SetMode, PinsRemembered, PinsStored
<1>. QED BY <1>1, <1>2, <1>3 DEF Engine

LEMMA OthersPinned ==
  ASSUME NEW q \in Requests, PinnedWhen(q), Same(q), lookup_pins'[q] = lookup_pins[q]
  PROVE  PinnedWhen(q)'
BY DEF PinnedWhen, Same, NoPins

\* A lookup, a step's save and its output change what a request holds; the other steps do not.
LEMMA MatchPins ==
  ASSUME PinInv, NEW r \in Requests, NEW c \in LocalHits, GetNumNewMatchedTokens(r, c)
  PROVE  /\ PinsRemembered' /\ PinsStored' /\ PinnedWhen(r)'
         /\ \A q \in Requests \ {r} : lookup_pins'[q] = lookup_pins[q]
<1>0. Tables /\ EngineTypeOK /\ RequestInv(r) /\ PinnedWhen(r)
  BY DEF PinInv, AdapterInv
<1>1. PICK hit \in 0 .. total[r] :
        /\ IF lookup_cache[r] = NotCached
             THEN \E mapping \in Found(total[r]) : hit = Hit(mapping) /\ Lookup(r, mapping)
             ELSE hit = lookup_cache[r] /\ UNCHANGED <<pins, lookup_pins>>
        /\ lookup_cache' = [lookup_cache EXCEPT ![r] = hit]
  BY DEF GetNumNewMatchedTokens
<1>2. /\ phase[r] \in {"waiting", "preempted"} /\ phase'[r] = "matched" /\ UNCHANGED stored
      /\ lookup_cache'[r] = hit
  BY <1>0, <1>1 DEF GetNumNewMatchedTokens, Goes, Tables
<1>3. PinnedWhen(r)'
  BY <1>2 DEF PinnedWhen, NotCached
<1>4. CASE lookup_cache[r] = NotCached
  <2>1. lookup_pins[r] = NoPins
    BY <1>0, <1>2, <1>4 DEF PinnedWhen
  <2>2. PICK mapping \in Found(total[r]) : Lookup(r, mapping)
    BY <1>1, <1>4
  <2>3. total[r] \in 0 .. MaxTokens
    BY <1>0 DEF RequestInv, RequestTypes
  <2>4. \A q \in Requests \ {r} : lookup_pins'[q] = lookup_pins[q]
    BY <1>0, <2>2 DEF Lookup, EngineTypeOK
  <2>. QED BY <1>2, <1>3, <2>1, <2>2, <2>3, <2>4, LookupPins
<1>5. CASE lookup_cache[r] # NotCached
  <2>1. UNCHANGED <<pins, lookup_pins>> /\ \A l \in Places : stored[l] \subseteq stored'[l]
    BY <1>1, <1>2, <1>5
  <2>. QED BY <1>3, <2>1, SamePins
<1>. QED BY <1>4, <1>5

LEMMA SavePins ==
  ASSUME PinInv, NEW r \in Requests, WaitForSave(r)
  PROVE  /\ PinsRemembered' /\ PinsStored' /\ PinnedWhen(r)'
         /\ \A q \in Requests \ {r} : lookup_pins'[q] = lookup_pins[q]
<1>0. Tables /\ EngineTypeOK /\ PinnedWhen(r)
  BY DEF PinInv, AdapterInv
<1>1. phase[r] = "save" /\ phase'[r] = "output"
  BY <1>0 DEF WaitForSave, Goes, Tables
<1>2. \A l \in Places : stored[l] \subseteq stored'[l]
  <2>1. CASE UNCHANGED stored
    BY <2>1
  <2>2. ASSUME NEW K, Store(K) PROVE \A l \in Places : stored[l] \subseteq stored'[l]
    BY <2>2 DEF Store
  <2>. QED BY <2>1, <2>2 DEF WaitForSave
<1>3. CASE meta[r] = None
  <2>1. UNCHANGED <<pins, lookup_pins>> /\ lookup_pins[r] = NoPins
    BY <1>0, <1>1, <1>3 DEF WaitForSave, PinnedWhen
  <2>2. PinnedWhen(r)'
    BY <1>1, <2>1 DEF PinnedWhen, NoPins
  <2>. QED BY <1>2, <2>1, <2>2, SamePins
<1>4. CASE meta[r] # None
  <2>1. Unpin(r)
    BY <1>4 DEF WaitForSave
  <2>2. PinsRemembered' /\ PinsStored' /\ lookup_pins'[r] = NoPins
    BY <1>2, <2>1, UnpinPins
  <2>3. PinnedWhen(r)'
    BY <1>1, <2>2 DEF PinnedWhen, NoPins
  <2>4. \A q \in Requests \ {r} : lookup_pins'[q] = lookup_pins[q]
    BY <1>0, <2>1 DEF Unpin, EngineTypeOK
  <2>. QED BY <2>2, <2>3, <2>4
<1>. QED BY <1>3, <1>4

LEMMA RestPins ==
  ASSUME PinInv, NEW r \in Requests,
         \/ NotScheduled(r) \/ UpdateStateAfterAlloc(r)
         \/ \E n \in 1 .. MaxTokens : BuildConnectorMeta(r, n)
         \/ StartLoadKv(r) \/ Forward(r) \/ UpdateFromOutput(r)
         \/ Preempt(r) \/ RequestFinished(r)
  PROVE  PinsRemembered' /\ PinsStored' /\ PinnedWhen(r)' /\ UNCHANGED lookup_pins
<1>0. Tables /\ EngineTypeOK /\ RequestInv(r) /\ PinnedWhen(r)
  BY DEF PinInv, AdapterInv
<1>. USE DEF Goes, Tables
<1>1. CASE NotScheduled(r)
  <2>1. UNCHANGED engineVars /\ phase'[r] \in {"waiting", "preempted"} /\ lookup_cache'[r] # NotCached
    BY <1>0, <1>1 DEF NotScheduled, schedulerVars, PinnedWhen
  <2>2. PinnedWhen(r)'
    BY <2>1 DEF PinnedWhen
  <2>. QED BY <2>1, <2>2, SamePins DEF engineVars
<1>2. CASE UpdateStateAfterAlloc(r)
  <2>1. UNCHANGED engineVars /\ phase'[r] = "allocated"
    BY <1>0, <1>2 DEF UpdateStateAfterAlloc
  <2>2. PinnedWhen(r)'
    BY <2>1 DEF PinnedWhen
  <2>. QED BY <2>1, <2>2, SamePins DEF engineVars
<1>3. CASE \E n \in 1 .. MaxTokens : BuildConnectorMeta(r, n)
  <2>1. PICK n \in 1 .. MaxTokens : BuildConnectorMeta(r, n)
    BY <1>3
  <2>2. UNCHANGED engineVars
    BY <2>1 DEF BuildConnectorMeta
  <2>3. CASE phase'[r] = "crashed"
    BY <2>2, <2>3, SamePins DEF engineVars, PinnedWhen
  <2>4. CASE phase[r] = "allocated" /\ phase'[r] # "crashed"
    <3>2. phase'[r] = "load"
      BY <1>0, <2>1, <2>4 DEF BuildConnectorMeta, BuildNew, BuildResumed, BuildRunning
    <3>3. meta'[r] # None
      BY <1>0, <2>1, <2>4, <3>2, BuildKeeps
    <3>4. PinnedWhen(r)'
      BY <3>2, <3>3 DEF PinnedWhen
    <3>. QED BY <2>2, <3>4, SamePins DEF engineVars
  <2>5. CASE phase[r] = "running"
    <3>1. phase'[r] = "load" /\ lookup_pins' = lookup_pins /\ lookup_pins[r] = NoPins
      BY <1>0, <2>1, <2>2, <2>5 DEF BuildConnectorMeta, BuildNew, BuildResumed, BuildRunning,
                                    PinnedWhen, engineVars
    <3>2. PinnedWhen(r)'
      BY <3>1 DEF PinnedWhen, NoPins
    <3>. QED BY <2>2, <3>2, SamePins DEF engineVars
  <2>. QED BY <2>1, <2>3, <2>4, <2>5 DEF BuildConnectorMeta, BuildNew, BuildResumed, BuildRunning
<1>4. CASE StartLoadKv(r)
  <2>1. UNCHANGED <<pins, lookup_pins, meta>> /\ phase[r] = "load" /\ phase'[r] = "forward"
    BY <1>0, <1>4 DEF StartLoadKv
  <2>2. \A l \in Places : stored[l] \subseteq stored'[l]
    <3>1. UNCHANGED stored \/ \E m : \E t : Retrieve(m, t)
      BY <1>4 DEF StartLoadKv
    <3>2. ASSUME NEW m, NEW t, Retrieve(m, t) PROVE \A l \in Places : stored[l] \subseteq stored'[l]
      BY <3>2 DEF Retrieve
    <3>. QED BY <3>1, <3>2
  <2>3. PinnedWhen(r)'
    BY <1>0, <2>1 DEF PinnedWhen, NoPins
  <2>. QED BY <2>1, <2>2, <2>3, SamePins
<1>5. CASE Forward(r)
  <2>1. UNCHANGED <<engineVars, meta>> /\ phase[r] = "forward" /\ phase'[r] = "save"
    BY <1>0, <1>5 DEF Forward
  <2>2. PinnedWhen(r)'
    BY <1>0, <2>1 DEF PinnedWhen, NoPins, engineVars
  <2>. QED BY <2>1, <2>2, SamePins DEF engineVars
<1>6. CASE UpdateFromOutput(r)
  <2>1. UNCHANGED engineVars /\ phase[r] = "output" /\ phase'[r] \in {"running", "finished"}
    BY <1>0, <1>6 DEF UpdateFromOutput
  <2>2. PinnedWhen(r)'
    BY <1>0, <2>1 DEF PinnedWhen, NoPins, engineVars
  <2>. QED BY <2>1, <2>2, SamePins DEF engineVars
<1>7. CASE Preempt(r)
  <2>1. UNCHANGED engineVars /\ phase[r] = "running" /\ phase'[r] = "preempted"
    BY <1>0, <1>7 DEF Preempt
  <2>2. PinnedWhen(r)'
    BY <1>0, <2>1 DEF PinnedWhen, NoPins, engineVars
  <2>. QED BY <2>1, <2>2, SamePins DEF engineVars
<1>8. CASE RequestFinished(r)
  <2>1. UNCHANGED engineVars /\ phase'[r] = "finished"
    BY <1>0, <1>8 DEF RequestFinished
  <2>2. PinnedWhen(r)'
    BY <2>1 DEF PinnedWhen
  <2>. QED BY <2>1, <2>2, SamePins DEF engineVars
<1>. QED BY <1>1, <1>2, <1>3, <1>4, <1>5, <1>6, <1>7, <1>8

LEMMA PinInit == Init => PinInv
<1>. SUFFICES ASSUME Init PROVE PinInv
  OBVIOUS
<1>1. AdapterInv
  BY AdapterInit
<1>2. \A l \in Places, k \in Keys : pins[l][k] = 0
  BY DEF Init, EngineInit
<1>3. PinsRemembered /\ PinsStored
  <2>1. ASSUME NEW l \in Places, NEW k \in Keys PROVE pins[l][k] <= Cardinality(Holders(l, k))
    BY <1>2, HoldersCount
  <2>. QED BY <1>2, <2>1 DEF PinsRemembered, PinsStored, Holders
<1>4. \A q \in Requests : PinnedWhen(q)
  BY DEF PinnedWhen, Init, EngineInit, NoPins
<1>. QED BY <1>1, <1>3, <1>4 DEF PinInv

LEMMA PinStep == PinInv /\ [Next]_vars => PinInv'
<1>. SUFFICES ASSUME PinInv, [Next]_vars PROVE PinInv'
  OBVIOUS
<1>0. AdapterInv /\ Tables /\ AdapterInv' /\ \A q \in Requests : PinnedWhen(q)
  BY AdapterStep DEF PinInv, AdapterInv
<1>1. ASSUME NEW r \in Requests, Request(r) PROVE PinInv'
  <2>1. /\ PinsRemembered' /\ PinsStored' /\ PinnedWhen(r)'
        /\ \A q \in Requests \ {r} : lookup_pins'[q] = lookup_pins[q]
    <3>1. CASE \E c \in LocalHits : GetNumNewMatchedTokens(r, c)
      BY <3>1, MatchPins
    <3>2. CASE WaitForSave(r)
      BY <3>2, SavePins
    <3>3. CASE \/ NotScheduled(r) \/ UpdateStateAfterAlloc(r)
               \/ \E n \in 1 .. MaxTokens : BuildConnectorMeta(r, n)
               \/ StartLoadKv(r) \/ Forward(r) \/ UpdateFromOutput(r)
               \/ Preempt(r) \/ RequestFinished(r)
      BY <3>3, RestPins
    <3>. QED BY <1>1, <3>1, <3>2, <3>3 DEF Request, Worker
  <2>2. \A q \in Requests \ {r} : PinnedWhen(q)'
    BY <1>0, <1>1, <2>1, OthersSame, OthersPinned
  <2>. QED BY <1>0, <2>1, <2>2 DEF PinInv
<1>2. CASE Engine /\ UNCHANGED adapterVars
  <2>1. PinsRemembered' /\ PinsStored' /\ UNCHANGED lookup_pins
    BY <1>2, EnginePins
  <2>2. \A q \in Requests : Same(q)
    BY <1>2 DEF adapterVars, vllmVars, schedulerVars, Same
  <2>. QED BY <1>0, <2>1, <2>2, OthersPinned DEF PinInv
<1>3. CASE UNCHANGED vars
  <2>1. UNCHANGED engineVars /\ \A q \in Requests : Same(q)
    BY <1>3 DEF vars, Same
  <2>2. PinsRemembered' /\ PinsStored'
    BY <2>1, SamePins DEF engineVars
  <2>. QED BY <1>0, <2>1, <2>2, OthersPinned DEF PinInv, engineVars
<1>. QED BY <1>1, <1>2, <1>3 DEF Next

\* Every pin in a tier is one that some request's lookup remembers, so that lookup_unpin finds
\* it: no second lookup overwrites it, and clear and eviction leave none on a chunk that is
\* gone (lookup with pin, lookup_unpin in wait_for_save, the lookup client's memory).
THEOREM PinsKept == Spec => []PinsRemembered
<1>1. PinInv => PinsRemembered
  BY DEF PinInv
<1>. QED BY <1>1, PinInit, PinStep, PTL DEF Spec
-----------------------------------------------------------------------------
(* Chunks of whole tokens                                                  *)

LEMMA DivMod ==
  ASSUME NEW n \in Nat
  PROVE  /\ n \div ChunkSize \in Nat /\ n % ChunkSize \in 0 .. ChunkSize - 1
         /\ n = (n \div ChunkSize) * ChunkSize + (n % ChunkSize)
OBVIOUS

LEMMA DivUnique ==
  ASSUME NEW q \in Nat, NEW x \in 0 .. ChunkSize - 1
  PROVE  (q * ChunkSize + x) \div ChunkSize = q /\ (q * ChunkSize + x) % ChunkSize = x
OBVIOUS

\* Multiples are a chunk apart.
LEMMA Apart ==
  ASSUME NEW a \in Nat, NEW b \in Nat, a % ChunkSize = 0, b % ChunkSize = 0, a < b
  PROVE  a + ChunkSize <= b
<1>1. a = (a \div ChunkSize) * ChunkSize /\ b = (b \div ChunkSize) * ChunkSize
  BY DivMod
<1>2. a \div ChunkSize \in Nat /\ b \div ChunkSize \in Nat
  BY DivMod
<1>3. \A x, y \in Nat : x * ChunkSize < y * ChunkSize => x * ChunkSize + ChunkSize <= y * ChunkSize
  OBVIOUS
<1>. QED BY <1>1, <1>2, <1>3

LEMMA StartOf ==
  ASSUME NEW k \in Nat, k > 0, k % ChunkSize = 0
  PROVE  Start(k) = k - ChunkSize /\ k >= ChunkSize /\ Start(k) \in Nat /\ Start(k) % ChunkSize = 0
<1>. DEFINE q == k \div ChunkSize
<1>1. q \in Nat /\ k = q * ChunkSize
  BY DivMod
<1>. HIDE DEF q
<1>2. q >= 1 /\ q - 1 \in Nat
  BY <1>1
<1>3. k - 1 = (q - 1) * ChunkSize + (ChunkSize - 1)
  BY <1>1, <1>2
<1>4. (k - 1) \div ChunkSize = q - 1
  BY <1>2, <1>3, DivUnique
<1>5. (q - 1) * ChunkSize = k - ChunkSize /\ (q - 1) * ChunkSize \in Nat
  BY <1>1, <1>2
<1>6. (k - ChunkSize) % ChunkSize = 0
  <2>1. 0 \in 0 .. ChunkSize - 1
    OBVIOUS
  <2>2. ((q - 1) * ChunkSize + 0) % ChunkSize = 0
    BY <1>2, <2>1, DivUnique
  <2>3. (q - 1) * ChunkSize + 0 = k - ChunkSize
    BY <1>5
  <2>. QED BY <2>2, <2>3
<1>7. Start(k) = k - ChunkSize
  BY <1>4, <1>5 DEF Start
<1>. QED BY <1>5, <1>6, <1>7

LEMMA FloorBounds ==
  ASSUME NEW n \in Nat
  PROVE  Floor(n) \in Nat /\ Floor(n) <= n /\ n < Floor(n) + ChunkSize /\ Floor(n) % ChunkSize = 0
<1>1. Floor(n) = (n \div ChunkSize) * ChunkSize + 0 /\ Floor(n) \in Nat
  BY DivMod, WholeChunks DEF Floor
<1>2. Floor(n) % ChunkSize = 0
  <2>1. 0 \in 0 .. ChunkSize - 1 /\ n \div ChunkSize \in Nat
    BY DivMod
  <2>. DEFINE q == n \div ChunkSize
  <2>. HIDE DEF q
  <2>2. (q * ChunkSize + 0) % ChunkSize = 0
    BY <2>1, DivUnique DEF q
  <2>. QED BY <1>1, <2>2 DEF q
<1>. QED BY <1>1, <1>2, DivMod DEF Floor

LEMMA FloorGreatest ==
  ASSUME NEW n \in Nat, NEW h \in Nat, h % ChunkSize = 0, h <= n PROVE h <= Floor(n)
<1>1. CASE h > Floor(n)
  <2>1. Floor(n) + ChunkSize <= h
    BY <1>1, FloorBounds, Apart
  <2>. QED BY <2>1, FloorBounds
<1>. QED BY <1>1, FloorBounds

\* The chunks from a chunk's end on.
LEMMA FullChunks ==
  ASSUME ~SaveUnfull, NEW n \in Nat, NEW skip \in Nat
  PROVE  Chunks(n, skip) = {k \in 1 .. n : Start(k) >= skip /\ k % ChunkSize = 0}
BY DEF Chunks

LEMMA ChunksFromZero ==
  ASSUME ~SaveUnfull, NEW n \in Nat
  PROVE  Chunks(n, 0) = {k \in 1 .. n : k % ChunkSize = 0}
<1>1. \A k \in 1 .. n : k % ChunkSize = 0 => Start(k) >= 0
  BY StartOf
<1>. QED BY <1>1, FullChunks

\* Every token is in the chunk that ends next.
LEMMA ChunkOfToken ==
  ASSUME ~SaveUnfull, NEW h \in Nat, h % ChunkSize = 0, NEW m \in Nat, m % ChunkSize = 0,
         NEW p \in m + 1 .. h
  PROVE  \E k \in Chunks(h, m) : p \in TokensOf(k)
<1>. DEFINE k == Floor(p - 1) + ChunkSize
<1>1. p \in Nat /\ p - 1 \in Nat
  OBVIOUS
<1>2. /\ Floor(p - 1) \in Nat /\ Floor(p - 1) <= p - 1 /\ p - 1 < k
      /\ Floor(p - 1) % ChunkSize = 0
  BY <1>1, FloorBounds
<1>3. k % ChunkSize = 0 /\ k \in Nat /\ k > 0
  <2>1. Floor(p - 1) = ((p - 1) \div ChunkSize) * ChunkSize /\ (p - 1) \div ChunkSize \in Nat
    BY <1>1, DivMod DEF Floor
  <2>2. k = ((p - 1) \div ChunkSize + 1) * ChunkSize + 0
    BY <1>2, <2>1
  <2>3. 0 \in 0 .. ChunkSize - 1 /\ (p - 1) \div ChunkSize + 1 \in Nat
    BY <2>1
  <2>4. k % ChunkSize = 0
    BY <2>2, <2>3, DivUnique
  <2>. QED BY <1>2, <2>4
<1>4. Start(k) = Floor(p - 1)
  BY <1>2, <1>3, StartOf
<1>5. Floor(p - 1) < h
  BY <1>1, <1>2
<1>6. k <= h
  BY <1>2, <1>5, Apart
<1>7. m <= Floor(p - 1)
  BY <1>1, FloorGreatest
<1>. HIDE DEF k
<1>8. k \in Chunks(h, m)
  BY <1>2, <1>3, <1>4, <1>6, <1>7, FullChunks
<1>9. p \in TokensOf(k)
  BY <1>1, <1>2, <1>3, <1>4 DEF TokensOf, k
<1>. QED BY <1>8, <1>9

\* The tokens of different chunks are different.
LEMMA ChunksDisjoint ==
  ASSUME NEW j \in Nat, NEW k \in Nat, j > 0, k > 0, j % ChunkSize = 0, k % ChunkSize = 0, j # k
  PROVE  TokensOf(j) \cap TokensOf(k) = {}
<1>1. CASE j < k
  <2>1. j <= Start(k)
    BY <1>1, Apart, StartOf
  <2>. QED BY <2>1, StartOf DEF TokensOf
<1>2. CASE k < j
  <2>1. k <= Start(j)
    BY <1>2, Apart, StartOf
  <2>. QED BY <2>1, StartOf DEF TokensOf
<1>. QED BY <1>1, <1>2

\* A set of numbers has a least one.
LEMMA Least ==
  ASSUME NEW S, S \subseteq Nat, S # {} PROVE \E x \in S : \A y \in S : x <= y
<1>. DEFINE R == OpToRel(<, Nat)
<1>1. IsWellFoundedOn(R, Nat)
  BY NatLessThanWellFounded
<1>2. R = {ss \in Nat \X Nat : ss[1] < ss[2]}
  BY DEF OpToRel
<1>. HIDE DEF R
<1>3. PICK x \in S : \A y \in S : ~(<<y, x>> \in R)
  BY <1>1, WFMin
<1>4. \A a, b \in Nat : <<a, b>> \in R <=> a < b
  BY <1>2
<1>5. \A y \in S : y \in Nat
  OBVIOUS
<1>6. \A y \in S : ~(y < x)
  BY <1>3, <1>4, <1>5
<1>7. \A y \in S : x <= y
  BY <1>3, <1>5, <1>6
<1>. QED BY <1>3, <1>7

\* A set of numbers up to n has a greatest one.
LEMMA Greatest ==
  ASSUME NEW n \in Nat, NEW S, S \subseteq 0 .. n, S # {}
  PROVE  Max(S) \in S /\ \A y \in S : y <= Max(S)
<1>. DEFINE T == {n - y : y \in S}
<1>1. T \subseteq Nat /\ T # {}
  <2>1. \A y \in S : y \in 0 .. n
    OBVIOUS
  <2>2. \A y \in S : n - y \in Nat
    BY <2>1
  <2>3. PICK y \in S : TRUE
    OBVIOUS
  <2>4. n - y \in T
    OBVIOUS
  <2>. QED BY <2>2, <2>4
<1>. HIDE DEF T
<1>2. PICK z \in T : \A y \in T : z <= y
  BY <1>1, Least
<1>3. PICK x \in S : z = n - x
  BY DEF T
<1>4. ASSUME NEW y \in S PROVE x >= y
  <2>1. n - y \in T
    BY DEF T
  <2>2. n - x <= n - y
    BY <1>2, <1>3, <2>1
  <2>. QED BY <2>2
<1>5. \E w \in S : \A y \in S : w >= y
  BY <1>4
<1>6. Max(S) \in S /\ \A y \in S : Max(S) >= y
  BY <1>5 DEF Max
<1>. QED BY <1>6

LEMMA NoneFound == Hit(NoPins) = 0 /\ AllOf(NoPins) = {}
BY DEF Hit, AllOf, NoPins, Last

LEMMA HitIsPrefix ==
  ASSUME ~SaveUnfull, NEW n \in 0 .. MaxTokens, NEW m \in Found(n)
  PROVE  Hit(m) \in 0 .. n /\ Hit(m) % ChunkSize = 0
<1>. DEFINE K == Chunks(n, 0)
<1>1. K = {k \in 1 .. n : k % ChunkSize = 0}
  BY ChunksFromZero
<1>2. CASE AllOf(m) = {}
  <2>1. Hit(m) = 0 /\ 0 % ChunkSize = 0
    BY <1>2 DEF Hit, Last
  <2>. QED BY <2>1
<1>3. CASE AllOf(m) # {}
  <2>1. m \in BlockMappings(K)
    BY <1>3, NoneFound DEF Found
  <2>2. AllOf(m) \subseteq K
    BY <2>1 DEF AllOf, BlockMappings
  <2>3. AllOf(m) \subseteq 0 .. n
    BY <1>1, <2>2
  <2>4. Max(AllOf(m)) \in AllOf(m)
    BY <1>3, <2>3, Greatest
  <2>5. Hit(m) \in K
    BY <1>3, <2>2, <2>4 DEF Hit, Last
  <2>. QED BY <1>1, <2>5
<1>. QED BY <1>2, <1>3

\* A retrieve after which every object is given back has forgotten none.
LEMMA NothingForgotten ==
  ASSUME EngineTypeOK, NEW r \in Requests, NEW h \in 0 .. MaxTokens, NEW m \in Nat,
         NEW mapping \in RetrieveMappings(r, Chunks(h, m)), NEW t \in Transfers(mapping),
         Retrieve(mapping, t), ObjectsReturned'
  PROVE  Staged(mapping, t) \ Reordered(mapping, t) = {}
<1>1. mapping \in Mappings
  BY ChunksAreKeys, RetrieveMappingsType
<1>2. Staged(mapping, t) \subseteq Keys
  BY <1>1 DEF Mappings, Staged, BeforeFailure
<1>3. ASSUME NEW k \in Staged(mapping, t) \ Reordered(mapping, t) PROVE FALSE
  <2>1. k \in Keys /\ refs[k] \in Nat /\ refs'[k] = 0
    BY <1>2, <1>3 DEF EngineTypeOK, ObjectsReturned
  <2>2. refs'[k] = refs[k] + 1
    BY <1>3, <2>1 DEF Retrieve
  <2>. QED BY <2>1, <2>2
<1>. QED BY <1>3

\* A load of the hit tokens that vLLM lacks, which forgets no memory object: when a token does
\* not reach the GPU, fewer tokens are counted than were expected and it is not one of them.
LEMMA LoadReports ==
  ASSUME ~SaveUnfull, NEW r \in Requests, NEW h \in 0 .. MaxTokens, h % ChunkSize = 0,
         NEW v \in Nat, v < h, NEW mapping \in RetrieveMappings(r, Chunks(h, Floor(v))),
         NEW t \in Transfers(mapping), Staged(mapping, t) \ Reordered(mapping, t) = {},
         NEW p \in Floor(v) + 1 .. h, p \notin Copied(mapping, t)
  PROVE  Cardinality(RetMask(mapping, t)) < h - v /\ p \notin RetMask(mapping, t)
<1>. DEFINE K == Chunks(h, Floor(v))
            kept == UNION {BeforeFailure(mapping, t, l) : l \in Places}
            mask == RetMask(mapping, t)
<1>1. h \in Nat
  OBVIOUS
<1>2. Floor(v) \in Nat /\ Floor(v) <= v /\ v < Floor(v) + ChunkSize /\ Floor(v) % ChunkSize = 0
  BY FloorBounds
<1>3. K = {k \in 1 .. h : Start(k) >= Floor(v) /\ k % ChunkSize = 0}
  BY <1>1, <1>2, FullChunks
<1>4. kept \subseteq t.direct \cup Reordered(mapping, t)
  BY DEF Staged
<1>5. mask \subseteq UNION {TokensOf(k) : k \in kept}
  BY DEF RetMask
<1>6. mapping \in [Places -> SUBSET K]
  <2>1. ASSUME NEW S PROVE [x \in Places |-> IF x \in S THEN K ELSE {}] \in [Places -> SUBSET K]
    OBVIOUS
  <2>. HIDE DEF K
  <2>. QED BY <2>1 DEF RetrieveMappings, BlockMappings, K
<1>7. kept \subseteq K
  BY <1>6 DEF BeforeFailure
<1>8. PICK k \in K : p \in TokensOf(k)
  BY <1>1, <1>2, ChunkOfToken
<1>9. k \notin kept
  BY <1>4, <1>8 DEF Copied
<1>10. p \notin mask
  BY <1>4, <1>5 DEF Copied
<1>11. ASSUME NEW j \in K
       PROVE  /\ j \in Nat /\ j > 0 /\ j % ChunkSize = 0
              /\ TokensOf(j) \subseteq Floor(v) + 1 .. h
              /\ Start(j) = j - ChunkSize /\ Start(j) \in Nat
  <2>1. j \in 1 .. h /\ Start(j) >= Floor(v) /\ j % ChunkSize = 0
    BY <1>3
  <2>2. j \in Nat /\ j > 0 /\ j <= h
    BY <1>1, <2>1
  <2>3. Start(j) = j - ChunkSize /\ Start(j) \in Nat
    BY <2>1, <2>2, StartOf
  <2>4. TokensOf(j) \subseteq Floor(v) + 1 .. h
    BY <1>1, <1>2, <2>1, <2>2, <2>3 DEF TokensOf
  <2>. QED BY <2>1, <2>2, <2>3, <2>4
<1>12. ASSUME NEW j \in kept PROVE TokensOf(j) \cap TokensOf(k) = {}
  BY <1>7, <1>8, <1>9, <1>11, ChunksDisjoint
<1>13. mask \cap TokensOf(k) = {}
  BY <1>5, <1>12
<1>14. mask \cup TokensOf(k) \subseteq Floor(v) + 1 .. h
  BY <1>5, <1>7, <1>8, <1>11
<1>15. IsFiniteSet(Floor(v) + 1 .. h) /\ Cardinality(Floor(v) + 1 .. h) = h - Floor(v)
  <2>. DEFINE a == Floor(v) + 1
  <2>1. a \in Int /\ h \in Int /\ ~(a > h) /\ h - a + 1 = h - Floor(v)
    BY <1>1, <1>2
  <2>. HIDE DEF a
  <2>2. IsFiniteSet(a .. h) /\ Cardinality(a .. h) = h - a + 1
    BY <2>1, FS_Interval
  <2>. QED BY <2>1, <2>2 DEF a
<1>16. IsFiniteSet(TokensOf(k)) /\ Cardinality(TokensOf(k)) = ChunkSize
  <2>1. Start(k) + 1 \in Int /\ k \in Int /\ Start(k) + 1 <= k /\ k - (Start(k) + 1) + 1 = ChunkSize
    BY <1>8, <1>11
  <2>. QED BY <2>1, FS_Interval DEF TokensOf
<1>. HIDE DEF mask, K
<1>17. IsFiniteSet(mask) /\ Cardinality(mask) \in Nat
  BY <1>14, <1>15, FS_Subset, FS_CardinalityType
<1>18. Cardinality(mask \cup TokensOf(k)) = Cardinality(mask) + ChunkSize
  <2>1. Cardinality(mask \cup TokensOf(k)) =
          Cardinality(mask) + Cardinality(TokensOf(k)) - Cardinality(mask \cap TokensOf(k))
    BY <1>16, <1>17, FS_Union
  <2>2. Cardinality(mask \cap TokensOf(k)) = 0
    BY <1>13, FS_EmptySet
  <2>. QED BY <1>16, <1>17, <2>1, <2>2
<1>19. Cardinality(mask \cup TokensOf(k)) <= h - Floor(v)
  <2>. DEFINE S == Floor(v) + 1 .. h
              U == mask \cup TokensOf(k)
  <2>1. IsFiniteSet(S) /\ Cardinality(S) = h - Floor(v) /\ U \in SUBSET S
    BY <1>14, <1>15
  <2>. HIDE DEF S, U
  <2>2. Cardinality(U) <= Cardinality(S)
    BY <2>1, FS_Subset
  <2>. QED BY <2>1, <2>2 DEF U
<1>20. Cardinality(mask) < h - v
  BY <1>1, <1>2, <1>17, <1>18, <1>19
<1>. QED BY <1>10, <1>20 DEF mask
-----------------------------------------------------------------------------
(* What a request's KV rests on                                            *)

\* A hit is made of whole chunks.
Whole(h) == h % ChunkSize = 0

\* The load of this step.
Loading(r) == meta[r] # None /\ meta[r].load # None /\ meta[r].load.can_load

Reported(r) == \A p \in 1 .. computed[r] : Accounted(r, p)

HitMatched(r) ==
  /\ lookup_cache[r] # NotCached /\ load_specs[r].lmcache = lookup_cache[r]
  /\ step[r] > 0 => load_specs[r].vllm + step[r] <= lookup_cache[r]

\* Of the tokens taken for computed, vLLM has its own and the lookup hit the others.
HitAllocated(r) ==
  /\ Whole(load_specs[r].lmcache) /\ gpu[r] = 1 .. load_specs[r].vllm
  /\ IF load_specs[r].can_load
       THEN computed[r] <= load_specs[r].lmcache /\ load_specs[r].vllm < load_specs[r].lmcache
       ELSE computed[r] = load_specs[r].vllm

LoadReady(r) ==
  IF Loading(r)
    THEN /\ Whole(meta[r].load.lmcache) /\ 1 .. meta[r].load.vllm \subseteq gpu[r]
         /\ meta[r].load.vllm < meta[r].load.lmcache /\ computed[r] <= meta[r].load.lmcache
         /\ meta[r].load.lmcache <= meta[r].tokens
    ELSE 1 .. computed[r] \subseteq gpu[r]

\* The load is of what the lookup hit and vLLM lacks; from the load on every gap is reported,
\* and so is every token that is computed behind one.
KvInv(r) ==
  /\ phase[r] \in {"waiting", "preempted", "matched"} /\ lookup_cache[r] # NotCached =>
       Whole(lookup_cache[r])
  /\ phase[r] \in {"allocated", "load", "forward", "save", "output", "running"} =>
       lookup_cache[r] = NotCached
  /\ phase[r] = "matched" => HitMatched(r)
  /\ phase[r] = "allocated" => HitAllocated(r)
  /\ phase[r] = "load" => LoadReady(r)
  /\ phase[r] \in {"load", "forward", "save"} /\ meta[r] # None =>
       meta[r].tokens <= computed[r] + step[r]
  /\ phase[r] \in {"forward", "save", "output"} =>
       Reported(r) /\ invalid[r] \subseteq 1 .. computed[r] + 1
  /\ phase[r] \in {"save", "output"} => \A p \in 1 .. computed[r] + step[r] : Accounted(r, p)
  /\ phase[r] = "running" => 1 .. computed[r] \subseteq gpu[r]

\* It is about a request alone: what the tiers and the other requests do is nothing to it.
LEMMA KvSame == ASSUME NEW r \in Requests, KvInv(r), Same(r) PROVE KvInv(r)'
<1>1. Loading(r)' <=> Loading(r)
  BY DEF Loading, Same
<1>2. /\ HitMatched(r) => HitMatched(r)'
      /\ HitAllocated(r) => HitAllocated(r)'
      /\ Reported(r) => Reported(r)'
  BY DEF HitMatched, HitAllocated, Whole, Reported, Accounted, Same
<1>3. LoadReady(r) => LoadReady(r)'
  BY <1>1 DEF LoadReady, Whole, Same
<1>4. \A p : Accounted(r, p) => Accounted(r, p)'
  BY DEF Accounted, Same
<1>. QED BY <1>2, <1>3, <1>4 DEF KvInv, Whole, Same

LEMMA MatchKv ==
  ASSUME ~SaveUnfull, AdapterInv, NEW r \in Requests, KvInv(r), NEW c \in LocalHits,
         GetNumNewMatchedTokens(r, c)
  PROVE  KvInv(r)'
<1>0. Tables /\ RequestTypes(r) /\ c \in Nat /\ total[r] \in 1 .. MaxTokens
  BY DEF AdapterInv, RequestInv, RequestTypes
<1>1. PICK hit \in 0 .. total[r] :
        /\ IF lookup_cache[r] = NotCached
             THEN \E mapping \in Found(total[r]) : hit = Hit(mapping) /\ Lookup(r, mapping)
             ELSE hit = lookup_cache[r] /\ UNCHANGED <<pins, lookup_pins>>
        /\ lookup_cache' = [lookup_cache EXCEPT ![r] = hit]
        /\ load_specs' = [load_specs EXCEPT ![r] = [vllm |-> c, lmcache |-> hit, can_load |-> FALSE]]
        /\ step' = [step EXCEPT ![r] = Needed(hit, c, total[r])]
  BY DEF GetNumNewMatchedTokens
<1>2. /\ phase[r] \in {"waiting", "preempted"} /\ phase'[r] = "matched"
      /\ lookup_cache'[r] = hit /\ step'[r] = Needed(hit, c, total[r])
      /\ load_specs'[r].vllm = c /\ load_specs'[r].lmcache = hit
  BY <1>0, <1>1 DEF GetNumNewMatchedTokens, Goes, Tables
<1>3. Whole(hit)
  <2>1. CASE lookup_cache[r] = NotCached
    <3>1. \E mapping \in Found(total[r]) : hit = Hit(mapping)
      BY <1>1, <2>1
    <3>2. total[r] \in 0 .. MaxTokens
      BY <1>0
    <3>. QED BY <3>1, <3>2, HitIsPrefix DEF Whole
  <2>2. CASE lookup_cache[r] # NotCached
    BY <1>1, <1>2, <2>2 DEF KvInv
  <2>. QED BY <2>1, <2>2
<1>4. HitMatched(r)'
  <2>1. hit \in Nat /\ total[r] \in Nat /\ hit # NotCached
    BY <1>0 DEF NotCached
  <2>2. Needed(hit, c, total[r]) > 0 => c + Needed(hit, c, total[r]) <= hit
    BY <1>0, <2>1 DEF Needed
  <2>3. NotCached' = NotCached
    BY DEF NotCached
  <2>. QED BY <1>2, <2>1, <2>2, <2>3 DEF HitMatched
<1>5. Whole(lookup_cache[r])'
  BY <1>2, <1>3 DEF Whole
<1>. QED BY <1>2, <1>4, <1>5 DEF KvInv

LEMMA NotScheduledKv ==
  ASSUME AdapterInv, NEW r \in Requests, KvInv(r), NotScheduled(r) PROVE KvInv(r)'
<1>1. /\ phase[r] = "matched" /\ phase'[r] \in {"waiting", "preempted"}
      /\ lookup_cache' = lookup_cache
  BY DEF AdapterInv, NotScheduled, Goes, Tables, schedulerVars
<1>2. lookup_cache[r] # NotCached => Whole(lookup_cache[r])
  BY <1>1 DEF KvInv
<1>3. (lookup_cache[r] # NotCached => Whole(lookup_cache[r]))'
  BY <1>1, <1>2 DEF Whole
<1>. QED BY <1>1, <1>3 DEF KvInv

LEMMA AllocKv ==
  ASSUME AdapterInv, NEW r \in Requests, KvInv(r), UpdateStateAfterAlloc(r) PROVE KvInv(r)'
<1>0. Tables /\ RequestInv(r) /\ RequestTypes(r)
  BY DEF AdapterInv, RequestInv
<1>1. /\ phase[r] = "matched" /\ phase'[r] = "allocated" /\ lookup_cache'[r] = NotCached
      /\ load_specs'[r] = [load_specs[r] EXCEPT !.can_load = step[r] > 0]
      /\ computed'[r] = load_specs[r].vllm + step[r] /\ gpu'[r] = 1 .. load_specs[r].vllm
  BY <1>0 DEF UpdateStateAfterAlloc, Goes, Tables
<1>2. load_specs[r] \in LoadSpec /\ step[r] \in Nat
  BY <1>0, <1>1 DEF RequestInv, RequestTypes, Matched
<1>3. /\ load_specs'[r].lmcache = load_specs[r].lmcache /\ load_specs'[r].vllm = load_specs[r].vllm
      /\ load_specs'[r].can_load <=> step[r] > 0
      /\ load_specs[r].vllm \in Nat /\ load_specs[r].lmcache \in Nat
  <2>. DEFINE b == step[r] > 0
  <2>1. b \in BOOLEAN /\ load_specs'[r] = [load_specs[r] EXCEPT !.can_load = b]
    BY <1>1
  <2>. HIDE DEF b
  <2>2. /\ load_specs'[r].lmcache = load_specs[r].lmcache /\ load_specs'[r].vllm = load_specs[r].vllm
        /\ load_specs'[r].can_load = b /\ load_specs[r].vllm \in Nat
        /\ load_specs[r].lmcache \in Nat
    BY <1>2, <2>1 DEF LoadSpec
  <2>. QED BY <2>2 DEF b
<1>4. HitMatched(r) /\ Whole(lookup_cache[r])
  BY <1>1 DEF KvInv, HitMatched
<1>5. Whole(load_specs[r].lmcache)'
  BY <1>3, <1>4 DEF HitMatched, Whole
<1>6. HitAllocated(r)'
  <2>1. gpu'[r] = 1 .. load_specs'[r].vllm
    BY <1>1, <1>3
  <2>2. CASE step[r] > 0
    <3>1. computed'[r] <= load_specs'[r].lmcache /\ load_specs'[r].vllm < load_specs'[r].lmcache
      BY <1>1, <1>2, <1>3, <1>4, <2>2 DEF HitMatched
    <3>. QED BY <1>3, <1>5, <2>1, <2>2, <3>1 DEF HitAllocated
  <2>3. CASE ~(step[r] > 0)
    <3>1. computed'[r] = load_specs'[r].vllm
      BY <1>1, <1>2, <1>3, <2>3
    <3>. QED BY <1>3, <1>5, <2>1, <2>3, <3>1 DEF HitAllocated
  <2>. QED BY <2>2, <2>3
<1>. QED BY <1>1, <1>6 DEF KvInv

\* The metadata covers the hit, and no more than the step's tokens.
LEMMA BuildKv ==
  ASSUME AdapterInv, NEW r \in Requests, KvInv(r), NEW n \in 1 .. MaxTokens,
         BuildConnectorMeta(r, n)
  PROVE  KvInv(r)'
<1>0. Tables /\ RequestInv(r) /\ RequestTypes(r) /\ computed[r] \in Nat
  BY DEF AdapterInv, RequestInv, RequestTypes
<1>1. /\ computed' = computed /\ gpu' = gpu /\ lookup_cache' = lookup_cache /\ step'[r] = n
      /\ phase[r] \in {"allocated", "running"} /\ phase'[r] \in {"load", "crashed"}
  <2>1. \/ phase[r] = "allocated" /\ phase' = [phase EXCEPT ![r] = "load"]
        \/ phase[r] = "allocated" /\ phase' = [phase EXCEPT ![r] = "crashed"]
        \/ phase[r] = "running" /\ phase' = [phase EXCEPT ![r] = "load"]
    BY DEF BuildConnectorMeta, BuildNew, BuildResumed, BuildRunning, Goes
  <2>2. phase[r] \in {"allocated", "running"} /\ phase'[r] \in {"load", "crashed"}
    BY <1>0, <2>1 DEF Tables
  <2>3. step'[r] = n
    BY <1>0 DEF BuildConnectorMeta, Tables
  <2>. QED BY <2>2, <2>3 DEF BuildConnectorMeta, vllmVars
<1>2. CASE phase'[r] = "crashed"
  BY <1>2 DEF KvInv
<1>3. CASE phase'[r] = "load"
  <2>. DEFINE m == computed[r] + n
  <2>1. m \in Nat /\ Floor(m) \in Nat /\ Floor(m) <= m
    <3>1. m \in Nat
      BY <1>0
    <3>. HIDE DEF m
    <3>. QED BY <3>1, FloorBounds
  <2>2. lookup_cache'[r] = NotCached
    BY <1>1 DEF KvInv
  <2>3. MetaOf(meta'[r], IF phase[r] = "allocated" THEN load_specs[r] ELSE None, m)
    BY <1>0, <1>1, <1>3, BuildKeeps
  <2>4. meta'[r] # None => meta'[r].tokens <= computed'[r] + step'[r]
    BY <1>1, <2>1, <2>3 DEF MetaOf
  <2>5. LoadReady(r)'
    <3>1. CASE phase[r] = "running"
      <4>1. ~Loading(r)'
        BY <2>3, <3>1 DEF MetaOf, Loading
      <4>2. 1 .. computed[r] \subseteq gpu[r]
        BY <3>1 DEF KvInv
      <4>. QED BY <1>1, <4>1, <4>2 DEF LoadReady
    <3>2. CASE phase[r] = "allocated"
      <4>. DEFINE load == load_specs[r]
      <4>1. /\ load \in LoadSpec /\ load # None /\ load.lmcache \in Nat
            /\ load.can_load => load.lmcache <= computed[r] + 1
        BY <1>0, <3>2 DEF RequestInv, Allocated, LoadSpec
      <4>2. meta'[r] # None /\ meta'[r].load = load /\ meta'[r].tokens \in {Floor(m), m}
        BY <1>0, <1>3, <2>3, <3>2, BuildKeeps DEF MetaOf
      <4>3. HitAllocated(r)
        BY <3>2 DEF KvInv
      <4>4. CASE load.can_load
        <5>1. load.lmcache <= m /\ load.lmcache % ChunkSize = 0
          BY <1>0, <4>1, <4>3, <4>4 DEF HitAllocated, Whole
        <5>2. load.lmcache <= Floor(m)
          BY <2>1, <4>1, <5>1, FloorGreatest
        <5>3. load.lmcache <= meta'[r].tokens
          BY <2>1, <4>2, <5>1, <5>2
        <5>4. Whole(meta[r].load.lmcache)'
          BY <4>2, <5>1 DEF Whole
        <5>5. /\ 1 .. load.vllm \subseteq gpu'[r] /\ load.vllm < load.lmcache
              /\ computed'[r] <= load.lmcache
          BY <1>1, <4>3, <4>4 DEF HitAllocated
        <5>6. Loading(r)'
          BY <4>1, <4>2, <4>4 DEF Loading
        <5>. HIDE DEF load
        <5>. QED BY <4>2, <5>3, <5>4, <5>5, <5>6 DEF LoadReady
      <4>5. CASE ~load.can_load
        <5>1. ~Loading(r)'
          BY <4>2, <4>5 DEF Loading
        <5>2. 1 .. computed'[r] \subseteq gpu'[r]
          BY <1>1, <4>3, <4>5 DEF HitAllocated
        <5>. QED BY <5>1, <5>2 DEF LoadReady
      <4>. QED BY <4>4, <4>5
    <3>. QED BY <1>1, <3>1, <3>2
  <2>. QED BY <1>3, <2>2, <2>4, <2>5 DEF KvInv
<1>. QED BY <1>1, <1>2, <1>3

\* A load that forgets nothing reports every token it was expected to bring and did not.
LEMMA LoadKv ==
  ASSUME ~SaveUnfull, AdapterInv, NEW r \in Requests, KvInv(r), StartLoadKv(r), ObjectsReturned'
  PROVE  KvInv(r)'
<1>0. /\ Tables /\ EngineTypeOK /\ RequestInv(r) /\ RequestTypes(r)
      /\ computed[r] \in Nat /\ step[r] \in Nat /\ total[r] \in 1 .. MaxTokens
  BY DEF AdapterInv, RequestInv, RequestTypes
<1>1. /\ phase[r] = "load" /\ phase'[r] = "forward" /\ lookup_cache' = lookup_cache
      /\ computed' = computed /\ step' = step /\ meta' = meta
  BY <1>0 DEF StartLoadKv, Goes, Tables, schedulerVars
<1>2. lookup_cache[r] = NotCached /\ LoadReady(r) /\ invalid[r] = {}
      /\ (meta[r] # None => meta[r].tokens <= computed[r] + step[r])
  BY <1>0, <1>1 DEF KvInv, RequestInv
<1>3. Reported(r)' /\ invalid'[r] \subseteq 1 .. computed[r] + 1
  <2>1. CASE ~Loading(r)
    <3>1. UNCHANGED <<gpu, invalid>>
      BY <2>1 DEF StartLoadKv, Loading
    <3>2. 1 .. computed[r] \subseteq gpu[r]
      BY <1>2, <2>1 DEF LoadReady
    <3>. QED BY <1>1, <1>2, <3>1, <3>2 DEF Reported, Accounted
  <2>2. CASE Loading(r)
    <3>. DEFINE load == meta[r].load
                n == Min({meta[r].tokens, load.lmcache})
                h == load.lmcache
                v == load.vllm
    <3>1. meta[r] # None /\ load # None /\ load.can_load
      BY <2>2 DEF Loading
    <3>2. meta[r].tokens \in Nat /\ h \in Nat /\ v \in Nat
      BY <1>0, <3>1 DEF RequestTypes, ReqMeta, LoadSpec
    <3>3. /\ h % ChunkSize = 0 /\ 1 .. v \subseteq gpu[r] /\ v < h /\ computed[r] <= h
          /\ h <= meta[r].tokens
      BY <1>2, <2>2 DEF LoadReady, Whole
    <3>4. h <= computed[r] + 1 /\ h \in 0 .. MaxTokens
      <4>1. h <= computed[r] + 1
        BY <1>0, <1>1, <3>1 DEF RequestInv, Expected
      <4>2. Stepping(r)
        BY <1>0, <1>1 DEF RequestInv
      <4>. QED BY <1>0, <3>2, <4>1, <4>2, SMTT(30) DEF Stepping
    <3>5. n = h
      <4>1. \A a, b \in Nat : b <= a => Min({a, b}) = b
        BY DEF Min
      <4>. QED BY <3>2, <3>3, <4>1
    <3>6. \/ invalid' = [invalid EXCEPT ![r] = FailedBlocks(Floor(v), n, {})] /\ gpu' = gpu
          \/ \E mapping \in RetrieveMappings(r, Chunks(n, Floor(v))) : \E t \in Transfers(mapping) :
               /\ Retrieve(mapping, t)
               /\ gpu' = [gpu EXCEPT ![r] = @ \cup Copied(mapping, t)]
               /\ invalid' = [invalid EXCEPT ![r] =
                    IF Cardinality(RetMask(mapping, t)) < h - v
                      THEN FailedBlocks(Floor(v), n, RetMask(mapping, t)) ELSE {}]
      BY <3>1 DEF StartLoadKv, Floor
    <3>7. Floor(v) \in Nat /\ Floor(v) <= v
      BY <3>2, FloorBounds
    <3>. HIDE DEF n, h, v, load
    <3>8. \A mask : FailedBlocks(Floor(v), n, mask) \subseteq 1 .. computed[r] + 1
      BY <1>0, <3>2, <3>4, <3>5, <3>7 DEF FailedBlocks
    <3>9. ASSUME \A p \in v + 1 .. h : p \in gpu'[r] \/ p \in invalid'[r], gpu[r] \subseteq gpu'[r]
          PROVE  Reported(r)'
      <4>1. ASSUME NEW p \in 1 .. computed[r] PROVE p \in gpu'[r] \/ \E q \in invalid'[r] : q <= p
        <5>1. CASE p <= v
          <6>1. p \in 1 .. v
            BY <1>0, <3>2, <5>1
          <6>. QED BY <3>3, <3>9, <6>1
        <5>2. CASE p > v
          <6>1. p \in v + 1 .. h /\ p <= p
            BY <1>0, <3>2, <3>3, <5>2
          <6>. QED BY <3>9, <6>1
        <5>. QED BY <1>0, <3>2, <5>1, <5>2
      <4>. QED BY <1>1, <4>1 DEF Reported, Accounted
    <3>10. CASE invalid' = [invalid EXCEPT ![r] = FailedBlocks(Floor(v), n, {})] /\ gpu' = gpu
      <4>1. invalid'[r] = FailedBlocks(Floor(v), h, {})
        BY <1>0, <3>5, <3>10 DEF Tables
      <4>2. \A p \in v + 1 .. h : p \in invalid'[r]
        BY <3>2, <3>7, <4>1 DEF FailedBlocks
      <4>. QED BY <3>5, <3>8, <3>9, <3>10, <4>1, <4>2
    <3>11. ASSUME NEW mapping \in RetrieveMappings(r, Chunks(n, Floor(v))), NEW t \in Transfers(mapping),
                  Retrieve(mapping, t), gpu' = [gpu EXCEPT ![r] = @ \cup Copied(mapping, t)],
                  invalid' = [invalid EXCEPT ![r] =
                    IF Cardinality(RetMask(mapping, t)) < h - v
                      THEN FailedBlocks(Floor(v), n, RetMask(mapping, t)) ELSE {}]
           PROVE  Reported(r)' /\ invalid'[r] \subseteq 1 .. computed[r] + 1
      <4>1. Staged(mapping, t) \ Reordered(mapping, t) = {}
        BY <1>0, <3>2, <3>4, <3>5, <3>7, <3>11, NothingForgotten
      <4>2. gpu'[r] = gpu[r] \cup Copied(mapping, t)
        BY <1>0, <3>11 DEF Tables
      <4>3. invalid'[r] = IF Cardinality(RetMask(mapping, t)) < h - v
                            THEN FailedBlocks(Floor(v), h, RetMask(mapping, t)) ELSE {}
        BY <1>0, <3>5, <3>11 DEF Tables
      <4>4. ASSUME NEW p \in v + 1 .. h PROVE p \in gpu'[r] \/ p \in invalid'[r]
        <5>1. p \in Floor(v) + 1 .. h
          BY <3>2, <3>7
        <5>2. p \notin Copied(mapping, t) =>
                /\ Cardinality(RetMask(mapping, t)) < h - v
                /\ p \notin RetMask(mapping, t)
          BY <3>2, <3>3, <3>4, <3>5, <3>11, <4>1, <5>1, LoadReports
        <5>. QED BY <4>2, <4>3, <5>1, <5>2 DEF FailedBlocks
      <4>5. Reported(r)'
        BY <3>9, <4>2, <4>4
      <4>. QED BY <3>5, <3>8, <4>3, <4>5
    <3>. QED BY <3>6, <3>10, <3>11
  <2>. QED BY <2>1, <2>2
<1>. QED BY <1>1, <1>2, <1>3 DEF KvInv

\* The tokens of a step are computed from the KV of all those before them, or a gap before
\* them is reported.
LEMMA ForwardKv ==
  ASSUME AdapterInv, NEW r \in Requests, KvInv(r), Forward(r) PROVE KvInv(r)'
<1>0. /\ Tables /\ RequestTypes(r) /\ computed[r] \in Nat /\ step[r] \in Nat
      /\ invalid[r] \subseteq Nat
  BY DEF AdapterInv, RequestInv, RequestTypes, Keys
<1>1. /\ phase[r] = "forward" /\ phase'[r] = "save" /\ lookup_cache' = lookup_cache
      /\ computed' = computed /\ step' = step /\ meta' = meta /\ invalid' = invalid
      /\ gpu'[r] = IF 1 .. computed[r] \subseteq gpu[r]
                     THEN gpu[r] \cup computed[r] + 1 .. computed[r] + step[r] ELSE gpu[r]
  BY <1>0 DEF Forward, Goes, Tables, schedulerVars
<1>2. Reported(r) /\ invalid[r] \subseteq 1 .. computed[r] + 1 /\ lookup_cache[r] = NotCached
      /\ (meta[r] # None => meta[r].tokens <= computed[r] + step[r])
  BY <1>1 DEF KvInv
<1>3. Reported(r)'
  BY <1>1, <1>2 DEF Reported, Accounted
<1>4. ASSUME NEW p \in 1 .. computed[r] + step[r] PROVE Accounted(r, p)'
  <2>1. CASE p <= computed[r]
    <3>1. p \in 1 .. computed[r]
      BY <1>0, <2>1
    <3>. QED BY <1>1, <1>3, <3>1 DEF Reported
  <2>2. CASE p > computed[r] /\ 1 .. computed[r] \subseteq gpu[r]
    <3>1. p \in computed[r] + 1 .. computed[r] + step[r]
      BY <1>0, <2>2
    <3>. QED BY <1>1, <2>2, <3>1 DEF Accounted
  <2>3. CASE p > computed[r] /\ ~(1 .. computed[r] \subseteq gpu[r])
    <3>1. PICK x \in 1 .. computed[r] : x \notin gpu[r]
      BY <2>3
    <3>2. PICK q \in invalid[r] : q <= x
      BY <1>2, <3>1 DEF Reported, Accounted
    <3>3. q \in Nat /\ q <= p
      BY <1>0, <2>3, <3>1, <3>2
    <3>. QED BY <1>1, <3>2, <3>3 DEF Accounted
  <2>. QED BY <1>0, <2>1, <2>2, <2>3
<1>5. (\A p \in 1 .. computed[r] + step[r] : Accounted(r, p))'
  BY <1>1, <1>4
<1>. QED BY <1>1, <1>2, <1>3, <1>5 DEF KvInv

\* Nothing is stored that no report accounts for.
LEMMA SaveKv ==
  ASSUME AdapterInv, NEW r \in Requests, KvInv(r), WaitForSave(r) PROVE KvInv(r)' /\ wrong' = wrong
<1>0. Tables /\ RequestTypes(r) /\ computed[r] \in Nat /\ step[r] \in Nat
  BY DEF AdapterInv, RequestInv, RequestTypes
<1>1. /\ phase[r] = "save" /\ phase'[r] = "output" /\ lookup_cache' = lookup_cache
      /\ computed' = computed /\ step' = step /\ meta' = meta /\ invalid' = invalid /\ gpu' = gpu
  BY <1>0 DEF WaitForSave, Goes, Tables, schedulerVars, vllmVars
<1>2. /\ Reported(r) /\ invalid[r] \subseteq 1 .. computed[r] + 1 /\ lookup_cache[r] = NotCached
      /\ \A p \in 1 .. computed[r] + step[r] : Accounted(r, p)
      /\ meta[r] # None => meta[r].tokens <= computed[r] + step[r]
  BY <1>1 DEF KvInv
<1>3. Reported(r)' /\ (\A p \in 1 .. computed[r] + step[r] : Accounted(r, p))'
  BY <1>1, <1>2 DEF Reported, Accounted
<1>4. KvInv(r)'
  BY <1>1, <1>2, <1>3 DEF KvInv
<1>5. wrong' = wrong
  <2>. DEFINE K == Chunks(meta[r].tokens, (meta[r].skip \div ChunkSize) * ChunkSize)
              new == {k \in K : \E l \in Places : k \in stored'[l] \ stored[l]}
              untold == {k \in new : \E p \in TokensOf(k) : ~Accounted(r, p)}
  <2>1. CASE UNCHANGED wrong
    BY <2>1
  <2>2. CASE meta[r] # None /\ wrong' = wrong \cup untold
    <3>1. meta[r].tokens \in Nat /\ meta[r].tokens <= computed[r] + step[r]
      BY <1>0, <1>2, <2>2 DEF RequestTypes, ReqMeta
    <3>2. ASSUME NEW k \in K, NEW p \in TokensOf(k) PROVE Accounted(r, p)
      <4>1. k \in 1 .. meta[r].tokens
        BY DEF Chunks
      <4>2. k \in Nat /\ k - 1 \in Nat /\ k <= computed[r] + step[r]
        BY <1>0, <3>1, <4>1
      <4>3. Start(k) \in Nat
        BY <4>2, WholeChunks DEF Start
      <4>4. TokensOf(k) \subseteq 1 .. computed[r] + step[r]
        BY <1>0, <4>2, <4>3 DEF TokensOf
      <4>. QED BY <1>2, <3>2, <4>4
    <3>. HIDE DEF K
    <3>3. untold = {}
      BY <3>2
    <3>. QED BY <2>2, <3>3
  <2>3. \/ UNCHANGED wrong
        \/ meta[r] # None /\ wrong' = wrong \cup untold
    BY DEF WaitForSave
  <2>. QED BY <2>1, <2>2, <2>3
<1>. QED BY <1>4, <1>5

\* A request goes on from the first token it lacks.
LEMMA OutputKv ==
  ASSUME AdapterInv, NEW r \in Requests, KvInv(r), UpdateFromOutput(r) PROVE KvInv(r)'
<1>0. /\ Tables /\ RequestTypes(r) /\ computed[r] \in Nat /\ step[r] \in Nat /\ total[r] \in Nat
      /\ invalid[r] \subseteq Nat
  BY DEF AdapterInv, RequestInv, RequestTypes, Keys
<1>1. PICK done \in 0 .. total[r] :
        /\ IF invalid[r] = {} THEN done = computed[r] + step[r]
           ELSE done + 1 \in invalid[r] /\ \A q \in invalid[r] : done < q
        /\ computed' = [computed EXCEPT ![r] = done]
        /\ gpu' = [gpu EXCEPT ![r] = @ \cap 1 .. done]
        /\ IF done < total[r]
             THEN Goes(r, "running") /\ UNCHANGED total
             ELSE IF total[r] < MaxTokens
                    THEN Goes(r, "running") /\ total' = [total EXCEPT ![r] = @ + 1]
                    ELSE Goes(r, "finished") /\ UNCHANGED total
  BY DEF UpdateFromOutput
<1>2. /\ phase[r] = "output" /\ phase'[r] \in {"running", "finished"}
      /\ lookup_cache' = lookup_cache /\ computed'[r] = done /\ gpu'[r] = gpu[r] \cap 1 .. done
  <2>1. phase' = [phase EXCEPT ![r] = "running"] \/ phase' = [phase EXCEPT ![r] = "finished"]
    BY <1>1 DEF Goes
  <2>2. phase'[r] \in {"running", "finished"}
    BY <1>0, <2>1 DEF Tables
  <2>. QED BY <1>0, <1>1, <2>2 DEF UpdateFromOutput, Tables, schedulerVars
<1>3. /\ Reported(r) /\ invalid[r] \subseteq 1 .. computed[r] + 1 /\ lookup_cache[r] = NotCached
      /\ \A p \in 1 .. computed[r] + step[r] : Accounted(r, p)
  BY <1>2 DEF KvInv
<1>4. 1 .. done \subseteq gpu[r]
  <2>1. CASE invalid[r] = {}
    BY <1>1, <1>3, <2>1 DEF Accounted
  <2>2. CASE invalid[r] # {}
    <3>1. done + 1 \in invalid[r] /\ \A q \in invalid[r] : done < q
      BY <1>1, <2>2
    <3>2. done <= computed[r]
      BY <1>0, <1>3, <3>1
    <3>3. ASSUME NEW p \in 1 .. done PROVE p \in gpu[r]
      <4>1. p \in 1 .. computed[r] /\ p <= done
        BY <1>0, <3>2
      <4>2. ASSUME NEW q \in invalid[r], q <= p PROVE FALSE
        <5>1. q \in Nat /\ done < q
          BY <1>0, <3>1
        <5>. QED BY <4>1, <4>2, <5>1
      <4>. QED BY <1>3, <4>1, <4>2 DEF Reported, Accounted
    <3>. QED BY <3>3
  <2>. QED BY <2>1, <2>2
<1>5. 1 .. computed'[r] \subseteq gpu'[r]
  BY <1>2, <1>4
<1>. QED BY <1>2, <1>3, <1>5 DEF KvInv

\* A request that is preempted begins again with a lookup.
LEMMA LeaveKv ==
  ASSUME AdapterInv, NEW r \in Requests, KvInv(r), Preempt(r) \/ RequestFinished(r) PROVE KvInv(r)'
<1>0. Tables
  BY DEF AdapterInv
<1>1. CASE Preempt(r)
  <2>1. phase[r] = "running" /\ phase'[r] = "preempted" /\ lookup_cache' = lookup_cache
    BY <1>0, <1>1 DEF Preempt, Goes, Tables, schedulerVars
  <2>2. lookup_cache'[r] = NotCached
    BY <2>1 DEF KvInv
  <2>. QED BY <2>1, <2>2 DEF KvInv
<1>2. CASE RequestFinished(r)
  <2>1. phase'[r] = "finished"
    BY <1>0, <1>2 DEF RequestFinished, Goes, Tables
  <2>. QED BY <2>1 DEF KvInv
<1>. QED BY <1>1, <1>2
-----------------------------------------------------------------------------
(* The engine and the connector keep what they promise                     *)

KvSound == wrong = {} /\ \A r \in Requests : KvInv(r)

SafeInv == AdapterInv /\ (ObjectsReturned => KvSound)

LEMMA SafeInit == Init => SafeInv
<1>. SUFFICES ASSUME Init PROVE SafeInv
  OBVIOUS
<1>1. ASSUME NEW r \in Requests PROVE KvInv(r)
  <2>1. phase[r] = "waiting" /\ lookup_cache[r] = NotCached
    BY DEF Init
  <2>. QED BY <2>1 DEF KvInv
<1>. QED BY <1>1, AdapterInit DEF Init, SafeInv, KvSound

\* What a retrieve has forgotten is never given back.
LEMMA RefsGrow == AdapterInv /\ [Next]_vars /\ ObjectsReturned' => ObjectsReturned
<1>. SUFFICES ASSUME AdapterInv, [Next]_vars, ObjectsReturned', NEW k \in Keys PROVE refs[k] = 0
  BY DEF ObjectsReturned
<1>1. refs[k] \in Nat /\ refs'[k] = 0
  BY DEF AdapterInv, EngineTypeOK, ObjectsReturned
<1>2. CASE refs' = refs
  BY <1>1, <1>2
<1>3. CASE \E mapping : \E t : Retrieve(mapping, t)
  <2>1. refs'[k] \in {refs[k], refs[k] + 1}
    BY <1>3 DEF Retrieve
  <2>. QED BY <1>1, <2>1
<1>4. refs' = refs \/ \E mapping : \E t : Retrieve(mapping, t)
  <2>1. ASSUME NEW r \in Requests, Request(r)
        PROVE  refs' = refs \/ \E mapping : \E t : Retrieve(mapping, t)
    <3>1. CASE StartLoadKv(r)
      BY <3>1 DEF StartLoadKv
    <3>2. CASE ~StartLoadKv(r)
      BY <2>1, <3>2 DEF Request, Worker, GetNumNewMatchedTokens, NotScheduled,
         UpdateStateAfterAlloc, BuildConnectorMeta, Forward, WaitForSave, UpdateFromOutput,
         Preempt, RequestFinished, engineVars
    <3>. QED BY <3>1, <3>2
  <2>2. CASE Engine
    BY <2>2 DEF Engine, Clear, Evict, SetMode
  <2>3. CASE UNCHANGED vars
    BY <2>3 DEF vars, engineVars
  <2>. QED BY <2>1, <2>2, <2>3 DEF Next
<1>. QED BY <1>2, <1>3, <1>4

LEMMA SafeStep == ASSUME ~SaveUnfull PROVE SafeInv /\ [Next]_vars => SafeInv'
<1>. SUFFICES ASSUME SafeInv, [Next]_vars, ObjectsReturned' PROVE KvSound'
  BY AdapterStep DEF SafeInv
<1>0. AdapterInv /\ Tables /\ wrong = {} /\ \A r \in Requests : KvInv(r)
  BY RefsGrow DEF SafeInv, AdapterInv, KvSound
<1>1. ASSUME NEW r \in Requests, Request(r) PROVE KvSound'
  <2>1. KvInv(r)' /\ wrong' = {}
    <3>0. KvInv(r)
      BY <1>0
    <3>1. CASE \E c \in LocalHits : GetNumNewMatchedTokens(r, c)
      <4>1. KvInv(r)'
        BY <1>0, <3>1, MatchKv
      <4>. QED BY <1>0, <3>1, <4>1 DEF GetNumNewMatchedTokens
    <3>2. CASE NotScheduled(r)
      <4>1. KvInv(r)'
        BY <1>0, <3>2, NotScheduledKv
      <4>. QED BY <1>0, <3>2, <4>1 DEF NotScheduled
    <3>3. CASE UpdateStateAfterAlloc(r)
      <4>1. KvInv(r)'
        BY <1>0, <3>3, AllocKv
      <4>. QED BY <1>0, <3>3, <4>1 DEF UpdateStateAfterAlloc
    <3>4. CASE \E n \in 1 .. MaxTokens : BuildConnectorMeta(r, n)
      <4>1. KvInv(r)'
        BY <1>0, <3>4, BuildKv
      <4>. QED BY <1>0, <3>4, <4>1 DEF BuildConnectorMeta
    <3>5. CASE StartLoadKv(r)
      <4>1. KvInv(r)'
        BY <1>0, <3>5, LoadKv
      <4>. QED BY <1>0, <3>5, <4>1 DEF StartLoadKv
    <3>6. CASE Forward(r)
      <4>1. KvInv(r)'
        BY <1>0, <3>6, ForwardKv
      <4>. QED BY <1>0, <3>6, <4>1 DEF Forward
    <3>7. CASE WaitForSave(r)
      BY <1>0, <3>7, SaveKv
    <3>8. CASE UpdateFromOutput(r)
      <4>1. KvInv(r)'
        BY <1>0, <3>8, OutputKv
      <4>. QED BY <1>0, <3>8, <4>1 DEF UpdateFromOutput
    <3>9. CASE Preempt(r) \/ RequestFinished(r)
      <4>1. KvInv(r)'
        BY <1>0, <3>9, LeaveKv
      <4>. QED BY <1>0, <3>9, <4>1 DEF Preempt, RequestFinished
    <3>. QED BY <1>1, <3>1, <3>2, <3>3, <3>4, <3>5, <3>6, <3>7, <3>8, <3>9 DEF Request, Worker
  <2>2. \A q \in Requests \ {r} : KvInv(q)'
    BY <1>0, <1>1, OthersSame, KvSame
  <2>. QED BY <2>1, <2>2 DEF KvSound
<1>2. CASE Engine /\ UNCHANGED adapterVars
  <2>1. wrong' = {} /\ \A r \in Requests : Same(r)
    BY <1>0, <1>2 DEF adapterVars, vllmVars, schedulerVars, Same
  <2>. QED BY <1>0, <2>1, KvSame DEF KvSound
<1>3. CASE UNCHANGED vars
  <2>1. wrong' = {} /\ \A r \in Requests : Same(r)
    BY <1>0, <1>3 DEF vars, Same
  <2>. QED BY <1>0, <2>1, KvSame DEF KvSound
<1>. QED BY <1>1, <1>2, <1>3 DEF Next

LEMMA SafeReports == SafeInv => ReportedUnlessDropped
<1>. SUFFICES ASSUME SafeInv, ObjectsReturned, NEW r \in Requests,
                     phase[r] \in {"forward", "save", "output", "running"},
                     NEW p \in 1 .. computed[r]
              PROVE  Accounted(r, p)
  BY DEF ReportedUnlessDropped, FailuresReported
<1>1. KvInv(r)
  BY DEF SafeInv, KvSound
<1>. QED BY <1>1 DEF KvInv, Reported, Accounted

\* Whatever vLLM takes for computed is in its blocks, or start_load_kv has reported a block at or
\* before it, for any requests at once, at whatever chunk of whatever tier a load fails, whatever
\* is cleared, evicted, frozen or unhealthy between the lookup and the load: as long as no
\* retrieve has dropped a chunk that it had loaded.  One that does loses the report with the
\* chunk: see retrieve_mask.cfg.
THEOREM LoadFailuresReported == ASSUME ~SaveUnfull PROVE Spec => []ReportedUnlessDropped
BY SafeInit, SafeStep, SafeReports, PTL DEF Spec

\* As long as none has, what wait_for_save stores is in the request's blocks, or behind a gap
\* that the same step reports.  It does store the latter: it does not ask whether the step's
\* load came to anything.
THEOREM SavesValid == ASSUME ~SaveUnfull PROVE Spec => []ValidUnlessDropped
<1>1. SafeInv => ValidUnlessDropped
  BY DEF SafeInv, KvSound, ValidUnlessDropped
<1>. QED BY <1>1, SafeInit, SafeStep, PTL DEF Spec
=============================================================================

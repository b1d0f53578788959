---------------------------- MODULE CacheEngine ----------------------------
(***************************************************************************)
(* The cache engine over its storage manager, without asynchronous loading *)
(* (lmcache_hcu/v1/cache_engine.py, lmcache_hcu/v1/storage_backend/        *)
(* storage_manager.py): lookup with pins, retrieve with its direct and its *)
(* staged path, store, unpin, clear.                                       *)
(*                                                                         *)
(* All requests are about prefixes of one token sequence, so the key of a  *)
(* chunk is the number of tokens it ends at.  The tiers are external: they *)
(* may drop a key that is not pinned, and a load may fail.  The engine's   *)
(* thread is one, so each call is one step.                                *)
(***************************************************************************)
EXTENDS Integers, Sequences, FiniteSets, FiniteSetsExt

CONSTANTS
  Requests,       \* request ids, which are the lookup ids too
  ChunkSize,      \* chunk_size
  SaveUnfull,     \* save_unfull_chunk: the last tokens make a chunk of their own
  Locations,      \* storage backends, in the order they are searched
  LocalCPU,       \* the name of LocalCPUBackend
  Direct,         \* the locations with direct I/O
  StoreLocations, \* where batched_put stores
  MayFail,        \* pairs of a location and a key of which a load may fail
  MaxTokens       \* bounds the tokens of a request

Places == {Locations[i] : i \in DOMAIN Locations}
Keys == 1 .. MaxTokens

ASSUME EngineAssumption ==
  /\ IsFiniteSet(Requests) /\ ChunkSize \in Nat \ {0} /\ MaxTokens \in Nat
  /\ Direct \subseteq Places /\ StoreLocations \subseteq Places
  /\ MayFail \subseteq Places \X Keys

ASSUME LocationsAssumption == Locations \in Seq(Places)

VARIABLES
  stored,       \* location -> the keys it holds
  pins,         \* location -> key -> pin count
  lookup_pins,  \* lookup id -> location -> keys pinned for it
  refs,         \* key -> references to memory objects nobody has given back
  mode          \* "normal", "frozen" or "unhealthy"

engineVars == <<stored, pins, lookup_pins, refs, mode>>

EngineTypeOK ==
  /\ stored \in [Places -> SUBSET Keys]
  /\ pins \in [Places -> [Keys -> Nat]]
  /\ lookup_pins \in [Requests -> [Places -> SUBSET Keys]]
  /\ refs \in [Keys -> Nat]
  /\ mode \in {"normal", "frozen", "unhealthy"}

NoPins == [l \in Places |-> {}]

Start(k) == ((k - 1) \div ChunkSize) * ChunkSize
TokensOf(k) == Start(k) + 1 .. k

\* process_tokens: the chunks of the first n tokens from token skip + 1 on.
Chunks(n, skip) ==
  {k \in 1 .. n : /\ Start(k) >= skip
                  /\ k % ChunkSize = 0 \/ (SaveUnfull /\ k = n)}

\* get_active_storage_backends
Active(l) == mode = "frozen" => l = LocalCPU

\* batched_contains of a backend: the leading keys of K it holds.
LeadingHits(l, K) ==
  IF Active(l) THEN {k \in K : \A j \in K : j <= k => j \in stored[l]} ELSE {}

\* batched_contains, get_block_mapping: every location takes a prefix of what those before
\* it leave.  There is one such mapping.
BlockMappings(K) ==
  {m \in [Places -> SUBSET K] :
     \A i \in DOMAIN Locations :
       m[Locations[i]] = LeadingHits(Locations[i], K \ UNION {m[Locations[j]] : j \in 1 .. i - 1})}

AllOf(mapping) == UNION {mapping[l] : l \in Places}
Last(K) == IF K = {} THEN 0 ELSE Max(K)
-----------------------------------------------------------------------------
\* lookup with pin of the first n tokens: what is found, which is nothing when the engine is
\* unhealthy, and how many tokens that is.
Found(n) == IF mode = "unhealthy" THEN {NoPins} ELSE BlockMappings(Chunks(n, 0))
Hit(mapping) == Last(AllOf(mapping))

\* Variant: only the last location's pins are remembered.
LookupLastLocation(r, mapping) ==
  IF AllOf(mapping) = {}
    THEN UNCHANGED <<pins, lookup_pins>>
    ELSE /\ pins' = [l \in Places |->
                       [k \in Keys |-> IF k \in mapping[l] THEN pins[l][k] + 1 ELSE pins[l][k]]]
         /\ lookup_pins' = [lookup_pins EXCEPT ![r] =
                              [NoPins EXCEPT ![Locations[Len(Locations)]] =
                                 mapping[Locations[Len(Locations)]]]]

\* What was found is pinned for r.
Lookup(r, mapping) ==
  IF AllOf(mapping) = {}
    THEN UNCHANGED <<pins, lookup_pins>>
    ELSE /\ pins' = [l \in Places |->
                       [k \in Keys |-> IF k \in mapping[l] THEN pins[l][k] + 1 ELSE pins[l][k]]]
         /\ lookup_pins' = [lookup_pins EXCEPT ![r] = mapping]

\* lookup_unpin: a key that is gone is passed over.
Unpin(r) ==
  /\ pins' = [l \in Places |->
                [k \in Keys |->
                   IF k \in lookup_pins[r][l] /\ k \in stored[l] /\ pins[l][k] > 0
                     THEN pins[l][k] - 1 ELSE pins[l][k]]]
  /\ lookup_pins' = [lookup_pins EXCEPT ![r] = NoPins]
-----------------------------------------------------------------------------
\* _process_tokens_internal: the location of the lookup serves everything, when it was
\* one; else the locations are asked again.
RetrieveMappings(r, K) ==
  LET pinned == {l \in Places : lookup_pins[r][l] # {}} IN
  IF Cardinality(pinned) = 1
    THEN {[l \in Places |-> IF l \in pinned THEN K ELSE {}]}
    ELSE BlockMappings(K)

\* What the transfers of a retrieve can come to: the keys read directly, and the staged
\* keys whose memory objects were returned.
Transfers(mapping) ==
  [direct : {D \in SUBSET AllOf(mapping) :
               \A l \in Places : \A k \in D \cap mapping[l] : l \in Direct /\ k \in stored[l]},
   got : {G \in SUBSET AllOf(mapping) :
            \A l \in Places : \A k \in mapping[l] :
              /\ k \in G => Active(l) /\ k \in stored[l]
              /\ k \notin G => ~Active(l) \/ k \notin stored[l] \/ <<l, k>> \in MayFail}]

\* The keys of a location before the first staged one that was not returned.
BeforeFailure(mapping, t, l) ==
  {k \in mapping[l] : \A j \in mapping[l] : j <= k => j \in t.direct \cup t.got}

Failed(mapping, t) ==
  {l \in Places : BeforeFailure(mapping, t, l) # mapping[l]}

FailedStart(mapping, t, l) == Start(Min(mapping[l] \ BeforeFailure(mapping, t, l)))

\* last_failed_block_start; beyond every token when nothing failed.
LastFailed(mapping, t) ==
  IF Failed(mapping, t) = {} THEN MaxTokens + 1
  ELSE Max({FailedStart(mapping, t, l) : l \in Failed(mapping, t)})

\* ret_mask
RetMask(mapping, t) ==
  LET kept == UNION {BeforeFailure(mapping, t, l) : l \in Places}
  IN {p \in UNION {TokensOf(k) : k \in kept} : p <= LastFailed(mapping, t)}

Staged(mapping, t) == (UNION {BeforeFailure(mapping, t, l) : l \in Places}) \ t.direct

\* reordered_chunks: "end < last_failed_block_start"
Reordered(mapping, t) ==
  {k \in Staged(mapping, t) : Failed(mapping, t) # {} => k < LastFailed(mapping, t)}

\* The tokens whose KV reaches the GPU.
Copied(mapping, t) ==
  UNION {TokensOf(k) : k \in t.direct \cup Reordered(mapping, t)}

\* retrieve: chunks that are copied and chunks behind a failure are given back, chunks
\* that are dropped from the list are not; loaded chunks are written back to the CPU tier.
Retrieve(mapping, t) ==
  /\ refs' = [k \in Keys |->
                IF k \in Staged(mapping, t) \ Reordered(mapping, t) THEN refs[k] + 1 ELSE refs[k]]
  /\ stored' = [l \in Places |->
                  IF l = LocalCPU
                    THEN stored[l] \cup UNION {mapping[m] \ t.direct :
                                                 m \in Places \ (Failed(mapping, t) \cup {l})}
                    ELSE stored[l]]
-----------------------------------------------------------------------------
\* store of the chunks K: any of them may not be stored, for want of memory or because
\* the tier refuses.
Store(K) ==
  IF mode # "normal" THEN UNCHANGED stored
  ELSE \E S \in SUBSET K :
         stored' = [l \in Places |-> IF l \in StoreLocations THEN stored[l] \cup S ELSE stored[l]]

\* clear for the first n tokens: pinned or not.
Clear(n) ==
  /\ stored' = [l \in Places |-> stored[l] \ Chunks(n, 0)]
  /\ pins' = [l \in Places |-> [k \in Keys |-> IF k \in Chunks(n, 0) THEN 0 ELSE pins[l][k]]]
  /\ UNCHANGED <<lookup_pins, refs, mode>>

\* A tier makes room.
Evict(l, k) ==
  /\ k \in stored[l] /\ pins[l][k] = 0
  /\ stored' = [stored EXCEPT ![l] = @ \ {k}]
  /\ UNCHANGED <<pins, lookup_pins, refs, mode>>

\* freeze, and the health monitor's verdict.
SetMode(m) ==
  /\ mode # m
  /\ mode' = m
  /\ UNCHANGED <<stored, pins, lookup_pins, refs>>

EngineInit ==
  /\ stored \in [Places -> {{}, Chunks(MaxTokens, 0)}]
  /\ pins = [l \in Places |-> [k \in Keys |-> 0]]
  /\ lookup_pins = [r \in Requests |-> NoPins]
  /\ refs = [k \in Keys |-> 0]
  /\ mode = "normal"
=============================================================================

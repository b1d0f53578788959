---------------------------- MODULE VllmAdapter ----------------------------
(***************************************************************************)
(* A request on its way through vLLM with the LMCache connector            *)
(* (lmcache_hcu/integration/vllm/vllm_v1_adapter.py, with the guards of    *)
(* lmcache_hcu/__init__.py and _hcu_wait_for_save_patch.py), over the      *)
(* cache engine.                                                           *)
(*                                                                         *)
(* In every step the scheduler asks for matched tokens, allocates blocks   *)
(* and builds the metadata; the worker loads, computes and saves; then the *)
(* scheduler takes the output, rolls a request back whose load failed, may *)
(* preempt it and resume it later.  vLLM is external: it hands out blocks  *)
(* of one token, as a difference or as the whole table, and recomputes     *)
(* from the first block a load is reported to have failed for.             *)
(*                                                                         *)
(* Token ids are positions, so that a list of tokens that is not the       *)
(* request's prefix shows; block ids count a request's blocks.             *)
(***************************************************************************)
EXTENDS CacheEngine

CONSTANTS
  PromptLen,        \* tokens of a prompt
  LocalHits,        \* tokens vLLM's own prefix cache may hold of a request
  DiscardPartial,   \* _discard_partial_chunks
  SaveDecode,       \* save_decode_cache
  MinRetrieve,      \* min_retrieve_tokens
  MaxPreemptions,   \* bounds the preemptions of a request
  None              \* what is not there

LoadSpec == [vllm : Nat, lmcache : Nat, can_load : BOOLEAN]
RequestTracker == [tokens : Seq(Keys), blocks : Seq(Keys), saved : Nat, decode : BOOLEAN]
ReqMeta == [tokens : Nat, load : LoadSpec \cup {None}, skip : Nat, can_save : BOOLEAN]

ASSUME AdapterAssumption ==
  /\ PromptLen \in 1 .. MaxTokens
  /\ LocalHits \subseteq Nat /\ MinRetrieve \in Nat /\ MaxPreemptions \in Nat
  /\ DiscardPartial \in BOOLEAN /\ SaveDecode \in BOOLEAN
  /\ None \notin LoadSpec \cup RequestTracker \cup ReqMeta

VARIABLES
  phase,         \* where the request is
  computed,      \* num_computed_tokens
  total,         \* num_tokens, prompt and output
  step,          \* tokens scheduled in this step; tokens to allocate while "matched"
  lookup_cache,  \* what the lookup client remembers, or NotCached
  load_specs,    \* LoadSpec of the request, or None
  trackers,      \* RequestTracker of the request, or None
  meta,          \* ReqMeta of the step, or None
  gpu,           \* the tokens whose KV was loaded or computed into the request's blocks
  invalid,       \* _invalid_block_ids of the request
  wrong,         \* keys a chunk was stored under with a token neither in its block nor reported
  preemptions

vars == <<engineVars, phase, computed, total, step, lookup_cache, load_specs, trackers,
          meta, gpu, invalid, wrong, preemptions>>

schedulerVars == <<lookup_cache, load_specs, trackers>>
vllmVars == <<computed, total, gpu, preemptions>>

NotCached == -1
First(n) == [i \in 1 .. n |-> i]

Phases == {"waiting", "matched", "allocated", "load", "forward", "save", "output",
           "running", "preempted", "finished", "crashed"}

TypeOK ==
  /\ EngineTypeOK
  /\ phase \in [Requests -> Phases]
  /\ computed \in [Requests -> Nat] /\ total \in [Requests -> Nat] /\ step \in [Requests -> Nat]
  /\ lookup_cache \in [Requests -> Nat \cup {NotCached}]
  /\ \A r \in Requests :
       /\ load_specs[r] \in LoadSpec \cup {None} /\ meta[r] \in ReqMeta \cup {None}
       /\ trackers[r] \in RequestTracker \cup {None}
       /\ gpu[r] \subseteq Keys /\ invalid[r] \subseteq Keys
  /\ wrong \subseteq Keys

Goes(r, p) == phase' = [phase EXCEPT ![r] = p]
-----------------------------------------------------------------------------
(* The scheduler                                                           *)

\* The tokens to allocate: a full hit leaves the last token to be computed.
Needed(hit, c, n) ==
  LET need == hit - c - (IF hit = n THEN 1 ELSE 0)
  IN IF need <= 0 \/ (MinRetrieve > 0 /\ need < MinRetrieve) THEN 0 ELSE need

\* get_num_new_matched_tokens, for a request of which vLLM has c tokens: the lookup is
\* done once and remembered.
GetNumNewMatchedTokens(r, c) ==
  /\ phase[r] \in {"waiting", "preempted"} /\ c < total[r]
  /\ \E hit \in 0 .. total[r] :
       /\ IF lookup_cache[r] = NotCached
            THEN \E mapping \in Found(total[r]) : hit = Hit(mapping) /\ Lookup(r, mapping)
            ELSE hit = lookup_cache[r] /\ UNCHANGED <<pins, lookup_pins>>
       /\ lookup_cache' = [lookup_cache EXCEPT ![r] = hit]
       /\ load_specs' = [load_specs EXCEPT ![r] =
                           [vllm |-> c, lmcache |-> hit, can_load |-> FALSE]]
       /\ step' = [step EXCEPT ![r] = Needed(hit, c, total[r])]
  /\ Goes(r, "matched")
  /\ UNCHANGED <<stored, refs, mode, vllmVars, trackers, meta, invalid, wrong>>

\* There is no room for its blocks: the request stays where it was.
NotScheduled(r) ==
  /\ phase[r] = "matched"
  /\ Goes(r, IF trackers[r] = None THEN "waiting" ELSE "preempted")
  /\ UNCHANGED <<engineVars, schedulerVars, vllmVars, step, meta, invalid, wrong>>

\* update_state_after_alloc
UpdateStateAfterAlloc(r) ==
  /\ phase[r] = "matched"
  /\ lookup_cache' = [lookup_cache EXCEPT ![r] = NotCached]
  /\ load_specs' = [load_specs EXCEPT ![r].can_load = step[r] > 0]
  /\ computed' = [computed EXCEPT ![r] = load_specs[r].vllm + step[r]]
  /\ gpu' = [gpu EXCEPT ![r] = 1 .. load_specs[r].vllm]
  /\ Goes(r, "allocated")
  /\ UNCHANGED <<engineVars, total, step, trackers, meta, invalid, wrong, preemptions>>

\* RequestTracker.update with the guard on block tables: a table that begins with the
\* known one replaces it.
Table(old, incoming) ==
  IF Len(old) <= Len(incoming) /\ SubSeq(incoming, 1, Len(old)) = old
    THEN incoming ELSE old \o incoming

\* A tracker ahead of the request is cut back to it.
RolledBack(t, c) ==
  IF c >= Len(t.tokens) THEN t
  ELSE LET keep == IF Len(t.blocks) < c THEN Len(t.blocks) ELSE c
       IN [t EXCEPT !.tokens = First(keep), !.saved = IF @ < keep THEN @ ELSE keep]

\* Variant: the tokens of a preempted request are added to the ones it had.
ResumedKeepingTokens(t, load, n, incoming) ==
  LET have == IF load.lmcache > load.vllm THEN load.lmcache ELSE load.vllm IN
  [t EXCEPT !.tokens = @ \o [i \in 1 .. n |-> have + i], !.blocks = incoming,
            !.saved = load.lmcache, !.decode = @ \/ n = 1]

\* RequestTracker.update for a preempted request.
Resumed(t, load, n, incoming) ==
  LET have == IF load.lmcache > load.vllm THEN load.lmcache ELSE load.vllm IN
  [t EXCEPT !.tokens = First(have + n), !.blocks = incoming, !.saved = load.lmcache,
            !.decode = @ \/ n = 1]

\* Variant: the whole prompt is taken for scheduled.
CreatedWhole(load, c, n) ==
  [tokens |-> First(PromptLen), blocks |-> First(PromptLen), saved |-> load.lmcache,
   decode |-> FALSE]

\* RequestTracker.from_new_request
Created(load, c, n) ==
  [tokens |-> First(c + n), blocks |-> First(c + n), saved |-> load.lmcache, decode |-> FALSE]

Continued(t, c, n, incoming) ==
  [t EXCEPT !.tokens = @ \o [i \in 1 .. n |-> c + i], !.blocks = Table(@, incoming),
            !.decode = @ \/ n = 1]

\* ReqMeta.from_request_tracker: what is skipped, what is saved, and whether it is.
LastPrefill(t) == Len(t.tokens) >= PromptLen
Boundary(t) == ((t.saved \div ChunkSize) + 1) * ChunkSize
SkipSave(t) ==
  \/ t.saved > 0 /\ Len(t.tokens) < Boundary(t)
  \/ t.decode /\ ~SaveDecode
ToSave(t) ==
  IF ~LastPrefill(t) \/ DiscardPartial THEN (Len(t.tokens) \div ChunkSize) * ChunkSize
  ELSE Len(t.tokens)

Meta(t, load) ==
  IF SkipSave(t) /\ load = None THEN None
  ELSE [tokens |-> ToSave(t), load |-> load, skip |-> t.saved, can_save |-> ~SkipSave(t)]
Saved(t) == IF SkipSave(t) THEN t ELSE [t EXCEPT !.saved = ToSave(t)]

Attach(r, t, load) ==
  /\ meta' = [meta EXCEPT ![r] = Meta(t, load)]
  /\ trackers' = [trackers EXCEPT ![r] = Saved(t)]
  /\ load_specs' = [load_specs EXCEPT ![r] = None]

\* build_connector_meta for a request that is scheduled for the first time ...
BuildNew(r, n) ==
  /\ phase[r] = "allocated" /\ trackers[r] = None
  /\ Attach(r, Created(load_specs[r], computed[r], n), load_specs[r])
  /\ Goes(r, "load")

\* ... for one that was preempted, on the assumption of the assertion ...
BuildResumed(r, n) ==
  LET load == load_specs[r] IN
  /\ phase[r] = "allocated" /\ trackers[r] # None
  /\ IF computed[r] # Max({load.lmcache, load.vllm})
       THEN Goes(r, "crashed") /\ UNCHANGED <<meta, trackers, load_specs>>
       ELSE /\ Attach(r, Resumed(RolledBack(trackers[r], computed[r]), load, n,
                                 First(computed[r] + n)), load)
            /\ Goes(r, "load")

\* ... and for one that goes on; its new blocks come as a difference or in a whole table.
BuildRunning(r, n) ==
  LET t == RolledBack(trackers[r], computed[r])
      have == Len(t.blocks)
      want == computed[r] + n
      delta == [i \in 1 .. (IF want > have THEN want - have ELSE 0) |-> have + i]
  IN /\ phase[r] = "running"
     /\ \E incoming \in {delta, First(have) \o delta} :
          Attach(r, Continued(t, computed[r], n, incoming), None)
     /\ Goes(r, "load")

BuildConnectorMeta(r, n) ==
  /\ n \in 1 .. total[r] - computed[r]
  /\ BuildNew(r, n) \/ BuildResumed(r, n) \/ BuildRunning(r, n)
  /\ step' = [step EXCEPT ![r] = n]
  /\ UNCHANGED <<engineVars, vllmVars, lookup_cache, invalid, wrong>>
-----------------------------------------------------------------------------
(* The worker                                                              *)

\* Variant: the mask is not negated.
FailedBlocksOfMask(masked, n, mask) == (masked + 1 .. n) \cap mask

\* record_failed_blocks: the expected tokens that were not retrieved.
FailedBlocks(masked, n, mask) == (masked + 1 .. n) \ mask

\* start_load_kv: a load that brings fewer tokens than vLLM lacks is reported.
StartLoadKv(r) ==
  /\ phase[r] = "load"
  /\ Goes(r, "forward")
  /\ IF meta[r] = None \/ meta[r].load = None \/ ~meta[r].load.can_load
       THEN UNCHANGED <<stored, refs, gpu, invalid>>
       ELSE LET load == meta[r].load
                n == Min({meta[r].tokens, load.lmcache})
                masked == (load.vllm \div ChunkSize) * ChunkSize
            IN IF mode = "unhealthy"
                 THEN /\ invalid' = [invalid EXCEPT ![r] = FailedBlocks(masked, n, {})]
                      /\ UNCHANGED <<stored, refs, gpu>>
                 ELSE \E mapping \in RetrieveMappings(r, Chunks(n, masked)) :
                      \E t \in Transfers(mapping) :
                        LET mask == RetMask(mapping, t) IN
                        /\ Retrieve(mapping, t)
                        /\ gpu' = [gpu EXCEPT ![r] = @ \cup Copied(mapping, t)]
                        /\ invalid' = [invalid EXCEPT ![r] =
                             IF Cardinality(mask) < load.lmcache - load.vllm
                               THEN FailedBlocks(masked, n, mask) ELSE {}]
  /\ UNCHANGED <<pins, lookup_pins, mode, computed, total, preemptions, schedulerVars, step,
                 meta, wrong>>

\* The model computes the scheduled tokens from the KV of those before them.
Forward(r) ==
  LET old == 1 .. computed[r]
      new == computed[r] + 1 .. computed[r] + step[r]
  IN /\ phase[r] = "forward"
     /\ gpu' = [gpu EXCEPT ![r] = IF old \subseteq @ THEN @ \cup new ELSE @]
     /\ Goes(r, "save")
     /\ UNCHANGED <<engineVars, computed, total, preemptions, schedulerVars, step, meta,
                    invalid, wrong>>

\* Variant: the pins of a request that saves nothing are kept.
WaitForSaveUnpinLate(r) ==
  /\ phase[r] = "save"
  /\ Goes(r, "output")
  /\ IF meta[r] # None /\ meta[r].can_save THEN Unpin(r) ELSE UNCHANGED <<pins, lookup_pins>>
  /\ UNCHANGED <<stored, refs, mode, vllmVars, schedulerVars, step, meta, invalid, wrong>>

\* A token whose KV is in its block, or before which a load is reported to have failed.
Accounted(r, p) == p \in gpu[r] \/ \E q \in invalid[r] : q <= p

\* wait_for_save: the pins go first; chunks are stored from the first that was not saved,
\* whatever the step's load came to.
WaitForSave(r) ==
  /\ phase[r] = "save"
  /\ Goes(r, "output")
  /\ IF meta[r] = None THEN UNCHANGED <<pins, lookup_pins>> ELSE Unpin(r)
  /\ IF \/ meta[r] = None \/ ~meta[r].can_save
        \/ Len(trackers[r].blocks) < meta[r].tokens \/ meta[r].skip = meta[r].tokens
       THEN UNCHANGED <<stored, wrong>>
       ELSE LET K == Chunks(meta[r].tokens, (meta[r].skip \div ChunkSize) * ChunkSize)
                new == {k \in K : \E l \in Places : k \in stored'[l] \ stored[l]}
            IN /\ Store(K)
               /\ wrong' = wrong \cup {k \in new : \E p \in TokensOf(k) : ~Accounted(r, p)}
  /\ UNCHANGED <<refs, mode, vllmVars, schedulerVars, step, meta, invalid>>
-----------------------------------------------------------------------------
(* vLLM                                                                    *)

\* The output is taken, with get_block_ids_with_load_errors: a request whose load failed
\* is rolled back; one that has computed all its tokens gets another one.
UpdateFromOutput(r) ==
  /\ phase[r] = "output"
  /\ \E done \in 0 .. total[r] :
       /\ IF invalid[r] = {} THEN done = computed[r] + step[r]
          ELSE done + 1 \in invalid[r] /\ \A q \in invalid[r] : done < q
       /\ computed' = [computed EXCEPT ![r] = done]
       /\ gpu' = [gpu EXCEPT ![r] = @ \cap 1 .. done]
       /\ IF done < total[r]
            THEN Goes(r, "running") /\ UNCHANGED total
            ELSE IF total[r] < MaxTokens
                   THEN Goes(r, "running") /\ total' = [total EXCEPT ![r] = @ + 1]
                   ELSE Goes(r, "finished") /\ UNCHANGED total
  /\ invalid' = [invalid EXCEPT ![r] = {}]
  /\ meta' = [meta EXCEPT ![r] = None]
  /\ step' = [step EXCEPT ![r] = 0]
  /\ UNCHANGED <<engineVars, schedulerVars, wrong, preemptions>>

Preempt(r) ==
  /\ phase[r] = "running" /\ preemptions[r] < MaxPreemptions
  /\ preemptions' = [preemptions EXCEPT ![r] = @ + 1]
  /\ computed' = [computed EXCEPT ![r] = 0]
  /\ gpu' = [gpu EXCEPT ![r] = {}]
  /\ Goes(r, "preempted")
  /\ UNCHANGED <<engineVars, schedulerVars, total, step, meta, invalid, wrong>>

\* request_finished, and the tracker that build_connector_meta drops.
RequestFinished(r) ==
  /\ phase[r] \in {"waiting", "preempted", "running", "finished"}
  /\ trackers' = [trackers EXCEPT ![r] = None]
  /\ Goes(r, "finished")
  /\ UNCHANGED <<engineVars, vllmVars, lookup_cache, load_specs, step, meta, invalid,
                 wrong>>
-----------------------------------------------------------------------------
Init ==
  /\ EngineInit
  /\ phase = [r \in Requests |-> "waiting"]
  /\ computed = [r \in Requests |-> 0]
  /\ total = [r \in Requests |-> PromptLen]
  /\ step = [r \in Requests |-> 0]
  /\ lookup_cache = [r \in Requests |-> NotCached]
  /\ load_specs = [r \in Requests |-> None]
  /\ trackers = [r \in Requests |-> None]
  /\ meta = [r \in Requests |-> None]
  /\ gpu = [r \in Requests |-> {}]
  /\ invalid = [r \in Requests |-> {}]
  /\ wrong = {}
  /\ preemptions = [r \in Requests |-> 0]

Worker(r) == StartLoadKv(r) \/ Forward(r) \/ WaitForSave(r) \/ UpdateFromOutput(r)

Request(r) ==
  \/ \E c \in LocalHits : GetNumNewMatchedTokens(r, c)
  \/ NotScheduled(r) \/ UpdateStateAfterAlloc(r)
  \/ \E n \in 1 .. MaxTokens : BuildConnectorMeta(r, n)
  \/ Worker(r) \/ Preempt(r) \/ RequestFinished(r)

Engine ==
  \/ \E n \in 1 .. MaxTokens : Clear(n)
  \/ \E l \in Places, k \in Keys : Evict(l, k)
  \/ \E m \in {"normal", "frozen", "unhealthy"} : SetMode(m)

adapterVars == <<phase, vllmVars, schedulerVars, step, meta, invalid, wrong>>

Next == (\E r \in Requests : Request(r)) \/ (Engine /\ UNCHANGED adapterVars)

Spec == Init /\ [][Next]_vars

\* A step that is scheduled is carried out.
FairSpec == Spec /\ \A r \in Requests : WF_vars(Worker(r))
-----------------------------------------------------------------------------
\* The tokens a request's chunks are keyed by are the request's own, in order, whatever
\* roll-backs and preemptions it went through.
TokensMatch ==
  \A r \in Requests : trackers[r] # None =>
    trackers[r].tokens = First(Len(trackers[r].tokens))

\* The block table the connector keeps is vLLM's, though vLLM sends it in two forms.
BlocksMatch ==
  \A r \in Requests : trackers[r] # None =>
    trackers[r].blocks = First(Len(trackers[r].blocks))

\* vLLM never takes for computed a token whose KV is not in its blocks, unless it is told
\* of an earlier block that was not loaded.
FailuresReported ==
  \A r \in Requests : phase[r] \in {"forward", "save", "output", "running"} =>
    \A p \in 1 .. computed[r] : Accounted(r, p)

\* A retrieve gives every memory object back.
ObjectsReturned == \A k \in Keys : refs[k] = 0

\* Every failed load is reported from the first token it did not bring, at whatever chunk of
\* whatever tier it failed, as long as no retrieve has dropped a chunk that it had loaded.
ReportedUnlessDropped == ObjectsReturned => FailuresReported

\* As long as none has, no chunk is stored with a token that is not in its block, but by a step
\* that reports its load as failed at or before that token: wait_for_save does store chunks
\* of such a step, and no others.
ValidUnlessDropped == ObjectsReturned => wrong = {}

\* A pin on a chunk is one that a lookup remembers and will give back.
PinsRemembered ==
  \A l \in Places, k \in Keys :
    pins[l][k] <= Cardinality({r \in Requests : k \in lookup_pins[r][l]})

\* The chunks a scheduled request has pinned are unpinned at the end of its step.
PinsReleased == \A r \in Requests : phase[r] = "load" ~> lookup_pins[r] = NoPins

\* The connector's picture of a request is vLLM's: its tokens and its block table, in states
\* of the right types.
TrackersMatch == TypeOK /\ TokensMatch /\ BlocksMatch
=============================================================================

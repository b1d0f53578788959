------------------------------ MODULE Layerwise ------------------------------
(***************************************************************************)
(* One forward pass with layerwise loading and saving: the adapter         *)
(* (vllm_v1_adapter.py) advances the generators retrieve_layer and         *)
(* store_layer of the cache engine (cache_engine.py), which advance those  *)
(* of a layerwise GPU connector (gpu_connectors.py and, line for line the  *)
(* same classes, hcu_connector.py).  The generators only queue work: the   *)
(* device's streams run it when they come to it, and the event loop        *)
(* completes the loads from storage.                                       *)
(*                                                                         *)
(* A generator is the number of times it was advanced.  What the host does *)
(* in a pass is a fixed sequence of such advances: its position says which *)
(* comes next.                                                             *)
(***************************************************************************)
EXTENDS Integers, Sequences, FiniteSets

CONSTANTS
  Loaders,    \* the requests of the pass that load, in order
  Savers,     \* the requests of the pass that save, in order
  NumLayers,
  Chunks,     \* the chunks of a request, numbered in order
  Modes,      \* what the engine may be: "ok", "frozen", "unhealthy"
  None

Layers == 0 .. NumLayers - 1
LoadIds == {Loaders[i] : i \in DOMAIN Loaders}
SaveIds == {Savers[i] : i \in DOMAIN Savers}

\* A pass has each of its requests once.
ASSUME PassAssumption ==
  /\ NumLayers \in Nat \ {0} /\ Chunks \subseteq Nat /\ None \notin Layers
  /\ Loaders \in Seq(LoadIds) /\ Loaders # <<>> /\ Savers \in Seq(SaveIds) /\ Savers # <<>>
  /\ \A i, j \in DOMAIN Loaders : Loaders[i] = Loaders[j] => i = j
  /\ \A i, j \in DOMAIN Savers : Savers[i] = Savers[j] => i = j

VARIABLES
  connector,     \* the connector's class: "paged" or "buffer" (blending)
  mode,          \* what the engine is
  pc,            \* the position of the host in the pass
  raised,        \* whether an exception ended the pass
  retrieves,     \* times each retrieve_layer was advanced
  stores,        \* times each store_layer was advanced
  kind,          \* which path each generator took when it began
  fetched,       \* layers whose load from storage has completed
  pending,       \* operations queued on each stream
  done,          \* operations each stream has run
  buffer,        \* what each of the two blending buffers holds
  load_buffer,   \* the buffer the next layer is loaded into
  draining,      \* layer for which the host is in torch.cuda.synchronize, or None
  loaded,        \* layers of loading requests in the paged memory
  computed,      \* layers the model has run
  copied,        \* layers of saving requests copied to their memory objects
  put,           \* layers of saving requests handed to the storage backends
  early,         \* ... before they were copied
  missed,        \* layers the model ran before they were loaded
  stale          \* layers copied before the model ran them

hostVars == <<pc, raised, retrieves, stores, kind>>
deviceVars == <<buffer, loaded, computed, copied, missed, stale>>
vars == <<connector, mode, hostVars, fetched, pending, done, load_buffer, draining, put,
          early, deviceVars>>

Places == {"start", "load", "blend", "compute", "attention", "save", "end"}
Position == [at : Places, l : 0 .. NumLayers + 1, i : Nat]
Streams == {"current", "load", "store"}
Kinds == {"new", "hit", "none", "dead", "full", "empty", "frozen"}
Op == [op : {"wait", "load", "fill", "flush", "compute", "attention", "store"},
       r : LoadIds \cup SaveIds \cup {None}, l : Nat, n : Nat]

TypeOK ==
  /\ connector \in {"paged", "buffer"} /\ mode \in Modes
  /\ pc \in Position /\ raised \in BOOLEAN
  /\ retrieves \in [LoadIds -> 0 .. NumLayers + 2]
  /\ stores \in [SaveIds -> 0 .. NumLayers + 1]
  /\ kind \in [{"retrieve"} \X LoadIds \cup {"store"} \X SaveIds -> Kinds]
  /\ fetched \in [LoadIds -> 0 .. NumLayers]
  /\ pending \in [Streams -> Seq(Op)] /\ done \in [Streams -> Nat]
  /\ buffer \in [{0, 1} -> (LoadIds \X Layers) \cup {None}]
  /\ load_buffer \in {0, 1} /\ draining \in Layers \cup {None}
  /\ loaded \subseteq LoadIds \X Layers /\ missed \subseteq Layers
  /\ computed \subseteq Layers
  /\ UNION {copied, put, early, stale} \subseteq SaveIds \X Layers
-----------------------------------------------------------------------------
(* What the host does in a pass                                            *)

\* The host is at layer l, and at the i-th request that loads or saves.
P(at, l, i) == [at |-> at, l |-> l, i |-> i]
Begin == P(IF connector = "paged" THEN "start" ELSE "blend", 0, 1)

\* A layer of the model; the paged connector is advanced before each.
Layer(l) == IF connector = "paged" THEN P("load", l, 1) ELSE P("attention", l, 0)

\* start_load_kv: "retrieve for two layers at the first layer"
StartLoadKv(l, i) ==
  IF l = 0 THEN P("start", 1, i)
  ELSE IF i < Len(Loaders) THEN P("start", 0, i + 1) ELSE Layer(0)

\* LMCBlender.blend: advances retrieve_layer once; then a second time, runs the model on the
\* first layer, and so on for every layer; then once more.
Blend(l, i) ==
  IF l = 0 THEN P("blend", 1, i)
  ELSE IF l <= NumLayers THEN P("compute", l - 1, i)
  ELSE IF i < Len(Loaders) THEN P("blend", 0, i + 1) ELSE Layer(0)

\* wait_for_layer_load
WaitForLayerLoad(l, i) ==
  IF i < Len(Loaders) THEN P("load", l, i + 1) ELSE P("attention", l, 0)

\* wait_for_save advances each storer once more, after the last layer.
WaitForSave == P("save", NumLayers, 1)

\* save_kv_layer
SaveKvLayer(l, i) ==
  IF i < Len(Savers) THEN P("save", l, i + 1)
  ELSE IF l + 1 < NumLayers THEN Layer(l + 1)
  ELSE IF l + 1 = NumLayers THEN WaitForSave ELSE P("end", 0, 0)

After ==
  CASE pc.at = "start" -> StartLoadKv(pc.l, pc.i)
    [] pc.at = "blend" -> Blend(pc.l, pc.i)
    [] pc.at = "compute" -> P("blend", pc.l + 2, pc.i)
    [] pc.at = "load" -> WaitForLayerLoad(pc.l, pc.i)
    [] pc.at = "attention" -> P("save", pc.l, 1)
    [] pc.at = "save" -> SaveKvLayer(pc.l, pc.i)

Ended == pc.at = "end"
Running == ~raised /\ draining = None
AtRetrieve(r) == Running /\ pc.at \in {"start", "blend", "load"} /\ Loaders[pc.i] = r
AtStore(r) == Running /\ pc.at = "save" /\ Savers[pc.i] = r
Returns == pc' = After /\ UNCHANGED raised
Raises == raised' = TRUE /\ UNCHANGED pc
-----------------------------------------------------------------------------
(* Queueing on the streams                                                 *)

O(op, r, l, n) == [op |-> op, r |-> r, l |-> l, n |-> n]
Issued(s) == done[s] + Len(pending[s])
\* a.wait_stream(b): a does not go on before b has run what is queued on it now.
Wait(s) == O("wait", None, 0, Issued(s))
Queue(current, load, store) ==
  pending' = [s \in Streams |-> pending[s] \o
               (CASE s = "current" -> current [] s = "load" -> load [] s = "store" -> store)]
Drained(s) == pending[s] = <<>>

\* The buffer that holds layer l: the two change places after every layer.
BufferOf(l) == l % 2
-----------------------------------------------------------------------------
(* retrieve_layer, and batched_to_gpu inside it                            *)

Advance(r) == retrieves' = [retrieves EXCEPT ![r] = @ + 1]
Became(g, k) == kind' = [kind EXCEPT ![g] = k]

\* The first advance finds the chunks and asks for the first layer.  A frozen engine looks
\* in the CPU tier only.
RetrieveStarts(r) ==
  /\ AtRetrieve(r) /\ retrieves[r] = 0
  /\ Advance(r) /\ Returns
  /\ \/ mode = "unhealthy" /\ Became(<<"retrieve", r>>, "dead")
     \/ mode # "unhealthy" /\ Became(<<"retrieve", r>>, "hit")
     \/ mode = "frozen" /\ Became(<<"retrieve", r>>, "none")
  /\ UNCHANGED <<connector, mode, stores, fetched, pending, done, load_buffer, draining, put,
                 early, deviceVars>>

\* Variant: the last request that loads is not told to wait either.
SyncedNever(r) == FALSE

\* start_load_kv: sync
Synced(r) == r = Loaders[Len(Loaders)]

\* VLLMPagedMemLayerwiseGPUConnector.batched_to_gpu: the model waits for the layers before
\* this one, which is queued now.
PagedToGpu(r, l) ==
  /\ Queue(IF Synced(r) THEN <<Wait("load")>> ELSE <<>>, <<O("load", r, l, 0)>>, <<>>)
  /\ UNCHANGED draining

\* VLLMBufferLayerwiseGPUConnector.batched_to_gpu: the layer is loaded into one buffer while
\* the one before it is moved from the other to the paged memory; then the host waits for
\* the device.
BufferToGpu(r, l) ==
  /\ Queue(IF l > 0 THEN <<O("flush", r, l - 1, BufferOf(l - 1))>> ELSE <<>>,
           <<O("fill", r, l, load_buffer)>>, <<>>)
  /\ draining' = l

\* The buffers change places.
Synchronize ==
  /\ draining # None /\ \A s \in Streams : Drained(s)
  /\ draining' = None /\ load_buffer' = 1 - load_buffer
  /\ UNCHANGED <<connector, mode, hostVars, fetched, pending, done, put, early, deviceVars>>

\* Variant: the layer that is waited for is the one that is asked for next.
RetrieveLayerAhead(r) ==
  LET l == retrieves[r] - 1 IN
  /\ AtRetrieve(r) /\ kind[<<"retrieve", r>>] = "hit" /\ retrieves[r] \in 1 .. NumLayers
  /\ fetched[r] > l + 1
  /\ IF connector = "paged" THEN PagedToGpu(r, l) ELSE BufferToGpu(r, l)
  /\ Advance(r) /\ Returns
  /\ UNCHANGED <<connector, mode, stores, kind, fetched, done, load_buffer, put, early, deviceVars>>

\* Each advance waits for the layer asked for before, sends it to the connector, and asks
\* for the next; the memory objects are let go after the last.
RetrieveLayer(r) ==
  LET l == retrieves[r] - 1 IN
  /\ AtRetrieve(r) /\ kind[<<"retrieve", r>>] = "hit" /\ retrieves[r] \in 1 .. NumLayers
  /\ fetched[r] > l
  /\ IF connector = "paged" THEN PagedToGpu(r, l) ELSE BufferToGpu(r, l)
  /\ Advance(r) /\ Returns
  /\ UNCHANGED <<connector, mode, stores, kind, fetched, done, load_buffer, put, early, deviceVars>>

\* The last advance of batched_to_gpu, for the last layer; the buffers are let go.
ToGpuEnds(r) ==
  Queue(IF connector = "buffer"
          THEN <<O("flush", r, NumLayers - 1, BufferOf(NumLayers - 1))>>
        ELSE IF Synced(r) THEN <<Wait("load")>> ELSE <<>>, <<>>, <<>>)

RetrieveEnds(r) ==
  /\ AtRetrieve(r) /\ kind[<<"retrieve", r>>] = "hit" /\ retrieves[r] = NumLayers + 1
  /\ ToGpuEnds(r) /\ load_buffer' = 0
  /\ Advance(r) /\ Returns
  /\ UNCHANGED <<connector, mode, stores, kind, fetched, done, draining, put, early, deviceVars>>

\* Nothing was found: the consumer that the last advance wants was never made.  An unhealthy
\* engine has returned after the first.
RetrieveNothing(r) ==
  /\ AtRetrieve(r) /\ kind[<<"retrieve", r>>] \in {"none", "dead"} /\ retrieves[r] > 0
  /\ IF kind[<<"retrieve", r>>] = "none" /\ retrieves[r] <= NumLayers
       THEN Advance(r) /\ Returns
       ELSE Raises /\ UNCHANGED retrieves
  /\ UNCHANGED <<connector, mode, stores, kind, fetched, pending, done, load_buffer, draining,
                 put, early, deviceVars>>

\* layerwise_batched_get: a load from storage completes.
LoadCompletes(r) ==
  /\ kind[<<"retrieve", r>>] = "hit"
  /\ fetched[r] < retrieves[r] /\ fetched[r] < NumLayers
  /\ fetched' = [fetched EXCEPT ![r] = @ + 1]
  /\ UNCHANGED <<connector, mode, hostVars, pending, done, load_buffer, draining, put, early,
                 deviceVars>>
-----------------------------------------------------------------------------
(* store_layer, and batched_from_gpu inside it                             *)

\* batched_from_gpu queues the copy of a layer behind what the model does now.
FromGpu(r, l) == Queue(<<>>, <<>>, <<Wait("current"), O("store", r, l, 0)>>)

\* The paged connector cuts its buffer at the distance from the first chunk, the buffer has
\* room for the chunks to store only: they must be next to one another.
Sliced(missing) ==
  connector = "paged" =>
    \A c, d \in missing : \A e \in Chunks : (c < e /\ e < d) => e \in missing

\* The first advance allocates for the chunks that are not stored and queues the first layer.
StoreStarts(r) ==
  /\ AtStore(r) /\ stores[r] = 0
  /\ \/ /\ mode = "unhealthy" /\ Raises
        /\ UNCHANGED <<stores, kind, pending>>
     \/ /\ mode = "frozen" /\ Returns
        /\ stores' = [stores EXCEPT ![r] = 1]
        /\ Became(<<"store", r>>, "frozen")
        /\ UNCHANGED pending
     \/ /\ mode = "ok"
        /\ \E missing \in SUBSET Chunks :
             IF missing = {}
               THEN /\ Returns /\ Became(<<"store", r>>, "empty")
                    /\ stores' = [stores EXCEPT ![r] = 1]
                    /\ UNCHANGED pending
             ELSE IF Sliced(missing)
               THEN /\ Returns /\ Became(<<"store", r>>, "full")
                    /\ stores' = [stores EXCEPT ![r] = 1]
                    /\ FromGpu(r, 0)
             ELSE Raises /\ UNCHANGED <<stores, kind, pending>>
  /\ UNCHANGED <<connector, mode, retrieves, fetched, done, load_buffer, draining, put, early,
                 deviceVars>>

\* Variant: nobody waits for the store stream.
WaitsForStoreNever(r) == FALSE

\* save_kv_layer: sync=is_first; VLLMBufferLayerwiseGPUConnector always waits.
WaitsForStore(r) == r = Head(Savers) \/ connector = "buffer"

\* Each advance waits for the layer that is queued, queues the next, and puts the former.
StoreLayer(r) ==
  LET l == stores[r] - 1 IN
  /\ AtStore(r) /\ kind[<<"store", r>>] = "full" /\ stores[r] \in 1 .. NumLayers
  /\ WaitsForStore(r) => Drained("store")
  /\ IF l + 1 < NumLayers THEN FromGpu(r, l + 1) ELSE UNCHANGED pending
  /\ put' = put \cup {<<r, l>>}
  /\ early' = early \cup ({<<r, l>>} \ copied)
  /\ stores' = [stores EXCEPT ![r] = @ + 1] /\ Returns
  /\ UNCHANGED <<connector, mode, retrieves, kind, fetched, done, load_buffer, draining, deviceVars>>

\* With nothing to store there is one advance for each layer, and one more unless frozen.
StoreNothing(r) ==
  /\ AtStore(r) /\ kind[<<"store", r>>] \in {"empty", "frozen"} /\ stores[r] > 0
  /\ IF stores[r] < NumLayers \/ kind[<<"store", r>>] = "empty"
       THEN stores' = [stores EXCEPT ![r] = @ + 1] /\ Returns
       ELSE Raises /\ UNCHANGED stores
  /\ UNCHANGED <<connector, mode, retrieves, kind, fetched, pending, done, load_buffer,
                 draining, put, early, deviceVars>>
-----------------------------------------------------------------------------
(* The model, the engine's modes and the device                            *)

\* The host queues a layer of the model.
Launch ==
  /\ Running /\ pc.at \in {"attention", "compute"}
  /\ LET r == IF pc.at = "compute" THEN Loaders[pc.i] ELSE None IN
       \* blending runs on the layer get_kv finds in its buffer
       IF pc.at = "compute" /\ kind[<<"retrieve", r>>] = "none"
         THEN Raises /\ UNCHANGED pending
         ELSE Queue(<<O(pc.at, r, pc.l, BufferOf(pc.l))>>, <<>>, <<>>) /\ Returns
  /\ UNCHANGED <<connector, mode, retrieves, stores, kind, fetched, done, load_buffer, draining,
                 put, early, deviceVars>>

SetMode(m) ==
  /\ mode # m /\ mode' = m
  /\ UNCHANGED <<connector, hostVars, fetched, pending, done, load_buffer, draining, put, early,
                 deviceVars>>

\* A stream runs the next operation queued on it.
Run(s) ==
  LET o == Head(pending[s]) IN
  /\ pending[s] # <<>>
  /\ o.op = "wait" => done[IF s = "current" THEN "load" ELSE "current"] >= o.n
  /\ pending' = [pending EXCEPT ![s] = Tail(@)]
  /\ done' = [done EXCEPT ![s] = @ + 1]
  /\ buffer' = IF o.op = "fill" THEN [buffer EXCEPT ![o.n] = <<o.r, o.l>>] ELSE buffer
  /\ loaded' = IF o.op = "load" \/ (o.op = "flush" /\ buffer[o.n] = <<o.r, o.l>>)
                 THEN loaded \cup {<<o.r, o.l>>} ELSE loaded
  /\ computed' = IF o.op = "attention" THEN computed \cup {o.l} ELSE computed
  /\ copied' = IF o.op = "store" THEN copied \cup {<<o.r, o.l>>} ELSE copied
  /\ stale' = IF o.op = "store" /\ o.l \notin computed THEN stale \cup {<<o.r, o.l>>} ELSE stale
  /\ missed' = IF \/ o.op = "compute" /\ buffer[o.n] # <<o.r, o.l>>
                  \/ /\ o.op = "attention"
                     /\ \E r \in LoadIds : kind[<<"retrieve", r>>] = "hit"
                                           /\ <<r, o.l>> \notin loaded
                 THEN missed \cup {o.l} ELSE missed
  /\ UNCHANGED <<connector, mode, hostVars, fetched, load_buffer, draining, put, early>>
-----------------------------------------------------------------------------
Init ==
  /\ connector \in {"paged", "buffer"} /\ mode \in Modes
  /\ pc = Begin /\ raised = FALSE
  /\ retrieves = [r \in LoadIds |-> 0] /\ stores = [r \in SaveIds |-> 0]
  /\ kind = [g \in {"retrieve"} \X LoadIds \cup {"store"} \X SaveIds |-> "new"]
  /\ fetched = [r \in LoadIds |-> 0]
  /\ pending = [s \in Streams |-> <<>>] /\ done = [s \in Streams |-> 0]
  /\ buffer = [b \in {0, 1} |-> None] /\ load_buffer = 0 /\ draining = None
  /\ loaded = {} /\ computed = {} /\ copied = {} /\ put = {}
  /\ early = {} /\ missed = {} /\ stale = {}

Host ==
  \/ \E r \in LoadIds : RetrieveStarts(r) \/ RetrieveLayer(r) \/ RetrieveEnds(r)
                        \/ RetrieveNothing(r)
  \/ \E r \in SaveIds : StoreStarts(r) \/ StoreLayer(r) \/ StoreNothing(r)
  \/ Launch \/ Synchronize

Next ==
  \/ Host
  \/ \E r \in LoadIds : LoadCompletes(r)
  \/ \E s \in Streams : Run(s)
  \/ \E m \in Modes : SetMode(m)

Spec == Init /\ [][Next]_vars

\* The host goes on whenever it can, streams run what is queued, and loads complete.
FairSpec ==
  /\ Spec /\ WF_vars(Host)
  /\ \A r \in LoadIds : WF_vars(LoadCompletes(r))
  /\ \A s \in Streams : WF_vars(Run(s))
-----------------------------------------------------------------------------
\* The model never runs a layer of a loading request before that layer is in place: in the
\* paged memory, or whole in the buffer that blending reads, though the host never waits
\* for the load stream and only the last request's generator orders the model behind it.
\* (When that one finds nothing it orders nothing, and raises before the pass ends.)
LoadsInTime == kind[<<"retrieve", Loaders[Len(Loaders)]>>] = "none" \/ missed = {}

\* A layer is copied for storage after the model has run it.
StoresComputed == stale = {}

\* A layer is handed to the storage backends after its copy has ended, although only the
\* first saving request waits for the copies: as long as that one has something to store.
PutAfterCopy == kind[<<"store", Head(Savers)>>] \in {"empty", "frozen"} \/ early = {}

\* When the pass has ended, a request of which the first layer was stored has all layers
\* stored: lookups and stores "only check the first layer".
LayersTogether ==
  Ended =>
    \A r \in SaveIds : <<r, 0>> \in put => \A l \in Layers : <<r, l>> \in put

\* The pass ends, though the host waits for loads and streams and streams for one another.
PassEnds == <>(raised \/ Ended)

\* A layer goes to storage when it is computed and copied, and with all the others.
StoresInOrder == TypeOK /\ StoresComputed /\ PutAfterCopy /\ LayersTogether
=============================================================================

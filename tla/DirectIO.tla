------------------------------ MODULE DirectIO ------------------------------
(***************************************************************************)
(* Direct transfers between the files of the XDS backend and the KV cache  *)
(* of vLLM.  lmcache_hcu/v1/storage_backend/direct_io.py translates the    *)
(* slots of a chunk's tokens into a plan: block runs for a block-first     *)
(* cache, byte segments for a cache of one tensor per layer, or of one for *)
(* the keys and one for the values of each layer.  xds_backend.py executes *)
(* plans: it stores chunks, and retrieves a batch of them, chunk by chunk  *)
(* or pipelined over its thread pool.  A chunk that has no plan, or whose  *)
(* transfer fails, is staged through a memory object in the logical layout *)
(* (block_first_disk.py).                                                  *)
(*                                                                         *)
(* Sizes count head vectors: a cell is one (token, layer, kv, head) of the *)
(* cache.  Tokens, layers, heads, blocks and slots count from 0 and chunks *)
(* from 1; kv is 0 for keys and 1 for values.                              *)
(***************************************************************************)
EXTENDS Integers, FiniteSets, SequencesExt

CONSTANTS
  BlockSize,    \* tokens of a block
  ChunkBlocks,  \* blocks of a chunk: chunk_size \div block_size
  NumLayers,
  NumBlocks,    \* physical blocks of the KV cache
  Layouts,      \* of the retrieving cache: see Layout
  Tables,       \* block tables a request may have
  Ranges,       \* token ranges <<start, end>> of the chunks of a request
  Skips,        \* numbers of tokens that vLLM has cached itself
  Pipelines,    \* values of direct_retrieve_pipeline_enabled
  MaxFaults,    \* bounds the transfers and registrations that fail
  None, Raised, \* no plan; a builder that raised
  Old           \* what the cells of the KV cache hold at first

VARIABLES
  req,         \* the request: layout, table, storeTable, ranges, skip, pipeline, source
  file,        \* the file of each chunk: a format and its cells
  plan,        \* the plan of each chunk: None, Raised or a descriptor
  kv,          \* the KV cache: the value of each cell, by allocation and offset
  job,         \* where the retrieval of each chunk is
  at,          \* the reads each transfer has done
  edge,        \* _direct_edge_tensor: None, or the block read last
  registered,  \* _direct_registrations: the allocations that are registered
  faults

vars == <<req, file, plan, kv, job, at, edge, registered, faults>>

\* A cache's kind; its heads; whether its tensors are views of one storage; whether
\* its vectors lie token by token or head by head; and head vectors in 4 KiB.
Layout == [kind : {"block_first", "per_layer", "asymmetric"}, heads : Nat,
           shared : BOOLEAN, tokenMajor : BOOLEAN, align : Nat]

ChunkSize == ChunkBlocks * BlockSize
ASSUME PlanAssumption == Layouts \subseteq Layout /\ BlockSize > 0 /\ ChunkBlocks > 0

Chunks == DOMAIN req.ranges
Layers == 0 .. NumLayers - 1
L == req.layout
Heads == 0 .. L.heads - 1
Start(c) == req.ranges[c][1]
End(c) == req.ranges[c][2]
ChunkTokens(c) == End(c) - Start(c)

\* The slots of a request's tokens: its block table, block by block.
Slot(table, t) == table[t \div BlockSize + 1] * BlockSize + (t % BlockSize)

\* What the model wrote for a token: unlike anything else in the cache.
Value(t, layer, k, h) == <<t, layer, k, h>>

LayerBlock == BlockSize * L.heads
BlockCells == NumLayers * 2 * LayerBlock
-----------------------------------------------------------------------------
(* The KV cache of vLLM                                                    *)

NumTensors == CASE L.kind = "block_first" -> 1
                [] L.kind = "per_layer" -> NumLayers
                [] OTHER -> 2 * NumLayers

TensorCells == (NumBlocks * BlockCells) \div NumTensors

\* add_allocation: tensors of one storage share its allocation.
Allocation(i) == IF L.shared THEN <<0, i * TensorCells>> ELSE <<i, 0>>

Allocations == {Allocation(i)[1] : i \in 0 .. NumTensors - 1}
AllocationCells == IF L.shared THEN NumTensors * TensorCells ELSE TensorCells
Cells == Allocations \X (0 .. AllocationCells - 1)

\* stride(1) and stride(token_dim) of a key or value cache.
HeadStride == IF L.tokenMajor THEN 1 ELSE BlockSize
TokenStride == IF L.tokenMajor THEN L.heads ELSE 1

\* Where attention reads a cell of a slot, in each kind of cache.
CellOf(slot, layer, k, h) ==
  LET block == slot \div BlockSize
      token == slot % BlockSize
      row == token * L.heads + h
      within(i, offset) == <<Allocation(i)[1], Allocation(i)[2] + offset>>
  IN CASE L.kind = "block_first" ->
            within(0, ((block * NumLayers + layer) * 2 + k) * LayerBlock + row)
       [] L.kind = "per_layer" ->
            within(layer, (k * NumBlocks + block) * LayerBlock + row)
       [] OTHER ->
            within(2 * layer + k,
                   block * LayerBlock + h * HeadStride + token * TokenStride)
-----------------------------------------------------------------------------
(* block_first_disk.py: the layout of a file                               *)

Header == L.align

\* The logical tensor [2, NL, T, D] of a chunk, as a memory object holds it.
Logical(c) ==
  [x \in {0, 1} \X Layers \X (0 .. ChunkTokens(c) - 1) \X Heads |->
     Value(Start(c) + x[3], x[2], x[1], x[4])]

\* Element i of the contiguous tensor [CB, NL, 2, BS, D]: kv, layer, token, head.
Coordinate(i) ==
  << (i \div LayerBlock) % 2, (i \div (2 * LayerBlock)) % NumLayers,
     (i \div BlockCells) * BlockSize + ((i \div L.heads) % BlockSize), i % L.heads >>

FileCells(c) == Header .. Header + (ChunkTokens(c) \div BlockSize) * BlockCells - 1

LogicalToBlockFirst(c, logical) ==
  [i \in FileCells(c) |-> logical[Coordinate(i - Header)]]

BlockFirstToLogical(c, cells) ==
  [x \in {0, 1} \X Layers \X (0 .. ChunkTokens(c) - 1) \X Heads |->
     cells[Header + (x[3] \div BlockSize) * BlockCells + (2 * x[2] + x[1]) * LayerBlock
           + (x[3] % BlockSize) * L.heads + x[4]]]
-----------------------------------------------------------------------------
(* direct_io.py: plans                                                     *)

\* The slots of n tokens from token t on are block b from offset o on.
Maps(table, t, n, b, o) ==
  \A i \in 0 .. n - 1 : Slot(table, t + i) = b * BlockSize + o + i

\* The physical block a whole logical block's tokens cover, or None.
PhysicalBlock(table, t) ==
  LET first == Slot(table, t)
      b == first \div BlockSize
  IN IF first >= 0 /\ first % BlockSize = 0 /\ b < NumBlocks /\ Maps(table, t, BlockSize, b, 0)
     THEN b ELSE None

\* The maximal stretches of 1 .. n in which each follows the one before.
Stretches(n, Follows(_)) ==
  LET starts == SelectSeq([i \in 1 .. n |-> i], LAMBDA i : i = 1 \/ ~Follows(i))
  IN [j \in DOMAIN starts |->
        [first |-> starts[j],
         count |-> (IF j = Len(starts) THEN n + 1 ELSE starts[j + 1]) - starts[j]]]

\* Variant: two neighbours make one run in whichever order they lie.
RunsEither(blocks, s) ==
  LET stretches == Stretches(Len(blocks), LAMBDA i : blocks[i] - blocks[i - 1] \in {-1, 1})
  IN [j \in DOMAIN stretches |->
        [logical |-> s + stretches[j].first - 1, physical |-> blocks[stretches[j].first],
         count |-> stretches[j].count]]

\* The runs of blocks that follow one another, in the file from logical block s on.
Runs(blocks, s) ==
  LET stretches == Stretches(Len(blocks), LAMBDA i : blocks[i] = blocks[i - 1] + 1)
  IN [j \in DOMAIN stretches |->
        [logical |-> s + stretches[j].first - 1, physical |-> blocks[stretches[j].first],
         count |-> stretches[j].count]]

Descriptor(direction, s, blocks, from, n, runs, lead, segments) ==
  [direction |-> direction, start |-> s, blocks |-> blocks, validStart |-> from,
   validCount |-> n, runs |-> runs, edge |-> lead, segments |-> segments]

SkipTokens(c, direction) ==
  IF direction = "retrieve"
  THEN LET n == IF req.skip > Start(c) THEN req.skip - Start(c) ELSE 0
       IN IF n < ChunkTokens(c) THEN n ELSE ChunkTokens(c)
  ELSE 0

\* The uncached suffix of the block that token skip of the chunk is in.
LeadingEdge(c, table, skip) ==
  LET first == Slot(table, Start(c) + skip)
      o == skip % BlockSize
      b == first \div BlockSize
      n == BlockSize - o
  IN IF first >= 0 /\ first % BlockSize = o /\ b < NumBlocks
        /\ Maps(table, Start(c) + skip, n, b, o)
     THEN [logical |-> skip \div BlockSize, physical |-> b, offset |-> o, count |-> n]
     ELSE None

\* Where the whole blocks start: after the leading edge, when there is one.
FullStart(skip) ==
  IF skip % BlockSize = 0 THEN skip ELSE skip + BlockSize - (skip % BlockSize)

\* The physical blocks of the chunk's tokens from offset n on.
PhysicalBlocks(c, table, n) ==
  [i \in 1 .. (ChunkTokens(c) - n) \div BlockSize |->
     PhysicalBlock(table, Start(c) + n + (i - 1) * BlockSize)]

Whole(c, skip) == ChunkTokens(c) % BlockSize = 0 /\ skip < ChunkTokens(c)

BuildBlockFirst(c, table, direction) ==
  LET skip == SkipTokens(c, direction)
      full == FullStart(skip)
      blocks == PhysicalBlocks(c, table, full)
      lead == IF skip % BlockSize = 0 THEN None ELSE LeadingEdge(c, table, skip)
      s == full \div BlockSize
  IN IF /\ Whole(c, skip)
        /\ skip % BlockSize # 0 => lead # None
        /\ \A i \in DOMAIN blocks : blocks[i] # None
     THEN Descriptor(direction, s, blocks, skip, ChunkTokens(c) - skip,
                     Runs(blocks, s), lead, <<>>)
     ELSE None

\* The segments of one region per logical block, layer and kv.
Region(blocks, s, i) ==
  LET b == (i - 1) \div (2 * NumLayers)
      n == (i - 1) % (2 * NumLayers)
  IN [physical |-> blocks[b + 1], layer |-> n \div 2, kv |-> n % 2,
      offset |-> Header + (s + b) * BlockCells + n * LayerBlock]

\* Variant: values lie right after the keys of their block.
PerLayerSegmentsInterleaved(blocks, s) ==
  [i \in 1 .. Len(blocks) * NumLayers * 2 |->
     LET r == Region(blocks, s, i)
     IN [offset |-> r.offset, allocation |-> Allocation(r.layer)[1],
         target |-> Allocation(r.layer)[2] + (2 * r.physical + r.kv) * LayerBlock,
         cells |-> LayerBlock]]

PerLayerSegments(blocks, s) ==
  [i \in 1 .. Len(blocks) * NumLayers * 2 |->
     LET r == Region(blocks, s, i)
     IN [offset |-> r.offset, allocation |-> Allocation(r.layer)[1],
         target |-> Allocation(r.layer)[2] + (r.kv * NumBlocks + r.physical) * LayerBlock,
         cells |-> LayerBlock]]

\* The head vectors of the regions in the order of the file, token by token: one that
\* follows the vector before it in its allocation too is merged with it (append_segment).
AsymmetricSegments(blocks, s) ==
  LET vector(i) ==
        LET r == Region(blocks, s, (i - 1) \div LayerBlock + 1)
            n == (i - 1) % LayerBlock
            a == Allocation(2 * r.layer + r.kv)
        IN [offset |-> r.offset + n, allocation |-> a[1],
            target |-> a[2] + r.physical * LayerBlock
                       + (n % L.heads) * HeadStride + (n \div L.heads) * TokenStride]
      n == Len(blocks) * NumLayers * 2 * LayerBlock
      vectors == SubSeq([i \in 1 .. n |-> vector(i)], 1, n)
      merges(i) == /\ vectors[i].allocation = vectors[i - 1].allocation
                   /\ vectors[i].offset = vectors[i - 1].offset + 1
                   /\ vectors[i].target = vectors[i - 1].target + 1
      stretches == Stretches(n, merges)
  IN [j \in DOMAIN stretches |->
        [offset |-> vectors[stretches[j].first].offset,
         allocation |-> vectors[stretches[j].first].allocation,
         target |-> vectors[stretches[j].first].target, cells |-> stretches[j].count]]

\* build_per_layer_direct_plans, build_asymmetric_per_layer_direct_plans: retrieve
\* only, and no leading edge.
BuildSegments(c, table) ==
  LET skip == SkipTokens(c, "retrieve")
      blocks == PhysicalBlocks(c, table, skip)
      s == skip \div BlockSize
  IN IF /\ Whole(c, skip) /\ skip % BlockSize = 0
        /\ \A i \in DOMAIN blocks : blocks[i] # None
     THEN Descriptor("retrieve", s, blocks, skip, ChunkTokens(c) - skip, <<>>, None,
                     IF L.kind = "per_layer" THEN PerLayerSegments(blocks, s)
                                             ELSE AsymmetricSegments(blocks, s))
     ELSE None
-----------------------------------------------------------------------------
(* DirectIODescriptor.validate                                             *)

Aligned(n) == n % L.align = 0

\* _validate_byte_segments: sorted by offset they cover the declared blocks exactly.
SegmentsValid(d, aligned) ==
  LET segments == SortSeq(d.segments, LAMBDA x, y : x.offset < y.offset)
      end(i) == segments[i].offset + segments[i].cells
  IN /\ d.direction = "retrieve" /\ d.runs = <<>> /\ d.edge = None
     /\ d.validStart = d.start * BlockSize
     /\ d.validCount = Len(d.blocks) * BlockSize
     /\ aligned => Aligned(AllocationCells)
     /\ segments[1].offset = Header + d.start * BlockCells
     /\ \A i \in 2 .. Len(segments) : segments[i].offset = end(i - 1)
     /\ end(Len(segments)) = Header + (d.start + Len(d.blocks)) * BlockCells
     /\ \A i \in DOMAIN segments :
          LET x == segments[i]
          IN /\ x.allocation \in Allocations
             /\ x.target >= 0 /\ x.target + x.cells <= AllocationCells
             /\ aligned => Aligned(x.offset) /\ Aligned(x.target) /\ Aligned(x.cells)

\* The runs cover the blocks in order, after the leading edge.
RunsValid(d, aligned) ==
  LET after(i) == IF i = 0 THEN d.start ELSE d.runs[i].logical + d.runs[i].count
  IN /\ \A i \in DOMAIN d.runs :
          /\ d.runs[i].logical = after(i - 1)
          /\ d.runs[i].physical >= 0 /\ d.runs[i].physical + d.runs[i].count <= NumBlocks
     /\ after(Len(d.runs)) = d.start + Len(d.blocks)
     /\ IF d.edge = None
        THEN /\ d.validStart = d.start * BlockSize
             /\ d.validCount = Len(d.blocks) * BlockSize
        ELSE /\ d.direction = "retrieve"
             /\ d.edge.physical \in 0 .. NumBlocks - 1
             /\ d.edge.offset \in 1 .. BlockSize - 1
             /\ d.edge.count = BlockSize - d.edge.offset
             /\ d.start = d.edge.logical + 1
             /\ d.validStart = d.edge.logical * BlockSize + d.edge.offset
             /\ d.validCount = d.edge.count + Len(d.blocks) * BlockSize
     /\ aligned => Aligned(NumBlocks * BlockCells) /\ Aligned(BlockCells)

Valid(d, aligned) ==
  /\ Len(d.blocks) > 0 \/ d.edge # None
  /\ IF d.segments # <<>> THEN SegmentsValid(d, aligned) ELSE RunsValid(d, aligned)

\* build_direct_io_plans: the builder of the cache's kind.  A symmetric builder raises
\* when its plan is invalid, the asymmetric one gives no plan.
BuildPlan(c, table, direction) ==
  LET d == IF L.kind = "block_first" THEN BuildBlockFirst(c, table, direction)
           ELSE BuildSegments(c, table)
  IN CASE d = None -> None
       [] Valid(d, L.kind = "asymmetric") -> d
       [] L.kind = "asymmetric" -> None
       [] OTHER -> Raised

\* _validate_direct_descriptor: what the backend asks of a plan besides.
ValidateDirect(d, direction) ==
  /\ d.direction = direction /\ Valid(d, TRUE)
  /\ d.start + Len(d.blocks) <= ChunkBlocks
  /\ d.edge # None => d.edge.logical < ChunkBlocks
-----------------------------------------------------------------------------
TypeOK ==
  /\ req \in [layout : Layouts, table : Tables, storeTable : Tables, ranges : Ranges,
              skip : Skips, pipeline : Pipelines, source : {"direct", "staged"}]
  /\ \A c \in Chunks : file[c] = None \/ file[c].format \in {"block_first", "legacy"}
  /\ DOMAIN kv = Cells
  /\ job \in [Chunks -> {"none", "planned", "submitted", "prepared", "registered",
                         "refused", "cut", "landed", "missing"}]
  /\ at \in [Chunks -> Nat]
  /\ registered \subseteq Allocations
  /\ faults \in 0 .. MaxFaults

Init ==
  /\ req \in [layout : Layouts, table : Tables, storeTable : Tables, ranges : Ranges,
              skip : Skips, pipeline : Pipelines, source : {"direct", "staged"}]
  /\ file = [c \in Chunks |-> None]
  /\ plan = [c \in Chunks |-> None]
  /\ kv = [a \in Cells |-> Old]
  /\ job = [c \in Chunks |-> "none"]
  /\ at = [c \in Chunks |-> 0]
  /\ edge = None /\ registered = {} /\ faults = 0

Fault == faults < MaxFaults /\ faults' = faults + 1
-----------------------------------------------------------------------------
(* Stores                                                                  *)

\* The storing engine's block-first cache: cell i of a physical block.
StoredCell(table, b, i) ==
  LET x == Coordinate(i)
      tokens == {t \in 0 .. Len(table) * BlockSize - 1 :
                   Slot(table, t) = b * BlockSize + x[3]}
  IN IF tokens = {} THEN Old ELSE Value(CHOOSE t \in tokens : TRUE, x[2], x[1], x[4])

\* _save_direct_xds: one write per run; the plan must cover the whole chunk.
SaveDirect(c, d) ==
  [i \in FileCells(c) |->
     LET b == (i - Header) \div BlockCells
         r == CHOOSE r \in ToSet(d.runs) : b \in r.logical .. r.logical + r.count - 1
     IN StoredCell(req.storeTable, r.physical + b - r.logical, (i - Header) % BlockCells)]

\* A chunk is stored by an engine whose cache is block-first, directly if it has a
\* plan; otherwise by a memory object, in block-first format if it is a full chunk.
Store(c) ==
  LET d == BuildBlockFirst(c, req.storeTable, "store")
  IN /\ job[c] = "none" /\ file[c] = None
     /\ file' = [file EXCEPT ![c] =
          IF req.source = "direct" /\ d # None /\ ValidateDirect(d, "store")
             /\ d.start = 0 /\ Len(d.blocks) = ChunkBlocks
          THEN [format |-> "block_first", cells |-> SaveDirect(c, d)]
          ELSE IF ChunkTokens(c) = ChunkSize
          THEN [format |-> "block_first", cells |-> LogicalToBlockFirst(c, Logical(c))]
          ELSE [format |-> "legacy", cells |-> Logical(c)]]
     /\ UNCHANGED <<req, plan, kv, job, at, edge, registered, faults>>

\* retrieve: the plans of all chunks.
Plan ==
  /\ \A c \in Chunks : file[c] # None /\ job[c] = "none"
  /\ plan' = [c \in Chunks |-> BuildPlan(c, req.table, "retrieve")]
  /\ job' = [c \in Chunks |-> "planned"]
  /\ UNCHANGED <<req, file, kv, at, edge, registered, faults>>
-----------------------------------------------------------------------------
(* XDSBackend.batched_direct_get                                           *)

Planned == \A c \in Chunks : job[c] # "none" /\ plan[c] # Raised
Settled(c) == job[c] \in {"refused", "cut", "landed", "missing"}
Pipelined == req.pipeline /\ Len(req.ranges) > 1
To(c, state) == job' = [job EXCEPT ![c] = state]

\* The chunk's turn: without a plan, or in the legacy format, it is refused.
Begin(c) ==
  /\ Planned /\ job[c] = "planned"
  /\ \A e \in Chunks : e < c => IF Pipelined THEN job[e] # "planned" ELSE Settled(e)
  /\ To(c, IF plan[c] = None \/ file[c].format = "legacy" THEN "refused" ELSE "submitted")
  /\ UNCHANGED <<req, file, plan, kv, at, edge, registered, faults>>

\* _prepare_direct_xds, in the pool when pipelined: the descriptor and the header are
\* validated; the header may have changed.
Prepare(c) ==
  /\ job[c] = "submitted"
  /\ \/ To(c, IF ValidateDirect(plan[c], "retrieve") THEN "prepared" ELSE "refused")
        /\ UNCHANGED faults
     \/ To(c, "refused") /\ Fault
  /\ UNCHANGED <<req, file, plan, kv, at, edge, registered>>

\* registration_allocations: a segment plan's own, or the one of a run plan.
RegistrationAllocations(d) == IF d.segments # <<>> THEN Allocations ELSE {0}

\* _ensure_direct_registration, in the order of the chunks: an allocation that cannot
\* be registered refuses the chunk and leaves those before it registered.
EnsureDirectRegistration(c) ==
  LET needed == RegistrationAllocations(plan[c])
  IN /\ job[c] = "prepared"
     /\ \A e \in Chunks : e < c => job[e] \in {"registered"} \/ Settled(e)
     /\ \/ To(c, "registered") /\ registered' = registered \union needed /\ UNCHANGED faults
        \/ /\ To(c, "refused") /\ Fault
           /\ \E a \in needed \ registered :
                registered' = registered \union {b \in needed : b < a}
     /\ UNCHANGED <<req, file, plan, kv, at, edge>>

\* _can_parallel_direct_retrieve: whole blocks only, and no block twice.
CanParallel ==
  LET jobs == {c \in Chunks : job[c] \in {"registered", "cut", "landed"}}
      blocks(c) == ToSet(plan[c].blocks)
  IN /\ Cardinality(jobs) >= 2
     /\ \A c \in jobs :
          /\ plan[c].edge = None /\ plan[c].blocks # <<>>
          /\ Cardinality(blocks(c)) = Len(plan[c].blocks)
          /\ \A e \in jobs \ {c} : blocks(c) \intersect blocks(e) = {}

\* The chunk's transfer may go on: serially in order, or beside the others.
Transferring(c) ==
  /\ job[c] = "registered"
  /\ Pipelined => \A e \in Chunks : Settled(e) \/ job[e] = "registered"
  /\ (Pipelined /\ CanParallel) \/ \A e \in Chunks : e < c => Settled(e)

\* The reads of a plan into the KV cache: its segments, or its runs.
Reads(d) ==
  IF d.segments # <<>> THEN d.segments
  ELSE [i \in DOMAIN d.runs |->
          [offset |-> Header + d.runs[i].logical * BlockCells, allocation |-> 0,
           target |-> d.runs[i].physical * BlockCells,
           cells |-> d.runs[i].count * BlockCells]]

\* The cache after n cells of a read have arrived.
Arrived(c, r, n) ==
  [a \in Cells |->
     IF a[1] = r.allocation /\ a[2] \in r.target .. r.target + n - 1
     THEN file[c].cells[r.offset + a[2] - r.target] ELSE kv[a]]

\* A chunk's block is read into the edge staging.
ReadEdge(c) ==
  LET e == plan[c].edge
  IN /\ Transferring(c) /\ e # None /\ edge = None /\ at[c] = 0
     /\ \/ /\ edge' = [i \in 0 .. BlockCells - 1 |->
                         file[c].cells[Header + e.logical * BlockCells + i]]
           /\ UNCHANGED <<job, faults>>
        \/ Fault /\ To(c, "cut") /\ UNCHANGED edge
     /\ UNCHANGED <<req, file, plan, kv, at, registered>>

\* Variant: the whole block is copied.
CopiedEdgeWhole(c) ==
  LET from == plan[c].edge.physical * BlockCells
  IN [a \in Cells |-> IF a[2] \in from .. from + BlockCells - 1
                      THEN edge[a[2] - from] ELSE kv[a]]

\* _copy_direct_leading_edge: of every layer and kv, the rows from the edge's offset on.
CopiedEdge(c) ==
  LET e == plan[c].edge
      from == e.physical * BlockCells
      rows == {(layer * 2 + k) * BlockSize + e.offset + i :
                 layer \in Layers, k \in {0, 1}, i \in 0 .. e.count - 1}
  IN [a \in Cells |-> IF \E r \in rows : a[2] - from \in r * L.heads .. (r + 1) * L.heads - 1
                      THEN edge[a[2] - from] ELSE kv[a]]

CopyDirectLeadingEdge(c) ==
  /\ Transferring(c) /\ plan[c].edge # None /\ edge # None /\ at[c] = 0
  /\ kv' = CopiedEdge(c) /\ edge' = None
  /\ at' = [at EXCEPT ![c] = 1]
  /\ To(c, IF plan[c].runs = <<>> THEN "landed" ELSE "registered")
  /\ UNCHANGED <<req, file, plan, registered, faults>>

\* _transfer_direct_xds: one read of the plan.  A read that comes short cuts the
\* transfer, with what has arrived in the cache.
ReadNext(c) ==
  LET lead == IF plan[c].edge = None THEN 0 ELSE 1
      reads == Reads(plan[c])
  IN /\ Transferring(c) /\ at[c] >= lead
     /\ \E r \in {reads[at[c] - lead + 1]} :
          \/ /\ kv' = Arrived(c, r, r.cells)
             /\ at' = [at EXCEPT ![c] = @ + 1]
             /\ To(c, IF at[c] - lead + 1 = Len(reads) THEN "landed" ELSE "registered")
             /\ UNCHANGED faults
          \/ /\ Fault /\ To(c, "cut") /\ UNCHANGED at
             /\ \E n \in {0, r.cells - 1} : kv' = Arrived(c, r, n)
     /\ UNCHANGED <<req, file, plan, edge, registered>>

\* The cells of a chunk's tokens, but for those that vLLM has.
WantedCells(c) ==
  {CellOf(Slot(req.table, t), layer, k, h) :
     t \in {u \in Start(c) .. End(c) - 1 : u >= req.skip}, layer \in Layers,
     k \in {0, 1}, h \in Heads}

\* What the transfer kernel of to_gpu puts into each of these cells.
ToGpu(c, logical) ==
  [a \in WantedCells(c) |->
     logical[CHOOSE x \in DOMAIN logical :
               CellOf(Slot(req.table, Start(c) + x[3]), x[2], x[1], x[4]) = a]]

\* What was refused or cut is staged: the file becomes a logical tensor in a memory object.
Staged(c) ==
  /\ \A e \in Chunks : Settled(e)
  /\ job[c] \in {"refused", "cut"}
  /\ \/ \E new \in {ToGpu(c, IF file[c].format = "legacy" THEN file[c].cells
                             ELSE BlockFirstToLogical(c, file[c].cells))} :
          /\ kv' = [a \in Cells |-> IF a \in DOMAIN new THEN new[a] ELSE kv[a]]
          /\ To(c, "landed") /\ UNCHANGED faults
     \/ Fault /\ To(c, "missing") /\ UNCHANGED kv
  /\ UNCHANGED <<req, file, plan, at, edge, registered>>

\* The retrieve has returned: anything else that stops is a deadlock.
Returned ==
  /\ \A c \in Chunks : job[c] \in {"landed", "missing"}
  /\ UNCHANGED vars

Next ==
  \/ Plan
  \/ Returned
  \/ \E c \in Chunks :
       Store(c) \/ Begin(c) \/ Prepare(c) \/ EnsureDirectRegistration(c) \/ ReadEdge(c)
       \/ CopyDirectLeadingEdge(c) \/ ReadNext(c) \/ Staged(c)

Spec == Init /\ [][Next]_vars
-----------------------------------------------------------------------------
(* Properties                                                              *)

\* Once a chunk has landed, directly or staged, every token of it that vLLM lacked has
\* its own keys and values in the cells attention reads: whichever engine stored it, in
\* whichever way, and whatever an earlier transfer of the batch left half done.
TokensLand ==
  \A c \in Chunks : job[c] = "landed" =>
    \A t \in {u \in Start(c) .. End(c) - 1 : u >= req.skip}, layer \in Layers,
      k \in {0, 1}, h \in Heads :
        kv[CellOf(Slot(req.table, t), layer, k, h)] = Value(t, layer, k, h)

\* At no moment does a cell change that no wanted token owns: neither the tokens vLLM
\* has cached (they may be in use: "avoid read/write stream race condition for shared
\* block"), nor the blocks of other requests.
OthersUntouched ==
  \A a \in Cells \ UNION {WantedCells(c) : c \in Chunks} : kv[a] = Old

\* No plan that the builders make is rejected by its own validation: retrieve, which
\* does not handle that error, is never left by it.
NoPlanRejected == \A c \in Chunks : plan[c] # Raised

\* A chunk whose wanted tokens are whole blocks of the cache is transferred directly
\* unless something fails or the alignment forbids it: no plan is lost to the builders.
PlannedWhenWhole ==
  \A c \in Chunks :
    /\ job[c] # "none" /\ plan[c] = None
    /\ L.kind # "asymmetric"
    => \/ Start(c) % BlockSize # 0 \/ ChunkTokens(c) % BlockSize # 0
       \/ req.skip >= End(c)
       \/ L.kind = "per_layer" /\ req.skip > Start(c) /\ (req.skip - Start(c)) % BlockSize # 0

\* The library transfers only into registered memory: from the moment a chunk's transfer
\* may run, every read of its plan goes to an allocation that is registered, also when
\* the registrations of an earlier chunk failed half way.
RegisteredFirst ==
  \A c \in Chunks : job[c] = "registered" =>
    \A i \in DOMAIN Reads(plan[c]) : Reads(plan[c])[i].allocation \in registered

\* The builders plan what can be planned, validation accepts what they plan, and what is
\* transferred goes to registered memory, in states of the right types.
PlansExecutable == TypeOK /\ NoPlanRejected /\ PlannedWhenWhole /\ RegisteredFirst
=============================================================================

-------------------------- MODULE LayerwiseProofs --------------------------
(* In a pass with layerwise loading and saving every layer is loaded       *)
(* before the model runs it, copied after that, and put after its copy,    *)
(* for any requests, layers and chunks.                                    *)
EXTENDS Layerwise, TLAPS

First == Savers[1]
Final == Loaders[Len(Loaders)]
RetrieveKind(r) == kind[<<"retrieve", r>>]
StoreKind(r) == kind[<<"store", r>>]
-----------------------------------------------------------------------------
(* Where the host is                                                       *)

InPass ==
  \/ pc.at = "start" /\ connector = "paged" /\ pc.l \in {0, 1} /\ pc.i \in 1 .. Len(Loaders)
  \/ pc.at = "load" /\ connector = "paged" /\ pc.l \in Layers /\ pc.i \in 1 .. Len(Loaders)
  \/ pc.at = "blend" /\ connector = "buffer" /\ pc.l \in 0 .. NumLayers + 1 /\ pc.i \in 1 .. Len(Loaders)
  \/ pc.at = "compute" /\ connector = "buffer" /\ pc.l \in Layers /\ pc.i \in 1 .. Len(Loaders)
  \/ pc.at = "attention" /\ pc.l \in Layers
  \/ pc.at = "save" /\ pc.l \in 0 .. NumLayers /\ pc.i \in 1 .. Len(Savers)
  \/ pc.at = "end"

\* How often the j-th loading request's generator has been advanced ...
Advanced(j) ==
  CASE pc.at = "start" -> IF j < pc.i THEN 2 ELSE IF j = pc.i THEN pc.l ELSE 0
    [] pc.at = "load" -> IF j < pc.i THEN pc.l + 3 ELSE pc.l + 2
    [] pc.at = "blend" -> IF j < pc.i THEN NumLayers + 2 ELSE IF j = pc.i THEN pc.l ELSE 0
    [] pc.at = "compute" -> IF j < pc.i THEN NumLayers + 2 ELSE IF j = pc.i THEN pc.l + 2 ELSE 0
    [] pc.at \in {"attention", "save"} ->
         IF connector = "paged" /\ pc.l < NumLayers THEN pc.l + 3 ELSE NumLayers + 2
    [] pc.at = "end" -> NumLayers + 2

\* ... and the j-th saving request's.
Saved(j) ==
  CASE pc.at \in {"start", "blend", "compute"} -> 0
    [] pc.at \in {"load", "attention"} -> pc.l
    [] pc.at = "save" -> IF j < pc.i THEN pc.l + 1 ELSE pc.l
    [] pc.at = "end" -> NumLayers + 1

KindsFollow ==
  /\ \A r \in LoadIds :
       /\ retrieves[r] = 0 => RetrieveKind(r) = "new"
       /\ retrieves[r] > 0 => RetrieveKind(r) \in {"hit", "none", "dead"}
       /\ RetrieveKind(r) = "dead" => retrieves[r] = 1
  /\ \A r \in SaveIds :
       /\ stores[r] = 0 => StoreKind(r) = "new"
       /\ stores[r] > 0 => StoreKind(r) \in {"full", "empty", "frozen"}

HostTypes ==
  /\ pc \in Position /\ connector \in {"paged", "buffer"}
  /\ retrieves \in [LoadIds -> 0 .. NumLayers + 2] /\ stores \in [SaveIds -> 0 .. NumLayers + 1]

Counted ==
  /\ \A j \in 1 .. Len(Loaders) : retrieves[Loaders[j]] = Advanced(j)
  /\ \A j \in 1 .. Len(Savers) : stores[Savers[j]] = Saved(j)

Placed == HostTypes /\ InPass /\ Counted

HostInv == Placed /\ KindsFollow
-----------------------------------------------------------------------------
(* What is on the streams                                                  *)

\* The numbers of the operations on a stream, from the first of the pass on.
Live(s) == done[s] + 1 .. done[s] + Len(pending[s])
Nth(s, g) == pending[s][g - done[s]]

WaitOp == [op : {"wait"}, r : {None}, l : {0}, n : Nat]
AttentionOp == [op : {"attention"}, r : {None}, l : Layers, n : {0, 1}]
BufferOp(ops) == [op : ops, r : LoadIds, l : Layers, n : {0, 1}]
CurrentOp == WaitOp \cup AttentionOp \cup BufferOp({"flush", "compute"})
LoadOp == BufferOp({"load", "fill"})
StoreOp == WaitOp \cup [op : {"store"}, r : SaveIds, l : Layers, n : {0}]

CurrentOk(o) ==
  /\ o \in CurrentOp /\ (o.op = "wait" => connector = "paged")
  /\ o.op \in {"flush", "compute"} => connector = "buffer" /\ o.n = BufferOf(o.l)
  /\ o.op = "attention" => pc.at \in {"load", "attention", "save", "end"}

LoadOk(o) == o \in LoadOp /\ (o.op = "load" <=> connector = "paged")

StreamTypes == pending \in [Streams -> Seq(Op)] /\ done \in [Streams -> Nat]

StreamInv ==
  /\ \A g \in Live("current") : CurrentOk(Nth("current", g))
  /\ \A g \in Live("load") : LoadOk(Nth("load", g))
  /\ \A g \in Live("store") : Nth("store", g) \in StoreOp
-----------------------------------------------------------------------------
(* Storing                                                                 *)

\* Attention of layer l is operation a.
AttentionAt(l, a) ==
  a \in Live("current") /\ Nth("current", a).op = "attention" /\ Nth("current", a).l = l

AttentionIssued(l) == l \in computed \/ \E a \in Live("current") : AttentionAt(l, a)

\* The layers the host has launched.
Launched(l) ==
  \/ pc.at \in {"load", "attention"} /\ l < pc.l
  \/ pc.at = "save" /\ l <= pc.l
  \/ pc.at = "end"

\* A copy that is queued has a wait before it for the layer it copies.
CopyWaits(g, l) ==
  \/ l \in computed
  \/ \E a \in Live("current"), w \in Live("store") :
       AttentionAt(l, a) /\ w < g /\ Nth("store", w).op = "wait" /\ Nth("store", w).n >= a

CopiesWait ==
  \A g \in Live("store"), l \in Layers :
    Nth("store", g).op = "store" /\ Nth("store", g).l = l => CopyWaits(g, l)

CopyIssued(r, l) ==
  \/ <<r, l>> \in copied
  \/ \E g \in Live("store") :
       Nth("store", g).op = "store" /\ Nth("store", g).r = r /\ Nth("store", g).l = l

\* What the first saving request waited for has been copied for the others as well.
FirstWaited ==
  pc.at = "save" /\ pc.i > 1 /\ StoreKind(First) = "full" =>
    \A j \in 1 .. Len(Savers) : pc.i <= j /\ StoreKind(Savers[j]) = "full" =>
      \A l \in Layers : l < stores[Savers[j]] => <<Savers[j], l>> \in copied

AttentionsIssued == \A l \in Layers : Launched(l) => AttentionIssued(l)
CopiesIssued ==
  \A r \in SaveIds, l \in Layers : StoreKind(r) = "full" /\ l < stores[r] => CopyIssued(r, l)
LayersPut ==
  /\ \A r \in SaveIds, l \in Layers : StoreKind(r) = "full" /\ l < stores[r] - 1 => <<r, l>> \in put
  /\ \A r \in SaveIds, l \in Layers : <<r, l>> \in put => StoreKind(r) = "full"

StoreInv ==
  /\ StoresComputed /\ PutAfterCopy /\ AttentionsIssued /\ CopiesWait /\ CopiesIssued
  /\ FirstWaited /\ LayersPut
-----------------------------------------------------------------------------
(* Loading                                                                 *)

\* The two buffers of blending alternate within a request, so the first layer of the next
\* request goes to the buffer its last layer is not in when there is an even number.
EvenLayers == NumLayers % 2 = 0 \/ Len(Loaders) = 1
BuffersAlternate == connector = "buffer" => EvenLayers

\* Operation g of the load stream brings layer l of r to the paged memory.
LoadAt(r, l, g) ==
  /\ g \in Live("load") /\ Nth("load", g).op = "load"
  /\ Nth("load", g).r = r /\ Nth("load", g).l = l

\* After operation w of the current stream it is there: w waits for the load, or moves it
\* there from a buffer.
Brings(r, l, w) ==
  \/ /\ Nth("current", w).op = "wait"
     /\ \E g \in Live("load") : LoadAt(r, l, g) /\ Nth("current", w).n >= g
  \/ Nth("current", w).op = "flush" /\ Nth("current", w).r = r /\ Nth("current", w).l = l

\* It is there before operation a of the current stream, and before the next one queued.
Before(r, l, a) == <<r, l>> \in loaded \/ \E w \in Live("current") : Brings(r, l, w) /\ w < a
Ready(r, l) == <<r, l>> \in loaded \/ \E w \in Live("current") : Brings(r, l, w)

\* Somebody makes the model wait.
Waits == connector = "buffer" \/ RetrieveKind(Final) # "none"

NoneMissed == Waits => missed = {}

PagedIssued ==
  connector = "paged" =>
    \A r \in LoadIds, l \in Layers : RetrieveKind(r) = "hit" /\ l < retrieves[r] - 1 =>
      <<r, l>> \in loaded \/ \E g \in Live("load") : LoadAt(r, l, g)

BufferIssued ==
  connector = "buffer" =>
    \A r \in LoadIds, l \in Layers : RetrieveKind(r) = "hit" /\ l < retrieves[r] - 2 => Ready(r, l)

AttentionsReady ==
  Waits => \A a \in Live("current"), l \in Layers : AttentionAt(l, a) =>
    \A r \in LoadIds : RetrieveKind(r) = "hit" => Before(r, l, a)

LaunchReady ==
  Waits /\ connector = "paged" /\ pc.at = "attention" =>
    \A r \in LoadIds, l \in Layers : l = pc.l /\ RetrieveKind(r) = "hit" => Ready(r, l)

\* Operation g takes something from a buffer.
Takes(g) == Nth("current", g).op \in {"flush", "compute"}

\* What is taken from a buffer is there and stays there.
Held ==
  \A g \in Live("current") : Takes(g) =>
    /\ buffer[Nth("current", g).n] = <<Nth("current", g).r, Nth("current", g).l>>
    /\ \A f \in Live("load") : Nth("load", f).n # Nth("current", g).n

\* The host waits for the device: layer pc.l is in its buffer, or on its way.
Draining ==
  connector = "buffer" /\ draining # None =>
    /\ pc.at = "compute" /\ pc.l = draining /\ load_buffer = BufferOf(pc.l)
    /\ RetrieveKind(Loaders[pc.i]) = "hit"
    /\ buffer[BufferOf(pc.l)] = <<Loaders[pc.i], pc.l>> \/ Live("load") # {}
    /\ \A f \in Live("load") :
         /\ Nth("load", f).r = Loaders[pc.i] /\ Nth("load", f).l = pc.l
         /\ Nth("load", f).n = BufferOf(pc.l)

NotDraining ==
  draining = None =>
    /\ connector = "buffer" => Live("load") = {}
    /\ pc.at = "compute" /\ RetrieveKind(Loaders[pc.i]) = "hit" =>
         /\ load_buffer = BufferOf(pc.l + 1) /\ buffer[BufferOf(pc.l)] = <<Loaders[pc.i], pc.l>>
         /\ \A g \in Live("current") : ~ Takes(g)

\* Blending goes on with the other buffer.
Blending ==
  /\ pc.at = "blend" /\ pc.l < 2 =>
       /\ load_buffer = 0
       /\ \A g \in Live("current") : Takes(g) => pc.i > 1 /\ Nth("current", g).l = NumLayers - 1
  /\ pc.at = "blend" /\ pc.l >= 2 =>
       /\ load_buffer = BufferOf(pc.l - 1) /\ RetrieveKind(Loaders[pc.i]) = "hit"
       /\ buffer[BufferOf(pc.l - 2)] = <<Loaders[pc.i], pc.l - 2>>
       /\ \A g \in Live("current") : Takes(g) => Nth("current", g).l = pc.l - 2

BufferInv == Held /\ Draining /\ NotDraining /\ Blending

LoadInv ==
  /\ connector = "paged" => draining = None
  /\ NoneMissed /\ PagedIssued /\ BufferIssued /\ AttentionsReady /\ LaunchReady /\ BufferInv
-----------------------------------------------------------------------------
KindTypes == kind \in [{"retrieve"} \X LoadIds \cup {"store"} \X SaveIds -> Kinds]

DeviceTypes ==
  /\ buffer \in [{0, 1} -> (LoadIds \X Layers) \cup {None}]
  /\ loaded \subseteq LoadIds \X Layers /\ missed \subseteq Layers /\ computed \subseteq Layers
  /\ copied \subseteq SaveIds \X Layers /\ stale \subseteq SaveIds \X Layers

PutTypes == put \subseteq SaveIds \X Layers /\ early \subseteq SaveIds \X Layers

OtherTypes ==
  /\ mode \in Modes /\ raised \in BOOLEAN /\ fetched \in [LoadIds -> 0 .. NumLayers]
  /\ load_buffer \in {0, 1} /\ draining \in Layers \cup {None}

BaseInv == HostInv /\ KindTypes /\ StreamTypes /\ StreamInv /\ DeviceTypes /\ PutTypes /\ OtherTypes

LayerInv == BaseInv /\ StoreInv
-----------------------------------------------------------------------------
(* What the pass is given                                                  *)

LEMMA PassFacts ==
  /\ NumLayers \in Nat /\ NumLayers >= 1 /\ None \notin Layers /\ Chunks \subseteq Nat
  /\ Len(Loaders) \in Nat /\ Len(Loaders) >= 1 /\ Len(Savers) \in Nat /\ Len(Savers) >= 1
  /\ Head(Savers) = First /\ First \in SaveIds /\ Final \in LoadIds
  /\ \A j \in 1 .. Len(Loaders) : Loaders[j] \in LoadIds
  /\ \A j \in 1 .. Len(Savers) : Savers[j] \in SaveIds
<1>1. Loaders \in Seq(LoadIds) /\ Loaders # <<>> /\ Savers \in Seq(SaveIds) /\ Savers # <<>>
  BY PassAssumption
<1>2. Len(Loaders) \in Nat /\ Len(Loaders) >= 1 /\ Len(Savers) \in Nat /\ Len(Savers) >= 1
  BY <1>1
<1>3. /\ \A j \in 1 .. Len(Loaders) : Loaders[j] \in LoadIds
      /\ \A j \in 1 .. Len(Savers) : Savers[j] \in SaveIds
  BY <1>1
<1>4. Head(Savers) = First
  BY <1>1 DEF First
<1>. QED BY <1>2, <1>3, <1>4, PassAssumption DEF First, Final

LEMMA Each ==
  /\ \A r \in LoadIds : \E j \in 1 .. Len(Loaders) : Loaders[j] = r
  /\ \A r \in SaveIds : \E j \in 1 .. Len(Savers) : Savers[j] = r
<1>1. DOMAIN Loaders = 1 .. Len(Loaders) /\ DOMAIN Savers = 1 .. Len(Savers)
  BY PassAssumption
<1>. QED BY <1>1 DEF LoadIds, SaveIds

LEMMA Once ==
  /\ \A i, j \in 1 .. Len(Loaders) : Loaders[i] = Loaders[j] => i = j
  /\ \A i, j \in 1 .. Len(Savers) : Savers[i] = Savers[j] => i = j
<1>1. DOMAIN Loaders = 1 .. Len(Loaders) /\ DOMAIN Savers = 1 .. Len(Savers)
  BY PassAssumption
<1>. QED BY <1>1, PassAssumption
-----------------------------------------------------------------------------
(* How the streams change                                                  *)

\* A stream keeps what is on it.
Kept(s) == Live(s) \subseteq Live(s)' /\ \A g \in Live(s) : Nth(s, g)' = Nth(s, g)
Same(s) == Live(s)' = Live(s) /\ Issued(s)' = Issued(s) /\ Kept(s)

\* Operation k is put at its end.
Grew(s, k, o) ==
  /\ Live(s)' = Live(s) \cup {k} /\ Kept(s) /\ k \in Nat /\ k = Issued(s) + 1 /\ Issued(s)' = k
  /\ \A g \in {k} : Nth(s, g)' = o

\* Operations k and k + 1 are.
GrewTwo(s, k, o, p) ==
  /\ Live(s)' = Live(s) \cup {k, k + 1} /\ Kept(s) /\ k \in Nat /\ k = Issued(s) + 1
  /\ \A g \in {k} : Nth(s, g)' = o
  /\ \A g \in {k + 1} : Nth(s, g)' = p

LEMMA LiveNat ==
  ASSUME StreamTypes, NEW s \in Streams
  PROVE  /\ Issued(s) \in Nat /\ done[s] \in Nat /\ Issued(s) + 1 \notin Live(s)
         /\ \A g \in Live(s) : g \in Nat /\ done[s] < g /\ g <= Issued(s)
         /\ Drained(s) <=> Live(s) = {}
<1>1. Len(pending[s]) \in Nat /\ (pending[s] = <<>> <=> Len(pending[s]) = 0) /\ done[s] \in Nat
  BY DEF StreamTypes
<1>2. \A d, n \in Nat : /\ d + n + 1 \notin d + 1 .. d + n /\ (n = 0 <=> d + 1 .. d + n = {})
                         /\ \A g \in d + 1 .. d + n : g \in Nat /\ d < g /\ g <= d + n
  <2>1. \A d, n \in Nat : n # 0 => d + 1 \in d + 1 .. d + n
    OBVIOUS
  <2>. QED BY <2>1
<1>3. Live(s) = done[s] + 1 .. done[s] + Len(pending[s]) /\ Issued(s) = done[s] + Len(pending[s])
  BY DEF Live, Issued
<1>4. Drained(s) <=> Len(pending[s]) = 0
  BY <1>1 DEF Drained
<1>. DEFINE d == done[s]
            n == Len(pending[s])
<1>5. d \in Nat /\ n \in Nat /\ Live(s) = d + 1 .. d + n /\ Issued(s) = d + n /\ (Drained(s) <=> n = 0)
  BY <1>1, <1>3, <1>4
<1>. HIDE DEF d, n
<1>6. /\ Issued(s) \in Nat /\ d \in Nat /\ Issued(s) + 1 \notin Live(s)
      /\ \A g \in Live(s) : g \in Nat /\ d < g /\ g <= Issued(s)
  BY <1>2, <1>5
<1>7. Drained(s) <=> Live(s) = {}
  BY <1>2, <1>5
<1>. QED BY <1>6, <1>7 DEF d

LEMMA Untouched ==
  ASSUME StreamTypes, NEW s \in Streams, pending'[s] = pending[s], done'[s] = done[s]
  PROVE  Same(s)
BY DEF Same, Kept, Live, Nth, Issued

LEMMA Nothing ==
  ASSUME StreamTypes, NEW s \in Streams, pending'[s] = pending[s] \o <<>>, done'[s] = done[s]
  PROVE  Same(s)
<1>1. pending[s] \o <<>> = pending[s]
  BY DEF StreamTypes
<1>. QED BY <1>1, Untouched

LEMMA OneMore ==
  ASSUME StreamTypes, NEW s \in Streams, NEW o \in Op,
         pending'[s] = pending[s] \o <<o>>, done'[s] = done[s]
  PROVE  Grew(s, Issued(s) + 1, o)
<1>. DEFINE q == pending[s]
            d == done[s]
<1>1. q \in Seq(Op) /\ d \in Nat /\ Len(q) \in Nat
  BY DEF StreamTypes
<1>2. pending'[s] = Append(q, o) /\ done'[s] = d
  BY <1>1
<1>. HIDE DEF q, d
<1>3. /\ Len(Append(q, o)) = Len(q) + 1 /\ Append(q, o)[Len(q) + 1] = o
      /\ \A k \in 1 .. Len(q) : Append(q, o)[k] = q[k]
  BY <1>1
<1>4. Live(s)' = d + 1 .. d + Len(q) + 1 /\ Live(s) = d + 1 .. d + Len(q) /\ Issued(s) = d + Len(q)
      /\ Issued(s)' = d + Len(q) + 1
  <2>1. Live(s)' = d + 1 .. d + (Len(q) + 1)
    BY <1>2, <1>3 DEF Live
  <2>2. Live(s) = d + 1 .. d + Len(q) /\ Issued(s) = d + Len(q)
    BY DEF Live, Issued, q, d
  <2>3. Issued(s)' = d + (Len(q) + 1)
    BY <1>2, <1>3 DEF Issued
  <2>4. d + (Len(q) + 1) = d + Len(q) + 1
    BY <1>1
  <2>. QED BY <2>1, <2>2, <2>3, <2>4
<1>5. \A g \in Live(s) : Nth(s, g)' = Nth(s, g)
  <2>1. \A g \in Live(s) : g - d \in 1 .. Len(q)
    BY <1>1, <1>4
  <2>. QED BY <1>2, <1>3, <2>1 DEF Nth, q, d
<1>6. \A g \in {Issued(s) + 1} : Nth(s, g)' = o
  <2>1. \A g \in {Issued(s) + 1} : g - d = Len(q) + 1
    BY <1>1, <1>4
  <2>. QED BY <1>2, <1>3, <2>1 DEF Nth
<1>. QED BY <1>1, <1>4, <1>5, <1>6 DEF Grew, Kept

LEMMA TwoMore ==
  ASSUME StreamTypes, NEW s \in Streams, NEW o \in Op, NEW p \in Op,
         pending'[s] = pending[s] \o <<o, p>>, done'[s] = done[s]
  PROVE  GrewTwo(s, Issued(s) + 1, o, p)
<1>. DEFINE q == pending[s]
            d == done[s]
            x == q \o <<o, p>>
            n == Len(q)
<1>1. q \in Seq(Op) /\ d \in Nat /\ n \in Nat
  BY DEF StreamTypes
<1>2. pending'[s] = x /\ done'[s] = d
  OBVIOUS
<1>3. Len(x) = n + 2 /\ x[n + 1] = o /\ x[n + 2] = p /\ \A k \in 1 .. n : x[k] = q[k]
  BY <1>1
<1>. HIDE DEF q, d, x, n
<1>4. Live(s)' = d + 1 .. d + (n + 2) /\ Live(s) = d + 1 .. d + n /\ Issued(s) = d + n
  <2>1. Live(s)' = d + 1 .. d + (n + 2)
    BY <1>2, <1>3 DEF Live
  <2>2. Live(s) = d + 1 .. d + n /\ Issued(s) = d + n
    BY DEF Live, Issued, q, d, n
  <2>. QED BY <2>1, <2>2
<1>5. \A g \in Live(s) : Nth(s, g)' = Nth(s, g)
  <2>1. \A g \in Live(s) : g - d \in 1 .. n
    BY <1>1, <1>4
  <2>2. \A g : Nth(s, g)' = x[g - d] /\ Nth(s, g) = q[g - d]
    BY <1>2 DEF Nth, q, d
  <2>. QED BY <1>3, <2>1, <2>2
<1>6. \A g \in {d + n + 1} : Nth(s, g)' = o
  <2>1. \A g \in {d + n + 1} : g - d = n + 1
    BY <1>1
  <2>2. \A g : Nth(s, g)' = x[g - d]
    BY <1>2 DEF Nth
  <2>. QED BY <1>3, <2>1, <2>2
<1>7. \A g \in {d + n + 1 + 1} : Nth(s, g)' = p
  <2>1. \A g \in {d + n + 1 + 1} : g - d = n + 2
    BY <1>1
  <2>2. \A g : Nth(s, g)' = x[g - d]
    BY <1>2 DEF Nth
  <2>. QED BY <1>3, <2>1, <2>2
<1>8. Live(s)' = Live(s) \cup {d + n + 1, d + n + 1 + 1} /\ Live(s) \subseteq Live(s)'
  BY <1>1, <1>4, SMTT(30)
<1>. QED BY <1>1, <1>4, <1>5, <1>6, <1>7, <1>8 DEF GrewTwo, Kept

LEMMA QueueStreams ==
  ASSUME StreamTypes, NEW c \in Seq(Op), NEW l \in Seq(Op), NEW t \in Seq(Op), Queue(c, l, t), done' = done
  PROVE  /\ StreamTypes'
         /\ pending'["current"] = pending["current"] \o c
         /\ pending'["load"] = pending["load"] \o l
         /\ pending'["store"] = pending["store"] \o t
<1>1. /\ pending'["current"] = pending["current"] \o c
      /\ pending'["load"] = pending["load"] \o l
      /\ pending'["store"] = pending["store"] \o t
  BY DEF Queue, Streams
<1>2. \A s \in Streams : pending'[s] \in Seq(Op)
  <2>1. pending["current"] \in Seq(Op) /\ pending["load"] \in Seq(Op) /\ pending["store"] \in Seq(Op)
    BY DEF Streams, StreamTypes
  <2>2. \A x, y \in Seq(Op) : x \o y \in Seq(Op)
    OBVIOUS
  <2>3. pending'["current"] \in Seq(Op) /\ pending'["load"] \in Seq(Op) /\ pending'["store"] \in Seq(Op)
    BY <1>1, <2>1, <2>2
  <2>. QED BY <2>3 DEF Streams
<1>3. pending' \in [Streams -> Seq(Op)]
  BY <1>2 DEF Queue
<1>. QED BY <1>1, <1>3 DEF StreamTypes

\* A stream runs the first operation that is on it.
LEMMA RunStreams ==
  ASSUME StreamTypes, NEW s \in Streams, Run(s)
  PROVE  /\ StreamTypes' /\ \A t \in Streams \ {s} : Same(t)
         /\ \E k \in Nat : /\ k = done[s] + 1 /\ k \in Live(s) /\ Nth(s, k) = Head(pending[s])
                           /\ Live(s)' = Live(s) \ {k} /\ Issued(s)' = Issued(s)
                           /\ \A g \in Live(s)' : Nth(s, g)' = Nth(s, g)
<1>. DEFINE q == pending[s]
            d == done[s]
<1>1. q \in Seq(Op) /\ d \in Nat /\ Len(q) \in Nat /\ q # <<>>
  BY DEF StreamTypes, Run
<1>2. pending' = [pending EXCEPT ![s] = Tail(q)] /\ done' = [done EXCEPT ![s] = d + 1]
  BY DEF Run
<1>3. pending'[s] = Tail(q) /\ done'[s] = d + 1
  BY <1>2 DEF StreamTypes
<1>4. \A t \in Streams \ {s} : pending'[t] = pending[t] /\ done'[t] = done[t]
  BY <1>2 DEF StreamTypes
<1>. HIDE DEF q, d
<1>5. /\ Tail(q) \in Seq(Op) /\ Len(Tail(q)) = Len(q) - 1 /\ Len(q) >= 1 /\ Head(q) = q[1]
      /\ \A k \in 1 .. Len(q) - 1 : Tail(q)[k] = q[k + 1]
  BY <1>1
<1>6. StreamTypes'
  BY <1>1, <1>2, <1>5 DEF StreamTypes
<1>7. Live(s)' = d + 2 .. d + Len(q) /\ Live(s) = d + 1 .. d + Len(q)
      /\ Issued(s)' = d + Len(q) /\ Issued(s) = d + Len(q)
  <2>1. Live(s)' = d + 1 + 1 .. d + 1 + (Len(q) - 1)
    BY <1>3, <1>5 DEF Live
  <2>2. Live(s) = d + 1 .. d + Len(q)
    BY DEF Live, q, d
  <2>. QED BY <1>1, <1>3, <1>5, <2>1, <2>2 DEF Issued, q, d
<1>8. \A g \in Live(s)' : Nth(s, g)' = Nth(s, g)
  <2>1. \A g \in Live(s)' : g - (d + 1) \in 1 .. Len(q) - 1 /\ g - (d + 1) + 1 = g - d
    BY <1>1, <1>7
  <2>2. \A g : Nth(s, g)' = Tail(q)[g - (d + 1)] /\ Nth(s, g) = q[g - d]
    BY <1>3 DEF Nth, q, d
  <2>. QED BY <1>5, <2>1, <2>2
<1>9. \A k : k = d + 1 => Nth(s, k) = Head(q)
  BY <1>1, <1>5 DEF Nth, q, d
<1>10. \A t \in Streams \ {s} : Same(t)
  BY <1>4, Untouched
<1>11. d + 1 \in Nat /\ d + 1 \in Live(s) /\ Live(s)' = Live(s) \ {d + 1}
  BY <1>1, <1>5, <1>7
<1>. QED BY <1>6, <1>7, <1>8, <1>9, <1>10, <1>11 DEF d, q
-----------------------------------------------------------------------------
(* The host's steps through the pass                                       *)

LEMMA Positions ==
  ASSUME NEW at \in Places, NEW l \in 0 .. NumLayers + 1, NEW i \in Nat
  PROVE  /\ P(at, l, i) \in Position
         /\ P(at, l, i).at = at /\ P(at, l, i).l = l /\ P(at, l, i).i = i
BY DEF P, Position

LEMMA RetrievePlace ==
  ASSUME Placed, NEW r \in LoadIds, AtRetrieve(r)
  PROVE  /\ pc.i \in 1 .. Len(Loaders) /\ Loaders[pc.i] = r /\ pc.l \in 0 .. NumLayers + 1
         /\ \A j \in 1 .. Len(Loaders) : Loaders[j] = r => j = pc.i
         /\ \/ pc.at = "start" /\ connector = "paged" /\ pc.l \in {0, 1} /\ retrieves[r] = pc.l
            \/ pc.at = "load" /\ connector = "paged" /\ pc.l \in Layers /\ retrieves[r] = pc.l + 2
            \/ pc.at = "blend" /\ connector = "buffer" /\ retrieves[r] = pc.l
<1>1. pc.at \in {"start", "blend", "load"} /\ Loaders[pc.i] = r
  BY DEF AtRetrieve
<1>2. /\ pc.i \in 1 .. Len(Loaders) /\ pc.l \in 0 .. NumLayers + 1
      /\ \/ pc.at = "start" /\ connector = "paged" /\ pc.l \in {0, 1}
         \/ pc.at = "load" /\ connector = "paged" /\ pc.l \in Layers
         \/ pc.at = "blend" /\ connector = "buffer"
  BY <1>1 DEF Placed, HostTypes, InPass, Position
<1>3. retrieves[r] = Advanced(pc.i)
  BY <1>1, <1>2 DEF Placed, Counted
<1>4. Advanced(pc.i) = IF pc.at = "load" THEN pc.l + 2 ELSE pc.l
  BY <1>1, <1>2 DEF Advanced
<1>5. \A j \in 1 .. Len(Loaders) : Loaders[j] = r => j = pc.i
  BY <1>1, <1>2, Once
<1>. QED BY <1>1, <1>2, <1>3, <1>4, <1>5

LEMMA StorePlace ==
  ASSUME Placed, NEW r \in SaveIds, AtStore(r)
  PROVE  /\ pc.at = "save" /\ pc.i \in 1 .. Len(Savers) /\ Savers[pc.i] = r /\ pc.l \in 0 .. NumLayers
         /\ \A j \in 1 .. Len(Savers) : Savers[j] = r => j = pc.i
         /\ stores[r] = pc.l
<1>1. pc.at = "save" /\ Savers[pc.i] = r
  BY DEF AtStore
<1>2. pc.i \in 1 .. Len(Savers) /\ pc.l \in 0 .. NumLayers
  BY <1>1 DEF Placed, InPass
<1>3. stores[r] = Saved(pc.i)
  BY <1>1, <1>2 DEF Placed, Counted
<1>4. Saved(pc.i) = pc.l
  BY <1>1, <1>2 DEF Saved
<1>5. \A j \in 1 .. Len(Savers) : Savers[j] = r => j = pc.i
  BY <1>1, <1>2, Once
<1>. QED BY <1>1, <1>2, <1>3, <1>4, <1>5

\* An advance of a retrieve_layer takes the host on.
LEMMA RetrieveMoves ==
  ASSUME Placed, NEW r \in LoadIds, AtRetrieve(r), Advance(r), pc' = After, UNCHANGED <<stores, connector>>
  PROVE  Placed'
<1>. DEFINE l == pc.l
            i == pc.i
<1>1. i \in 1 .. Len(Loaders) /\ Loaders[i] = r /\ \A j \in 1 .. Len(Loaders) : Loaders[j] = r => j = i
  BY RetrievePlace
<1>2. \A j \in 1 .. Len(Loaders) :
        retrieves'[Loaders[j]] = IF j = i THEN Advanced(j) + 1 ELSE Advanced(j)
  <2>1. retrieves' = [retrieves EXCEPT ![r] = retrieves[r] + 1]
    BY DEF Advance
  <2>2. \A j \in 1 .. Len(Loaders) : Loaders[j] \in LoadIds /\ retrieves[Loaders[j]] = Advanced(j)
    BY PassFacts DEF Placed, Counted
  <2>. QED BY <1>1, <2>1, <2>2 DEF Placed, HostTypes
<1>3. \A j \in 1 .. Len(Savers) : stores'[Savers[j]] = Saved(j)
  BY DEF Placed, Counted
<1>4. SUFFICES /\ pc' \in Position /\ InPass'
               /\ \A j \in 1 .. Len(Loaders) : Advanced(j)' = IF j = i THEN Advanced(j) + 1 ELSE Advanced(j)
               /\ \A j \in 1 .. Len(Savers) : Saved(j)' = Saved(j)
  <2>1. Counted'
    BY <1>2, <1>3, <1>4 DEF Counted
  <2>2. retrieves[r] \in 0 .. NumLayers + 1
    BY PassFacts, RetrievePlace DEF Layers
  <2>3. retrieves' \in [LoadIds -> 0 .. NumLayers + 2]
    BY <2>2, PassFacts DEF Placed, HostTypes, Advance
  <2>. QED BY <1>4, <2>1, <2>3 DEF Placed, HostTypes
<1>5. CASE pc.at = "start"
  <2>1. connector = "paged" /\ l \in {0, 1} /\ After = StartLoadKv(l, i)
    BY <1>5, RetrievePlace DEF After
  <2>2. CASE l = 0
    <3>1. pc' = P("start", 1, i)
      BY <2>1, <2>2 DEF StartLoadKv
    <3>2. pc' \in Position /\ pc'.at = "start" /\ pc'.l = 1 /\ pc'.i = i
      BY <1>1, <3>1, PassFacts, Positions DEF Places
    <3>. QED BY <1>1, <1>5, <2>1, <2>2, <3>2 DEF InPass, Advanced, Saved
  <2>3. CASE l = 1 /\ i < Len(Loaders)
    <3>1. pc' = P("start", 0, i + 1)
      BY <2>1, <2>3 DEF StartLoadKv
    <3>2. pc' \in Position /\ pc'.at = "start" /\ pc'.l = 0 /\ pc'.i = i + 1
      BY <1>1, <3>1, PassFacts, Positions DEF Places
    <3>. QED BY <1>1, <1>5, <2>1, <2>3, <3>2, PassFacts, SMTT(30) DEF InPass, Advanced, Saved
  <2>4. CASE l = 1 /\ ~ (i < Len(Loaders))
    <3>1. pc' = P("load", 0, 1)
      BY <2>1, <2>4 DEF StartLoadKv, Layer
    <3>2. pc' \in Position /\ pc'.at = "load" /\ pc'.l = 0 /\ pc'.i = 1
      BY <1>1, <3>1, PassFacts, Positions DEF Places
    <3>3. i = Len(Loaders)
      BY <1>1, <2>4, PassFacts
    <3>. QED BY <1>1, <1>5, <2>1, <2>4, <3>2, <3>3, PassFacts DEF InPass, Advanced, Saved, Layers
  <2>. QED BY <2>1, <2>2, <2>3, <2>4
<1>6. CASE pc.at = "load"
  <2>1. connector = "paged" /\ l \in Layers /\ After = WaitForLayerLoad(l, i)
    BY <1>6, RetrievePlace DEF After
  <2>2. CASE i < Len(Loaders)
    <3>1. pc' = P("load", l, i + 1)
      BY <2>1, <2>2 DEF WaitForLayerLoad
    <3>2. l \in 0 .. NumLayers + 1 /\ i + 1 \in Nat /\ i \in Int /\ l \in Int
      BY <1>1, <2>1, PassFacts DEF Layers
    <3>3. pc' \in Position /\ pc'.at = "load" /\ pc'.l = l /\ pc'.i = i + 1
      BY <3>1, <3>2, Positions DEF Places
    <3>4. InPass'
      BY <1>1, <2>1, <2>2, <3>3, PassFacts DEF InPass
    <3>5. \A j \in 1 .. Len(Loaders) : Advanced(j)' = IF j < i + 1 THEN l + 3 ELSE l + 2
      BY <3>3 DEF Advanced
    <3>6. \A j \in 1 .. Len(Loaders) : Advanced(j) = IF j < i THEN l + 3 ELSE l + 2
      BY <1>6 DEF Advanced
    <3>7. \A j \in 1 .. Len(Loaders) : Advanced(j)' = IF j = i THEN Advanced(j) + 1 ELSE Advanced(j)
      BY <3>2, <3>5, <3>6
    <3>. QED BY <1>6, <3>3, <3>4, <3>7 DEF Saved
  <2>3. CASE ~ (i < Len(Loaders))
    <3>1. pc' = P("attention", l, 0)
      BY <2>1, <2>3 DEF WaitForLayerLoad
    <3>0. l \in 0 .. NumLayers + 1 /\ 0 \in Nat /\ "attention" \in Places
      BY <2>1, PassFacts DEF Layers, Places
    <3>2. pc' \in Position /\ pc'.at = "attention" /\ pc'.l = l
      BY <3>0, <3>1, Positions
    <3>3. i = Len(Loaders) /\ l < NumLayers
      BY <1>1, <2>1, <2>3, PassFacts DEF Layers
    <3>. QED BY <1>1, <1>6, <2>1, <3>2, <3>3, PassFacts, SMTT(30) DEF InPass, Advanced, Saved, Layers
  <2>. QED BY <2>2, <2>3
<1>7. CASE pc.at = "blend"
  <2>1. connector = "buffer" /\ l \in 0 .. NumLayers + 1 /\ After = Blend(l, i)
    BY <1>7, RetrievePlace DEF After
  <2>2. CASE l = 0
    <3>1. pc' = P("blend", 1, i)
      BY <2>1, <2>2 DEF Blend
    <3>2. pc' \in Position /\ pc'.at = "blend" /\ pc'.l = 1 /\ pc'.i = i
      BY <1>1, <3>1, PassFacts, Positions DEF Places
    <3>. QED BY <1>1, <1>7, <2>1, <2>2, <3>2, PassFacts DEF InPass, Advanced, Saved
  <2>3. CASE l # 0 /\ l <= NumLayers
    <3>1. pc' = P("compute", l - 1, i)
      BY <2>1, <2>3 DEF Blend
    <3>2. pc' \in Position /\ pc'.at = "compute" /\ pc'.l = l - 1 /\ pc'.i = i
      <4>1. l - 1 \in 0 .. NumLayers + 1 /\ i \in Nat /\ "compute" \in Places
        BY <1>1, <2>1, <2>3, PassFacts DEF Places
      <4>. QED BY <3>1, <4>1, Positions
    <3>3. InPass'
      BY <1>1, <2>1, <2>3, <3>2, PassFacts DEF InPass, Layers
    <3>4. \A j \in 1 .. Len(Loaders) :
            Advanced(j)' = IF j < i THEN NumLayers + 2 ELSE IF j = i THEN l - 1 + 2 ELSE 0
      BY <3>2 DEF Advanced
    <3>5. \A j \in 1 .. Len(Loaders) :
            Advanced(j) = IF j < i THEN NumLayers + 2 ELSE IF j = i THEN l ELSE 0
      BY <1>7 DEF Advanced
    <3>6. \A j \in 1 .. Len(Loaders) : Advanced(j)' = IF j = i THEN Advanced(j) + 1 ELSE Advanced(j)
      BY <1>1, <2>1, <3>4, <3>5, PassFacts
    <3>. QED BY <1>7, <3>2, <3>3, <3>6 DEF Saved
  <2>4. CASE l = NumLayers + 1 /\ i < Len(Loaders)
    <3>1. pc' = P("blend", 0, i + 1)
      BY <2>1, <2>4, PassFacts DEF Blend
    <3>2. pc' \in Position /\ pc'.at = "blend" /\ pc'.l = 0 /\ pc'.i = i + 1
      BY <1>1, <3>1, PassFacts, Positions DEF Places
    <3>3. InPass'
      BY <1>1, <2>1, <2>4, <3>2, PassFacts DEF InPass
    <3>4. \A j \in 1 .. Len(Loaders) :
            Advanced(j)' = IF j < i + 1 THEN NumLayers + 2 ELSE IF j = i + 1 THEN 0 ELSE 0
      BY <3>2 DEF Advanced
    <3>5. \A j \in 1 .. Len(Loaders) :
            Advanced(j) = IF j < i THEN NumLayers + 2 ELSE IF j = i THEN NumLayers + 1 ELSE 0
      BY <1>7, <2>4 DEF Advanced
    <3>6. \A j \in 1 .. Len(Loaders) : Advanced(j)' = IF j = i THEN Advanced(j) + 1 ELSE Advanced(j)
      BY <1>1, <2>1, <3>4, <3>5, PassFacts
    <3>. QED BY <1>7, <3>2, <3>3, <3>6 DEF Saved
  <2>5. CASE l = NumLayers + 1 /\ ~ (i < Len(Loaders))
    <3>1. pc' = P("attention", 0, 0)
      BY <2>1, <2>5, PassFacts DEF Blend, Layer
    <3>2. pc' \in Position /\ pc'.at = "attention" /\ pc'.l = 0
      BY <3>1, PassFacts, Positions DEF Places
    <3>3. i = Len(Loaders)
      BY <1>1, <2>5, PassFacts
    <3>. QED BY <1>1, <1>7, <2>1, <2>5, <3>2, <3>3, PassFacts DEF InPass, Advanced, Saved, Layers
  <2>. QED BY <2>1, <2>2, <2>3, <2>4, <2>5, PassFacts
<1>. QED BY <1>5, <1>6, <1>7, RetrievePlace

\* So does one of a store_layer ...
LEMMA StoreMoves ==
  ASSUME Placed, NEW r \in SaveIds, AtStore(r), stores' = [stores EXCEPT ![r] = @ + 1], pc' = After,
         UNCHANGED <<retrieves, connector>>
  PROVE  Placed'
<1>. DEFINE l == pc.l
            i == pc.i
<1>1. /\ i \in 1 .. Len(Savers) /\ Savers[i] = r /\ \A j \in 1 .. Len(Savers) : Savers[j] = r => j = i
      /\ l \in 0 .. NumLayers /\ pc.at = "save" /\ stores[r] = l
  BY StorePlace
<1>2. \A j \in 1 .. Len(Savers) : Saved(j) = IF j < i THEN l + 1 ELSE l
  BY <1>1 DEF Saved
<1>3. \A j \in 1 .. Len(Savers) : stores'[Savers[j]] = IF j <= i THEN l + 1 ELSE l
  <2>1. \A j \in 1 .. Len(Savers) : Savers[j] \in SaveIds /\ stores[Savers[j]] = Saved(j)
    BY PassFacts DEF Placed, Counted
  <2>. QED BY <1>1, <1>2, <2>1 DEF Placed, HostTypes
<1>4. \A j \in 1 .. Len(Loaders) : retrieves'[Loaders[j]] = Advanced(j)
  BY DEF Placed, Counted
<1>5. SUFFICES /\ pc' \in Position /\ InPass'
               /\ \A j \in 1 .. Len(Loaders) : Advanced(j)' = Advanced(j)
               /\ \A j \in 1 .. Len(Savers) : Saved(j)' = IF j <= i THEN l + 1 ELSE l
  <2>1. Counted'
    BY <1>3, <1>4, <1>5 DEF Counted
  <2>3. stores' \in [SaveIds -> 0 .. NumLayers + 1]
    BY <1>1, PassFacts DEF Placed, HostTypes
  <2>. QED BY <1>5, <2>1, <2>3 DEF Placed, HostTypes
<1>6. After = SaveKvLayer(l, i) /\ connector' = connector /\ connector \in {"paged", "buffer"}
  BY <1>1 DEF After, Placed, HostTypes
<1>7. CASE i < Len(Savers)
  <2>1. pc' = P("save", l, i + 1)
    BY <1>6, <1>7 DEF SaveKvLayer
  <2>2. pc' \in Position /\ pc'.at = "save" /\ pc'.l = l /\ pc'.i = i + 1
    <3>1. l \in 0 .. NumLayers + 1 /\ i + 1 \in Nat /\ "save" \in Places
      BY <1>1, PassFacts DEF Places
    <3>. QED BY <2>1, <3>1, Positions
  <2>3. InPass'
    BY <1>1, <1>7, <2>2, PassFacts DEF InPass
  <2>4. \A j \in 1 .. Len(Loaders) : Advanced(j)' = Advanced(j)
    BY <1>1, <1>6, <2>2 DEF Advanced
  <2>5. \A j \in 1 .. Len(Savers) : Saved(j)' = IF j < i + 1 THEN l + 1 ELSE l
    BY <2>2 DEF Saved
  <2>6. \A j \in 1 .. Len(Savers) : j < i + 1 <=> j <= i
    BY <1>1
  <2>. QED BY <2>2, <2>3, <2>4, <2>5, <2>6
<1>8. CASE ~ (i < Len(Savers)) /\ l + 1 < NumLayers
  <2>1. pc' = Layer(l + 1)
    BY <1>6, <1>8 DEF SaveKvLayer
  <2>2. /\ pc' \in Position /\ pc'.l = l + 1
        /\ \/ connector = "paged" /\ pc'.at = "load" /\ pc'.i = 1
           \/ connector = "buffer" /\ pc'.at = "attention"
    <3>1. l + 1 \in 0 .. NumLayers + 1 /\ 1 \in Nat /\ 0 \in Nat /\ "load" \in Places /\ "attention" \in Places
      BY <1>1, PassFacts DEF Places
    <3>2. pc' = IF connector = "paged" THEN P("load", l + 1, 1) ELSE P("attention", l + 1, 0)
      BY <2>1 DEF Layer
    <3>. QED BY <1>6, <3>1, <3>2, Positions
  <2>3. InPass'
    <3>1. l + 1 \in Layers /\ 1 \in 1 .. Len(Loaders)
      BY <1>1, <1>8, PassFacts DEF Layers
    <3>. QED BY <1>6, <2>2, <3>1 DEF InPass
  <2>4. \A j \in 1 .. Len(Loaders) : Advanced(j)' = Advanced(j)
    <3>1. CASE connector = "paged"
      <4>1. \A j \in 1 .. Len(Loaders) : Advanced(j)' = IF j < 1 THEN l + 1 + 3 ELSE l + 1 + 2
        BY <2>2, <3>1 DEF Advanced
      <4>2. \A j \in 1 .. Len(Loaders) : Advanced(j) = l + 3
        BY <1>1, <1>8, <3>1, PassFacts DEF Advanced
      <4>. QED BY <1>1, <4>1, <4>2
    <3>2. CASE connector = "buffer"
      BY <1>1, <1>6, <2>2, <3>2 DEF Advanced
    <3>. QED BY <1>6, <3>1, <3>2
  <2>5. \A j \in 1 .. Len(Savers) : Saved(j)' = l + 1
    BY <2>2 DEF Saved
  <2>6. \A j \in 1 .. Len(Savers) : j <= i
    BY <1>1, <1>8, PassFacts
  <2>. QED BY <2>2, <2>3, <2>4, <2>5, <2>6
<1>9. CASE ~ (i < Len(Savers)) /\ l + 1 = NumLayers
  <2>1. pc' = P("save", NumLayers, 1)
    BY <1>1, <1>6, <1>9, PassFacts DEF SaveKvLayer, WaitForSave
  <2>2. pc' \in Position /\ pc'.at = "save" /\ pc'.l = NumLayers /\ pc'.i = 1
    <3>1. NumLayers \in 0 .. NumLayers + 1 /\ 1 \in Nat /\ "save" \in Places
      BY PassFacts DEF Places
    <3>. QED BY <2>1, <3>1, Positions
  <2>3. InPass'
    BY <2>2, PassFacts DEF InPass
  <2>4. \A j \in 1 .. Len(Loaders) : Advanced(j)' = Advanced(j)
    <3>1. \A j \in 1 .. Len(Loaders) : Advanced(j)' = NumLayers + 2
      BY <2>2, PassFacts DEF Advanced
    <3>2. \A j \in 1 .. Len(Loaders) : Advanced(j) = IF connector = "paged" THEN l + 3 ELSE NumLayers + 2
      BY <1>1, <1>9, PassFacts DEF Advanced
    <3>. QED BY <1>1, <1>9, <3>1, <3>2, PassFacts
  <2>5. \A j \in 1 .. Len(Savers) : Saved(j)' = l + 1
    BY <1>9, <2>2 DEF Saved
  <2>6. \A j \in 1 .. Len(Savers) : j <= i
    BY <1>1, <1>9, PassFacts
  <2>. QED BY <2>2, <2>3, <2>4, <2>5, <2>6
<1>10. CASE ~ (i < Len(Savers)) /\ l = NumLayers
  <2>1. pc' = P("end", 0, 0)
    BY <1>1, <1>6, <1>10, PassFacts DEF SaveKvLayer
  <2>2. pc' \in Position /\ pc'.at = "end"
    <3>1. 0 \in 0 .. NumLayers + 1 /\ 0 \in Nat /\ "end" \in Places
      BY PassFacts DEF Places
    <3>. QED BY <2>1, <3>1, Positions
  <2>3. InPass'
    BY <2>2 DEF InPass
  <2>4. \A j \in 1 .. Len(Loaders) : Advanced(j)' = Advanced(j)
    BY <1>1, <1>10, <2>2, PassFacts DEF Advanced
  <2>5. \A j \in 1 .. Len(Savers) : Saved(j)' = l + 1
    BY <1>10, <2>2 DEF Saved
  <2>6. \A j \in 1 .. Len(Savers) : j <= i
    BY <1>1, <1>10, PassFacts
  <2>. QED BY <2>2, <2>3, <2>4, <2>5, <2>6
<1>. QED BY <1>1, <1>7, <1>8, <1>9, <1>10, PassFacts

\* ... and a layer of the model.
LEMMA LaunchMoves ==
  ASSUME Placed, pc.at \in {"attention", "compute"}, pc' = After, UNCHANGED <<retrieves, stores, connector>>
  PROVE  Placed'
<1>. DEFINE l == pc.l
            i == pc.i
<1>1. i \in Nat /\ l \in Layers /\ l \in 0 .. NumLayers - 1
  BY DEF Placed, HostTypes, Position, InPass, Layers
<1>2. SUFFICES /\ pc' \in Position /\ InPass'
               /\ \A j \in 1 .. Len(Loaders) : Advanced(j)' = Advanced(j)
               /\ \A j \in 1 .. Len(Savers) : Saved(j)' = Saved(j)
  BY <1>2 DEF Placed, HostTypes, Counted
<1>3. CASE pc.at = "compute"
  <2>1. connector = "buffer" /\ i \in 1 .. Len(Loaders)
    BY <1>3 DEF Placed, InPass
  <2>2. pc' = P("blend", l + 2, i)
    BY <1>3 DEF After
  <2>3. pc' \in Position /\ pc'.at = "blend" /\ pc'.l = l + 2 /\ pc'.i = i
    <3>1. l + 2 \in 0 .. NumLayers + 1 /\ "blend" \in Places
      BY <1>1, PassFacts DEF Places
    <3>. QED BY <1>1, <2>2, <3>1, Positions
  <2>4. InPass'
    BY <1>1, <2>1, <2>3, PassFacts DEF InPass
  <2>5. \A j \in 1 .. Len(Loaders) : Advanced(j)' = Advanced(j)
    BY <1>3, <2>3 DEF Advanced
  <2>. QED BY <1>3, <2>3, <2>4, <2>5 DEF Saved
<1>4. CASE pc.at = "attention"
  <2>2. pc' = P("save", l, 1)
    BY <1>4 DEF After
  <2>3. pc' \in Position /\ pc'.at = "save" /\ pc'.l = l /\ pc'.i = 1
    <3>1. l \in 0 .. NumLayers + 1 /\ "save" \in Places /\ 1 \in Nat
      BY <1>1, PassFacts DEF Places
    <3>. QED BY <2>2, <3>1, Positions
  <2>4. InPass'
    BY <1>1, <2>3, PassFacts DEF InPass
  <2>5. \A j \in 1 .. Len(Loaders) : Advanced(j)' = Advanced(j)
    BY <1>4, <2>3 DEF Advanced
  <2>6. \A j \in 1 .. Len(Savers) : Saved(j)' = l /\ Saved(j) = l
    BY <1>4, <2>3 DEF Saved
  <2>. QED BY <2>3, <2>4, <2>5, <2>6
<1>. QED BY <1>3, <1>4

LEMMA HostStays ==
  ASSUME Placed, UNCHANGED <<pc, retrieves, stores, connector>>
  PROVE  Placed'
BY DEF Placed, HostTypes, Counted, InPass, Advanced, Saved
-----------------------------------------------------------------------------
(* What every step keeps: the types, the kinds and the streams             *)

Past == {"load", "attention", "save", "end"}

LEMMA StaysPast ==
  ASSUME Placed, pc' = After, pc.at \in {"load", "attention", "save"}
  PROVE  pc'.at \in Past
<1>1. CASE pc.at = "load"
  BY <1>1 DEF After, WaitForLayerLoad, P, Past
<1>2. CASE pc.at = "attention"
  BY <1>2 DEF After, P, Past
<1>3. CASE pc.at = "save"
  BY <1>3 DEF After, SaveKvLayer, Layer, WaitForSave, P, Past
<1>. QED BY <1>1, <1>2, <1>3

LEMMA KindSet ==
  ASSUME KindTypes, NEW k \in Kinds
  PROVE  /\ \A r \in LoadIds : Became(<<"retrieve", r>>, k) =>
              /\ KindTypes' /\ \A q \in SaveIds : StoreKind(q)' = StoreKind(q)
              /\ \A q \in LoadIds : RetrieveKind(q)' = IF q = r THEN k ELSE RetrieveKind(q)
         /\ \A r \in SaveIds : Became(<<"store", r>>, k) =>
              /\ KindTypes' /\ \A q \in LoadIds : RetrieveKind(q)' = RetrieveKind(q)
              /\ \A q \in SaveIds : StoreKind(q)' = IF q = r THEN k ELSE StoreKind(q)
<1>. DEFINE D == {"retrieve"} \X LoadIds \cup {"store"} \X SaveIds
<1>1. /\ \A q \in LoadIds : <<"retrieve", q>> \in D
      /\ \A q \in SaveIds : <<"store", q>> \in D
  OBVIOUS
<1>2. /\ \A q, r : <<"retrieve", q>> # <<"store", r>>
      /\ \A q, r : <<"retrieve", q>> = <<"retrieve", r>> <=> q = r
      /\ \A q, r : <<"store", q>> = <<"store", r>> <=> q = r
  OBVIOUS
<1>3. kind \in [D -> Kinds]
  BY DEF KindTypes
<1>. HIDE DEF D
<1>4. \A g \in D : Became(g, k) => kind' \in [D -> Kinds] /\ kind'[g] = k /\ \A h \in D : h # g => kind'[h] = kind[h]
  BY <1>3 DEF Became
<1>5. kind' \in [D -> Kinds] => KindTypes'
  BY DEF KindTypes, D
<1>6. ASSUME NEW r \in LoadIds, Became(<<"retrieve", r>>, k)
      PROVE  /\ KindTypes' /\ \A q \in SaveIds : StoreKind(q)' = StoreKind(q)
             /\ \A q \in LoadIds : RetrieveKind(q)' = IF q = r THEN k ELSE RetrieveKind(q)
  <2>1. /\ kind' \in [D -> Kinds] /\ kind'[<<"retrieve", r>>] = k
        /\ \A h \in D : h # <<"retrieve", r>> => kind'[h] = kind[h]
    BY <1>1, <1>4, <1>6
  <2>. QED BY <1>1, <1>2, <1>5, <2>1 DEF RetrieveKind, StoreKind
<1>7. ASSUME NEW r \in SaveIds, Became(<<"store", r>>, k)
      PROVE  /\ KindTypes' /\ \A q \in LoadIds : RetrieveKind(q)' = RetrieveKind(q)
             /\ \A q \in SaveIds : StoreKind(q)' = IF q = r THEN k ELSE StoreKind(q)
  <2>1. /\ kind' \in [D -> Kinds] /\ kind'[<<"store", r>>] = k
        /\ \A h \in D : h # <<"store", r>> => kind'[h] = kind[h]
    BY <1>1, <1>4, <1>7
  <2>. QED BY <1>1, <1>2, <1>5, <2>1 DEF RetrieveKind, StoreKind
<1>. QED BY <1>6, <1>7

\* The operations that are queued.
LEMMA Operations ==
  ASSUME StreamTypes
  PROVE  /\ \A s \in Streams : Wait(s) \in WaitOp /\ Wait(s) \in Op
         /\ \A r \in LoadIds, l \in Layers, n \in {0, 1} :
              /\ \A op \in {"load", "fill"} : O(op, r, l, n) \in LoadOp /\ O(op, r, l, n) \in Op
              /\ \A op \in {"flush", "compute"} : O(op, r, l, n) \in CurrentOp /\ O(op, r, l, n) \in Op
         /\ \A l \in Layers, n \in {0, 1} : O("attention", None, l, n) \in CurrentOp /\ O("attention", None, l, n) \in Op
         /\ \A r \in SaveIds, l \in Layers : O("store", r, l, 0) \in StoreOp /\ O("store", r, l, 0) \in Op
         /\ WaitOp \subseteq CurrentOp /\ WaitOp \subseteq StoreOp
<1>1. \A s \in Streams : Issued(s) \in Nat
  BY LiveNat
<1>2. \A s \in Streams : Wait(s) \in WaitOp /\ Wait(s) \in Op
  BY <1>1 DEF Wait, O, WaitOp, Op
<1>3. \A l \in Layers : l \in Nat
  BY PassFacts DEF Layers
<1>4. \A r \in LoadIds, l \in Layers, n \in {0, 1} :
        /\ \A op \in {"load", "fill"} : O(op, r, l, n) \in LoadOp /\ O(op, r, l, n) \in Op
        /\ \A op \in {"flush", "compute"} : O(op, r, l, n) \in CurrentOp /\ O(op, r, l, n) \in Op
  BY <1>3 DEF O, LoadOp, BufferOp, CurrentOp, Op
<1>5. \A l \in Layers, n \in {0, 1} : O("attention", None, l, n) \in CurrentOp /\ O("attention", None, l, n) \in Op
  BY <1>3 DEF O, CurrentOp, AttentionOp, Op
<1>6. \A r \in SaveIds, l \in Layers : O("store", r, l, 0) \in StoreOp /\ O("store", r, l, 0) \in Op
  BY <1>3 DEF O, StoreOp, Op
<1>. QED BY <1>2, <1>4, <1>5, <1>6 DEF CurrentOp, StoreOp

LEMMA BufferBit == \A l \in Layers : BufferOf(l) \in {0, 1}
BY PassFacts DEF Layers, BufferOf

\* What was on a stream is still there, and what is new is in order.
LEMMA StreamsKeep ==
  ASSUME StreamInv, connector' = connector, pc.at \in Past => pc'.at \in Past,
         \A g \in Live("current")' :
           \/ g \in Live("current") /\ Nth("current", g)' = Nth("current", g)
           \/ CurrentOk(Nth("current", g))',
         \A g \in Live("load")' :
           (g \in Live("load") /\ Nth("load", g)' = Nth("load", g)) \/ LoadOk(Nth("load", g))',
         \A g \in Live("store")' :
           (g \in Live("store") /\ Nth("store", g)' = Nth("store", g)) \/ Nth("store", g)' \in StoreOp
  PROVE  StreamInv'
<1>1. \A g \in Live("current")' : CurrentOk(Nth("current", g))'
  BY DEF StreamInv, CurrentOk, Past
<1>2. \A g \in Live("load")' : LoadOk(Nth("load", g))'
  BY DEF StreamInv, LoadOk
<1>3. \A g \in Live("store")' : Nth("store", g)' \in StoreOp
  BY DEF StreamInv
<1>. QED BY <1>1, <1>2, <1>3 DEF StreamInv

LEMMA StreamsSame ==
  ASSUME StreamTypes, StreamInv, connector' = connector, pc.at \in Past => pc'.at \in Past,
         UNCHANGED <<pending, done>>
  PROVE  StreamTypes' /\ StreamInv' /\ \A s \in Streams : Same(s)
<1>1. \A s \in Streams : Same(s)
  BY Untouched
<1>2. Same("current") /\ Same("load") /\ Same("store")
  BY <1>1 DEF Streams
<1>3. StreamInv'
  BY <1>2, StreamsKeep DEF Same, Kept
<1>. QED BY <1>1, <1>3 DEF StreamTypes

\* What batched_to_gpu puts on the streams ...
LEMMA PagedQueues ==
  ASSUME StreamTypes, done' = done, NEW r \in LoadIds, NEW l \in Layers, PagedToGpu(r, l)
  PROVE  /\ StreamTypes' /\ Same("store") /\ draining' = draining
         /\ Grew("load", Issued("load") + 1, O("load", r, l, 0))
         /\ r = Final => Grew("current", Issued("current") + 1, Wait("load"))
         /\ r # Final => Same("current")
<1>. DEFINE w == Wait("load")
            o == O("load", r, l, 0)
            c == IF Synced(r) THEN <<w>> ELSE <<>>
<1>1. w \in Op /\ o \in Op
  BY Operations DEF Streams
<1>2. Queue(c, <<o>>, <<>>) /\ draining' = draining
  BY DEF PagedToGpu
<1>. HIDE DEF w, o
<1>3. c \in Seq(Op) /\ <<o>> \in Seq(Op) /\ <<>> \in Seq(Op)
  BY <1>1
<1>4. /\ StreamTypes' /\ pending'["current"] = pending["current"] \o c
      /\ pending'["load"] = pending["load"] \o <<o>> /\ pending'["store"] = pending["store"] \o <<>>
  BY <1>2, <1>3, QueueStreams
<1>5. Same("store")
  BY <1>4, Nothing DEF Streams
<1>6. Grew("load", Issued("load") + 1, o)
  BY <1>1, <1>4, OneMore DEF Streams
<1>7. r = Final => Grew("current", Issued("current") + 1, w)
  BY <1>1, <1>4, OneMore DEF Streams, Synced, Final
<1>8. r # Final => Same("current")
  BY <1>4, Nothing DEF Streams, Synced, Final
<1>. QED BY <1>2, <1>4, <1>5, <1>6, <1>7, <1>8 DEF w, o

LEMMA BufferQueues ==
  ASSUME StreamTypes, done' = done, NEW r \in LoadIds, NEW l \in Layers, BufferToGpu(r, l), load_buffer \in {0, 1}
  PROVE  /\ StreamTypes' /\ Same("store") /\ draining' = l
         /\ Grew("load", Issued("load") + 1, O("fill", r, l, load_buffer))
         /\ l > 0 => Grew("current", Issued("current") + 1, O("flush", r, l - 1, BufferOf(l - 1)))
         /\ l = 0 => Same("current")
<1>. DEFINE w == O("flush", r, l - 1, BufferOf(l - 1))
            o == O("fill", r, l, load_buffer)
            c == IF l > 0 THEN <<w>> ELSE <<>>
<1>1. o \in Op /\ (l > 0 => w \in Op) /\ l \in Nat
  <2>1. l \in Nat /\ (l > 0 => l - 1 \in Layers)
    BY PassFacts DEF Layers
  <2>. QED BY <2>1, BufferBit, Operations
<1>2. Queue(c, <<o>>, <<>>) /\ draining' = l
  BY DEF BufferToGpu
<1>. HIDE DEF w, o
<1>3. c \in Seq(Op) /\ <<o>> \in Seq(Op) /\ <<>> \in Seq(Op)
  BY <1>1
<1>4. /\ StreamTypes' /\ pending'["current"] = pending["current"] \o c
      /\ pending'["load"] = pending["load"] \o <<o>> /\ pending'["store"] = pending["store"] \o <<>>
  BY <1>2, <1>3, QueueStreams
<1>5. Same("store")
  BY <1>4, Nothing DEF Streams
<1>6. Grew("load", Issued("load") + 1, o)
  BY <1>1, <1>4, OneMore DEF Streams
<1>7. l > 0 => Grew("current", Issued("current") + 1, w)
  BY <1>1, <1>4, OneMore DEF Streams
<1>8. l = 0 => Same("current")
  BY <1>4, Nothing DEF Streams
<1>. QED BY <1>2, <1>4, <1>5, <1>6, <1>7, <1>8 DEF w, o

LEMMA EndQueues ==
  ASSUME StreamTypes, done' = done, NEW r \in LoadIds, ToGpuEnds(r), connector \in {"paged", "buffer"}
  PROVE  /\ StreamTypes' /\ Same("store") /\ Same("load")
         /\ connector = "buffer" =>
              Grew("current", Issued("current") + 1, O("flush", r, NumLayers - 1, BufferOf(NumLayers - 1)))
         /\ connector = "paged" /\ r = Final => Grew("current", Issued("current") + 1, Wait("load"))
         /\ connector = "paged" /\ r # Final => Same("current")
<1>. DEFINE f == O("flush", r, NumLayers - 1, BufferOf(NumLayers - 1))
            w == Wait("load")
            c == IF connector = "buffer" THEN <<f>> ELSE IF Synced(r) THEN <<w>> ELSE <<>>
<1>1. f \in Op /\ w \in Op
  <2>1. NumLayers - 1 \in Layers
    BY PassFacts DEF Layers
  <2>. QED BY <2>1, BufferBit, Operations DEF Streams
<1>2. Queue(c, <<>>, <<>>)
  BY DEF ToGpuEnds
<1>. HIDE DEF w, f
<1>3. c \in Seq(Op) /\ <<>> \in Seq(Op)
  BY <1>1
<1>4. /\ StreamTypes' /\ pending'["current"] = pending["current"] \o c
      /\ pending'["load"] = pending["load"] \o <<>> /\ pending'["store"] = pending["store"] \o <<>>
  BY <1>2, <1>3, QueueStreams
<1>5. Same("store") /\ Same("load")
  BY <1>4, Nothing DEF Streams
<1>6. connector = "buffer" => Grew("current", Issued("current") + 1, f)
  BY <1>1, <1>4, OneMore DEF Streams
<1>7. connector = "paged" /\ r = Final => Grew("current", Issued("current") + 1, w)
  BY <1>1, <1>4, OneMore DEF Streams, Synced, Final
<1>8. connector = "paged" /\ r # Final => Same("current")
  BY <1>4, Nothing DEF Streams, Synced, Final
<1>. QED BY <1>4, <1>5, <1>6, <1>7, <1>8 DEF w, f

\* ... and what batched_from_gpu puts there.
LEMMA StoreQueues ==
  ASSUME StreamTypes, done' = done, NEW r \in SaveIds, NEW l \in Layers, FromGpu(r, l)
  PROVE  /\ StreamTypes' /\ Same("current") /\ Same("load")
         /\ GrewTwo("store", Issued("store") + 1, Wait("current"), O("store", r, l, 0))
<1>. DEFINE w == Wait("current")
            o == O("store", r, l, 0)
<1>1. w \in Op /\ o \in Op
  BY Operations DEF Streams
<1>2. Queue(<<>>, <<>>, <<w, o>>)
  BY DEF FromGpu
<1>. HIDE DEF w, o
<1>3. <<w, o>> \in Seq(Op) /\ <<>> \in Seq(Op)
  BY <1>1
<1>4. /\ StreamTypes' /\ pending'["current"] = pending["current"] \o <<>>
      /\ pending'["load"] = pending["load"] \o <<>> /\ pending'["store"] = pending["store"] \o <<w, o>>
  BY <1>2, <1>3, QueueStreams
<1>5. Same("current") /\ Same("load")
  BY <1>4, Nothing DEF Streams
<1>6. GrewTwo("store", Issued("store") + 1, w, o)
  BY <1>1, <1>4, TwoMore DEF Streams
<1>. QED BY <1>4, <1>5, <1>6 DEF w, o

LEMMA LaunchQueues ==
  ASSUME StreamTypes, done' = done, NEW o \in Op, Queue(<<o>>, <<>>, <<>>)
  PROVE  StreamTypes' /\ Grew("current", Issued("current") + 1, o) /\ Same("load") /\ Same("store")
<1>1. <<o>> \in Seq(Op) /\ <<>> \in Seq(Op)
  OBVIOUS
<1>2. /\ StreamTypes' /\ pending'["current"] = pending["current"] \o <<o>>
      /\ pending'["load"] = pending["load"] \o <<>> /\ pending'["store"] = pending["store"] \o <<>>
  BY <1>1, QueueStreams
<1>. QED BY <1>2, OneMore, Nothing DEF Streams
-----------------------------------------------------------------------------
LEMMA RetrieveKinds ==
  ASSUME HostTypes, KindsFollow, NEW r \in LoadIds, Advance(r), stores' = stores,
         \A q \in SaveIds : StoreKind(q)' = StoreKind(q),
         \A q \in LoadIds : q # r => RetrieveKind(q)' = RetrieveKind(q),
         RetrieveKind(r)' \in {"hit", "none"} \/ (RetrieveKind(r)' = "dead" /\ retrieves[r] = 0)
  PROVE  KindsFollow'
<1>1. /\ retrieves'[r] = retrieves[r] + 1 /\ retrieves[r] \in Nat
      /\ \A q \in LoadIds : q # r => retrieves'[q] = retrieves[q]
  BY PassFacts DEF HostTypes, Advance
<1>. QED BY <1>1 DEF KindsFollow

LEMMA StoreKinds ==
  ASSUME HostTypes, KindsFollow, NEW r \in SaveIds, stores' = [stores EXCEPT ![r] = @ + 1], retrieves' = retrieves,
         \A q \in LoadIds : RetrieveKind(q)' = RetrieveKind(q),
         \A q \in SaveIds : q # r => StoreKind(q)' = StoreKind(q),
         StoreKind(r)' \in {"full", "empty", "frozen"}
  PROVE  KindsFollow'
<1>1. /\ stores'[r] = stores[r] + 1 /\ stores[r] \in Nat
      /\ \A q \in SaveIds : q # r => stores'[q] = stores[q]
  BY PassFacts DEF HostTypes
<1>. QED BY <1>1 DEF KindsFollow

LEMMA KindsKept ==
  ASSUME kind' = kind
  PROVE  /\ \A q : RetrieveKind(q)' = RetrieveKind(q) /\ StoreKind(q)' = StoreKind(q)
         /\ KindTypes => KindTypes'
BY DEF RetrieveKind, StoreKind, KindTypes

LEMMA KindsSame ==
  ASSUME KindsFollow, UNCHANGED <<kind, retrieves, stores>>
  PROVE  KindsFollow'
BY DEF KindsFollow, RetrieveKind, StoreKind

LEMMA DeviceSame ==
  ASSUME DeviceTypes, UNCHANGED deviceVars
  PROVE  DeviceTypes'
BY DEF DeviceTypes, deviceVars

LEMMA RetrievePast ==
  ASSUME Placed, NEW r \in LoadIds, AtRetrieve(r), pc' = After
  PROVE  pc.at \in Past => pc'.at \in Past
BY StaysPast DEF AtRetrieve, Past

LEMMA BaseRetrieveStarts ==
  ASSUME BaseInv, NEW r \in LoadIds, RetrieveStarts(r)
  PROVE  BaseInv'
<1>1. /\ AtRetrieve(r) /\ Advance(r) /\ pc' = After /\ raised' = raised /\ retrieves[r] = 0
      /\ UNCHANGED <<connector, mode, stores, fetched, pending, done, load_buffer, draining, put, early, deviceVars>>
  BY DEF RetrieveStarts, Returns
<1>2. PICK k \in {"dead", "hit", "none"} : Became(<<"retrieve", r>>, k)
  BY DEF RetrieveStarts
<1>3. /\ KindTypes' /\ \A q \in SaveIds : StoreKind(q)' = StoreKind(q)
      /\ \A q \in LoadIds : RetrieveKind(q)' = IF q = r THEN k ELSE RetrieveKind(q)
  BY <1>2, KindSet DEF BaseInv, Kinds
<1>4. Placed'
  BY <1>1, RetrieveMoves DEF BaseInv, HostInv
<1>5. KindsFollow'
  BY <1>1, <1>3, RetrieveKinds DEF BaseInv, HostInv, Placed
<1>6. StreamTypes' /\ StreamInv'
  BY <1>1, RetrievePast, StreamsSame DEF BaseInv, HostInv
<1>7. DeviceTypes'
  BY <1>1, DeviceSame DEF BaseInv
<1>. QED BY <1>1, <1>3, <1>4, <1>5, <1>6, <1>7 DEF BaseInv, HostInv, PutTypes, OtherTypes

LEMMA BaseRetrieveLayer ==
  ASSUME BaseInv, NEW r \in LoadIds, RetrieveLayer(r)
  PROVE  BaseInv'
<1>. DEFINE l == retrieves[r] - 1
<1>1. /\ AtRetrieve(r) /\ Advance(r) /\ pc' = After /\ raised' = raised /\ RetrieveKind(r) = "hit"
      /\ l \in Layers /\ (IF connector = "paged" THEN PagedToGpu(r, l) ELSE BufferToGpu(r, l))
      /\ UNCHANGED <<connector, mode, stores, kind, fetched, done, load_buffer, put, early, deviceVars>>
  BY PassFacts DEF RetrieveLayer, Returns, RetrieveKind, Layers
<1>. HIDE DEF l
<1>2. Placed'
  BY <1>1, RetrieveMoves DEF BaseInv, HostInv
<1>3. KindsFollow' /\ KindTypes'
  <2>1. (\A q : RetrieveKind(q)' = RetrieveKind(q) /\ StoreKind(q)' = StoreKind(q)) /\ (KindTypes => KindTypes')
    BY <1>1, KindsKept
  <2>2. HostTypes /\ KindsFollow /\ KindTypes /\ Advance(r) /\ stores' = stores /\ RetrieveKind(r)' \in {"hit", "none"}
    BY <1>1, <2>1 DEF BaseInv, HostInv, Placed
  <2>. QED BY <2>1, <2>2, RetrieveKinds
<1>4. /\ pc.at \in Past => pc'.at \in Past
      /\ connector \in {"paged", "buffer"} /\ load_buffer \in {0, 1} /\ connector' = connector
      /\ StreamTypes /\ StreamInv
  BY <1>1, RetrievePast DEF BaseInv, HostInv, Placed, HostTypes, OtherTypes
<1>5. CASE connector = "paged"
  <2>1. /\ StreamTypes' /\ Same("store") /\ draining' = draining
        /\ Grew("load", Issued("load") + 1, O("load", r, l, 0))
        /\ Same("current") \/ Grew("current", Issued("current") + 1, Wait("load"))
    BY <1>1, <1>4, <1>5, PagedQueues
  <2>2. /\ Wait("load") \in CurrentOp /\ Wait("load").op = "wait"
        /\ O("load", r, l, 0) \in LoadOp /\ O("load", r, l, 0).op = "load"
    BY <1>1, <1>4, Operations DEF Streams, O, Wait
  <2>3. \A g \in Live("current")' :
           \/ g \in Live("current") /\ Nth("current", g)' = Nth("current", g)
           \/ CurrentOk(Nth("current", g))'
    BY <1>4, <1>5, <2>1, <2>2 DEF Same, Grew, Kept, CurrentOk
  <2>4. \A g \in Live("load")' :
           (g \in Live("load") /\ Nth("load", g)' = Nth("load", g)) \/ LoadOk(Nth("load", g))'
    BY <1>4, <1>5, <2>1, <2>2 DEF Grew, Kept, LoadOk
  <2>5. StreamInv'
    BY <1>4, <2>1, <2>3, <2>4, StreamsKeep DEF Same, Kept
  <2>. QED BY <1>1, <1>2, <1>3, <2>1, <2>5, DeviceSame DEF BaseInv, HostInv, PutTypes, OtherTypes
<1>6. CASE connector = "buffer"
  <2>1. /\ StreamTypes' /\ Same("store") /\ draining' = l
        /\ Grew("load", Issued("load") + 1, O("fill", r, l, load_buffer))
        /\ \/ Same("current")
           \/ l > 0 /\ Grew("current", Issued("current") + 1, O("flush", r, l - 1, BufferOf(l - 1)))
    <3>1. l \in Nat
      BY <1>1, PassFacts DEF Layers
    <3>. QED BY <1>1, <1>4, <1>6, <3>1, BufferQueues
  <2>2. O("fill", r, l, load_buffer) \in LoadOp /\ O("fill", r, l, load_buffer).op = "fill"
    BY <1>1, <1>4, Operations DEF O
  <2>3. \A g \in Live("current")' :
           \/ g \in Live("current") /\ Nth("current", g)' = Nth("current", g)
           \/ CurrentOk(Nth("current", g))'
    <3>1. CASE Same("current")
      BY <3>1 DEF Same, Kept
    <3>2. CASE l > 0 /\ Grew("current", Issued("current") + 1, O("flush", r, l - 1, BufferOf(l - 1)))
      <4>. DEFINE f == O("flush", r, l - 1, BufferOf(l - 1))
      <4>1. l - 1 \in Layers
        BY <1>1, <3>2, PassFacts DEF Layers
      <4>2. f \in CurrentOp /\ f.op = "flush" /\ f.l = l - 1 /\ f.n = BufferOf(l - 1)
        BY <1>4, <4>1, BufferBit, Operations DEF O
      <4>. HIDE DEF f
      <4>3. Grew("current", Issued("current") + 1, f)
        BY <3>2 DEF f
      <4>. QED BY <1>4, <1>6, <4>2, <4>3 DEF Grew, Kept, CurrentOk
    <3>. QED BY <2>1, <3>1, <3>2
  <2>4. \A g \in Live("load")' :
           (g \in Live("load") /\ Nth("load", g)' = Nth("load", g)) \/ LoadOk(Nth("load", g))'
    BY <1>4, <1>6, <2>1, <2>2 DEF Grew, Kept, LoadOk
  <2>5. StreamInv'
    BY <1>4, <2>1, <2>3, <2>4, StreamsKeep DEF Same, Kept
  <2>. QED BY <1>1, <1>2, <1>3, <2>1, <2>5, DeviceSame DEF BaseInv, HostInv, PutTypes, OtherTypes
<1>. QED BY <1>4, <1>5, <1>6

LEMMA BaseRetrieveEnds ==
  ASSUME BaseInv, NEW r \in LoadIds, RetrieveEnds(r)
  PROVE  BaseInv'
<1>1. /\ AtRetrieve(r) /\ Advance(r) /\ pc' = After /\ raised' = raised /\ RetrieveKind(r) = "hit"
      /\ ToGpuEnds(r) /\ load_buffer' = 0
      /\ UNCHANGED <<connector, mode, stores, kind, fetched, done, draining, put, early, deviceVars>>
  BY DEF RetrieveEnds, Returns, RetrieveKind
<1>2. Placed'
  BY <1>1, RetrieveMoves DEF BaseInv, HostInv
<1>3. KindsFollow' /\ KindTypes'
  <2>1. (\A q : RetrieveKind(q)' = RetrieveKind(q) /\ StoreKind(q)' = StoreKind(q)) /\ (KindTypes => KindTypes')
    BY <1>1, KindsKept
  <2>2. HostTypes /\ KindsFollow /\ KindTypes /\ Advance(r) /\ stores' = stores /\ RetrieveKind(r)' \in {"hit", "none"}
    BY <1>1, <2>1 DEF BaseInv, HostInv, Placed
  <2>. QED BY <2>1, <2>2, RetrieveKinds
<1>4. /\ pc.at \in Past => pc'.at \in Past
      /\ connector \in {"paged", "buffer"} /\ connector' = connector
      /\ StreamTypes /\ StreamInv
  BY <1>1, RetrievePast DEF BaseInv, HostInv, Placed, HostTypes, OtherTypes
<1>. DEFINE f == O("flush", r, NumLayers - 1, BufferOf(NumLayers - 1))
<1>5. /\ StreamTypes' /\ Same("store") /\ Same("load")
      /\ \/ Same("current")
         \/ connector = "paged" /\ Grew("current", Issued("current") + 1, Wait("load"))
         \/ connector = "buffer" /\ Grew("current", Issued("current") + 1, f)
  <2>1. /\ StreamTypes' /\ Same("store") /\ Same("load")
        /\ connector = "buffer" => Grew("current", Issued("current") + 1, f)
        /\ connector = "paged" /\ r = Final => Grew("current", Issued("current") + 1, Wait("load"))
        /\ connector = "paged" /\ r # Final => Same("current")
    <3>1. done' = done /\ ToGpuEnds(r) /\ connector \in {"paged", "buffer"} /\ StreamTypes
      BY <1>1, <1>4
    <3>. QED BY <3>1, EndQueues
  <2>. HIDE DEF f
  <2>. QED BY <1>4, <2>1
<1>6. /\ Wait("load") \in CurrentOp /\ Wait("load").op = "wait"
      /\ f \in CurrentOp /\ f.op = "flush" /\ f.l = NumLayers - 1 /\ f.n = BufferOf(NumLayers - 1)
  <2>1. NumLayers - 1 \in Layers
    BY PassFacts DEF Layers
  <2>. QED BY <1>4, <2>1, BufferBit, Operations DEF Streams, O, Wait
<1>. HIDE DEF f
<1>7. \A g \in Live("current")' :
         \/ g \in Live("current") /\ Nth("current", g)' = Nth("current", g)
         \/ CurrentOk(Nth("current", g))'
  <2>1. CASE Same("current")
    BY <2>1 DEF Same, Kept
  <2>2. CASE connector = "paged" /\ Grew("current", Issued("current") + 1, Wait("load"))
    BY <1>4, <1>6, <2>2 DEF Grew, Kept, CurrentOk
  <2>3. CASE connector = "buffer" /\ Grew("current", Issued("current") + 1, f)
    BY <1>4, <1>6, <2>3 DEF Grew, Kept, CurrentOk
  <2>. QED BY <1>5, <2>1, <2>2, <2>3
<1>8. StreamInv'
  BY <1>4, <1>5, <1>7, StreamsKeep DEF Same, Kept
<1>. QED BY <1>1, <1>2, <1>3, <1>5, <1>8, DeviceSame DEF BaseInv, HostInv, PutTypes, OtherTypes

\* The steps that leave the position of the host, the kinds and the streams alone.
LEMMA BaseStays ==
  ASSUME BaseInv, UNCHANGED <<pc, retrieves, stores, connector, kind, pending, done, deviceVars>>,
         PutTypes', OtherTypes'
  PROVE  BaseInv' /\ \A s \in Streams : Same(s)
<1>1. Placed'
  BY HostStays DEF BaseInv, HostInv
<1>2. KindsFollow' /\ KindTypes'
  BY KindsSame, KindsKept DEF BaseInv, HostInv
<1>3. StreamTypes' /\ StreamInv' /\ \A s \in Streams : Same(s)
  BY StreamsSame DEF BaseInv
<1>4. DeviceTypes'
  BY DeviceSame DEF BaseInv
<1>. QED BY <1>1, <1>2, <1>3, <1>4 DEF BaseInv, HostInv

\* An exception.
LEMMA BaseRaises ==
  ASSUME BaseInv, Raises,
         UNCHANGED <<connector, mode, retrieves, stores, kind, fetched, pending, done, load_buffer, draining,
                     put, early, deviceVars>>
  PROVE  BaseInv' /\ \A s \in Streams : Same(s)
<1>1. PutTypes' /\ OtherTypes'
  BY DEF BaseInv, PutTypes, OtherTypes, Raises
<1>. QED BY <1>1, BaseStays DEF Raises

LEMMA BaseRetrieveNothing ==
  ASSUME BaseInv, NEW r \in LoadIds, RetrieveNothing(r)
  PROVE  BaseInv'
<1>1. /\ AtRetrieve(r) /\ RetrieveKind(r) \in {"none", "dead"}
      /\ UNCHANGED <<connector, mode, stores, kind, fetched, pending, done, load_buffer, draining, put, early,
                     deviceVars>>
  BY DEF RetrieveNothing, RetrieveKind
<1>2. CASE Raises /\ UNCHANGED retrieves
  BY <1>1, <1>2, BaseRaises
<1>3. CASE RetrieveKind(r) = "none" /\ Advance(r) /\ Returns
  <2>1. pc' = After /\ raised' = raised
    BY <1>3 DEF Returns
  <2>2. Placed'
    BY <1>1, <1>3, <2>1, RetrieveMoves DEF BaseInv, HostInv
  <2>3. (\A q : RetrieveKind(q)' = RetrieveKind(q) /\ StoreKind(q)' = StoreKind(q)) /\ (KindTypes => KindTypes')
    BY <1>1, KindsKept
  <2>4. HostTypes /\ KindsFollow /\ KindTypes /\ stores' = stores /\ RetrieveKind(r)' \in {"hit", "none"}
    BY <1>1, <1>3, <2>3 DEF BaseInv, HostInv, Placed
  <2>5. KindsFollow' /\ KindTypes'
    BY <1>3, <2>3, <2>4, RetrieveKinds
  <2>6. StreamTypes' /\ StreamInv'
    BY <1>1, <2>1, RetrievePast, StreamsSame DEF BaseInv, HostInv
  <2>7. DeviceTypes' /\ PutTypes' /\ OtherTypes'
    BY <1>1, <2>1, DeviceSame DEF BaseInv, PutTypes, OtherTypes
  <2>. QED BY <2>2, <2>5, <2>6, <2>7 DEF BaseInv, HostInv
<1>. QED BY <1>2, <1>3 DEF RetrieveNothing, RetrieveKind

LEMMA BaseLoadCompletes ==
  ASSUME BaseInv, NEW r \in LoadIds, LoadCompletes(r)
  PROVE  BaseInv' /\ \A s \in Streams : Same(s)
<1>1. fetched' \in [LoadIds -> 0 .. NumLayers]
  BY PassFacts DEF LoadCompletes, BaseInv, OtherTypes
<1>2. PutTypes' /\ OtherTypes'
  BY <1>1 DEF LoadCompletes, BaseInv, PutTypes, OtherTypes, hostVars
<1>. QED BY <1>2, BaseStays DEF LoadCompletes, hostVars

LEMMA BaseSynchronize ==
  ASSUME BaseInv, Synchronize
  PROVE  BaseInv' /\ \A s \in Streams : Same(s)
<1>1. load_buffer' \in {0, 1}
  BY DEF Synchronize, BaseInv, OtherTypes
<1>2. PutTypes' /\ OtherTypes'
  BY <1>1 DEF Synchronize, BaseInv, PutTypes, OtherTypes, hostVars
<1>. QED BY <1>2, BaseStays DEF Synchronize, hostVars

LEMMA BaseSetMode ==
  ASSUME BaseInv, NEW m \in Modes, SetMode(m)
  PROVE  BaseInv' /\ \A s \in Streams : Same(s)
<1>1. PutTypes' /\ OtherTypes'
  BY DEF SetMode, BaseInv, PutTypes, OtherTypes, hostVars
<1>. QED BY <1>1, BaseStays DEF SetMode, hostVars

LEMMA BaseStutters ==
  ASSUME BaseInv, UNCHANGED vars
  PROVE  BaseInv' /\ \A s \in Streams : Same(s)
<1>1. PutTypes' /\ OtherTypes'
  BY DEF vars, BaseInv, PutTypes, OtherTypes, hostVars
<1>. QED BY <1>1, BaseStays DEF vars, hostVars

\* An advance of a store_layer; it may queue a copy.
LEMMA BaseStores ==
  ASSUME BaseInv, NEW r \in SaveIds, AtStore(r), Returns, stores' = [stores EXCEPT ![r] = @ + 1],
         \A q \in LoadIds : RetrieveKind(q)' = RetrieveKind(q),
         \A q \in SaveIds : q # r => StoreKind(q)' = StoreKind(q),
         KindTypes', StoreKind(r)' \in {"full", "empty", "frozen"}, PutTypes',
         pending' = pending \/ \E l \in Layers : FromGpu(r, l),
         UNCHANGED <<connector, mode, retrieves, fetched, done, load_buffer, draining, deviceVars>>
  PROVE  BaseInv'
<1>1. pc' = After /\ raised' = raised
  BY DEF Returns
<1>2. Placed'
  BY <1>1, StoreMoves DEF BaseInv, HostInv
<1>3. KindsFollow'
  BY StoreKinds DEF BaseInv, HostInv, Placed
<1>4. pc.at \in Past => pc'.at \in Past
  BY <1>1, StaysPast DEF AtStore, BaseInv, HostInv
<1>5. StreamTypes' /\ StreamInv'
  <2>1. CASE pending' = pending
    BY <1>4, <2>1, StreamsSame DEF BaseInv
  <2>2. CASE \E l \in Layers : FromGpu(r, l)
    <3>1. PICK l \in Layers : FromGpu(r, l)
      BY <2>2
    <3>. DEFINE w == Wait("current")
                o == O("store", r, l, 0)
    <3>2. w \in StoreOp /\ o \in StoreOp /\ StreamTypes
      BY Operations DEF BaseInv, Streams
    <3>3. StreamTypes' /\ Same("current") /\ Same("load") /\ GrewTwo("store", Issued("store") + 1, w, o)
      BY <3>1, <3>2, StoreQueues
    <3>. HIDE DEF w, o
    <3>4. \A g \in Live("store")' :
            (g \in Live("store") /\ Nth("store", g)' = Nth("store", g)) \/ Nth("store", g)' \in StoreOp
      BY <3>2, <3>3 DEF GrewTwo, Kept
    <3>5. StreamInv'
      BY <1>4, <3>3, <3>4, StreamsKeep DEF BaseInv, Same, Kept
    <3>. QED BY <3>3, <3>5
  <2>. QED BY <2>1, <2>2
<1>6. DeviceTypes' /\ OtherTypes'
  BY <1>1, DeviceSame DEF BaseInv, OtherTypes
<1>. QED BY <1>2, <1>3, <1>5, <1>6 DEF BaseInv, HostInv

\* What store_layer does when it begins: nothing, raise, find nothing to do, or queue a copy.
LEMMA StoreStartsCases ==
  ASSUME BaseInv, NEW r \in SaveIds, StoreStarts(r)
  PROVE  /\ AtStore(r) /\ stores[r] = 0
         /\ UNCHANGED <<connector, mode, retrieves, fetched, done, load_buffer, draining, put, early, deviceVars>>
         /\ \/ Raises /\ UNCHANGED <<stores, kind, pending>>
            \/ /\ Returns /\ stores' = [stores EXCEPT ![r] = @ + 1]
               /\ \/ /\ pending' = pending
                     /\ \E k \in {"empty", "frozen"} : Became(<<"store", r>>, k)
                  \/ FromGpu(r, 0) /\ Became(<<"store", r>>, "full")
<1>1. stores[r] = 0 /\ AtStore(r)
  BY DEF StoreStarts
<1>2. [stores EXCEPT ![r] = 1] = [stores EXCEPT ![r] = @ + 1]
  BY <1>1
<1>. QED BY <1>1, <1>2 DEF StoreStarts

LEMMA BaseStoreStarts ==
  ASSUME BaseInv, NEW r \in SaveIds, StoreStarts(r)
  PROVE  BaseInv'
<1>1. /\ AtStore(r) /\ stores[r] = 0 /\ PutTypes'
      /\ UNCHANGED <<connector, mode, retrieves, fetched, done, load_buffer, draining, put, early, deviceVars>>
  BY StoreStartsCases DEF BaseInv, PutTypes
<1>2. CASE Raises /\ UNCHANGED <<stores, kind, pending>>
  BY <1>1, <1>2, BaseRaises
<1>3. CASE /\ Returns /\ stores' = [stores EXCEPT ![r] = @ + 1]
           /\ \/ /\ pending' = pending
                 /\ \E k \in {"empty", "frozen"} : Became(<<"store", r>>, k)
              \/ FromGpu(r, 0) /\ Became(<<"store", r>>, "full")
  <2>1. PICK k \in {"full", "empty", "frozen"} : Became(<<"store", r>>, k)
    BY <1>3
  <2>2. /\ KindTypes' /\ \A q \in LoadIds : RetrieveKind(q)' = RetrieveKind(q)
        /\ \A q \in SaveIds : StoreKind(q)' = IF q = r THEN k ELSE StoreKind(q)
    BY <2>1, KindSet DEF BaseInv, Kinds
  <2>3. pending' = pending \/ \E l \in Layers : FromGpu(r, l)
    BY <1>3, PassFacts DEF Layers
  <2>. QED BY <1>1, <1>3, <2>2, <2>3, BaseStores
<1>. QED BY <1>2, <1>3, StoreStartsCases

LEMMA BaseStoreLayer ==
  ASSUME BaseInv, NEW r \in SaveIds, StoreLayer(r)
  PROVE  BaseInv'
<1>1. /\ AtStore(r) /\ Returns /\ stores' = [stores EXCEPT ![r] = @ + 1] /\ stores[r] \in 1 .. NumLayers
      /\ StoreKind(r) = "full"
      /\ put' = put \cup {<<r, stores[r] - 1>>} /\ early' = early \cup ({<<r, stores[r] - 1>>} \ copied)
      /\ UNCHANGED <<connector, mode, retrieves, kind, fetched, done, load_buffer, draining, deviceVars>>
      /\ IF stores[r] - 1 + 1 < NumLayers THEN FromGpu(r, stores[r] - 1 + 1) ELSE UNCHANGED pending
  BY DEF StoreLayer, StoreKind
<1>2. PutTypes'
  <2>1. stores[r] - 1 \in Layers
    BY <1>1, PassFacts DEF Layers
  <2>. QED BY <1>1, <2>1 DEF BaseInv, PutTypes
<1>3. pending' = pending \/ \E l \in Layers : FromGpu(r, l)
  BY <1>1, PassFacts DEF Layers
<1>4. (\A q : RetrieveKind(q)' = RetrieveKind(q) /\ StoreKind(q)' = StoreKind(q)) /\ KindTypes'
  BY <1>1, KindsKept DEF BaseInv
<1>. QED BY <1>1, <1>2, <1>3, <1>4, BaseStores

LEMMA BaseStoreNothing ==
  ASSUME BaseInv, NEW r \in SaveIds, StoreNothing(r)
  PROVE  BaseInv'
<1>1. /\ AtStore(r) /\ StoreKind(r) \in {"empty", "frozen"} /\ PutTypes'
      /\ UNCHANGED <<connector, mode, retrieves, kind, fetched, pending, done, load_buffer, draining, put, early,
                     deviceVars>>
  BY DEF StoreNothing, StoreKind, BaseInv, PutTypes
<1>2. CASE Raises /\ UNCHANGED stores
  BY <1>1, <1>2, BaseRaises
<1>3. CASE stores' = [stores EXCEPT ![r] = @ + 1] /\ Returns
  <2>1. (\A q : RetrieveKind(q)' = RetrieveKind(q) /\ StoreKind(q)' = StoreKind(q)) /\ KindTypes'
    BY <1>1, KindsKept DEF BaseInv
  <2>. QED BY <1>1, <1>3, <2>1, BaseStores
<1>. QED BY <1>2, <1>3 DEF StoreNothing

LEMMA LaunchCases ==
  ASSUME BaseInv, Launch
  PROVE  /\ Running /\ pc.at \in {"attention", "compute"} /\ pc.l \in Layers
         /\ UNCHANGED <<connector, mode, retrieves, stores, kind, fetched, done, load_buffer, draining, put, early,
                        deviceVars>>
         /\ \/ Raises /\ UNCHANGED pending
            \/ /\ pc.at = "attention" /\ Returns
               /\ Queue(<<O("attention", None, pc.l, BufferOf(pc.l))>>, <<>>, <<>>)
            \/ /\ pc.at = "compute" /\ Returns /\ RetrieveKind(Loaders[pc.i]) # "none" /\ connector = "buffer"
               /\ pc.i \in 1 .. Len(Loaders) /\ Loaders[pc.i] \in LoadIds
               /\ Queue(<<O("compute", Loaders[pc.i], pc.l, BufferOf(pc.l))>>, <<>>, <<>>)
<1>1. /\ Running /\ pc.at \in {"attention", "compute"}
      /\ UNCHANGED <<connector, mode, retrieves, stores, kind, fetched, done, load_buffer, draining, put, early,
                        deviceVars>>
  BY DEF Launch
<1>2. pc.l \in Layers /\ (pc.at = "compute" => connector = "buffer" /\ pc.i \in 1 .. Len(Loaders))
  BY <1>1 DEF BaseInv, HostInv, Placed, InPass
<1>3. pc.at = "compute" => Loaders[pc.i] \in LoadIds
  BY <1>2, PassFacts
<1>4. CASE pc.at = "attention"
  <2>1. Queue(<<O("attention", None, pc.l, BufferOf(pc.l))>>, <<>>, <<>>) /\ Returns
    BY <1>4 DEF Launch
  <2>. QED BY <1>1, <1>2, <1>4, <2>1
<1>5. CASE pc.at = "compute"
  <2>1. \/ Raises /\ UNCHANGED pending
        \/ /\ Queue(<<O("compute", Loaders[pc.i], pc.l, BufferOf(pc.l))>>, <<>>, <<>>) /\ Returns
           /\ RetrieveKind(Loaders[pc.i]) # "none"
    BY <1>5 DEF Launch, RetrieveKind
  <2>. QED BY <1>1, <1>2, <1>3, <1>5, <2>1
<1>. QED BY <1>1, <1>4, <1>5

LEMMA BaseLaunch ==
  ASSUME BaseInv, Launch
  PROVE  BaseInv'
<1>1. /\ pc.at \in {"attention", "compute"} /\ pc.l \in Layers /\ Running
      /\ UNCHANGED <<connector, mode, retrieves, stores, kind, fetched, done, load_buffer, draining, put, early,
                        deviceVars>>
  BY LaunchCases
<1>2. CASE Raises /\ UNCHANGED pending
  BY <1>1, <1>2, BaseRaises
<1>3. ASSUME NEW o \in Op, Queue(<<o>>, <<>>, <<>>), Returns, o \in CurrentOp, o.op \in {"attention", "compute"},
             o.op = "compute" => connector = "buffer" /\ o.n = BufferOf(o.l),
             o.op = "attention" => pc.at = "attention"
      PROVE  BaseInv'
  <2>1. pc' = After /\ raised' = raised
    BY <1>3 DEF Returns
  <2>2. Placed'
    BY <1>1, <2>1, LaunchMoves DEF BaseInv, HostInv
  <2>3. KindsFollow' /\ KindTypes'
    BY <1>1, KindsSame, KindsKept DEF BaseInv, HostInv
  <2>4. (pc.at \in Past => pc'.at \in Past) /\ (pc.at = "attention" => pc'.at \in Past)
    BY <1>1, <2>1, StaysPast DEF BaseInv, HostInv, Past
  <2>5. StreamTypes' /\ Grew("current", Issued("current") + 1, o) /\ Same("load") /\ Same("store")
    BY <1>1, <1>3, LaunchQueues DEF BaseInv
  <2>6. \A g \in Live("current")' :
           \/ g \in Live("current") /\ Nth("current", g)' = Nth("current", g)
           \/ CurrentOk(Nth("current", g))'
    <3>1. \A g \in {Issued("current") + 1} : CurrentOk(Nth("current", g))'
      BY <1>1, <1>3, <2>4, <2>5 DEF Grew, CurrentOk, Past
    <3>. QED BY <2>5, <3>1 DEF Grew, Kept
  <2>7. StreamInv'
    BY <1>1, <2>4, <2>5, <2>6, StreamsKeep DEF Same, Kept, BaseInv
  <2>8. DeviceTypes' /\ PutTypes' /\ OtherTypes'
    BY <1>1, <2>1, DeviceSame DEF BaseInv, PutTypes, OtherTypes
  <2>. QED BY <2>2, <2>3, <2>5, <2>7, <2>8 DEF BaseInv, HostInv
<1>4. CASE /\ pc.at = "attention" /\ Returns
           /\ Queue(<<O("attention", None, pc.l, BufferOf(pc.l))>>, <<>>, <<>>)
  <2>. DEFINE o == O("attention", None, pc.l, BufferOf(pc.l))
  <2>1. o \in Op /\ o \in CurrentOp /\ o.op = "attention"
    BY <1>1, BufferBit, Operations DEF O, BaseInv
  <2>. QED BY <1>3, <1>4, <2>1
<1>5. CASE /\ pc.at = "compute" /\ Returns /\ RetrieveKind(Loaders[pc.i]) # "none" /\ connector = "buffer"
           /\ pc.i \in 1 .. Len(Loaders) /\ Loaders[pc.i] \in LoadIds
           /\ Queue(<<O("compute", Loaders[pc.i], pc.l, BufferOf(pc.l))>>, <<>>, <<>>)
  <2>. DEFINE o == O("compute", Loaders[pc.i], pc.l, BufferOf(pc.l))
  <2>1. o \in Op /\ o \in CurrentOp /\ o.op = "compute" /\ o.l = pc.l /\ o.n = BufferOf(pc.l)
    BY <1>1, <1>5, BufferBit, Operations DEF O, BaseInv
  <2>. HIDE DEF o
  <2>2. Queue(<<o>>, <<>>, <<>>)
    BY <1>5 DEF o
  <2>. QED BY <1>3, <1>5, <2>1, <2>2
<1>. QED BY <1>2, <1>4, <1>5, LaunchCases
-----------------------------------------------------------------------------
(* The device's steps                                                      *)

\* Operation k, the first on stream s, has run.
Ran(s, k) ==
  /\ k \in Nat /\ k = done[s] + 1 /\ k \in Live(s)
  /\ Live(s)' = Live(s) \ {k} /\ Issued(s)' = Issued(s)
  /\ \A g \in Live(s)' : Nth(s, g)' = Nth(s, g)
  /\ \A t \in Streams \ {s} : Same(t)

LEMMA RunFacts ==
  ASSUME BaseInv, NEW s \in Streams, Run(s)
  PROVE  /\ \E k \in Nat : Ran(s, k) /\ Nth(s, k) = Head(pending[s])
         /\ StreamTypes' /\ StreamInv' /\ HostInv' /\ KindTypes' /\ PutTypes' /\ OtherTypes'
         /\ UNCHANGED <<connector, mode, pc, raised, retrieves, stores, kind, fetched, load_buffer, draining, put, early>>
<1>1. UNCHANGED <<connector, mode, pc, raised, retrieves, stores, kind, fetched, load_buffer, draining, put, early>>
  BY DEF Run, hostVars
<1>2. HostInv' /\ KindTypes' /\ PutTypes' /\ OtherTypes'
  BY <1>1, HostStays, KindsSame, KindsKept DEF BaseInv, HostInv, PutTypes, OtherTypes
<1>3. StreamTypes' /\ \E k \in Nat : Ran(s, k) /\ Nth(s, k) = Head(pending[s])
  BY RunStreams DEF BaseInv, Ran
<1>4. \A t \in Streams : \A g \in Live(t)' : g \in Live(t) /\ Nth(t, g)' = Nth(t, g)
  BY <1>3 DEF Ran, Same, Kept
<1>5. /\ \A g \in Live("current")' : g \in Live("current") /\ Nth("current", g)' = Nth("current", g)
      /\ \A g \in Live("load")' : g \in Live("load") /\ Nth("load", g)' = Nth("load", g)
      /\ \A g \in Live("store")' : g \in Live("store") /\ Nth("store", g)' = Nth("store", g)
  BY <1>4 DEF Streams
<1>6. StreamInv'
  BY <1>1, <1>5, StreamsKeep DEF BaseInv
<1>. QED BY <1>1, <1>2, <1>3, <1>6

\* Operation o of the current stream.
CurrentRuns(o) ==
  /\ UNCHANGED <<buffer, copied, stale>> /\ (o.op = "wait" => done["load"] >= o.n)
  /\ loaded' = IF o.op = "flush" /\ buffer[o.n] = <<o.r, o.l>> THEN loaded \cup {<<o.r, o.l>>} ELSE loaded
  /\ computed' = IF o.op = "attention" THEN computed \cup {o.l} ELSE computed
  /\ missed' = IF \/ o.op = "compute" /\ buffer[o.n] # <<o.r, o.l>>
                  \/ /\ o.op = "attention"
                     /\ \E r \in LoadIds : RetrieveKind(r) = "hit" /\ <<r, o.l>> \notin loaded
                 THEN missed \cup {o.l} ELSE missed

LoadRuns(o) ==
  /\ UNCHANGED <<computed, copied, stale, missed>>
  /\ buffer' = IF o.op = "fill" THEN [buffer EXCEPT ![o.n] = <<o.r, o.l>>] ELSE buffer
  /\ loaded' = IF o.op = "load" THEN loaded \cup {<<o.r, o.l>>} ELSE loaded

StoreRuns(o) ==
  /\ UNCHANGED <<buffer, loaded, computed, missed>> /\ (o.op = "wait" => done["current"] >= o.n)
  /\ copied' = IF o.op = "store" THEN copied \cup {<<o.r, o.l>>} ELSE copied
  /\ stale' = IF o.op = "store" /\ o.l \notin computed THEN stale \cup {<<o.r, o.l>>} ELSE stale

LEMMA RunCurrent ==
  ASSUME BaseInv, Run("current")
  PROVE  \E k \in Nat : Ran("current", k) /\ CurrentRuns(Nth("current", k)) /\ CurrentOk(Nth("current", k))
<1>1. PICK k \in Nat : Ran("current", k) /\ Nth("current", k) = Head(pending["current"])
  BY RunFacts DEF Streams
<1>. DEFINE o == Nth("current", k)
<1>2. CurrentOk(o)
  BY <1>1 DEF Ran, BaseInv, StreamInv
<1>3. o.op \in {"wait", "attention", "flush", "compute"}
  BY <1>2 DEF CurrentOk, CurrentOp, WaitOp, AttentionOp, BufferOp
<1>4. CurrentRuns(o)
  BY <1>1, <1>3 DEF CurrentRuns, Run, RetrieveKind
<1>. QED BY <1>1, <1>2, <1>4

LEMMA RunLoad ==
  ASSUME BaseInv, Run("load")
  PROVE  \E k \in Nat : Ran("load", k) /\ LoadRuns(Nth("load", k)) /\ LoadOk(Nth("load", k))
<1>1. PICK k \in Nat : Ran("load", k) /\ Nth("load", k) = Head(pending["load"])
  BY RunFacts DEF Streams
<1>. DEFINE o == Nth("load", k)
<1>2. LoadOk(o)
  BY <1>1 DEF Ran, BaseInv, StreamInv
<1>3. o.op \in {"load", "fill"}
  BY <1>2 DEF LoadOk, LoadOp, BufferOp
<1>4. LoadRuns(o)
  BY <1>1, <1>3 DEF LoadRuns, Run
<1>. QED BY <1>1, <1>2, <1>4

LEMMA RunStore ==
  ASSUME BaseInv, Run("store")
  PROVE  \E k \in Nat : Ran("store", k) /\ StoreRuns(Nth("store", k)) /\ Nth("store", k) \in StoreOp
<1>1. PICK k \in Nat : Ran("store", k) /\ Nth("store", k) = Head(pending["store"])
  BY RunFacts DEF Streams
<1>. DEFINE o == Nth("store", k)
<1>2. o \in StoreOp
  BY <1>1 DEF Ran, BaseInv, StreamInv
<1>3. o.op \in {"wait", "store"}
  BY <1>2 DEF StoreOp, WaitOp
<1>4. StoreRuns(o)
  BY <1>1, <1>3 DEF StoreRuns, Run
<1>. QED BY <1>1, <1>2, <1>4

LEMMA BaseRun ==
  ASSUME BaseInv, NEW s \in Streams, Run(s)
  PROVE  BaseInv'
<1>1. CASE s = "current"
  <2>1. PICK k \in Nat : CurrentRuns(Nth("current", k)) /\ CurrentOk(Nth("current", k))
    BY <1>1, RunCurrent
  <2>. DEFINE o == Nth("current", k)
  <2>2. (o.op = "flush" => o.r \in LoadIds /\ o.l \in Layers) /\ (o.op \in {"attention", "compute"} => o.l \in Layers)
    BY <2>1 DEF CurrentOk, CurrentOp, WaitOp, AttentionOp, BufferOp
  <2>. HIDE DEF o
  <2>3. CurrentRuns(o)
    BY <2>1 DEF o
  <2>4. loaded' \subseteq LoadIds \X Layers
    BY <2>2, <2>3 DEF BaseInv, DeviceTypes, CurrentRuns
  <2>5. computed' \subseteq Layers /\ missed' \subseteq Layers
    BY <2>2, <2>3 DEF BaseInv, DeviceTypes, CurrentRuns
  <2>6. DeviceTypes'
    BY <2>3, <2>4, <2>5 DEF BaseInv, DeviceTypes, CurrentRuns
  <2>. QED BY <2>6, RunFacts DEF BaseInv
<1>2. CASE s = "load"
  <2>1. PICK k \in Nat : LoadRuns(Nth("load", k)) /\ LoadOk(Nth("load", k))
    BY <1>2, RunLoad
  <2>. DEFINE o == Nth("load", k)
  <2>2. o.r \in LoadIds /\ o.l \in Layers /\ o.n \in {0, 1}
    BY <2>1 DEF LoadOk, LoadOp, BufferOp
  <2>. HIDE DEF o
  <2>3. LoadRuns(o)
    BY <2>1 DEF o
  <2>4. loaded' \subseteq LoadIds \X Layers /\ buffer' \in [{0, 1} -> (LoadIds \X Layers) \cup {None}]
    BY <2>2, <2>3 DEF BaseInv, DeviceTypes, LoadRuns
  <2>5. DeviceTypes'
    BY <2>3, <2>4 DEF BaseInv, DeviceTypes, LoadRuns
  <2>. QED BY <2>5, RunFacts DEF BaseInv
<1>3. CASE s = "store"
  <2>1. PICK k \in Nat : StoreRuns(Nth("store", k)) /\ Nth("store", k) \in StoreOp
    BY <1>3, RunStore
  <2>. DEFINE o == Nth("store", k)
  <2>2. o.op = "store" => o.r \in SaveIds /\ o.l \in Layers
    BY <2>1 DEF StoreOp, WaitOp
  <2>. HIDE DEF o
  <2>3. StoreRuns(o)
    BY <2>1 DEF o
  <2>4. copied' \subseteq SaveIds \X Layers /\ stale' \subseteq SaveIds \X Layers
    BY <2>2, <2>3 DEF BaseInv, DeviceTypes, StoreRuns
  <2>5. DeviceTypes'
    BY <2>3, <2>4 DEF BaseInv, DeviceTypes, StoreRuns
  <2>. QED BY <2>5, RunFacts DEF BaseInv
<1>. QED BY <1>1, <1>2, <1>3 DEF Streams
-----------------------------------------------------------------------------
(* A layer is copied after the model has run it, and put after its copy    *)

LEMMA LayersNat == \A l \in Layers : l \in Nat /\ l < NumLayers
BY PassFacts DEF Layers

\* The host has launched no other layers.
LEMMA RetrieveLaunches ==
  ASSUME Placed, NEW r \in LoadIds, AtRetrieve(r), pc' = After
  PROVE  pc'.at # "save" /\ \A l \in Layers : Launched(l)' => Launched(l)
<1>1. CASE pc.at = "start"
  <2>1. \/ pc'.at = "start"
        \/ pc'.at = "load" /\ pc'.l = 0
        \/ pc'.at = "attention" /\ pc'.l = 0
    BY <1>1 DEF After, StartLoadKv, Layer, P
  <2>. QED BY <2>1, LayersNat DEF Launched
<1>2. CASE pc.at = "load"
  <2>1. pc'.at \in {"load", "attention"} /\ pc'.l = pc.l
    BY <1>2 DEF After, WaitForLayerLoad, P
  <2>. QED BY <1>2, <2>1 DEF Launched
<1>3. CASE pc.at = "blend"
  <2>1. \/ pc'.at \in {"blend", "compute"}
        \/ pc'.at = "load" /\ pc'.l = 0
        \/ pc'.at = "attention" /\ pc'.l = 0
    BY <1>3 DEF After, Blend, Layer, P
  <2>. QED BY <2>1, LayersNat DEF Launched
<1>. QED BY <1>1, <1>2, <1>3 DEF AtRetrieve

LEMMA StoreLaunches ==
  ASSUME Placed, NEW r \in SaveIds, AtStore(r), pc' = After
  PROVE  /\ \A l \in Layers : Launched(l)' => Launched(l)
         /\ pc'.at = "save" => pc'.i = 1 \/ (pc'.i = pc.i + 1 /\ pc'.l = pc.l)
<1>1. pc.at = "save" /\ pc.l \in 0 .. NumLayers /\ pc.l \in Int
  BY StorePlace
<1>2. \/ pc'.at = "save" /\ pc'.l = pc.l /\ pc'.i = pc.i + 1
      \/ pc'.at \in {"load", "attention"} /\ pc'.l = pc.l + 1
      \/ pc'.at = "save" /\ pc'.l = NumLayers /\ pc'.i = 1 /\ pc.l + 1 = NumLayers
      \/ pc'.at = "end" /\ ~ (pc.l + 1 < NumLayers) /\ pc.l + 1 # NumLayers
  BY <1>1 DEF After, SaveKvLayer, Layer, WaitForSave, P
<1>3. pc'.at = "end" /\ ~ (pc.l + 1 < NumLayers) /\ pc.l + 1 # NumLayers => pc.l = NumLayers
  BY <1>1, PassFacts
<1>4. \A l \in Layers : Launched(l)' => l <= pc.l
  BY <1>1, <1>2, <1>3, LayersNat, PassFacts DEF Launched
<1>. QED BY <1>1, <1>2, <1>4 DEF Launched

\* What is on the current stream, and what it has run, stays ordered before a copy.
LEMMA AttentionKept ==
  ASSUME Kept("current"), computed \subseteq computed', NEW l, AttentionIssued(l)
  PROVE  AttentionIssued(l)'
BY DEF AttentionIssued, AttentionAt, Kept

LEMMA CopyWaitsKept ==
  ASSUME Kept("current"), Kept("store"), computed \subseteq computed', NEW g, NEW l, CopyWaits(g, l)
  PROVE  CopyWaits(g, l)'
BY DEF CopyWaits, AttentionAt, Kept

LEMMA CopyKept ==
  ASSUME Kept("store"), copied \subseteq copied', NEW r, NEW l, CopyIssued(r, l)
  PROVE  CopyIssued(r, l)'
BY DEF CopyIssued, Kept

\* Steps that store nothing.
LEMMA StoreInvStays ==
  ASSUME StoreInv, Kept("current"), Same("store"), UNCHANGED <<deviceVars, put, early, stores>>,
         \A r \in SaveIds : StoreKind(r)' = StoreKind(r),
         \A l \in Layers : Launched(l)' => Launched(l),
         pc'.at = "save" => pc'.i = 1 \/ pc' = pc
  PROVE  StoreInv'
<1>1. UNCHANGED <<buffer, loaded, computed, copied, missed, stale>>
  BY DEF deviceVars
<1>2. StoresComputed' /\ AttentionsIssued'
  BY <1>1, AttentionKept DEF StoreInv, StoresComputed, AttentionsIssued
<1>3. CopiesWait'
  BY <1>1, CopyWaitsKept DEF StoreInv, CopiesWait, Same, Kept
<1>4. CopiesIssued'
  BY <1>1, CopyKept DEF StoreInv, CopiesIssued, Same
<1>5. PutAfterCopy'
  BY PassFacts DEF StoreInv, PutAfterCopy, StoreKind
<1>6. FirstWaited'
  BY <1>1, PassFacts DEF StoreInv, FirstWaited
<1>7. LayersPut'
  BY DEF StoreInv, LayersPut
<1>. QED BY <1>2, <1>3, <1>4, <1>5, <1>6, <1>7 DEF StoreInv

\* The host puts nothing on a stream, or nothing that matters here.
LEMMA StoreRetrieves ==
  ASSUME BaseInv, StoreInv, NEW r \in LoadIds, AtRetrieve(r), pc' = After, Kept("current"), Same("store"),
         UNCHANGED <<deviceVars, put, early, stores>>, \A q \in SaveIds : StoreKind(q)' = StoreKind(q)
  PROVE  StoreInv'
<1>1. pc'.at # "save" /\ \A l \in Layers : Launched(l)' => Launched(l)
  BY RetrieveLaunches DEF BaseInv, HostInv
<1>. QED BY <1>1, StoreInvStays

LEMMA StoreRaises ==
  ASSUME BaseInv, StoreInv, \A s \in Streams : Same(s), UNCHANGED <<deviceVars, pc, kind, put, early, stores>>
  PROVE  StoreInv'
<1>1. Kept("current") /\ Same("store")
  BY DEF Streams, Same
<1>2. \A l \in Layers : Launched(l)' => Launched(l)
  BY DEF Launched
<1>3. \A r \in SaveIds : StoreKind(r)' = StoreKind(r)
  BY KindsKept
<1>. QED BY <1>1, <1>2, <1>3, StoreInvStays

LEMMA StoreLaunch ==
  ASSUME BaseInv, StoreInv, Launch
  PROVE  StoreInv'
<1>1. /\ pc.at \in {"attention", "compute"} /\ pc.l \in Layers
      /\ UNCHANGED <<connector, mode, retrieves, stores, kind, fetched, done, load_buffer, draining, put, early,
                        deviceVars>>
      /\ \A r \in SaveIds : StoreKind(r)' = StoreKind(r)
  BY LaunchCases, KindsKept
<1>2. CASE Raises /\ UNCHANGED pending
  <2>1. \A s \in Streams : Same(s)
    BY <1>1, <1>2, BaseRaises
  <2>. QED BY <1>1, <1>2, <2>1, StoreRaises DEF Raises
<1>3. CASE /\ pc.at = "attention" /\ Returns
           /\ Queue(<<O("attention", None, pc.l, BufferOf(pc.l))>>, <<>>, <<>>)
  <2>. DEFINE o == O("attention", None, pc.l, BufferOf(pc.l))
  <2>1. o \in Op /\ o.op = "attention" /\ o.l = pc.l /\ StreamTypes /\ done' = done
    BY <1>1, BufferBit, Operations DEF O, BaseInv
  <2>. HIDE DEF o
  <2>2. Queue(<<o>>, <<>>, <<>>)
    BY <1>3 DEF o
  <2>3. Grew("current", Issued("current") + 1, o) /\ Same("store") /\ Kept("current")
    BY <2>1, <2>2, LaunchQueues DEF Grew
  <2>4. pc' = P("save", pc.l, 1)
    BY <1>3 DEF Returns, After
  <2>5. pc'.at = "save" /\ pc'.l = pc.l /\ pc'.i = 1
    BY <2>4 DEF P
  <2>6. UNCHANGED <<buffer, loaded, computed, copied, missed, stale>>
    BY <1>1 DEF deviceVars
  <2>7. AttentionsIssued'
    <3>1. \A l \in Layers : Launched(l)' => l = pc.l \/ Launched(l)
      BY <1>1, <1>3, <2>5, LayersNat DEF Launched
    <3>2. \A l \in Layers : Launched(l) => AttentionIssued(l)'
      BY <2>3, <2>6, AttentionKept DEF StoreInv, AttentionsIssued
    <3>3. \A l \in Layers : l = pc.l => AttentionIssued(l)'
      <4>1. \E g \in Live("current")' : Nth("current", g)' = o
        BY <2>3 DEF Grew
      <4>. QED BY <2>1, <4>1 DEF AttentionIssued, AttentionAt
    <3>. QED BY <3>1, <3>2, <3>3 DEF AttentionsIssued
  <2>8. StoresComputed' /\ CopiesWait' /\ CopiesIssued'
    <3>1. CopiesWait'
      BY <2>3, <2>6, CopyWaitsKept DEF StoreInv, CopiesWait, Same, Kept
    <3>2. CopiesIssued'
      BY <1>1, <2>3, <2>6, CopyKept DEF StoreInv, CopiesIssued, Same
    <3>. QED BY <2>6, <3>1, <3>2 DEF StoreInv, StoresComputed
  <2>9. PutAfterCopy' /\ FirstWaited' /\ LayersPut'
    <3>1. PutAfterCopy'
      BY <1>1 DEF StoreInv, PutAfterCopy
    <3>2. FirstWaited'
      BY <2>5 DEF FirstWaited
    <3>3. LayersPut'
      BY <1>1 DEF StoreInv, LayersPut
    <3>. QED BY <3>1, <3>2, <3>3
  <2>. QED BY <2>7, <2>8, <2>9 DEF StoreInv
<1>4. CASE /\ pc.at = "compute" /\ Returns /\ RetrieveKind(Loaders[pc.i]) # "none" /\ connector = "buffer"
           /\ pc.i \in 1 .. Len(Loaders) /\ Loaders[pc.i] \in LoadIds
           /\ Queue(<<O("compute", Loaders[pc.i], pc.l, BufferOf(pc.l))>>, <<>>, <<>>)
  <2>. DEFINE o == O("compute", Loaders[pc.i], pc.l, BufferOf(pc.l))
  <2>1. o \in Op /\ StreamTypes /\ done' = done
    BY <1>1, <1>4, BufferBit, Operations DEF BaseInv
  <2>. HIDE DEF o
  <2>2. Queue(<<o>>, <<>>, <<>>)
    BY <1>4 DEF o
  <2>3. Kept("current") /\ Same("store")
    BY <2>1, <2>2, LaunchQueues DEF Grew
  <2>4. pc' = P("blend", pc.l + 2, pc.i)
    BY <1>4 DEF Returns, After
  <2>5. pc'.at = "blend"
    BY <2>4 DEF P
  <2>6. \A l \in Layers : Launched(l)' => Launched(l)
    BY <2>5 DEF Launched
  <2>. QED BY <1>1, <2>3, <2>5, <2>6, StoreInvStays
<1>. QED BY <1>2, <1>3, <1>4, LaunchCases

\* An advance of a store_layer queues the copy of the layer the model was launched for last.
LEMMA CopyQueued ==
  ASSUME BaseInv, StoreInv, NEW r \in SaveIds, AtStore(r), Returns, done' = done, UNCHANGED deviceVars,
         stores' = [stores EXCEPT ![r] = @ + 1],
         \A q \in SaveIds : q # r => StoreKind(q)' = StoreKind(q),
         StoreKind(r)' = "full" => StoreKind(r) = "full" \/ stores[r] = 0,
         \/ stores[r] \in Layers /\ FromGpu(r, stores[r])
         \/ pending' = pending /\ (StoreKind(r)' # "full" \/ stores[r] = NumLayers)
  PROVE  StoresComputed' /\ AttentionsIssued' /\ CopiesWait' /\ CopiesIssued'
<1>1. UNCHANGED <<buffer, loaded, computed, copied, missed, stale>>
  BY DEF deviceVars
<1>2. /\ pc.at = "save" /\ stores[r] = pc.l /\ pc' = After /\ stores[r] \in Nat
      /\ stores'[r] = stores[r] + 1 /\ \A q \in SaveIds : q # r => stores'[q] = stores[q]
  <2>1. Placed
    BY DEF BaseInv, HostInv
  <2>. QED BY <2>1, StorePlace, PassFacts DEF Returns, Placed, HostTypes
<1>3. \A l \in Layers : Launched(l)' => Launched(l)
  BY <1>2, StoreLaunches DEF BaseInv, HostInv
<1>4. StreamTypes /\ \A s \in Streams : Issued(s) \in Nat
  BY LiveNat DEF BaseInv
<1>5. CASE pending' = pending /\ (StoreKind(r)' # "full" \/ stores[r] = NumLayers)
  <2>1. Same("current") /\ Same("store") /\ Kept("current") /\ Kept("store")
    BY <1>4, <1>5, Untouched DEF Streams, Same
  <2>2. AttentionsIssued'
    BY <1>1, <1>3, <2>1, AttentionKept DEF StoreInv, AttentionsIssued
  <2>3. CopiesWait'
    BY <1>1, <2>1, CopyWaitsKept DEF StoreInv, CopiesWait, Same, Kept
  <2>4. CopiesIssued'
    <3>1. ASSUME NEW q \in SaveIds, NEW l \in Layers, StoreKind(q)' = "full", l < stores'[q]
          PROVE  StoreKind(q) = "full" /\ l < stores[q]
      BY <1>2, <1>5, <3>1, LayersNat
    <3>2. \A q \in SaveIds, l \in Layers : CopyIssued(q, l) => CopyIssued(q, l)'
      BY <1>1, <2>1, CopyKept
    <3>. QED BY <3>1, <3>2 DEF StoreInv, CopiesIssued
  <2>. QED BY <1>1, <2>2, <2>3, <2>4 DEF StoreInv, StoresComputed
<1>6. CASE stores[r] \in Layers /\ FromGpu(r, stores[r])
  <2>m. PICK m \in Layers : m = stores[r]
    BY <1>6
  <2>k. PICK k \in Nat : k = Issued("store") + 1
    BY <1>4 DEF Streams
  <2>. DEFINE w == Wait("current")
              o == O("store", r, m, 0)
  <2>1. Same("current") /\ Kept("current") /\ GrewTwo("store", k, w, o)
    BY <1>4, <1>6, <2>m, <2>k, StoreQueues DEF Same
  <2>2. /\ w.op = "wait" /\ w.n = Issued("current") /\ o.op = "store" /\ o.r = r /\ o.l = m
        /\ k \in Nat /\ m \in Layers /\ m = pc.l
    BY <1>2, <1>4, <2>m DEF Wait, O, Streams
  <2>. HIDE DEF w, o
  <2>3. /\ Kept("store") /\ Live("store")' = Live("store") \cup {k, k + 1}
        /\ \A g \in {k} : Nth("store", g)' = w
        /\ \A g \in {k + 1} : Nth("store", g)' = o
    BY <2>1 DEF GrewTwo
  <2>4. AttentionsIssued'
    BY <1>1, <1>3, <2>1, AttentionKept DEF StoreInv, AttentionsIssued
  <2>5. CopyWaits(k + 1, m)'
    <3>1. AttentionIssued(m)
      BY <1>2, <2>2, LayersNat DEF StoreInv, AttentionsIssued, Launched
    <3>2. CASE m \in computed
      BY <1>1, <3>2 DEF CopyWaits
    <3>3. CASE \E a \in Live("current") : AttentionAt(m, a)
      <4>1. PICK a \in Live("current") : AttentionAt(m, a)
        BY <3>3
      <4>2. a \in Live("current")' /\ AttentionAt(m, a)'
        BY <2>1, <4>1 DEF Same, Kept, AttentionAt
      <4>3. a \in Nat /\ a <= Issued("current")
        BY <1>4, LiveNat DEF Streams
      <4>4. PICK x \in {k} : x \in Live("store")' /\ Nth("store", x)' = w
        BY <2>3
      <4>5. x < k + 1 /\ w.n >= a
        BY <2>2, <4>3, <1>4 DEF Streams
      <4>. QED BY <2>2, <4>2, <4>4, <4>5 DEF CopyWaits
    <3>. QED BY <3>1, <3>2, <3>3 DEF AttentionIssued
  <2>6. CopiesWait'
    <3>1. ASSUME NEW g \in Live("store")', NEW l \in Layers, Nth("store", g)'.op = "store", Nth("store", g)'.l = l
          PROVE  CopyWaits(g, l)'
      <4>1. CASE g \in Live("store")
        BY <1>1, <2>1, <2>3, <3>1, <4>1, CopyWaitsKept DEF StoreInv, CopiesWait, Kept
      <4>2. CASE g = k
        BY <2>2, <2>3, <3>1, <4>2
      <4>3. CASE g = k + 1
        BY <2>2, <2>3, <2>5, <3>1, <4>3
      <4>. QED BY <2>3, <3>1, <4>1, <4>2, <4>3
    <3>. QED BY <3>1 DEF CopiesWait
  <2>7. CopiesIssued'
    <3>1. CopyIssued(r, m)'
      <4>1. PICK x \in {k + 1} : x \in Live("store")' /\ Nth("store", x)' = o
        BY <2>3
      <4>. QED BY <2>2, <4>1 DEF CopyIssued
    <3>2. \A q \in SaveIds, l \in Layers : CopyIssued(q, l) => CopyIssued(q, l)'
      BY <1>1, <2>3, CopyKept
    <3>3. ASSUME NEW q \in SaveIds, NEW l \in Layers, StoreKind(q)' = "full", l < stores'[q]
          PROVE  (q = r /\ l = m) \/ (StoreKind(q) = "full" /\ l < stores[q])
      BY <1>2, <2>m, <3>3, LayersNat
    <3>. QED BY <3>1, <3>2, <3>3 DEF StoreInv, CopiesIssued
  <2>. QED BY <1>1, <2>4, <2>6, <2>7 DEF StoreInv, StoresComputed
<1>. QED BY <1>5, <1>6

LEMMA StoreStarting ==
  ASSUME BaseInv, StoreInv, NEW r \in SaveIds, StoreStarts(r)
  PROVE  StoreInv'
<1>1. /\ AtStore(r) /\ stores[r] = 0
      /\ UNCHANGED <<connector, mode, retrieves, fetched, done, load_buffer, draining, put, early, deviceVars>>
  BY StoreStartsCases
<1>2. CASE Raises /\ UNCHANGED <<stores, kind, pending>>
  <2>1. \A s \in Streams : Same(s)
    BY <1>1, <1>2, BaseRaises
  <2>. QED BY <1>1, <1>2, <2>1, StoreRaises DEF Raises
<1>3. CASE /\ Returns /\ stores' = [stores EXCEPT ![r] = @ + 1]
           /\ \/ /\ pending' = pending
                 /\ \E k \in {"empty", "frozen"} : Became(<<"store", r>>, k)
              \/ FromGpu(r, 0) /\ Became(<<"store", r>>, "full")
  <2>1. PICK k \in {"full", "empty", "frozen"} :
          /\ Became(<<"store", r>>, k)
          /\ (k = "full" /\ FromGpu(r, 0)) \/ (k # "full" /\ pending' = pending)
    BY <1>3
  <2>2. \A q \in SaveIds : StoreKind(q)' = IF q = r THEN k ELSE StoreKind(q)
    BY <2>1, KindSet DEF BaseInv, Kinds
  <2>3. /\ pc.at = "save" /\ pc.i \in 1 .. Len(Savers) /\ Savers[pc.i] = r /\ pc.l = 0 /\ pc' = After
        /\ \A j \in 1 .. Len(Savers) : Savers[j] = r => j = pc.i
    BY <1>1, <1>3, StorePlace DEF BaseInv, HostInv, Returns
  <2>4. StoreKind(r) = "new"
    BY <1>1 DEF BaseInv, HostInv, KindsFollow
  <2>5. UNCHANGED <<buffer, loaded, computed, copied, missed, stale>>
    BY <1>1 DEF deviceVars
  <2>6. StoresComputed' /\ AttentionsIssued' /\ CopiesWait' /\ CopiesIssued'
    <3>1. 0 \in Layers
      BY PassFacts DEF Layers
    <3>. QED BY <1>1, <1>3, <2>1, <2>2, <3>1, CopyQueued
  <2>7. PutAfterCopy'
    <3>1. StoreKind(First) \in {"empty", "frozen"} => First # r
      BY <2>4
    <3>2. StoreKind(First) \in {"empty", "frozen"} => StoreKind(First)' \in {"empty", "frozen"}
      BY <2>2, <3>1, PassFacts
    <3>. QED BY <1>1, <3>2, PassFacts DEF StoreInv, PutAfterCopy, StoreKind
  <2>8. FirstWaited'
    <3>1. SUFFICES ASSUME pc'.at = "save", pc'.i > 1, StoreKind(First)' = "full",
                          NEW j \in 1 .. Len(Savers), pc'.i <= j, StoreKind(Savers[j])' = "full",
                          NEW l \in Layers, l < stores'[Savers[j]]
                   PROVE  <<Savers[j], l>> \in copied'
      BY DEF FirstWaited
    <3>2. pc'.i = pc.i + 1
      BY <1>1, <2>3, <3>1, StoreLaunches DEF BaseInv, HostInv
    <3>3. Savers[j] # r /\ Savers[j] \in SaveIds /\ pc.i < j
      BY <2>3, <3>1, <3>2, PassFacts
    <3>4. stores'[Savers[j]] = stores[Savers[j]]
      BY <1>3, <3>3
    <3>5. stores[Savers[j]] = Saved(j)
      BY DEF BaseInv, HostInv, Placed, Counted
    <3>6. Saved(j) = 0
      BY <2>3, <3>3 DEF Saved
    <3>. QED BY <3>1, <3>4, <3>5, <3>6, LayersNat
  <2>9. LayersPut'
    <3>1. stores'[r] = 1 /\ \A q \in SaveIds : q # r => stores'[q] = stores[q]
      BY <1>1, <1>3 DEF BaseInv, HostInv, Placed, HostTypes
    <3>2. \A l \in Layers : <<r, l>> \notin put
      BY <2>4 DEF StoreInv, LayersPut
    <3>3. ASSUME NEW q \in SaveIds, NEW l \in Layers, StoreKind(q)' = "full", l < stores'[q] - 1
          PROVE  <<q, l>> \in put'
      BY <1>1, <2>2, <3>1, <3>3, LayersNat DEF StoreInv, LayersPut
    <3>4. ASSUME NEW q \in SaveIds, NEW l \in Layers, <<q, l>> \in put'
          PROVE  StoreKind(q)' = "full"
      BY <1>1, <2>2, <3>2, <3>4 DEF StoreInv, LayersPut
    <3>. QED BY <3>3, <3>4 DEF LayersPut
  <2>. QED BY <2>6, <2>7, <2>8, <2>9 DEF StoreInv
<1>. QED BY <1>2, <1>3, StoreStartsCases

LEMMA StoreNothingKeeps ==
  ASSUME BaseInv, StoreInv, NEW r \in SaveIds, StoreNothing(r)
  PROVE  StoreInv'
<1>1. /\ AtStore(r) /\ StoreKind(r) \in {"empty", "frozen"}
      /\ UNCHANGED <<connector, mode, retrieves, kind, fetched, pending, done, load_buffer, draining, put, early,
                     deviceVars>>
      /\ \A q \in SaveIds : StoreKind(q)' = StoreKind(q)
  BY KindsKept DEF StoreNothing, StoreKind
<1>2. CASE Raises /\ UNCHANGED stores
  <2>1. \A s \in Streams : Same(s)
    BY <1>1, <1>2, BaseRaises
  <2>. QED BY <1>1, <1>2, <2>1, StoreRaises DEF Raises
<1>3. CASE stores' = [stores EXCEPT ![r] = @ + 1] /\ Returns
  <2>1. StoresComputed' /\ AttentionsIssued' /\ CopiesWait' /\ CopiesIssued'
    BY <1>1, <1>3, CopyQueued
  <2>2. /\ pc.at = "save" /\ pc.i \in 1 .. Len(Savers) /\ Savers[pc.i] = r /\ pc' = After
        /\ \A j \in 1 .. Len(Savers) : Savers[j] = r => j = pc.i
    BY <1>1, <1>3, StorePlace DEF BaseInv, HostInv, Returns
  <2>3. UNCHANGED <<buffer, loaded, computed, copied, missed, stale>>
    BY <1>1 DEF deviceVars
  <2>4. \A q \in SaveIds : q # r => stores'[q] = stores[q]
    BY <1>3 DEF BaseInv, HostInv, Placed, HostTypes
  <2>5. PutAfterCopy'
    BY <1>1 DEF StoreInv, PutAfterCopy
  <2>6. FirstWaited'
    <3>1. SUFFICES ASSUME pc'.at = "save", pc'.i > 1, StoreKind(First)' = "full",
                          NEW j \in 1 .. Len(Savers), pc'.i <= j, StoreKind(Savers[j])' = "full",
                          NEW l \in Layers, l < stores'[Savers[j]]
                   PROVE  <<Savers[j], l>> \in copied'
      BY DEF FirstWaited
    <3>2. pc'.i = pc.i + 1
      BY <1>1, <2>2, <3>1, StoreLaunches DEF BaseInv, HostInv
    <3>3. Savers[j] # r /\ Savers[j] \in SaveIds /\ pc.i <= j
      BY <2>2, <3>1, <3>2, PassFacts
    <3>4. pc.i > 1
      <4>1. r # First
        BY <1>1, <3>1, PassFacts
      <4>. QED BY <2>2, <4>1, PassFacts DEF First
    <3>. QED BY <1>1, <2>2, <2>3, <2>4, <3>1, <3>3, <3>4, PassFacts DEF StoreInv, FirstWaited
  <2>7. LayersPut'
    BY <1>1, <2>4 DEF StoreInv, LayersPut
  <2>. QED BY <2>1, <2>5, <2>6, <2>7 DEF StoreInv
<1>. QED BY <1>2, <1>3 DEF StoreNothing

\* What has been issued and is on the store stream no more has been copied.
LEMMA DrainedCopied ==
  ASSUME BaseInv, StoreInv, Drained("store"), NEW r \in SaveIds, NEW l \in Layers, StoreKind(r) = "full", l < stores[r]
  PROVE  <<r, l>> \in copied
<1>1. Live("store") = {}
  BY LiveNat DEF BaseInv, Streams
<1>2. CopyIssued(r, l)
  BY DEF StoreInv, CopiesIssued
<1>. QED BY <1>1, <1>2 DEF CopyIssued

LEMMA StoreLayerKeeps ==
  ASSUME BaseInv, StoreInv, NEW r \in SaveIds, StoreLayer(r)
  PROVE  StoreInv'
<1>1. /\ AtStore(r) /\ Returns /\ stores' = [stores EXCEPT ![r] = @ + 1] /\ stores[r] \in 1 .. NumLayers
      /\ StoreKind(r) = "full" /\ (WaitsForStore(r) => Drained("store"))
      /\ put' = put \cup {<<r, stores[r] - 1>>} /\ early' = early \cup ({<<r, stores[r] - 1>>} \ copied)
      /\ UNCHANGED <<connector, mode, retrieves, kind, fetched, done, load_buffer, draining, deviceVars>>
      /\ IF stores[r] - 1 + 1 < NumLayers THEN FromGpu(r, stores[r] - 1 + 1) ELSE UNCHANGED pending
  BY DEF StoreLayer, StoreKind
<1>2. /\ pc.at = "save" /\ pc.i \in 1 .. Len(Savers) /\ Savers[pc.i] = r /\ stores[r] = pc.l /\ pc' = After
      /\ \A j \in 1 .. Len(Savers) : Savers[j] = r => j = pc.i
  BY <1>1, StorePlace DEF BaseInv, HostInv, Returns
<1>3. \A q \in SaveIds : StoreKind(q)' = StoreKind(q)
  BY <1>1, KindsKept
<1>4. UNCHANGED <<buffer, loaded, computed, copied, missed, stale>>
  BY <1>1 DEF deviceVars
<1>5. StoresComputed' /\ AttentionsIssued' /\ CopiesWait' /\ CopiesIssued'
  <2>1. stores[r] - 1 + 1 = stores[r] /\ (stores[r] < NumLayers \/ stores[r] = NumLayers)
        /\ (stores[r] < NumLayers => stores[r] \in Layers)
    BY <1>1, PassFacts DEF Layers
  <2>2. \/ stores[r] \in Layers /\ FromGpu(r, stores[r])
        \/ pending' = pending /\ stores[r] = NumLayers
    BY <1>1, <2>1
  <2>. QED BY <1>1, <1>3, <2>2, CopyQueued
<1>6. PICK l \in Layers : l = stores[r] - 1
  BY <1>1, PassFacts DEF Layers
<1>7. /\ stores'[r] = stores[r] + 1 /\ stores[r] \in Nat /\ \A q \in SaveIds : q # r => stores'[q] = stores[q]
      /\ l < stores[r]
  BY <1>1, <1>6, PassFacts DEF BaseInv, HostInv, Placed, HostTypes
<1>8. StoreKind(First) \in {"empty", "frozen"} \/ <<r, l>> \in copied
  <2>1. CASE WaitsForStore(r)
    BY <1>1, <1>6, <1>7, <2>1, DrainedCopied
  <2>2. CASE ~ WaitsForStore(r)
    <3>1. r # First /\ pc.i > 1
      BY <1>2, <2>2, PassFacts DEF WaitsForStore, First
    <3>2. stores[First] = Saved(1)
      BY PassFacts DEF First, BaseInv, HostInv, Placed, Counted
    <3>3. Saved(1) = pc.l + 1
      BY <1>2, <3>1 DEF Saved
    <3>4. StoreKind(First) \in {"full", "empty", "frozen"}
      BY <1>2, <1>7, <3>2, <3>3, PassFacts DEF BaseInv, HostInv, KindsFollow
    <3>5. pc.i <= pc.i
      BY <1>2
    <3>6. StoreKind(First) = "full" => <<r, l>> \in copied
      BY <1>1, <1>2, <1>7, <3>1, <3>5 DEF StoreInv, FirstWaited
    <3>. QED BY <3>4, <3>6
  <2>. QED BY <2>1, <2>2
<1>9. PutAfterCopy'
  <2>1. StoreKind(First)' = StoreKind(First)
    BY <1>3, PassFacts
  <2>2. <<r, l>> \in copied => early' = early
    BY <1>1, <1>6
  <2>3. StoreKind(First) \in {"empty", "frozen"} \/ early = {}
    BY PassFacts DEF StoreInv, PutAfterCopy, StoreKind
  <2>4. StoreKind(First)' \in {"empty", "frozen"} \/ early' = {}
    BY <1>8, <2>1, <2>2, <2>3
  <2>. QED BY <2>4, PassFacts DEF PutAfterCopy, StoreKind
<1>10. FirstWaited'
  <2>1. SUFFICES ASSUME pc'.at = "save", pc'.i > 1, StoreKind(First)' = "full",
                        NEW j \in 1 .. Len(Savers), pc'.i <= j, StoreKind(Savers[j])' = "full",
                        NEW m \in Layers, m < stores'[Savers[j]]
                 PROVE  <<Savers[j], m>> \in copied'
    BY DEF FirstWaited
  <2>2. pc'.i = pc.i + 1
    BY <1>1, <1>2, <2>1, StoreLaunches DEF BaseInv, HostInv
  <2>3. Savers[j] # r /\ Savers[j] \in SaveIds /\ pc.i <= j
    BY <1>2, <2>1, <2>2, PassFacts
  <2>4. CASE pc.i > 1
    BY <1>2, <1>3, <1>4, <1>7, <2>1, <2>3, <2>4, PassFacts DEF StoreInv, FirstWaited
  <2>5. CASE pc.i = 1
    <3>1. Drained("store")
      BY <1>1, <1>2, <2>5, PassFacts DEF WaitsForStore, First
    <3>. QED BY <1>3, <1>4, <1>7, <2>1, <2>3, <3>1, DrainedCopied
  <2>. QED BY <1>2, <2>4, <2>5
<1>11. LayersPut'
  <2>1. put' = put \cup {<<r, l>>}
    BY <1>1, <1>6
  <2>2. ASSUME NEW q \in SaveIds, NEW m \in Layers, StoreKind(q)' = "full", m < stores'[q] - 1
        PROVE  <<q, m>> \in put'
    <3>1. CASE q = r
      <4>1. m = l \/ m < stores[r] - 1
        BY <1>6, <1>7, <2>2, <3>1, LayersNat
      <4>. QED BY <1>1, <2>1, <3>1, <4>1 DEF StoreInv, LayersPut
    <3>2. CASE q # r
      BY <1>3, <1>7, <2>1, <2>2, <3>2 DEF StoreInv, LayersPut
    <3>. QED BY <3>1, <3>2
  <2>3. ASSUME NEW q \in SaveIds, NEW m \in Layers, <<q, m>> \in put'
        PROVE  StoreKind(q)' = "full"
    BY <1>1, <1>3, <2>1, <2>3 DEF StoreInv, LayersPut
  <2>. QED BY <2>2, <2>3 DEF LayersPut
<1>. QED BY <1>5, <1>9, <1>10, <1>11 DEF StoreInv

\* What is left to show of a step of the device.
LEMMA StoreRunRest ==
  ASSUME StoreInv, UNCHANGED <<pc, stores, kind, put, early>>, copied \subseteq copied',
         StoresComputed', \A l \in Layers : AttentionIssued(l) => AttentionIssued(l)', CopiesWait',
         \A r \in SaveIds, l \in Layers : CopyIssued(r, l) => CopyIssued(r, l)'
  PROVE  StoreInv'
<1>1. \A q : StoreKind(q)' = StoreKind(q)
  BY KindsKept
<1>2. AttentionsIssued'
  BY DEF StoreInv, AttentionsIssued, Launched
<1>3. CopiesIssued'
  BY <1>1 DEF StoreInv, CopiesIssued
<1>4. PutAfterCopy'
  BY DEF StoreInv, PutAfterCopy
<1>5. FirstWaited'
  BY <1>1 DEF StoreInv, FirstWaited
<1>6. LayersPut'
  BY <1>1 DEF StoreInv, LayersPut
<1>. QED BY <1>2, <1>3, <1>4, <1>5, <1>6 DEF StoreInv

LEMMA StoreRunCurrent ==
  ASSUME BaseInv, StoreInv, Run("current")
  PROVE  StoreInv'
<1>1. PICK k \in Nat : Ran("current", k) /\ CurrentRuns(Nth("current", k)) /\ CurrentOk(Nth("current", k))
  BY RunCurrent
<1>2. UNCHANGED <<pc, stores, kind, put, early>>
  BY RunFacts DEF Streams
<1>3. /\ copied' = copied /\ stale' = stale /\ computed \subseteq computed' /\ Same("store") /\ Kept("store")
      /\ Nth("current", k).op = "attention" => Nth("current", k).l \in computed'
      /\ \A a \in Live("current") : a = k \/ (a \in Live("current")' /\ Nth("current", a)' = Nth("current", a))
  BY <1>1 DEF CurrentRuns, Ran, Streams, Same
<1>4. \A l \in Layers, a \in Live("current") : AttentionAt(l, a) => l \in computed' \/ AttentionAt(l, a)'
  BY <1>3 DEF AttentionAt
<1>5. \A l \in Layers : AttentionIssued(l) => AttentionIssued(l)'
  BY <1>3, <1>4 DEF AttentionIssued, AttentionAt
<1>7. CopiesWait'
  <2>1. ASSUME NEW g \in Live("store")', NEW l \in Layers, Nth("store", g)'.op = "store", Nth("store", g)'.l = l
        PROVE  CopyWaits(g, l)'
    <3>1. CopyWaits(g, l)
      BY <1>3, <2>1 DEF StoreInv, CopiesWait, Same, Kept
    <3>. QED BY <1>3, <1>4, <3>1 DEF CopyWaits, AttentionAt, Kept
  <2>. QED BY <2>1 DEF CopiesWait
<1>8. \A r \in SaveIds, l \in Layers : CopyIssued(r, l) => CopyIssued(r, l)'
  BY <1>3, CopyKept
<1>. QED BY <1>2, <1>3, <1>5, <1>7, <1>8, StoreRunRest DEF StoreInv, StoresComputed

LEMMA StoreRunLoad ==
  ASSUME BaseInv, StoreInv, Run("load")
  PROVE  StoreInv'
<1>1. PICK k \in Nat : Ran("load", k) /\ LoadRuns(Nth("load", k))
  BY RunLoad
<1>2. UNCHANGED <<pc, stores, kind, put, early>>
  BY RunFacts DEF Streams
<1>3. /\ UNCHANGED <<copied, stale, computed>> /\ Same("store") /\ Same("current") /\ Kept("store") /\ Kept("current")
  BY <1>1 DEF LoadRuns, Ran, Streams, Same
<1>4. CopiesWait'
  BY <1>3, CopyWaitsKept DEF StoreInv, CopiesWait, Same, Kept
<1>5. \A r \in SaveIds, l \in Layers : CopyIssued(r, l) => CopyIssued(r, l)'
  BY <1>3, CopyKept
<1>6. \A l \in Layers : AttentionIssued(l) => AttentionIssued(l)'
  BY <1>3, AttentionKept
<1>. QED BY <1>2, <1>3, <1>4, <1>5, <1>6, StoreRunRest DEF StoreInv, StoresComputed

LEMMA StoreRunStore ==
  ASSUME BaseInv, StoreInv, Run("store")
  PROVE  StoreInv'
<1>1. PICK k \in Nat : Ran("store", k) /\ StoreRuns(Nth("store", k)) /\ Nth("store", k) \in StoreOp
  BY RunStore
<1>2. UNCHANGED <<pc, stores, kind, put, early>>
  BY RunFacts DEF Streams
<1>3. /\ computed' = computed /\ copied \subseteq copied' /\ Same("current") /\ Kept("current")
      /\ \A g \in Live("store") : g = k \/ (g \in Live("store")' /\ Nth("store", g)' = Nth("store", g))
      /\ \A g \in Live("store")' : g \in Live("store") /\ Nth("store", g)' = Nth("store", g)
      /\ Nth("store", k).op = "wait" => done["current"] >= Nth("store", k).n
      /\ k \in Live("store") /\ k = done["store"] + 1
  BY <1>1 DEF StoreRuns, Ran, Streams, Same
<1>4. /\ \A g \in Live("store") : g \in Nat /\ g >= k
      /\ \A a \in Live("current") : a \in Nat /\ a > done["current"] /\ done["current"] \in Nat
  <2>1. /\ \A g \in Live("store") : g \in Nat /\ done["store"] < g
        /\ \A a \in Live("current") : a \in Nat /\ done["current"] < a
        /\ done["store"] \in Nat /\ done["current"] \in Nat
    BY LiveNat DEF BaseInv, Streams
  <2>. QED BY <1>3, <2>1
<1>5. Nth("store", k).op = "store" => Nth("store", k).l \in computed
  <2>1. SUFFICES ASSUME Nth("store", k).op = "store", NEW l \in Layers, Nth("store", k).l = l
                 PROVE  l \in computed
    BY <1>1 DEF StoreOp, WaitOp
  <2>2. CopyWaits(k, l)
    BY <1>3, <2>1 DEF StoreInv, CopiesWait
  <2>3. \A w \in Live("store") : ~ (w < k)
    BY <1>3, <1>4
  <2>. QED BY <2>2, <2>3 DEF CopyWaits
<1>6. StoresComputed'
  BY <1>1, <1>5 DEF StoreRuns, StoreInv, StoresComputed
<1>7. CopiesWait'
  <2>1. ASSUME NEW g \in Live("store")', NEW l \in Layers, Nth("store", g)'.op = "store", Nth("store", g)'.l = l
        PROVE  CopyWaits(g, l)'
    <3>1. CopyWaits(g, l)
      BY <1>3, <2>1 DEF StoreInv, CopiesWait
    <3>2. CASE l \in computed
      BY <1>3, <3>2 DEF CopyWaits
    <3>3. ASSUME NEW a \in Live("current"), NEW w \in Live("store"), AttentionAt(l, a), w < g,
                 Nth("store", w).op = "wait", Nth("store", w).n >= a
          PROVE  CopyWaits(g, l)'
      <4>1. w # k
        <5>1. Nth("store", k).n \in Nat \/ Nth("store", k).op # "wait"
          BY <1>1 DEF StoreOp, WaitOp
        <5>. QED BY <1>3, <1>4, <3>3, <5>1
      <4>2. w \in Live("store")' /\ Nth("store", w)' = Nth("store", w)
        BY <1>3, <3>3, <4>1
      <4>3. a \in Live("current")' /\ AttentionAt(l, a)'
        BY <1>3, <3>3 DEF Same, Kept, AttentionAt
      <4>. QED BY <3>3, <4>2, <4>3 DEF CopyWaits
    <3>. QED BY <3>1, <3>2, <3>3 DEF CopyWaits
  <2>. QED BY <2>1 DEF CopiesWait
<1>8. \A r \in SaveIds, l \in Layers : CopyIssued(r, l) => CopyIssued(r, l)'
  BY <1>1, <1>3 DEF CopyIssued, StoreRuns
<1>9. \A l \in Layers : AttentionIssued(l) => AttentionIssued(l)'
  BY <1>3, AttentionKept
<1>. QED BY <1>2, <1>3, <1>6, <1>7, <1>8, <1>9, StoreRunRest
-----------------------------------------------------------------------------
LEMMA BaseStarts ==
  ASSUME Init
  PROVE  LayerInv
<1>. USE DEF Init
<1>1. pc = P(IF connector = "paged" THEN "start" ELSE "blend", 0, 1) /\ connector \in {"paged", "buffer"}
  BY DEF Begin
<1>2. pc \in Position /\ pc.l = 0 /\ pc.i = 1 /\ pc.at = IF connector = "paged" THEN "start" ELSE "blend"
  <2>1. 0 \in 0 .. NumLayers + 1 /\ 1 \in Nat /\ "start" \in Places /\ "blend" \in Places
    BY PassFacts DEF Places
  <2>. QED BY <1>1, <2>1, Positions
<1>3. Placed
  <2>1. InPass
    BY <1>1, <1>2, PassFacts DEF InPass
  <2>2. \A j \in 1 .. Len(Loaders) : Advanced(j) = 0
    BY <1>1, <1>2 DEF Advanced
  <2>3. \A j \in 1 .. Len(Savers) : Saved(j) = 0
    BY <1>1, <1>2 DEF Saved
  <2>4. HostTypes
    BY <1>1, <1>2, PassFacts DEF HostTypes
  <2>5. Counted
    BY <2>2, <2>3, PassFacts DEF Counted
  <2>. QED BY <2>1, <2>4, <2>5 DEF Placed
<1>4. KindTypes /\ (\A r \in LoadIds : RetrieveKind(r) = "new") /\ (\A r \in SaveIds : StoreKind(r) = "new")
  BY DEF KindTypes, RetrieveKind, StoreKind, Kinds
<1>5. KindsFollow
  BY <1>4 DEF KindsFollow
<1>6. StreamTypes /\ \A s \in Streams : Live(s) = {}
  <2>1. StreamTypes
    BY DEF StreamTypes
  <2>2. \A s \in Streams : Drained(s)
    BY DEF Drained
  <2>. QED BY <2>1, <2>2, LiveNat
<1>7. Live("current") = {} /\ Live("load") = {} /\ Live("store") = {}
  BY <1>6 DEF Streams
<1>8. DeviceTypes /\ PutTypes /\ OtherTypes
  <2>1. buffer \in [{0, 1} -> (LoadIds \X Layers) \cup {None}]
    OBVIOUS
  <2>2. fetched \in [LoadIds -> 0 .. NumLayers]
    BY PassFacts
  <2>3. OtherTypes
    BY <2>2 DEF OtherTypes
  <2>. QED BY <2>1, <2>3 DEF DeviceTypes, PutTypes
<1>9. BaseInv
  BY <1>3, <1>5, <1>4, <1>6, <1>7, <1>8 DEF BaseInv, HostInv, StreamInv
<1>10. StoreInv
  <2>1. AttentionsIssued /\ FirstWaited
    BY <1>1, <1>2 DEF AttentionsIssued, Launched, FirstWaited
  <2>2. CopiesWait /\ CopiesIssued /\ LayersPut
    BY <1>4, <1>7 DEF CopiesWait, CopiesIssued, LayersPut
  <2>. QED BY <2>1, <2>2 DEF StoreInv, StoresComputed, PutAfterCopy
<1>. QED BY <1>9, <1>10 DEF LayerInv

\* One step per action: the types, kinds and streams, and then what is stored.
LEMMA LayerStep ==
  ASSUME LayerInv, [Next]_vars
  PROVE  LayerInv'
<1>. USE DEF LayerInv
<1>1. ASSUME NEW r \in LoadIds, RetrieveStarts(r) PROVE LayerInv'
  <2>1. BaseInv'
    BY <1>1, BaseRetrieveStarts
  <2>2. /\ AtRetrieve(r) /\ pc' = After
        /\ UNCHANGED <<deviceVars, put, early, stores, pending, done>>
    BY <1>1 DEF RetrieveStarts, Returns
  <2>3. Kept("current") /\ Same("store")
    BY <2>2, Untouched DEF BaseInv, Streams, Same
  <2>4. \A q \in SaveIds : StoreKind(q)' = StoreKind(q)
    <3>1. \E k \in Kinds : Became(<<"retrieve", r>>, k)
      BY <1>1 DEF RetrieveStarts, Kinds
    <3>. QED BY <3>1, KindSet DEF BaseInv
  <2>. QED BY <2>1, <2>2, <2>3, <2>4, StoreRetrieves
<1>2. ASSUME NEW r \in LoadIds, RetrieveLayer(r) PROVE LayerInv'
  <2>1. BaseInv'
    BY <1>2, BaseRetrieveLayer
  <2>2. PICK l \in Layers :
          /\ AtRetrieve(r) /\ pc' = After
          /\ (IF connector = "paged" THEN PagedToGpu(r, l) ELSE BufferToGpu(r, l))
          /\ UNCHANGED <<deviceVars, put, early, stores, done, kind>>
    BY <1>2, PassFacts DEF RetrieveLayer, Returns, Layers
  <2>3. Kept("current") /\ Same("store")
    <3>1. l > 0 \/ l = 0
      BY LayersNat
    <3>2. StreamTypes /\ load_buffer \in {0, 1}
      BY DEF BaseInv, OtherTypes
    <3>3. CASE PagedToGpu(r, l)
      BY <2>2, <3>2, <3>3, PagedQueues DEF Grew, Same
    <3>4. CASE BufferToGpu(r, l)
      BY <2>2, <3>1, <3>2, <3>4, BufferQueues DEF Grew, Same
    <3>. QED BY <2>2, <3>3, <3>4
  <2>. QED BY <2>1, <2>2, <2>3, StoreRetrieves, KindsKept
<1>3. ASSUME NEW r \in LoadIds, RetrieveEnds(r) PROVE LayerInv'
  <2>1. BaseInv'
    BY <1>3, BaseRetrieveEnds
  <2>2. /\ AtRetrieve(r) /\ pc' = After /\ ToGpuEnds(r)
        /\ UNCHANGED <<deviceVars, put, early, stores, done, kind>>
    BY <1>3 DEF RetrieveEnds, Returns
  <2>3. Kept("current") /\ Same("store")
    <3>1. StreamTypes /\ connector \in {"paged", "buffer"}
      BY DEF BaseInv, HostInv, Placed, HostTypes
    <3>. QED BY <2>2, <3>1, EndQueues DEF Grew, Same
  <2>. QED BY <2>1, <2>2, <2>3, StoreRetrieves, KindsKept
<1>4. ASSUME NEW r \in LoadIds, RetrieveNothing(r) PROVE LayerInv'
  <2>1. BaseInv'
    BY <1>4, BaseRetrieveNothing
  <2>2. AtRetrieve(r) /\ UNCHANGED <<deviceVars, put, early, stores, pending, done, kind>>
    BY <1>4 DEF RetrieveNothing
  <2>3. \A s \in Streams : Same(s)
    BY <2>2, Untouched DEF BaseInv
  <2>4. CASE Returns
    BY <2>1, <2>2, <2>3, <2>4, StoreRetrieves, KindsKept DEF Returns, Streams, Same
  <2>5. CASE Raises
    BY <2>1, <2>2, <2>3, <2>5, StoreRaises DEF Raises
  <2>. QED BY <1>4, <2>4, <2>5 DEF RetrieveNothing
<1>5. ASSUME NEW r \in SaveIds, StoreStarts(r) PROVE LayerInv'
  BY <1>5, BaseStoreStarts, StoreStarting
<1>6. ASSUME NEW r \in SaveIds, StoreLayer(r) PROVE LayerInv'
  BY <1>6, BaseStoreLayer, StoreLayerKeeps
<1>7. ASSUME NEW r \in SaveIds, StoreNothing(r) PROVE LayerInv'
  BY <1>7, BaseStoreNothing, StoreNothingKeeps
<1>8. CASE Launch
  BY <1>8, BaseLaunch, StoreLaunch
<1>9. CASE Synchronize
  BY <1>9, BaseSynchronize, StoreRaises DEF Synchronize, hostVars
<1>10. ASSUME NEW r \in LoadIds, LoadCompletes(r) PROVE LayerInv'
  BY <1>10, BaseLoadCompletes, StoreRaises DEF LoadCompletes, hostVars
<1>11. ASSUME NEW s \in Streams, Run(s) PROVE LayerInv'
  BY <1>11, BaseRun, StoreRunCurrent, StoreRunLoad, StoreRunStore DEF Streams
<1>12. ASSUME NEW m \in Modes, SetMode(m) PROVE LayerInv'
  BY <1>12, BaseSetMode, StoreRaises DEF SetMode, hostVars
<1>13. CASE UNCHANGED vars
  BY <1>13, BaseStutters, StoreRaises DEF vars, hostVars
<1>. QED BY <1>1, <1>2, <1>3, <1>4, <1>5, <1>6, <1>7, <1>8, <1>9, <1>10, <1>11, <1>12, <1>13 DEF Next, Host

LEMMA LayerInvGives ==
  ASSUME LayerInv
  PROVE  StoresInOrder
<1>1. TypeOK
  BY DEF LayerInv, BaseInv, HostInv, Placed, HostTypes, KindTypes, StreamTypes, DeviceTypes, PutTypes, OtherTypes, TypeOK
<1>2. LayersTogether
  <2>1. SUFFICES ASSUME Ended, NEW r \in SaveIds, <<r, 0>> \in put, NEW l \in Layers
                 PROVE  <<r, l>> \in put
    BY DEF LayersTogether
  <2>2. StoreKind(r) = "full"
    BY <2>1, PassFacts DEF LayerInv, StoreInv, LayersPut, Layers
  <2>3. PICK j \in 1 .. Len(Savers) : Savers[j] = r
    BY Each
  <2>4. stores[r] = Saved(j)
    BY <2>3 DEF LayerInv, BaseInv, HostInv, Placed, Counted
  <2>5. Saved(j) = NumLayers + 1
    BY <2>1 DEF Ended, Saved
  <2>6. l < stores[r] - 1
    BY <2>4, <2>5, PassFacts, LayersNat
  <2>. QED BY <2>2, <2>6 DEF LayerInv, StoreInv, LayersPut
<1>. QED BY <1>1, <1>2 DEF LayerInv, StoreInv, StoresInOrder

\* Whatever requests a pass saves, in whatever order the streams run what store_layer and
\* batched_from_gpu queue on them: a layer is copied after the model has run it, it is handed
\* to the storage backends after its copy though only the first request waits for the copies,
\* and a request whose first layer was stored has all of its layers stored at the end.
THEOREM LayersStoredInOrder == Spec => []StoresInOrder
<1>1. Init => LayerInv
  BY BaseStarts
<1>2. LayerInv /\ [Next]_vars => LayerInv'
  BY LayerStep
<1>3. LayerInv => StoresInOrder
  BY LayerInvGives
<1>. QED BY <1>1, <1>2, <1>3, PTL DEF Spec
-----------------------------------------------------------------------------
(* A layer is loaded before the model runs it                              *)

LEMMA Alternate == \A l \in Nat : BufferOf(l) \in {0, 1} /\ BufferOf(l + 1) = 1 - BufferOf(l)
BY DEF BufferOf

LEMMA FinalSame ==
  ASSUME connector' = connector, \A q \in LoadIds : RetrieveKind(q)' = RetrieveKind(q)
  PROVE  Waits' <=> Waits
BY PassFacts DEF Waits

LEMMA ReadyKept ==
  ASSUME Kept("current"), Kept("load"), loaded \subseteq loaded', NEW r, NEW l
  PROVE  /\ Ready(r, l) => Ready(r, l)'
         /\ \A a : Before(r, l, a) => Before(r, l, a)'
         /\ \A w \in Live("current") : Brings(r, l, w) => w \in Live("current")' /\ Brings(r, l, w)'
<1>1. \A g \in Live("load") : LoadAt(r, l, g) => g \in Live("load")' /\ LoadAt(r, l, g)'
  BY DEF LoadAt, Kept
<1>2. \A w \in Live("current") : Brings(r, l, w) => w \in Live("current")' /\ Brings(r, l, w)'
  BY <1>1 DEF Brings, Kept
<1>. QED BY <1>2 DEF Ready, Before

\* Nothing happens to the operations that are queued, or to what they use.
LEMMA LoadKeeps ==
  ASSUME LoadInv, Same("current"), Same("load"),
         UNCHANGED <<buffer, loaded, missed, connector, draining>>,
         \A q \in LoadIds : RetrieveKind(q) = "hit" => retrieves'[q] = retrieves[q],
         \A q \in LoadIds : RetrieveKind(q)' = RetrieveKind(q)
  PROVE  /\ connector' = "paged" => draining' = None
         /\ NoneMissed' /\ PagedIssued' /\ BufferIssued' /\ AttentionsReady' /\ Held'
         /\ \A r, l : Ready(r, l) => Ready(r, l)'
         /\ \A g \in Live("current")' : g \in Live("current") /\ Nth("current", g)' = Nth("current", g)
         /\ \A g \in Live("load")' : g \in Live("load") /\ Nth("load", g)' = Nth("load", g)
         /\ Live("load")' = Live("load")
<1>1. UNCHANGED <<buffer, loaded, missed>>
  OBVIOUS
<1>2. Kept("current") /\ Kept("load") /\ Live("load")' = Live("load") /\ Live("current")' = Live("current")
  BY DEF Same
<1>3. /\ \A g \in Live("current")' : g \in Live("current") /\ Nth("current", g)' = Nth("current", g)
      /\ \A g \in Live("load")' : g \in Live("load") /\ Nth("load", g)' = Nth("load", g)
  BY <1>2 DEF Kept
<1>4. \A r, l : (Ready(r, l) => Ready(r, l)') /\ \A a : Before(r, l, a) => Before(r, l, a)'
  BY <1>1, <1>2, ReadyKept
<1>5. Waits' <=> Waits
  BY FinalSame
<1>6. NoneMissed'
  BY <1>1, <1>5 DEF LoadInv, NoneMissed
<1>7. PagedIssued'
  BY <1>1, <1>2 DEF LoadInv, PagedIssued, LoadAt, Kept
<1>8. BufferIssued'
  BY <1>4 DEF LoadInv, BufferIssued
<1>9. AttentionsReady'
  BY <1>3, <1>4, <1>5 DEF LoadInv, AttentionsReady, AttentionAt
<1>10. Held'
  BY <1>1, <1>3 DEF LoadInv, BufferInv, Held, Takes
<1>. QED BY <1>2, <1>3, <1>4, <1>6, <1>7, <1>8, <1>9, <1>10 DEF LoadInv

\* The host stays where it is.
LEMMA LoadStays ==
  ASSUME LoadInv, Same("current"), Same("load"),
         UNCHANGED <<buffer, loaded, missed, retrieves, connector, load_buffer, draining, pc, kind>>
  PROVE  LoadInv'
<1>1. \A q : RetrieveKind(q)' = RetrieveKind(q)
  BY KindsKept
<1>2. /\ connector' = "paged" => draining' = None
      /\ NoneMissed' /\ PagedIssued' /\ BufferIssued' /\ AttentionsReady' /\ Held'
      /\ \A r, l : Ready(r, l) => Ready(r, l)'
      /\ \A g \in Live("current")' : g \in Live("current") /\ Nth("current", g)' = Nth("current", g)
      /\ \A g \in Live("load")' : g \in Live("load") /\ Nth("load", g)' = Nth("load", g)
      /\ Live("load")' = Live("load")
  BY <1>1, LoadKeeps
<1>3. UNCHANGED <<buffer, loaded, missed>>
  OBVIOUS
<1>4. LaunchReady'
  <2>1. Waits' <=> Waits
    BY <1>1, FinalSame
  <2>. QED BY <1>1, <1>2, <2>1 DEF LoadInv, LaunchReady
<1>5. Draining'
  BY <1>1, <1>2, <1>3 DEF LoadInv, BufferInv, Draining
<1>6. NotDraining'
  BY <1>1, <1>2, <1>3 DEF LoadInv, BufferInv, NotDraining, Takes
<1>7. Blending'
  BY <1>1, <1>2, <1>3 DEF LoadInv, BufferInv, Blending, Takes
<1>. QED BY <1>2, <1>4, <1>5, <1>6, <1>7 DEF LoadInv, BufferInv

\* The host saves.
LEMMA LoadSaves ==
  ASSUME BaseInv, LoadInv, NEW r \in SaveIds, AtStore(r), pc' = After, Same("current"), Same("load"),
         UNCHANGED <<deviceVars, retrieves, connector, load_buffer, draining>>,
         \A q \in LoadIds : RetrieveKind(q)' = RetrieveKind(q)
  PROVE  LoadInv'
<1>1. /\ connector' = "paged" => draining' = None
      /\ NoneMissed' /\ PagedIssued' /\ BufferIssued' /\ AttentionsReady' /\ Held'
      /\ Live("load")' = Live("load")
  BY LoadKeeps DEF deviceVars
<1>2. pc.at = "save" /\ draining = None
  BY DEF AtStore, Running
<1>3. pc'.at \in {"save", "load", "attention", "end"} /\ (pc'.at = "attention" => connector # "paged")
  BY <1>2 DEF After, SaveKvLayer, Layer, WaitForSave, P
<1>4. LaunchReady' /\ Draining' /\ NotDraining' /\ Blending'
  BY <1>1, <1>2, <1>3 DEF LoadInv, BufferInv, LaunchReady, Draining, NotDraining, Blending
<1>. QED BY <1>1, <1>4 DEF LoadInv, BufferInv
-----------------------------------------------------------------------------
\* A layer on its way stays so, or arrives, when the model's stream goes on.
LEMMA ReadyRuns ==
  ASSUME BaseInv, LoadInv, NEW k \in Nat, Ran("current", k), CurrentRuns(Nth("current", k)),
         CurrentOk(Nth("current", k)), NEW r, NEW l
  PROVE  /\ Ready(r, l) => Ready(r, l)'
         /\ \A a : Before(r, l, a) => Before(r, l, a)'
<1>1. /\ Same("load") /\ loaded \subseteq loaded' /\ buffer' = buffer /\ k \in Live("current")
      /\ \A w \in Live("current") : w = k \/ (w \in Live("current")' /\ Nth("current", w)' = Nth("current", w))
  BY DEF Ran, CurrentRuns, Streams
<1>2. \A g \in Live("load") : LoadAt(r, l, g) => g \in Live("load")' /\ LoadAt(r, l, g)'
  BY <1>1 DEF LoadAt, Same, Kept
<1>3. Brings(r, l, k) => <<r, l>> \in loaded'
  <2>1. CASE Nth("current", k).op = "wait"
    <3>1. done["load"] >= Nth("current", k).n /\ Nth("current", k).n \in Nat
      BY <2>1 DEF CurrentRuns, CurrentOk, CurrentOp, WaitOp, AttentionOp, BufferOp
    <3>2. done["load"] \in Nat /\ \A g \in Live("load") : g \in Nat /\ done["load"] < g
      BY LiveNat DEF BaseInv, Streams
    <3>. QED BY <2>1, <3>1, <3>2 DEF Brings
  <2>2. CASE Nth("current", k).op = "flush"
    BY <1>1, <2>2 DEF Brings, LoadInv, BufferInv, Held, Takes, CurrentRuns
  <2>. QED BY <2>1, <2>2 DEF Brings
<1>4. \A w \in Live("current") : Brings(r, l, w) /\ w # k => w \in Live("current")' /\ Brings(r, l, w)'
  BY <1>1, <1>2 DEF Brings
<1>. QED BY <1>1, <1>3, <1>4 DEF Ready, Before

LEMMA LoadRunCurrent ==
  ASSUME BaseInv, LoadInv, Run("current")
  PROVE  LoadInv'
<1>1. PICK k \in Nat : Ran("current", k) /\ CurrentRuns(Nth("current", k)) /\ CurrentOk(Nth("current", k))
  BY RunCurrent
<1>2. UNCHANGED <<connector, pc, retrieves, kind, load_buffer, draining>>
  BY RunFacts DEF Streams
<1>3. (\A q : RetrieveKind(q)' = RetrieveKind(q)) /\ (Waits' <=> Waits)
  BY <1>2, KindsKept DEF Waits
<1>4. /\ Same("load") /\ Live("load")' = Live("load") /\ loaded \subseteq loaded' /\ buffer' = buffer
      /\ \A g \in Live("load")' : g \in Live("load") /\ Nth("load", g)' = Nth("load", g)
      /\ k \in Live("current") /\ k = done["current"] + 1
      /\ \A g \in Live("current")' : g \in Live("current") /\ Nth("current", g)' = Nth("current", g)
  BY <1>1 DEF Ran, CurrentRuns, Streams, Same, Kept
<1>5. \A r, l : (Ready(r, l) => Ready(r, l)') /\ \A a : Before(r, l, a) => Before(r, l, a)'
  BY <1>1, ReadyRuns
<1>6. NoneMissed'
  <2>1. SUFFICES ASSUME Waits PROVE missed' = missed
    BY <1>3 DEF LoadInv, NoneMissed
  <2>2. CASE Nth("current", k).op = "compute"
    BY <1>1, <1>4, <2>2 DEF LoadInv, BufferInv, Held, Takes, CurrentRuns
  <2>3. CASE Nth("current", k).op = "attention"
    <3>1. PICK l \in Layers : l = Nth("current", k).l
      BY <1>1, <2>3 DEF CurrentOk, CurrentOp, WaitOp, AttentionOp, BufferOp
    <3>2. \A r \in LoadIds : RetrieveKind(r) = "hit" => Before(r, l, k)
      BY <1>4, <2>1, <2>3, <3>1 DEF LoadInv, AttentionsReady, AttentionAt
    <3>3. \A w \in Live("current") : ~ (w < k)
      <4>1. done["current"] \in Nat /\ \A w \in Live("current") : w \in Nat /\ done["current"] < w
        BY LiveNat DEF BaseInv, Streams
      <4>. QED BY <1>4, <4>1
    <3>4. \A r \in LoadIds : RetrieveKind(r) = "hit" => <<r, l>> \in loaded
      BY <3>2, <3>3 DEF Before
    <3>. QED BY <1>1, <2>3, <3>1, <3>4 DEF CurrentRuns
  <2>4. CASE Nth("current", k).op \notin {"compute", "attention"}
    BY <1>1, <2>4 DEF CurrentRuns
  <2>. QED BY <2>2, <2>3, <2>4
<1>7. PagedIssued'
  BY <1>2, <1>3, <1>4 DEF LoadInv, PagedIssued, LoadAt, Same, Kept
<1>8. BufferIssued'
  BY <1>2, <1>3, <1>5 DEF LoadInv, BufferIssued
<1>9. AttentionsReady'
  BY <1>3, <1>4, <1>5 DEF LoadInv, AttentionsReady, AttentionAt
<1>10. LaunchReady'
  BY <1>2, <1>3, <1>5 DEF LoadInv, LaunchReady
<1>11. Held'
  BY <1>4 DEF LoadInv, BufferInv, Held, Takes
<1>12. Draining'
  BY <1>2, <1>3, <1>4 DEF LoadInv, BufferInv, Draining
<1>13. NotDraining'
  BY <1>2, <1>3, <1>4 DEF LoadInv, BufferInv, NotDraining, Takes
<1>14. Blending'
  BY <1>2, <1>3, <1>4 DEF LoadInv, BufferInv, Blending, Takes
<1>. QED BY <1>2, <1>6, <1>7, <1>8, <1>9, <1>10, <1>11, <1>12, <1>13, <1>14 DEF LoadInv, BufferInv

LEMMA LoadRunLoad ==
  ASSUME BaseInv, LoadInv, Run("load")
  PROVE  LoadInv'
<1>1. PICK k \in Nat : Ran("load", k) /\ LoadRuns(Nth("load", k)) /\ LoadOk(Nth("load", k))
  BY RunLoad
<1>2. UNCHANGED <<connector, pc, retrieves, kind, load_buffer, draining>>
  BY RunFacts DEF Streams
<1>3. (\A q : RetrieveKind(q)' = RetrieveKind(q)) /\ (Waits' <=> Waits)
  BY <1>2, KindsKept DEF Waits
<1>4. /\ Same("current") /\ Live("current")' = Live("current") /\ loaded \subseteq loaded' /\ missed' = missed
      /\ \A g \in Live("current") : Nth("current", g)' = Nth("current", g)
      /\ k \in Live("load")
      /\ \A g \in Live("load") : g = k \/ (g \in Live("load")' /\ Nth("load", g)' = Nth("load", g))
      /\ \A g \in Live("load")' : g \in Live("load") /\ Nth("load", g)' = Nth("load", g)
      /\ Nth("load", k).op = "load" => <<Nth("load", k).r, Nth("load", k).l>> \in loaded'
      /\ Nth("load", k).op = "fill" => buffer' = [buffer EXCEPT ![Nth("load", k).n] = <<Nth("load", k).r, Nth("load", k).l>>]
      /\ Nth("load", k).op # "fill" => buffer' = buffer
  BY <1>1 DEF Ran, LoadRuns, Streams, Same, Kept
<1>5. Nth("load", k).n \in {0, 1} /\ buffer \in [{0, 1} -> (LoadIds \X Layers) \cup {None}]
  BY <1>1 DEF LoadOk, LoadOp, BufferOp, BaseInv, DeviceTypes
<1>6. \A r, l, g : LoadAt(r, l, g) => <<r, l>> \in loaded' \/ LoadAt(r, l, g)'
  BY <1>4 DEF LoadAt
<1>7. \A r, l : (Ready(r, l) => Ready(r, l)') /\ \A a : Before(r, l, a) => Before(r, l, a)'
  <2>1. \A r, l : \A w \in Live("current") :
          Brings(r, l, w) => <<r, l>> \in loaded' \/ (w \in Live("current")' /\ Brings(r, l, w)')
    BY <1>4, <1>6 DEF Brings, LoadAt
  <2>. QED BY <1>4, <2>1 DEF Ready, Before
<1>8. NoneMissed'
  BY <1>3, <1>4 DEF LoadInv, NoneMissed
<1>9. PagedIssued'
  BY <1>2, <1>3, <1>4, <1>6 DEF LoadInv, PagedIssued, LoadAt
<1>10. BufferIssued'
  BY <1>2, <1>3, <1>7 DEF LoadInv, BufferIssued
<1>11. AttentionsReady'
  BY <1>3, <1>4, <1>7 DEF LoadInv, AttentionsReady, AttentionAt
<1>12. LaunchReady'
  BY <1>2, <1>3, <1>7 DEF LoadInv, LaunchReady
<1>13. Held'
  <2>1. SUFFICES ASSUME NEW g \in Live("current"), Takes(g)
                 PROVE  /\ buffer'[Nth("current", g).n] = <<Nth("current", g).r, Nth("current", g).l>>
                        /\ \A f \in Live("load") : Nth("load", f).n # Nth("current", g).n
    <3>1. /\ Live("current")' = Live("current") /\ \A g \in Live("current") : Nth("current", g)' = Nth("current", g)
          /\ \A g \in Live("load")' : g \in Live("load") /\ Nth("load", g)' = Nth("load", g)
      BY <1>4
    <3>. QED BY <3>1 DEF Held, Takes
  <2>2. /\ buffer[Nth("current", g).n] = <<Nth("current", g).r, Nth("current", g).l>>
        /\ \A f \in Live("load") : Nth("load", f).n # Nth("current", g).n
    BY <2>1 DEF LoadInv, BufferInv, Held
  <2>3. Nth("current", g).n \in {0, 1}
    BY <2>1 DEF Takes, BaseInv, StreamInv, CurrentOk, CurrentOp, WaitOp, AttentionOp, BufferOp
  <2>4. buffer'[Nth("current", g).n] = buffer[Nth("current", g).n]
    BY <1>4, <1>5, <2>2, <2>3
  <2>. QED BY <2>2, <2>4
<1>14. CASE connector = "buffer" /\ draining # None
  <2>1. Nth("load", k).op = "fill"
    BY <1>1, <1>14 DEF LoadOk, LoadOp, BufferOp
  <2>2. /\ pc.at = "compute" /\ pc.l = draining /\ load_buffer = BufferOf(pc.l)
        /\ RetrieveKind(Loaders[pc.i]) = "hit"
        /\ \A f \in Live("load") : /\ Nth("load", f).r = Loaders[pc.i] /\ Nth("load", f).l = pc.l
                                   /\ Nth("load", f).n = BufferOf(pc.l)
    BY <1>14 DEF LoadInv, BufferInv, Draining
  <2>3. buffer'[BufferOf(pc.l)] = <<Loaders[pc.i], pc.l>>
    BY <1>4, <1>5, <2>1, <2>2
  <2>4. Draining'
    BY <1>2, <1>3, <1>4, <2>2, <2>3 DEF Draining
  <2>5. NotDraining' /\ Blending'
    BY <1>2, <1>14, <2>2 DEF NotDraining, Blending
  <2>. QED BY <1>2, <1>8, <1>9, <1>10, <1>11, <1>12, <1>13, <1>14, <2>4, <2>5 DEF LoadInv, BufferInv
<1>15. CASE connector = "paged"
  <2>1. draining = None /\ pc.at \notin {"compute", "blend"}
    BY <1>15 DEF LoadInv, BaseInv, HostInv, Placed, InPass
  <2>2. Draining' /\ NotDraining' /\ Blending'
    BY <1>2, <1>15, <2>1 DEF Draining, NotDraining, Blending
  <2>. QED BY <1>2, <1>8, <1>9, <1>10, <1>11, <1>12, <1>13, <2>1, <2>2 DEF LoadInv, BufferInv
<1>16. ~ (connector = "buffer" /\ draining = None)
  BY <1>4 DEF LoadInv, BufferInv, NotDraining
<1>17. connector \in {"paged", "buffer"}
  BY DEF BaseInv, HostInv, Placed, HostTypes
<1>. QED BY <1>14, <1>15, <1>16, <1>17

LEMMA LoadRunStore ==
  ASSUME BaseInv, LoadInv, Run("store")
  PROVE  LoadInv'
<1>1. PICK k \in Nat : Ran("store", k) /\ StoreRuns(Nth("store", k))
  BY RunStore
<1>2. UNCHANGED <<connector, pc, retrieves, kind, load_buffer, draining>>
  BY RunFacts DEF Streams
<1>3. Same("current") /\ Same("load") /\ UNCHANGED <<buffer, loaded, missed>>
  BY <1>1 DEF Ran, Streams, StoreRuns
<1>. QED BY <1>2, <1>3, LoadStays
-----------------------------------------------------------------------------
\* The paged connector has no buffers.
LEMMA PagedBuffers ==
  ASSUME BaseInv', connector' = "paged", draining' = None
  PROVE  BufferInv'
<1>1. \A g \in Live("current")' : ~ Takes(g)'
  BY DEF BaseInv, StreamInv, CurrentOk, Takes
<1>2. pc'.at \notin {"compute", "blend"}
  BY DEF BaseInv, HostInv, Placed, InPass
<1>. QED BY <1>1, <1>2 DEF BufferInv, Held, Draining, NotDraining, Blending

\* There is no attention on the stream before the first layer.
LEMMA NoAttention ==
  ASSUME BaseInv, pc.at \notin Past
  PROVE  \A a \in Live("current") : Nth("current", a).op # "attention"
BY DEF BaseInv, StreamInv, CurrentOk, Past

LEMMA LoadRetrieveStarts ==
  ASSUME BaseInv, BaseInv', LoadInv, NEW r \in LoadIds, RetrieveStarts(r)
  PROVE  LoadInv'
<1>1. /\ AtRetrieve(r) /\ Advance(r) /\ pc' = After /\ retrieves[r] = 0 /\ draining = None
      /\ UNCHANGED <<connector, pending, done, load_buffer, draining, deviceVars>>
  BY DEF RetrieveStarts, Returns, AtRetrieve, Running
<1>2. PICK k \in {"dead", "hit", "none"} : Became(<<"retrieve", r>>, k)
  BY DEF RetrieveStarts
<1>3. \A q \in LoadIds : RetrieveKind(q)' = IF q = r THEN k ELSE RetrieveKind(q)
  BY <1>2, KindSet DEF BaseInv, Kinds
<1>4. RetrieveKind(r) = "new"
  BY <1>1 DEF BaseInv, HostInv, KindsFollow
<1>5. pc.i \in 1 .. Len(Loaders) /\ Loaders[pc.i] = r /\ pc.l = 0 /\ pc.at \in {"start", "blend"}
      /\ (pc.at = "start" => connector = "paged") /\ (pc.at = "blend" => connector = "buffer")
  BY <1>1, RetrievePlace, LayersNat DEF BaseInv, HostInv
<1>6. pc'.at = pc.at /\ pc'.l = 1 /\ pc'.i = pc.i
  BY <1>1, <1>5 DEF After, StartLoadKv, Blend, P
<1>7. Same("current") /\ Same("load") /\ UNCHANGED <<buffer, loaded, missed>>
  BY <1>1, Untouched DEF BaseInv, Streams, deviceVars
<1>8. /\ Kept("current") /\ Kept("load") /\ Live("current")' = Live("current") /\ Live("load")' = Live("load")
      /\ \A g \in Live("current") : Nth("current", g)' = Nth("current", g)
      /\ \A g \in Live("load") : Nth("load", g)' = Nth("load", g)
  BY <1>7 DEF Same, Kept
<1>9. Waits' => Waits
  BY <1>1, <1>3, <1>4, PassFacts DEF Waits
<1>10. NoneMissed'
  BY <1>7, <1>9 DEF LoadInv, NoneMissed
<1>11. retrieves'[r] = 1 /\ \A q \in LoadIds : q # r => retrieves'[q] = retrieves[q]
  BY <1>1 DEF Advance, BaseInv, HostInv, Placed, HostTypes
<1>12. PagedIssued'
  <2>1. SUFFICES ASSUME connector' = "paged", NEW q \in LoadIds, NEW l \in Layers, RetrieveKind(q)' = "hit",
                        l < retrieves'[q] - 1
                 PROVE  <<q, l>> \in loaded' \/ \E g \in Live("load")' : LoadAt(q, l, g)'
    BY DEF PagedIssued
  <2>2. q # r
    BY <1>11, <2>1, LayersNat
  <2>3. <<q, l>> \in loaded \/ \E g \in Live("load") : LoadAt(q, l, g)
    BY <1>1, <1>3, <1>11, <2>1, <2>2 DEF LoadInv, PagedIssued
  <2>. QED BY <1>7, <1>8, <2>3 DEF LoadAt
<1>13. BufferIssued'
  <2>1. SUFFICES ASSUME connector' = "buffer", NEW q \in LoadIds, NEW l \in Layers, RetrieveKind(q)' = "hit",
                        l < retrieves'[q] - 2
                 PROVE  Ready(q, l)'
    BY DEF BufferIssued
  <2>2. q # r
    BY <1>11, <2>1, LayersNat
  <2>3. Ready(q, l)
    BY <1>1, <1>3, <1>11, <2>1, <2>2 DEF LoadInv, BufferIssued
  <2>. QED BY <1>7, <1>8, <2>3, ReadyKept
<1>14. AttentionsReady' /\ LaunchReady'
  <2>1. \A a \in Live("current") : Nth("current", a).op # "attention"
    BY <1>5, NoAttention DEF Past
  <2>. QED BY <1>5, <1>6, <1>8, <2>1 DEF AttentionsReady, LaunchReady, AttentionAt
<1>15. BufferInv'
  <2>1. CASE connector = "paged"
    BY <1>1, <2>1, PagedBuffers
  <2>2. CASE connector = "buffer"
    <3>1. Held'
      BY <1>7, <1>8 DEF LoadInv, BufferInv, Held, Takes
    <3>2. Draining' /\ NotDraining'
      BY <1>1, <1>5, <1>6, <1>8, <2>2 DEF LoadInv, BufferInv, Draining, NotDraining
    <3>3. Blending'
      BY <1>1, <1>5, <1>6, <1>8, <2>2 DEF LoadInv, BufferInv, Blending, Takes
    <3>. QED BY <3>1, <3>2, <3>3 DEF BufferInv
  <2>. QED BY <1>5, <2>1, <2>2
<1>. QED BY <1>1, <1>10, <1>12, <1>13, <1>14, <1>15 DEF LoadInv

\* Every advance of the last request's generator makes the model wait for the layers that
\* were queued before.
LEMMA PagedAdvance ==
  ASSUME BaseInv, BaseInv', LoadInv, NEW r \in LoadIds, AtRetrieve(r), Advance(r), pc' = After,
         connector = "paged", RetrieveKind(r) = "hit", UNCHANGED <<connector, draining, kind, deviceVars>>,
         Kept("load"),
         \/ retrieves[r] - 1 = NumLayers
         \/ Grew("load", Issued("load") + 1, O("load", r, retrieves[r] - 1, 0)),
         r = Final => Grew("current", Issued("current") + 1, Wait("load")),
         r # Final => Same("current")
  PROVE  LoadInv'
<1>1. draining = None /\ UNCHANGED <<buffer, loaded, missed>>
  BY DEF AtRetrieve, Running, deviceVars
<1>2. (\A q : RetrieveKind(q)' = RetrieveKind(q)) /\ (Waits' <=> Waits)
  BY KindsKept DEF Waits
<1>3. Kept("current")
  BY DEF Grew, Same
<1>4. \A q, l : (Ready(q, l) => Ready(q, l)') /\ \A a : Before(q, l, a) => Before(q, l, a)'
  BY <1>1, <1>3, ReadyKept
<1>5. \A q, l, g : LoadAt(q, l, g) => g \in Live("load")' /\ LoadAt(q, l, g)'
  BY DEF LoadAt, Kept
<1>6. /\ retrieves'[r] = retrieves[r] + 1 /\ \A q \in LoadIds : q # r => retrieves'[q] = retrieves[q]
      /\ retrieves[r] \in Nat
  BY PassFacts DEF Advance, BaseInv, HostInv, Placed, HostTypes
<1>7. Wait("load").op = "wait" /\ Wait("load").n = Issued("load")
  BY DEF Wait, O
<1>8. \A a \in Live("current")' :
        (a \in Live("current") /\ Nth("current", a)' = Nth("current", a)) \/ Nth("current", a)'.op = "wait"
  BY <1>7 DEF Grew, Same, Kept
<1>9. NoneMissed' /\ BufferIssued'
  BY <1>1, <1>2 DEF LoadInv, NoneMissed, BufferIssued
<1>10. PagedIssued'
  <2>1. SUFFICES ASSUME NEW q \in LoadIds, NEW l \in Layers, RetrieveKind(q) = "hit", l < retrieves'[q] - 1
                 PROVE  <<q, l>> \in loaded' \/ \E g \in Live("load")' : LoadAt(q, l, g)'
    BY <1>2 DEF PagedIssued
  <2>2. CASE l < retrieves[q] - 1
    BY <1>1, <1>5, <2>1, <2>2 DEF LoadInv, PagedIssued
  <2>3. CASE ~ (l < retrieves[q] - 1)
    <3>1. q = r /\ l = retrieves[r] - 1 /\ l # NumLayers
      BY <1>6, <2>1, <2>3, LayersNat, PassFacts
    <3>2. Grew("load", Issued("load") + 1, O("load", r, l, 0))
      BY <3>1
    <3>3. \E g \in Live("load")' : Nth("load", g)' = O("load", r, l, 0)
      BY <3>2 DEF Grew
    <3>. QED BY <3>1, <3>3 DEF LoadAt, O
  <2>. QED BY <2>2, <2>3
<1>11. AttentionsReady'
  BY <1>2, <1>4, <1>8 DEF LoadInv, AttentionsReady, AttentionAt
<1>12. LaunchReady'
  <2>1. SUFFICES ASSUME pc'.at = "attention", NEW q \in LoadIds, NEW l \in Layers, l = pc'.l, RetrieveKind(q) = "hit"
                 PROVE  Ready(q, l)'
    BY <1>2 DEF LaunchReady
  <2>2. pc.i \in 1 .. Len(Loaders) /\ Loaders[pc.i] = r /\ pc.at \in {"start", "load"}
    BY RetrievePlace DEF BaseInv, HostInv
  <2>3. pc.at = "load" /\ ~ (pc.i < Len(Loaders)) /\ pc'.l = pc.l
    BY <2>1, <2>2 DEF After, StartLoadKv, WaitForLayerLoad, Layer, P
  <2>4. r = Final
    <3>1. pc.i = Len(Loaders)
      BY <2>2, <2>3, PassFacts
    <3>. QED BY <2>2, <3>1 DEF Final
  <2>5. PICK j \in 1 .. Len(Loaders) : Loaders[j] = q
    BY Each
  <2>6. retrieves[q] = Advanced(j)
    BY <2>5 DEF BaseInv, HostInv, Placed, Counted
  <2>7. Advanced(j) \in {pc.l + 3, pc.l + 2} /\ l = pc.l
    BY <2>1, <2>3 DEF Advanced
  <2>8. l < retrieves[q] - 1
    BY <2>6, <2>7, LayersNat
  <2>9. <<q, l>> \in loaded \/ \E g \in Live("load") : LoadAt(q, l, g)
    BY <2>1, <2>8 DEF LoadInv, PagedIssued
  <2>10. CASE <<q, l>> \in loaded
    BY <1>1, <2>10 DEF Ready
  <2>11. ASSUME NEW g \in Live("load"), LoadAt(q, l, g) PROVE Ready(q, l)'
    <3>1. g \in Live("load")' /\ LoadAt(q, l, g)'
      BY <1>5, <2>11
    <3>2. g <= Issued("load")
      BY LiveNat DEF BaseInv, Streams
    <3>3. g \in Nat /\ Issued("load") \in Nat
      BY LiveNat DEF BaseInv, Streams
    <3>4. PICK w \in Live("current")' : Nth("current", w)' = Wait("load")
      BY <2>4 DEF Grew
    <3>5. Brings(q, l, w)'
      BY <1>7, <3>1, <3>2, <3>3, <3>4 DEF Brings
    <3>. QED BY <3>5 DEF Ready
  <2>. QED BY <2>9, <2>10, <2>11
<1>13. BufferInv'
  BY <1>1, PagedBuffers
<1>. QED BY <1>1, <1>9, <1>10, <1>11, <1>12, <1>13 DEF LoadInv

\* Blending: the layer goes to one buffer while the one before it is moved from the other.
LEMMA BufferFills ==
  ASSUME EvenLayers, BaseInv, BaseInv', LoadInv, NEW r \in LoadIds, AtRetrieve(r), Advance(r), pc' = After,
         connector = "buffer", RetrieveKind(r) = "hit", NEW l \in Layers, retrieves[r] = l + 1,
         UNCHANGED <<connector, kind, load_buffer, deviceVars>>, draining' = l,
         Grew("load", Issued("load") + 1, O("fill", r, l, load_buffer)),
         l > 0 => Grew("current", Issued("current") + 1, O("flush", r, l - 1, BufferOf(l - 1))),
         l = 0 => Same("current")
  PROVE  LoadInv'
<1>1. draining = None /\ UNCHANGED <<buffer, loaded, missed>>
  BY DEF AtRetrieve, Running, deviceVars
<1>2. (\A q : RetrieveKind(q)' = RetrieveKind(q)) /\ (Waits' <=> Waits)
  BY KindsKept DEF Waits
<1>3. Kept("current") /\ Kept("load") /\ l \in Nat /\ l < NumLayers
  <2>1. l \in Nat /\ l < NumLayers
    BY LayersNat
  <2>2. l > 0 \/ l = 0
    BY <2>1
  <2>. QED BY <2>1, <2>2 DEF Grew, Same
<1>4. /\ pc.i \in 1 .. Len(Loaders) /\ Loaders[pc.i] = r /\ pc.at = "blend" /\ pc.l = l + 1 /\ pc.l \in Nat
      /\ retrieves[r] = pc.l
  <2>1. Placed
    BY DEF BaseInv, HostInv
  <2>2. /\ pc.i \in 1 .. Len(Loaders) /\ Loaders[pc.i] = r /\ pc.at = "blend" /\ pc.l \in 0 .. NumLayers + 1
        /\ retrieves[r] = pc.l
    BY <2>1, RetrievePlace
  <2>. QED BY <1>3, <2>2, PassFacts
<1>5. pc'.at = "compute" /\ pc'.l = l /\ pc'.i = pc.i
  <2>1. pc' = P("compute", pc.l - 1, pc.i)
    BY <1>3, <1>4, PassFacts DEF After, Blend
  <2>. QED BY <1>3, <1>4, <2>1 DEF P
<1>6. Live("load") = {}
  BY <1>1 DEF LoadInv, BufferInv, NotDraining
<1>7. \A f \in Live("load")' : /\ Nth("load", f)'.r = r /\ Nth("load", f)'.l = l /\ Nth("load", f)'.n = load_buffer
  BY <1>6 DEF Grew, O
<1>8. Live("load")' # {}
  BY DEF Grew
<1>9. load_buffer = BufferOf(l)
  <2>1. CASE l = 0
    <3>1. pc.l < 2 /\ BufferOf(l) = 0
      BY <1>4, <2>1 DEF BufferOf
    <3>. QED BY <1>4, <3>1 DEF LoadInv, BufferInv, Blending
  <2>2. CASE l > 0
    <3>1. pc.l >= 2 /\ pc.l - 1 = l
      BY <1>3, <1>4, <2>2
    <3>. QED BY <1>4, <3>1 DEF LoadInv, BufferInv, Blending
  <2>. QED BY <1>3, <2>1, <2>2
<1>10. \A g \in Live("current") : Takes(g) => Nth("current", g).n # load_buffer
  <2>1. SUFFICES ASSUME NEW g \in Live("current"), Takes(g) PROVE Nth("current", g).n # load_buffer
    OBVIOUS
  <2>2. Nth("current", g).n = BufferOf(Nth("current", g).l)
    BY <2>1 DEF BaseInv, StreamInv, CurrentOk, Takes
  <2>3. CASE l = 0
    <3>0. pc.l < 2
      BY <1>4, <2>3
    <3>1. pc.i > 1 /\ Nth("current", g).l = NumLayers - 1 /\ load_buffer = 0
      BY <1>4, <2>1, <3>0 DEF LoadInv, BufferInv, Blending
    <3>2. NumLayers % 2 = 0
      BY <1>4, <3>1, PassFacts DEF EvenLayers
    <3>3. BufferOf(NumLayers - 1) = 1
      <4>1. NumLayers - 1 \in Nat /\ NumLayers - 1 + 1 = NumLayers
        BY PassFacts
      <4>2. BufferOf(NumLayers) = 0
        BY <3>2 DEF BufferOf
      <4>3. BufferOf(NumLayers) = 1 - BufferOf(NumLayers - 1) /\ BufferOf(NumLayers - 1) \in {0, 1}
        BY <4>1, Alternate
      <4>. QED BY <4>2, <4>3
    <3>. QED BY <2>2, <3>1, <3>3
  <2>4. CASE l > 0
    <3>0. pc.l >= 2 /\ pc.l - 2 = l - 1
      BY <1>3, <1>4, <2>4
    <3>1. Nth("current", g).l = l - 1
      BY <1>4, <2>1, <3>0 DEF LoadInv, BufferInv, Blending
    <3>2. l - 1 \in Nat /\ l - 1 + 1 = l
      BY <1>3, <2>4
    <3>3. BufferOf(l) # BufferOf(l - 1)
      BY <3>2, Alternate
    <3>. QED BY <1>9, <2>2, <3>1, <3>3
  <2>. QED BY <1>3, <2>3, <2>4
<1>11. l > 0 => BufferOf(l - 1) # load_buffer /\ buffer[BufferOf(l - 1)] = <<r, l - 1>>
  <2>1. SUFFICES ASSUME l > 0 PROVE BufferOf(l - 1) # load_buffer /\ buffer[BufferOf(l - 1)] = <<r, l - 1>>
    OBVIOUS
  <2>2. l - 1 \in Nat /\ l - 1 + 1 = l /\ pc.l - 2 = l - 1 /\ pc.l >= 2
    BY <1>3, <1>4, <2>1
  <2>3. BufferOf(l) # BufferOf(l - 1)
    BY <2>2, Alternate
  <2>. QED BY <1>4, <1>9, <2>2, <2>3 DEF LoadInv, BufferInv, Blending
<1>12. Held'
  <2>1. SUFFICES ASSUME NEW g \in Live("current")', Takes(g)'
                 PROVE  /\ buffer[Nth("current", g)'.n] = <<Nth("current", g)'.r, Nth("current", g)'.l>>
                        /\ Nth("current", g)'.n # load_buffer
    BY <1>1, <1>7 DEF Held
  <2>2. CASE g \in Live("current")
    <3>1. Nth("current", g)' = Nth("current", g)
      BY <1>3, <2>2 DEF Kept
    <3>2. Takes(g)
      BY <2>1, <3>1 DEF Takes
    <3>. QED BY <1>10, <2>2, <3>1, <3>2 DEF LoadInv, BufferInv, Held
  <2>3. CASE g \notin Live("current")
    <3>1. l > 0 /\ Nth("current", g)' = O("flush", r, l - 1, BufferOf(l - 1))
      BY <1>3, <2>1, <2>3 DEF Grew, Same
    <3>. QED BY <1>11, <3>1 DEF O
  <2>. QED BY <2>2, <2>3
<1>13. Draining' /\ NotDraining' /\ Blending'
  <2>1. l # None
    BY PassFacts
  <2>2. Draining'
    BY <1>2, <1>4, <1>5, <1>7, <1>8, <1>9 DEF Draining
  <2>. QED BY <1>5, <2>1, <2>2 DEF NotDraining, Blending
<1>14. AttentionsReady' /\ LaunchReady' /\ PagedIssued' /\ NoneMissed'
  <2>1. \A a \in Live("current")' : Nth("current", a)'.op # "attention"
    BY <1>5 DEF BaseInv, StreamInv, CurrentOk
  <2>. QED BY <1>1, <1>2, <1>5, <2>1 DEF AttentionsReady, AttentionAt, LaunchReady, PagedIssued, LoadInv, NoneMissed
<1>15. BufferIssued'
  <2>1. SUFFICES ASSUME NEW q \in LoadIds, NEW m \in Layers, RetrieveKind(q) = "hit", m < retrieves'[q] - 2
                 PROVE  Ready(q, m)'
    BY <1>2 DEF BufferIssued
  <2>2. /\ retrieves'[r] = retrieves[r] + 1 /\ \A p \in LoadIds : p # r => retrieves'[p] = retrieves[p]
    BY DEF Advance, BaseInv, HostInv, Placed, HostTypes
  <2>3. CASE m < retrieves[q] - 2
    BY <1>1, <1>3, <2>1, <2>3, ReadyKept DEF LoadInv, BufferIssued
  <2>4. CASE ~ (m < retrieves[q] - 2)
    <3>1. q = r /\ m = l - 1 /\ l > 0
      BY <1>3, <1>4, <2>1, <2>2, <2>4, LayersNat
    <3>2. PICK w \in Live("current")' : Nth("current", w)' = O("flush", r, l - 1, BufferOf(l - 1))
      BY <3>1 DEF Grew
    <3>3. Brings(q, m, w)'
      BY <3>1, <3>2 DEF Brings, O
    <3>. QED BY <3>3 DEF Ready
  <2>. QED BY <2>3, <2>4
<1>. QED BY <1>12, <1>13, <1>14, <1>15 DEF LoadInv, BufferInv

LEMMA BufferEnds ==
  ASSUME BaseInv, BaseInv', LoadInv, NEW r \in LoadIds, AtRetrieve(r), Advance(r), pc' = After,
         connector = "buffer", RetrieveKind(r) = "hit", retrieves[r] = NumLayers + 1, load_buffer' = 0,
         UNCHANGED <<connector, kind, draining, deviceVars>>, Same("load"),
         Grew("current", Issued("current") + 1, O("flush", r, NumLayers - 1, BufferOf(NumLayers - 1)))
  PROVE  LoadInv'
<1>1. draining = None /\ UNCHANGED <<buffer, loaded, missed>>
  BY DEF AtRetrieve, Running, deviceVars
<1>2. (\A q : RetrieveKind(q)' = RetrieveKind(q)) /\ (Waits' <=> Waits)
  BY KindsKept DEF Waits
<1>3. Kept("current") /\ Kept("load") /\ Live("load")' = Live("load")
  BY DEF Grew, Same
<1>4. pc.i \in 1 .. Len(Loaders) /\ Loaders[pc.i] = r /\ pc.at = "blend" /\ pc.l = NumLayers + 1
  BY RetrievePlace DEF BaseInv, HostInv
<1>5. (pc'.at = "blend" /\ pc'.l = 0 /\ pc'.i = pc.i + 1) \/ pc'.at = "attention"
  BY <1>4, PassFacts DEF After, Blend, Layer, P
<1>6. Live("load") = {} /\ Live("load")' = {}
  BY <1>1, <1>3 DEF LoadInv, BufferInv, NotDraining
<1>. DEFINE f == O("flush", r, NumLayers - 1, BufferOf(NumLayers - 1))
<1>7. f.op = "flush" /\ f.r = r /\ f.l = NumLayers - 1 /\ f.n = BufferOf(NumLayers - 1)
  BY DEF O
<1>. HIDE DEF f
<1>8. /\ \A g \in Live("current")' : (g \in Live("current") /\ Nth("current", g)' = Nth("current", g)) \/ Nth("current", g)' = f
      /\ \E g \in Live("current")' : Nth("current", g)' = f
  BY DEF Grew, Kept, f
<1>9. pc.l >= 2 /\ pc.l - 2 = NumLayers - 1
  BY <1>4, PassFacts
<1>10. /\ buffer[BufferOf(NumLayers - 1)] = <<r, NumLayers - 1>>
       /\ \A g \in Live("current") : Takes(g) => Nth("current", g).l = NumLayers - 1
  BY <1>4, <1>9 DEF LoadInv, BufferInv, Blending
<1>11. Held'
  <2>1. SUFFICES ASSUME NEW g \in Live("current")', Takes(g)'
                 PROVE  buffer[Nth("current", g)'.n] = <<Nth("current", g)'.r, Nth("current", g)'.l>>
    BY <1>1, <1>6 DEF Held
  <2>2. CASE g \in Live("current") /\ Nth("current", g)' = Nth("current", g)
    BY <2>1, <2>2 DEF LoadInv, BufferInv, Held, Takes
  <2>3. CASE Nth("current", g)' = f
    BY <1>7, <1>10, <2>3
  <2>. QED BY <1>8, <2>2, <2>3
<1>12. Draining' /\ NotDraining'
  BY <1>1, <1>5, <1>6 DEF Draining, NotDraining
<1>13. Blending'
  <2>1. \A g \in Live("current")' : Takes(g)' => Nth("current", g)'.l = NumLayers - 1
    BY <1>7, <1>8, <1>10 DEF Takes
  <2>. QED BY <1>4, <1>5, <2>1, PassFacts DEF Blending
<1>14. AttentionsReady' /\ LaunchReady' /\ PagedIssued' /\ NoneMissed'
  <2>1. \A a \in Live("current") : Nth("current", a).op # "attention"
    BY <1>4, NoAttention DEF Past
  <2>2. \A a \in Live("current")' : Nth("current", a)'.op # "attention"
    BY <1>7, <1>8, <2>1
  <2>. QED BY <1>1, <1>2, <2>2 DEF AttentionsReady, AttentionAt, LaunchReady, PagedIssued, LoadInv, NoneMissed
<1>15. BufferIssued'
  <2>1. SUFFICES ASSUME NEW q \in LoadIds, NEW m \in Layers, RetrieveKind(q) = "hit", m < retrieves'[q] - 2
                 PROVE  Ready(q, m)'
    BY <1>2 DEF BufferIssued
  <2>2. /\ retrieves'[r] = retrieves[r] + 1 /\ \A p \in LoadIds : p # r => retrieves'[p] = retrieves[p]
    BY DEF Advance, BaseInv, HostInv, Placed, HostTypes
  <2>3. CASE m < retrieves[q] - 2
    BY <1>1, <1>3, <2>1, <2>3, ReadyKept DEF LoadInv, BufferIssued
  <2>4. CASE ~ (m < retrieves[q] - 2)
    <3>1. q = r /\ m = NumLayers - 1
      BY <2>1, <2>2, <2>4, LayersNat, PassFacts
    <3>2. PICK w \in Live("current")' : Nth("current", w)' = f
      BY <1>8
    <3>3. Brings(q, m, w)'
      BY <1>7, <3>1, <3>2 DEF Brings
    <3>. QED BY <3>3 DEF Ready
  <2>. QED BY <2>3, <2>4
<1>. QED BY <1>11, <1>12, <1>13, <1>14, <1>15 DEF LoadInv, BufferInv

LEMMA LoadRetrieveLayer ==
  ASSUME BuffersAlternate, BaseInv, BaseInv', LoadInv, NEW r \in LoadIds, RetrieveLayer(r)
  PROVE  LoadInv'
<1>1. PICK l \in Layers : l = retrieves[r] - 1
  BY PassFacts DEF RetrieveLayer, Layers
<1>2. /\ AtRetrieve(r) /\ Advance(r) /\ pc' = After /\ RetrieveKind(r) = "hit"
      /\ (IF connector = "paged" THEN PagedToGpu(r, l) ELSE BufferToGpu(r, l))
      /\ UNCHANGED <<connector, kind, done, load_buffer, deviceVars>>
  BY <1>1 DEF RetrieveLayer, Returns, RetrieveKind
<1>3. StreamTypes /\ load_buffer \in {0, 1} /\ connector \in {"paged", "buffer"}
  BY DEF BaseInv, OtherTypes, HostInv, Placed, HostTypes
<1>4. CASE connector = "paged"
  <2>1. /\ draining' = draining /\ Grew("load", Issued("load") + 1, O("load", r, l, 0))
        /\ r = Final => Grew("current", Issued("current") + 1, Wait("load"))
        /\ r # Final => Same("current")
    BY <1>2, <1>3, <1>4, PagedQueues
  <2>2. Kept("load") /\ Grew("load", Issued("load") + 1, O("load", r, retrieves[r] - 1, 0))
    BY <1>1, <2>1 DEF Grew
  <2>. QED BY <1>2, <1>4, <2>1, <2>2, PagedAdvance
<1>5. CASE connector = "buffer"
  <2>1. /\ draining' = l /\ Grew("load", Issued("load") + 1, O("fill", r, l, load_buffer))
        /\ l > 0 => Grew("current", Issued("current") + 1, O("flush", r, l - 1, BufferOf(l - 1)))
        /\ l = 0 => Same("current")
    BY <1>2, <1>3, <1>5, BufferQueues
  <2>2. retrieves[r] = l + 1
    BY <1>1, PassFacts DEF RetrieveLayer
  <2>. QED BY <1>2, <1>5, <2>1, <2>2, BufferFills DEF BuffersAlternate
<1>. QED BY <1>3, <1>4, <1>5

LEMMA LoadRetrieveEnds ==
  ASSUME BaseInv, BaseInv', LoadInv, NEW r \in LoadIds, RetrieveEnds(r)
  PROVE  LoadInv'
<1>1. /\ AtRetrieve(r) /\ Advance(r) /\ pc' = After /\ RetrieveKind(r) = "hit" /\ ToGpuEnds(r)
      /\ retrieves[r] = NumLayers + 1 /\ load_buffer' = 0
      /\ UNCHANGED <<connector, kind, done, draining, deviceVars>>
  BY DEF RetrieveEnds, Returns, RetrieveKind
<1>2. StreamTypes /\ connector \in {"paged", "buffer"}
  BY DEF BaseInv, HostInv, Placed, HostTypes
<1>3. /\ Same("load") /\ Kept("load")
      /\ connector = "buffer" =>
           Grew("current", Issued("current") + 1, O("flush", r, NumLayers - 1, BufferOf(NumLayers - 1)))
      /\ connector = "paged" /\ r = Final => Grew("current", Issued("current") + 1, Wait("load"))
      /\ connector = "paged" /\ r # Final => Same("current")
  BY <1>1, <1>2, EndQueues DEF Same
<1>4. CASE connector = "paged"
  <2>1. retrieves[r] - 1 = NumLayers
    BY <1>1, PassFacts
  <2>. QED BY <1>1, <1>3, <1>4, <2>1, PagedAdvance
<1>5. CASE connector = "buffer"
  BY <1>1, <1>3, <1>5, BufferEnds
<1>. QED BY <1>2, <1>4, <1>5

\* Nothing was found for the request: the pass goes on without it, or ends.
LEMMA LoadRetrieveNothing ==
  ASSUME BaseInv, BaseInv', LoadInv, NEW r \in LoadIds, RetrieveNothing(r)
  PROVE  LoadInv'
<1>1. /\ AtRetrieve(r) /\ RetrieveKind(r) \in {"none", "dead"} /\ retrieves[r] > 0 /\ draining = None
      /\ UNCHANGED <<connector, kind, pending, done, load_buffer, draining, buffer, loaded, missed>>
  BY DEF RetrieveNothing, RetrieveKind, AtRetrieve, Running, deviceVars
<1>2. Same("current") /\ Same("load")
  BY <1>1, Untouched DEF BaseInv, Streams
<1>3. CASE Raises /\ UNCHANGED retrieves
  BY <1>1, <1>2, <1>3, LoadStays DEF Raises
<1>4. CASE Advance(r) /\ Returns /\ RetrieveKind(r) = "none"
  <2>1. \A q : RetrieveKind(q)' = RetrieveKind(q)
    BY <1>1, KindsKept
  <2>2. \A q \in LoadIds : RetrieveKind(q) = "hit" => retrieves'[q] = retrieves[q]
    BY <1>4 DEF Advance, BaseInv, HostInv, Placed, HostTypes
  <2>3. /\ connector' = "paged" => draining' = None
        /\ NoneMissed' /\ PagedIssued' /\ BufferIssued' /\ AttentionsReady' /\ Held'
        /\ Live("load")' = Live("load")
    BY <1>1, <1>2, <2>1, <2>2, LoadKeeps
  <2>4. pc' = After /\ pc.i \in 1 .. Len(Loaders) /\ Loaders[pc.i] = r
    BY <1>1, <1>4, RetrievePlace DEF Returns, BaseInv, HostInv
  <2>5. CASE connector = "paged"
    <3>1. pc.at \in {"start", "load"}
      BY <1>1, <2>5, RetrievePlace DEF BaseInv, HostInv
    <3>2. pc'.at = "attention" => r = Final
      <4>1. pc'.at = "attention" => ~ (pc.i < Len(Loaders))
        BY <2>4, <2>5, <3>1 DEF After, StartLoadKv, WaitForLayerLoad, Layer, P
      <4>2. ~ (pc.i < Len(Loaders)) => pc.i = Len(Loaders)
        BY <2>4, PassFacts
      <4>. QED BY <2>4, <4>1, <4>2 DEF Final
    <3>3. LaunchReady'
      BY <1>1, <1>4, <2>1, <2>5, <3>2 DEF LaunchReady, Waits
    <3>4. BufferInv'
      BY <1>1, <2>5, PagedBuffers
    <3>. QED BY <2>3, <3>3, <3>4 DEF LoadInv
  <2>6. CASE connector = "buffer"
    <3>1. pc.at = "blend" /\ retrieves[r] = pc.l /\ pc.l \in Nat
      BY <1>1, <2>6, RetrievePlace, PassFacts DEF BaseInv, HostInv
    <3>2. ~ (pc.l >= 2)
      BY <1>4, <2>4, <3>1 DEF LoadInv, BufferInv, Blending
    <3>3. pc.l = 1
      BY <1>1, <3>1, <3>2
    <3>4. pc' = P("compute", pc.l - 1, pc.i)
      BY <2>4, <3>1, <3>3, PassFacts DEF After, Blend
    <3>5. pc'.at = "compute" /\ pc'.i = pc.i
      BY <3>4 DEF P
    <3>6. Draining' /\ NotDraining' /\ Blending' /\ LaunchReady'
      BY <1>1, <1>4, <2>1, <2>3, <2>4, <3>5
      DEF LoadInv, BufferInv, Draining, NotDraining, Blending, LaunchReady
    <3>. QED BY <2>3, <3>6 DEF LoadInv, BufferInv
  <2>. QED BY <2>5, <2>6 DEF BaseInv, HostInv, Placed, HostTypes
<1>. QED BY <1>1, <1>3, <1>4 DEF RetrieveNothing, RetrieveKind

\* Everything is loaded that the layer needs when the model is launched on it.
LEMMA LoadAttention ==
  ASSUME BaseInv, BaseInv', LoadInv, pc.at = "attention", pc.l \in Layers, pc' = After, draining = None,
         UNCHANGED <<connector, kind, retrieves, load_buffer, draining, deviceVars>>, Same("load"),
         Grew("current", Issued("current") + 1, O("attention", None, pc.l, BufferOf(pc.l)))
  PROVE  LoadInv'
<1>1. UNCHANGED <<buffer, loaded, missed>> /\ pc'.at = "save"
  BY DEF deviceVars, After, P
<1>2. (\A q : RetrieveKind(q)' = RetrieveKind(q)) /\ (Waits' <=> Waits)
  BY KindsKept DEF Waits
<1>3. Kept("current") /\ Kept("load") /\ Live("load")' = Live("load")
  BY DEF Grew, Same
<1>4. \A q, l : /\ Ready(q, l) => Ready(q, l)'
                /\ \A a : Before(q, l, a) => Before(q, l, a)'
                /\ \A w \in Live("current") : Brings(q, l, w) => w \in Live("current")' /\ Brings(q, l, w)'
  BY <1>1, <1>3, ReadyKept
<1>5. PICK k \in Nat :
        /\ k = Issued("current") + 1
        /\ \A g \in Live("current")' : (g \in Live("current") /\ Nth("current", g)' = Nth("current", g)) \/ g = k
        /\ Nth("current", k)' = O("attention", None, pc.l, BufferOf(pc.l))
  BY DEF Grew, Kept
<1>6. Nth("current", k)'.op = "attention" /\ Nth("current", k)'.l = pc.l
  BY <1>5 DEF O
<1>7. NoneMissed' /\ BufferIssued' /\ PagedIssued' /\ LaunchReady'
  <2>1. PagedIssued'
    BY <1>1, <1>2, <1>3 DEF LoadInv, PagedIssued, LoadAt, Kept
  <2>. QED BY <1>1, <1>2, <1>4, <2>1 DEF LoadInv, NoneMissed, BufferIssued, LaunchReady
<1>8. AttentionsReady'
  <2>1. SUFFICES ASSUME Waits, NEW a \in Live("current")', NEW l \in Layers, AttentionAt(l, a)', NEW q \in LoadIds,
                        RetrieveKind(q) = "hit"
                 PROVE  Before(q, l, a)'
    BY <1>2 DEF AttentionsReady
  <2>2. CASE a \in Live("current") /\ Nth("current", a)' = Nth("current", a)
    BY <1>4, <2>1, <2>2 DEF LoadInv, AttentionsReady, AttentionAt
  <2>3. CASE a = k
    <3>1. l = pc.l
      BY <1>6, <2>1, <2>3 DEF AttentionAt
    <3>2. Ready(q, l)
      <4>1. CASE connector = "paged"
        BY <2>1, <3>1, <4>1 DEF LoadInv, LaunchReady
      <4>2. CASE connector = "buffer"
        <5>1. PICK j \in 1 .. Len(Loaders) : Loaders[j] = q
          BY Each
        <5>2. retrieves[q] = Advanced(j)
          BY <5>1 DEF BaseInv, HostInv, Placed, Counted
        <5>3. Advanced(j) = NumLayers + 2
          BY <4>2 DEF Advanced
        <5>4. l < retrieves[q] - 2
          BY <5>2, <5>3, PassFacts, LayersNat
        <5>. QED BY <2>1, <4>2, <5>4 DEF LoadInv, BufferIssued
      <4>. QED BY <4>1, <4>2 DEF BaseInv, HostInv, Placed, HostTypes
    <3>3. CASE <<q, l>> \in loaded
      BY <1>1, <3>3 DEF Before
    <3>4. ASSUME NEW w \in Live("current"), Brings(q, l, w) PROVE Before(q, l, a)'
      <4>1. w \in Nat /\ w <= Issued("current") /\ Issued("current") \in Nat
        BY LiveNat DEF BaseInv, Streams
      <4>2. w < a
        BY <1>5, <2>3, <4>1
      <4>. QED BY <1>4, <3>4, <4>2 DEF Before
    <3>. QED BY <3>2, <3>3, <3>4 DEF Ready
  <2>. QED BY <1>5, <2>2, <2>3
<1>9. BufferInv'
  <2>1. Held'
    <3>1. \A g \in Live("current")' : Takes(g)' => g \in Live("current") /\ Nth("current", g)' = Nth("current", g)
      BY <1>5, <1>6 DEF Takes
    <3>. QED BY <1>1, <1>3, <3>1 DEF LoadInv, BufferInv, Held, Takes, Kept
  <2>2. Draining' /\ NotDraining' /\ Blending'
    BY <1>1, <1>3 DEF LoadInv, BufferInv, Draining, NotDraining, Blending
  <2>. QED BY <2>1, <2>2 DEF BufferInv
<1>. QED BY <1>7, <1>8, <1>9 DEF LoadInv

\* Blending runs the model on the buffer that was filled last.
LEMMA LoadCompute ==
  ASSUME BaseInv, BaseInv', LoadInv, NEW r \in LoadIds, pc.at = "compute", pc.l \in Layers, pc' = After,
         draining = None, connector = "buffer", pc.i \in 1 .. Len(Loaders), Loaders[pc.i] = r,
         RetrieveKind(r) # "none",
         UNCHANGED <<connector, kind, retrieves, load_buffer, draining, deviceVars>>, Same("load"),
         Grew("current", Issued("current") + 1, O("compute", r, pc.l, BufferOf(pc.l)))
  PROVE  LoadInv'
<1>1. UNCHANGED <<buffer, loaded, missed>> /\ pc'.at = "blend" /\ pc'.l = pc.l + 2 /\ pc'.i = pc.i
  BY DEF deviceVars, After, P
<1>2. (\A q : RetrieveKind(q)' = RetrieveKind(q)) /\ (Waits' <=> Waits)
  BY KindsKept DEF Waits
<1>3. Kept("current") /\ Kept("load") /\ Live("load")' = Live("load")
  BY DEF Grew, Same
<1>4. \A q, l : Ready(q, l) => Ready(q, l)'
  BY <1>1, <1>3, ReadyKept
<1>5. RetrieveKind(r) = "hit"
  <2>1. retrieves[r] = pc.l + 2
    <3>1. retrieves[r] = Advanced(pc.i)
      BY DEF BaseInv, HostInv, Placed, Counted
    <3>. QED BY <3>1 DEF Advanced
  <2>2. retrieves[r] > 0 /\ retrieves[r] # 1
    BY <2>1, LayersNat
  <2>. QED BY <2>2 DEF BaseInv, HostInv, KindsFollow
<1>6. /\ load_buffer = BufferOf(pc.l + 1) /\ buffer[BufferOf(pc.l)] = <<r, pc.l>>
      /\ Live("load") = {} /\ \A g \in Live("current") : ~ Takes(g)
  BY <1>5 DEF LoadInv, BufferInv, NotDraining
<1>7. \A g \in Live("current")' :
        \/ g \in Live("current") /\ Nth("current", g)' = Nth("current", g)
        \/ Nth("current", g)' = O("compute", r, pc.l, BufferOf(pc.l))
  BY DEF Grew, Kept
<1>8. \A g \in Live("current")' : Takes(g)' => Nth("current", g)' = O("compute", r, pc.l, BufferOf(pc.l))
  BY <1>6, <1>7 DEF Takes
<1>9. \A g \in Live("current")' : Takes(g)' =>
        /\ Nth("current", g)'.r = r /\ Nth("current", g)'.l = pc.l /\ Nth("current", g)'.n = BufferOf(pc.l)
  BY <1>8 DEF O
<1>10. Held'
  BY <1>1, <1>3, <1>6, <1>9 DEF Held
<1>11. Draining' /\ NotDraining'
  BY <1>1, <1>3, <1>6 DEF Draining, NotDraining
<1>12. Blending'
  <2>1. pc'.l >= 2 /\ ~ (pc'.l < 2) /\ pc'.l - 1 = pc.l + 1 /\ pc'.l - 2 = pc.l
    BY <1>1, LayersNat
  <2>. QED BY <1>1, <1>2, <1>5, <1>6, <1>9, <2>1 DEF Blending
<1>13. AttentionsReady' /\ LaunchReady' /\ PagedIssued' /\ NoneMissed' /\ BufferIssued'
  <2>1. \A a \in Live("current") : Nth("current", a).op # "attention"
    BY NoAttention DEF Past
  <2>2. \A a \in Live("current")' : Nth("current", a)'.op # "attention"
    BY <1>7, <2>1 DEF O
  <2>. QED BY <1>1, <1>2, <1>4, <2>2
       DEF AttentionsReady, AttentionAt, LaunchReady, PagedIssued, LoadInv, NoneMissed, BufferIssued
<1>. QED BY <1>10, <1>11, <1>12, <1>13 DEF LoadInv, BufferInv

LEMMA LoadLaunch ==
  ASSUME BaseInv, BaseInv', LoadInv, Launch
  PROVE  LoadInv'
<1>1. /\ draining = None /\ pc.l \in Layers /\ StreamTypes
      /\ UNCHANGED <<connector, kind, retrieves, load_buffer, draining, done, deviceVars>>
  BY LaunchCases DEF Running, BaseInv
<1>2. BufferOf(pc.l) \in {0, 1}
  BY <1>1, BufferBit
<1>3. CASE Raises /\ UNCHANGED pending
  <2>1. Same("current") /\ Same("load")
    BY <1>1, <1>3, Untouched DEF Streams
  <2>. QED BY <1>1, <1>3, <2>1, LoadStays DEF Raises, deviceVars
<1>4. CASE /\ pc.at = "attention" /\ Returns
           /\ Queue(<<O("attention", None, pc.l, BufferOf(pc.l))>>, <<>>, <<>>)
  <2>1. O("attention", None, pc.l, BufferOf(pc.l)) \in Op
    BY <1>1, <1>2, Operations
  <2>2. Grew("current", Issued("current") + 1, O("attention", None, pc.l, BufferOf(pc.l))) /\ Same("load")
    BY <1>1, <1>4, <2>1, LaunchQueues
  <2>. QED BY <1>1, <1>4, <2>2, LoadAttention DEF Returns
<1>5. ASSUME pc.at = "compute", Returns, connector = "buffer", pc.i \in 1 .. Len(Loaders),
             NEW r \in LoadIds, r = Loaders[pc.i], RetrieveKind(r) # "none",
             Queue(<<O("compute", r, pc.l, BufferOf(pc.l))>>, <<>>, <<>>)
      PROVE  LoadInv'
  <2>1. O("compute", r, pc.l, BufferOf(pc.l)) \in Op
    BY <1>1, <1>2, Operations
  <2>2. Grew("current", Issued("current") + 1, O("compute", r, pc.l, BufferOf(pc.l))) /\ Same("load")
    BY <1>1, <1>5, <2>1, LaunchQueues
  <2>. QED BY <1>1, <1>5, <2>2, LoadCompute DEF Returns
<1>. QED BY <1>3, <1>4, <1>5, LaunchCases

\* The buffers change places when the layer is in its buffer.
LEMMA LoadSynchronize ==
  ASSUME BaseInv, LoadInv, Synchronize
  PROVE  LoadInv'
<1>1. /\ draining # None /\ draining' = None /\ load_buffer' = 1 - load_buffer
      /\ \A s \in Streams : Drained(s)
      /\ UNCHANGED <<connector, pc, kind, retrieves, pending, done, buffer, loaded, missed>>
  BY DEF Synchronize, hostVars, deviceVars
<1>2. Same("current") /\ Same("load") /\ Live("current") = {} /\ Live("load") = {}
  BY <1>1, Untouched, LiveNat DEF BaseInv, Streams
<1>3. Live("current")' = {} /\ Live("load")' = {} /\ Kept("current") /\ Kept("load")
  BY <1>2 DEF Same
<1>4. connector = "buffer"
  BY <1>1 DEF LoadInv, BaseInv, HostInv, Placed, HostTypes
<1>5. /\ pc.at = "compute" /\ load_buffer = BufferOf(pc.l) /\ pc.l \in Layers
      /\ buffer[BufferOf(pc.l)] = <<Loaders[pc.i], pc.l>>
  <2>1. pc.at = "compute" /\ load_buffer = BufferOf(pc.l) /\ buffer[BufferOf(pc.l)] = <<Loaders[pc.i], pc.l>>
    BY <1>1, <1>2, <1>4 DEF LoadInv, BufferInv, Draining
  <2>. QED BY <2>1 DEF BaseInv, HostInv, Placed, InPass
<1>6. load_buffer' = BufferOf(pc.l + 1)
  BY <1>1, <1>5, Alternate, LayersNat
<1>7. (\A q : RetrieveKind(q)' = RetrieveKind(q)) /\ (Waits' <=> Waits)
  BY <1>1, KindsKept DEF Waits
<1>8. BufferIssued'
  BY <1>1, <1>3, <1>7, ReadyKept DEF LoadInv, BufferIssued
<1>9. NoneMissed' /\ PagedIssued' /\ AttentionsReady' /\ LaunchReady'
  BY <1>1, <1>3, <1>4, <1>7 DEF LoadInv, NoneMissed, PagedIssued, AttentionsReady, LaunchReady
<1>10. BufferInv'
  BY <1>1, <1>3, <1>5, <1>6 DEF BufferInv, Held, Draining, NotDraining, Blending
<1>. QED BY <1>1, <1>8, <1>9, <1>10 DEF LoadInv
-----------------------------------------------------------------------------
LEMMA LoadStoreStarts ==
  ASSUME BaseInv, LoadInv, NEW r \in SaveIds, StoreStarts(r)
  PROVE  LoadInv'
<1>1. /\ AtStore(r) /\ UNCHANGED <<connector, retrieves, done, load_buffer, draining, deviceVars>>
      /\ StreamTypes /\ KindTypes
  BY StoreStartsCases DEF BaseInv
<1>2. CASE Raises /\ UNCHANGED <<stores, kind, pending>>
  <2>1. Same("current") /\ Same("load")
    BY <1>1, <1>2, Untouched DEF Streams
  <2>. QED BY <1>1, <1>2, <2>1, LoadStays DEF Raises, deviceVars
<1>3. CASE /\ Returns
           /\ \/ pending' = pending /\ \E k \in {"empty", "frozen"} : Became(<<"store", r>>, k)
              \/ FromGpu(r, 0) /\ Became(<<"store", r>>, "full")
  <2>1. Same("current") /\ Same("load")
    <3>1. CASE pending' = pending
      BY <1>1, <3>1, Untouched DEF Streams
    <3>2. CASE FromGpu(r, 0)
      <4>1. 0 \in Layers
        BY PassFacts DEF Layers
      <4>. QED BY <1>1, <3>2, <4>1, StoreQueues
    <3>. QED BY <1>3, <3>1, <3>2
  <2>2. \A q \in LoadIds : RetrieveKind(q)' = RetrieveKind(q)
    <3>1. \E k \in Kinds : Became(<<"store", r>>, k)
      BY <1>3 DEF Kinds
    <3>. QED BY <1>1, <3>1, KindSet
  <2>. QED BY <1>1, <1>3, <2>1, <2>2, LoadSaves DEF Returns
<1>. QED BY <1>2, <1>3, StoreStartsCases

LEMMA LoadStoreLayer ==
  ASSUME BaseInv, LoadInv, NEW r \in SaveIds, StoreLayer(r)
  PROVE  LoadInv'
<1>1. /\ AtStore(r) /\ Returns /\ UNCHANGED <<connector, retrieves, done, kind, load_buffer, draining, deviceVars>>
      /\ StreamTypes
  BY DEF StoreLayer, BaseInv
<1>2. stores[r] \in Nat /\ stores[r] >= 1
  BY PassFacts DEF StoreLayer
<1>3. Same("current") /\ Same("load")
  <2>1. CASE pending' = pending
    BY <1>1, <2>1, Untouched DEF Streams
  <2>2. ASSUME NEW l \in Layers, FromGpu(r, l) PROVE Same("current") /\ Same("load")
    BY <1>1, <2>2, StoreQueues
  <2>3. pending' = pending \/ \E l \in Layers : FromGpu(r, l)
    <3>1. CASE stores[r] - 1 + 1 < NumLayers
      <4>1. stores[r] - 1 + 1 \in Layers
        BY <1>2, <3>1, PassFacts DEF Layers
      <4>2. FromGpu(r, stores[r] - 1 + 1)
        BY <3>1 DEF StoreLayer
      <4>. QED BY <4>1, <4>2
    <3>. QED BY <3>1 DEF StoreLayer
  <2>. QED BY <2>1, <2>2, <2>3
<1>. QED BY <1>1, <1>3, LoadSaves, KindsKept DEF Returns

LEMMA LoadStoreNothing ==
  ASSUME BaseInv, LoadInv, NEW r \in SaveIds, StoreNothing(r)
  PROVE  LoadInv'
<1>1. /\ AtStore(r) /\ UNCHANGED <<connector, retrieves, pending, done, kind, load_buffer, draining, deviceVars>>
      /\ StreamTypes
  BY DEF StoreNothing, BaseInv
<1>2. Same("current") /\ Same("load")
  BY <1>1, Untouched DEF Streams
<1>3. CASE Returns
  BY <1>1, <1>2, <1>3, LoadSaves, KindsKept DEF Returns
<1>4. CASE Raises
  BY <1>1, <1>2, <1>4, LoadStays DEF Raises, deviceVars
<1>. QED BY <1>3, <1>4 DEF StoreNothing
-----------------------------------------------------------------------------
LEMMA LoadStarts ==
  ASSUME Init
  PROVE  LoadInv
<1>. USE DEF Init
<1>1. LayerInv
  BY BaseStarts
<1>2. Live("current") = {} /\ Live("load") = {}
  <2>1. StreamTypes /\ Drained("current") /\ Drained("load")
    BY <1>1 DEF LayerInv, BaseInv, Drained, Streams
  <2>. QED BY <2>1, LiveNat DEF Streams
<1>3. /\ pc.at \in {"start", "blend"} /\ pc.l = 0
      /\ draining = None /\ load_buffer = 0 /\ missed = {}
  BY DEF Begin, P
<1>4. \A r \in LoadIds : RetrieveKind(r) = "new"
  BY DEF RetrieveKind
<1>5. NoneMissed /\ AttentionsReady /\ LaunchReady
  BY <1>2, <1>3 DEF NoneMissed, AttentionsReady, LaunchReady
<1>6. PagedIssued /\ BufferIssued
  BY <1>4 DEF PagedIssued, BufferIssued
<1>7. BufferInv
  BY <1>2, <1>3 DEF BufferInv, Held, Draining, NotDraining, Blending
<1>. QED BY <1>3, <1>5, <1>6, <1>7 DEF LoadInv

\* One step per action.
LEMMA LoadStep ==
  ASSUME BuffersAlternate, LayerInv, LayerInv', LoadInv, [Next]_vars
  PROVE  LoadInv'
<1>1. BaseInv /\ BaseInv' /\ StreamTypes
  BY DEF LayerInv, BaseInv
<1>2. ASSUME NEW r \in LoadIds,
             RetrieveStarts(r) \/ RetrieveLayer(r) \/ RetrieveEnds(r) \/ RetrieveNothing(r)
      PROVE  LoadInv'
  BY <1>1, <1>2, LoadRetrieveStarts, LoadRetrieveLayer, LoadRetrieveEnds, LoadRetrieveNothing
<1>3. ASSUME NEW r \in SaveIds, StoreStarts(r) \/ StoreLayer(r) \/ StoreNothing(r)
      PROVE  LoadInv'
  BY <1>1, <1>3, LoadStoreStarts, LoadStoreLayer, LoadStoreNothing
<1>4. CASE Launch
  BY <1>1, <1>4, LoadLaunch
<1>5. CASE Synchronize
  BY <1>1, <1>5, LoadSynchronize
<1>6. ASSUME NEW s \in Streams, Run(s) PROVE LoadInv'
  BY <1>1, <1>6, LoadRunCurrent, LoadRunLoad, LoadRunStore DEF Streams
<1>7. ASSUME UNCHANGED <<connector, hostVars, pending, done, load_buffer, draining, deviceVars>> PROVE LoadInv'
  <2>1. Same("current") /\ Same("load")
    BY <1>1, <1>7, Untouched DEF Streams
  <2>. QED BY <1>7, <2>1, LoadStays DEF hostVars, deviceVars
<1>8. ASSUME NEW r \in LoadIds, LoadCompletes(r) PROVE LoadInv'
  BY <1>7, <1>8 DEF LoadCompletes
<1>9. ASSUME NEW m \in Modes, SetMode(m) PROVE LoadInv'
  BY <1>7, <1>9 DEF SetMode
<1>10. CASE UNCHANGED vars
  BY <1>7, <1>10 DEF vars
<1>. QED BY <1>2, <1>3, <1>4, <1>5, <1>6, <1>8, <1>9, <1>10 DEF Next, Host

LEMMA ConnectorStays ==
  ASSUME [Next]_vars
  PROVE  connector' = connector
BY DEF Next, Host, RetrieveStarts, RetrieveLayer, RetrieveEnds, RetrieveNothing, StoreStarts, StoreLayer,
       StoreNothing, Launch, Synchronize, LoadCompletes, Run, SetMode, vars

\* The model never runs a layer before it is loaded, however the streams, the loads from
\* storage and the host interleave, for any number of requests: with the paged connector
\* because the last request's generator makes the model's stream wait for what
\* batched_to_gpu queued before, and in blending because the host waits for the device
\* before the two buffers change places.  Blending several requests needs an even number
\* of layers: with an odd one the first layer of the next request is loaded into the buffer
\* from which the last layer of the one before is still being moved.
THEOREM LayersLoadedInTime == Spec => [](BuffersAlternate => LoadsInTime)
<1>. DEFINE Inv == LayerInv /\ (BuffersAlternate => LoadInv)
<1>1. Init => Inv
  BY BaseStarts, LoadStarts
<1>2. Inv /\ [Next]_vars => Inv'
  <2>1. SUFFICES ASSUME Inv, [Next]_vars, BuffersAlternate'
                 PROVE  LayerInv' /\ LoadInv'
    BY LayerStep
  <2>2. BuffersAlternate
    BY <2>1, ConnectorStays DEF BuffersAlternate
  <2>. QED BY <2>1, <2>2, LayerStep, LoadStep
<1>3. Inv => (BuffersAlternate => LoadsInTime)
  BY DEF LoadInv, NoneMissed, Waits, LoadsInTime, RetrieveKind, Final
<1>. QED BY <1>1, <1>2, <1>3, PTL DEF Spec
=============================================================================

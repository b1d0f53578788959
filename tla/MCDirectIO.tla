---------------------------- MODULE MCDirectIO ----------------------------
(***************************************************************************)
(* DirectIO for model checking: a request of two chunks.                   *)
(***************************************************************************)
EXTENDS DirectIO

\* One head and two: the asymmetric cache's segments merge in a token-major cache,
\* and are single head vectors, too small to be aligned, in a head-major one.
SmallLayouts ==
  {[kind |-> "block_first", heads |-> 2, shared |-> FALSE, tokenMajor |-> TRUE, align |-> 2],
   [kind |-> "per_layer", heads |-> 1, shared |-> FALSE, tokenMajor |-> TRUE, align |-> 2],
   [kind |-> "per_layer", heads |-> 1, shared |-> TRUE, tokenMajor |-> TRUE, align |-> 4],
   [kind |-> "asymmetric", heads |-> 2, shared |-> FALSE, tokenMajor |-> TRUE, align |-> 4],
   [kind |-> "asymmetric", heads |-> 2, shared |-> TRUE, tokenMajor |-> FALSE, align |-> 2],
   [kind |-> "asymmetric", heads |-> 2, shared |-> TRUE, tokenMajor |-> FALSE, align |-> 1]}

\* In order, scattered, and descending.
SmallTables == {<<0, 1, 2, 3>>, <<1, 2, 4, 3>>}

\* Full chunks; a last chunk of one and a half blocks; segments that blending cut
\* across the blocks.
SmallRanges == {<<<<0, 4>>, <<4, 8>>>>, <<<<0, 4>>, <<4, 7>>>>, <<<<0, 3>>, <<3, 7>>>>}
=============================================================================

----------------------------- MODULE MCService -----------------------------
(***************************************************************************)
(* Service for model checking: the shared allocator, the disk tier and a   *)
(* sibling, in the order they are created.                                 *)
(***************************************************************************)
EXTENDS Service

CONSTANTS cpu, disk, remote, k1, k2

ThreeBackends == <<cpu, disk, remote>>

OneBatch == {<<k1, k2>>}
=============================================================================

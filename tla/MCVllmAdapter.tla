--------------------------- MODULE MCVllmAdapter ---------------------------
(***************************************************************************)
(* VllmAdapter for model checking: two tiers, and which loads may fail.    *)
(***************************************************************************)
EXTENDS VllmAdapter

CONSTANTS cpu, xds

TwoTiers == <<cpu, xds>>

\* Any chunk of the second tier.
AnyOfXds == {<<xds, k>> : k \in Keys}
=============================================================================

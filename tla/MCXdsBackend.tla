---------------------------- MODULE MCXdsBackend ----------------------------
(* Small instances of the XDS tier.  Sizes are in allocation units.        *)
EXTENDS XdsBackend

CONSTANTS k1, k2, k3, a, b, j1, j2

OneUnit == [k \in Keys |-> 1]
Mixed == [k \in Keys |-> IF k = k1 THEN 1 ELSE 2]
Bigger == [k \in Keys |-> LegacySize[k] + 1]

StoreOnly == [c \in Callers |-> {"submit"}]
\* One thread stores directly and falls back to staged stores, another removes and loads.
DirectAndRemove ==
  [c \in Callers |-> IF c = a THEN {"submit", "direct"} ELSE {"remove", "load"}]
StoreRemoveLoad ==
  [c \in Callers |-> IF c = a THEN {"submit", "direct"} ELSE {"submit", "remove", "load"}]
=============================================================================

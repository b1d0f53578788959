---------------------------- MODULE MCLayerwise ----------------------------
(* A pass in which requests a and b load, and b and c save.                *)
EXTENDS Layerwise

CONSTANTS a, b, c

TwoLoaders == <<a, b>>
TwoSavers == <<b, c>>
=============================================================================

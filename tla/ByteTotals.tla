----------------------------- MODULE ByteTotals -----------------------------
(***************************************************************************)
(* The sum of a function with natural values.  It is written as the size   *)
(* of a set of units, one unit <<x, i>> for every i up to f[x], so that    *)
(* the library's theorems about finite sets apply to it.                   *)
(***************************************************************************)
EXTENDS Naturals, FiniteSets

Column(x, n) == {x} \X (1 .. n)

Units(f) == UNION {Column(x, f[x]) : x \in DOMAIN f}

Total(f) == Cardinality(Units(f))
=============================================================================

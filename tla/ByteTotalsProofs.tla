-------------------------- MODULE ByteTotalsProofs --------------------------
(* Facts about Total that byte accounting rests on: the total of a         *)
(* function changes by exactly what one of its values changes by.          *)
EXTENDS ByteTotals, Integers, FiniteSetTheorems, TLAPS

\* A column of n units is finite and has n elements.
LEMMA ColumnSize ==
  ASSUME NEW x, NEW n \in Nat
  PROVE  IsFiniteSet(Column(x, n)) /\ Cardinality(Column(x, n)) = n
<1>1. IsFiniteSet(1 .. n) /\ Cardinality(1 .. n) = n
  BY FS_Interval
<1>2. IsFiniteSet({x}) /\ Cardinality({x}) = 1
  BY FS_Singleton
<1>3. /\ IsFiniteSet({x} \X (1 .. n))
      /\ Cardinality({x} \X (1 .. n)) = Cardinality({x}) * Cardinality(1 .. n)
  BY <1>1, <1>2, FS_Product
<1>. QED BY <1>1, <1>2, <1>3 DEF Column

\* The units of a function on a finite set are finite in number.
LEMMA UnitsFinite ==
  ASSUME NEW S, IsFiniteSet(S), NEW f \in [S -> Nat]
  PROVE  IsFiniteSet(Units(f)) /\ Total(f) \in Nat
<1>. DEFINE Columns == {Column(y, f[y]) : y \in S}
            g == [y \in S |-> Column(y, f[y])]
<1>1. g \in Surjection(S, Columns)
  BY DEF Surjection
<1>2. IsFiniteSet(Columns)
  BY <1>1, FS_Surjection
<1>3. \A C \in Columns : IsFiniteSet(C)
  BY ColumnSize
<1>4. IsFiniteSet(UNION Columns)
  <2>. HIDE DEF Columns
  <2>. QED BY <1>2, <1>3, FS_UNION
<1>5. Units(f) = UNION Columns
  BY DEF Units
<1>. QED BY <1>4, <1>5, FS_CardinalityType DEF Total

\* Changing one value changes the total by the difference.
THEOREM TotalUpdate ==
  ASSUME NEW S, IsFiniteSet(S), NEW f \in [S -> Nat], NEW x \in S, NEW n \in Nat
  PROVE  Total([f EXCEPT ![x] = n]) = Total(f) - f[x] + n
<1>. DEFINE g == [f EXCEPT ![x] = n]
            rest == UNION {Column(y, f[y]) : y \in S \ {x}}
<1>1. Units(f) = rest \cup Column(x, f[x])
  BY DEF Units
<1>2. Units(g) = rest \cup Column(x, n)
  BY DEF Units
<1>3. rest \cap Column(x, f[x]) = {} /\ rest \cap Column(x, n) = {}
  BY DEF Column
<1>4. IsFiniteSet(rest)
  <2>1. rest \in SUBSET Units(f)
    BY <1>1
  <2>. QED BY <2>1, UnitsFinite, FS_Subset
<1>5. IsFiniteSet(Column(x, f[x])) /\ Cardinality(Column(x, f[x])) = f[x]
  BY ColumnSize
<1>6. IsFiniteSet(Column(x, n)) /\ Cardinality(Column(x, n)) = n
  BY ColumnSize
<1>7. Cardinality(rest) \in Nat
  BY <1>4, FS_CardinalityType
<1>. HIDE DEF rest, g
<1>8. Total(f) = Cardinality(rest) + f[x]
  BY <1>1, <1>3, <1>4, <1>5, <1>7, FS_Union, FS_EmptySet DEF Total
<1>9. Total(g) = Cardinality(rest) + n
  <2>1. Cardinality(rest \cup Column(x, n))
          = Cardinality(rest) + Cardinality(Column(x, n)) - Cardinality(rest \cap Column(x, n))
    BY <1>4, <1>6, FS_Union
  <2>2. Cardinality(rest \cap Column(x, n)) = 0
    BY <1>3, FS_EmptySet
  <2>3. Total(g) = Cardinality(rest \cup Column(x, n))
    BY <1>2 DEF Total
  <2>. QED BY <2>1, <2>2, <2>3, <1>6, <1>7
<1>. QED BY <1>7, <1>8, <1>9 DEF g

\* A function that is zero everywhere has no units.
LEMMA TotalZero ==
  ASSUME NEW S
  PROVE  Total([y \in S |-> 0]) = 0
<1>1. Units([y \in S |-> 0]) = {}
  BY DEF Units, Column
<1>. QED BY <1>1, FS_EmptySet DEF Total
=============================================================================

----------------------------- MODULE RollsProofs -----------------------------
(***************************************************************************)
(* Proofs about Rolls, for every pool of every weapon.                     *)
(***************************************************************************)
EXTENDS Rolls, FiniteSetTheorems, FunctionTheorems, SequenceTheorems,
        WellFoundedInduction, TLAPS

-----------------------------------------------------------------------------
(* Sets of numbers.                                                        *)

\* The least number of a set.
LEMMA Least ==
    ASSUME NEW S \in SUBSET Nat, S # {}
    PROVE  \E m \in S : \A n \in S : m <= n
<1>1. PICK m \in S : \A n \in S : <<n, m>> \notin OpToRel(<, Nat)
  BY NatLessThanWellFounded, WFMin
<1>2. ASSUME NEW n \in S PROVE m <= n
  <2>1. ~(n < m)
    BY <1>1 DEF OpToRel
  <2> QED
    BY <2>1
<1> QED
  BY <1>2

\* The greatest number of a bounded set.
LEMMA Greatest ==
    ASSUME NEW S \in SUBSET Nat, S # {}, NEW b \in Nat, \A n \in S : n <= b
    PROVE  \E m \in S : \A n \in S : n <= m
<1> DEFINE B == {u \in Nat : \A n \in S : n <= u}
<1>1. PICK u \in B : \A v \in B : u <= v
  <2>1. B \in SUBSET Nat /\ b \in B
    OBVIOUS
  <2> HIDE DEF B
  <2> QED
    BY <2>1, Least
<1>2. CASE u \in S
  BY <1>1, <1>2
<1>3. CASE u \notin S
  <2>1. \A n \in S : n \in Nat /\ n < u
    BY <1>1, <1>3
  <2>2. u - 1 \in Nat
    <3>1. PICK n \in S : TRUE
      OBVIOUS
    <3>2. n \in Nat /\ n < u /\ u \in Nat
      BY <1>1, <2>1
    <3> QED
      BY <3>2
  <2>3. \A n \in S : n <= u - 1
    BY <1>1, <2>1
  <2>4. u - 1 \in B
    BY <2>2, <2>3
  <2> QED
    BY <1>1, <2>4
<1> QED
  BY <1>2, <1>3

\* A finite set of numbers can be listed in ascending order: the place of a
\* number is how many are not above it.
LEMMA AscendingExists ==
    ASSUME NEW S \in SUBSET Nat, IsFiniteSet(S)
    PROVE  \E f \in [1 .. Cardinality(S) -> S] :
              \A i, j \in 1 .. Cardinality(S) : i < j => f[i] < f[j]
<1> DEFINE n == Cardinality(S)
           Upto(y) == {z \in S : z <= y}
           rank == [y \in S |-> Cardinality(Upto(y))]
<1>1. n \in Nat
  BY FS_CardinalityType
<1>2. ASSUME NEW y \in S
      PROVE  IsFiniteSet(Upto(y)) /\ rank[y] \in 1 .. n
  <2>1. IsFiniteSet(Upto(y)) /\ Cardinality(Upto(y)) <= n
    BY FS_Subset
  <2>2. y \in Upto(y)
    OBVIOUS
  <2>3. Cardinality(Upto(y)) \in Nat /\ Cardinality(Upto(y)) # 0
    BY <2>1, <2>2, FS_CardinalityType, FS_EmptySet
  <2> QED
    BY <1>1, <2>1, <2>3
<1>3. ASSUME NEW x \in S, NEW y \in S, x < y PROVE rank[x] < rank[y]
  <2>1. Upto(x) \in SUBSET Upto(y) /\ y \in Upto(y) /\ y \notin Upto(x)
    <3>1. x \in Nat /\ y \in Nat
      OBVIOUS
    <3>2. y \in Upto(y) /\ y \notin Upto(x)
      BY <1>3, <3>1
    <3>3. ASSUME NEW z \in S, z <= x PROVE z <= y
      <4>1. z \in Nat
        OBVIOUS
      <4> QED
        BY <1>3, <3>1, <3>3, <4>1
    <3> QED
      BY <3>2, <3>3
  <2>2. Cardinality(Upto(x)) <= Cardinality(Upto(y))
        /\ Cardinality(Upto(y)) # Cardinality(Upto(x))
    BY <1>2, <2>1, FS_Subset
  <2> QED
    BY <1>2, <2>2
<1> HIDE DEF rank, n
<1>4. rank \in [S -> 1 .. n]
  BY <1>2 DEF rank
<1>5. rank \in Injection(S, 1 .. n)
  <2>1. ASSUME NEW x \in S, NEW y \in S, rank[x] = rank[y] PROVE x = y
    <3>1. ~(x < y) /\ ~(y < x)
      BY <1>3, <1>4, <2>1
    <3> QED
      BY <3>1
  <2> QED
    BY <1>4, <2>1 DEF Injection, IsInjective
<1>6. rank \in Surjection(S, 1 .. n)
  <2>1. IsFiniteSet(1 .. n) /\ Cardinality(1 .. n) = n
    BY <1>1, FS_Interval
  <2> QED
    BY <1>5, <2>1, FS_Injection DEF n
<1>7. \A k \in 1 .. n : \E y \in S : rank[y] = k
  BY <1>6 DEF Surjection
<1> DEFINE f == [k \in 1 .. n |-> CHOOSE y \in S : rank[y] = k]
<1>8. \A k \in 1 .. n : f[k] \in S /\ rank[f[k]] = k
  BY <1>7
<1> HIDE DEF f
<1>9. ASSUME NEW i \in 1 .. n, NEW j \in 1 .. n, i < j PROVE f[i] < f[j]
  <2>1. /\ f[i] \in S /\ f[i] \in Nat /\ rank[f[i]] = i
        /\ f[j] \in S /\ f[j] \in Nat /\ rank[f[j]] = j
    BY <1>8
  <2>2. f[i] # f[j]
    BY <1>9, <2>1
  <2>3. ~(f[j] < f[i])
    <3>1. f[j] < f[i] => j < i
      BY <1>3, <2>1
    <3> QED
      BY <1>1, <1>9, <3>1
  <2> QED
    BY <2>1, <2>2, <2>3
<1>10. f \in [1 .. n -> S]
  BY <1>8 DEF f
<1> QED
  BY <1>9, <1>10 DEF n

\* Ascending lists every element of the set once.
LEMMA AscendingLists ==
    ASSUME NEW S \in SUBSET Nat, IsFiniteSet(S)
    PROVE  LET f == Ascending(S) IN
           /\ Cardinality(S) \in Nat
           /\ f \in [1 .. Cardinality(S) -> S]
           /\ Len(f) = Cardinality(S)
           /\ \A i, j \in 1 .. Cardinality(S) : f[i] = f[j] => i = j
           /\ \A y \in S : \E k \in 1 .. Cardinality(S) : f[k] = y
<1> DEFINE f == Ascending(S)
           n == Cardinality(S)
<1>1. n \in Nat
  BY FS_CardinalityType
<1>2. f \in [1 .. n -> S] /\ \A i, j \in 1 .. n : i < j => f[i] < f[j]
  BY AscendingExists DEF Ascending
<1> HIDE DEF f
<1>3. ASSUME NEW i \in 1 .. n, NEW j \in 1 .. n, f[i] = f[j] PROVE i = j
  <2>1. ~(i < j) /\ ~(j < i)
    <3>1. f[i] \in Nat /\ f[j] \in Nat
      BY <1>2
    <3> QED
      BY <1>2, <1>3, <3>1
  <2> QED
    BY <1>1, <2>1
<1>4. f \in Surjection(1 .. n, S)
  <2>1. f \in Injection(1 .. n, S)
    BY <1>2, <1>3 DEF Injection, IsInjective
  <2>2. Cardinality(1 .. n) = n
    BY <1>1, FS_Interval
  <2> QED
    BY <2>1, <2>2, FS_Injection
<1>5. Len(f) = n
  BY <1>1, <1>2
<1> QED
  BY <1>1, <1>2, <1>3, <1>4, <1>5 DEF Surjection, f

-----------------------------------------------------------------------------
(* The roll columns of a pool.                                             *)

PoolTyped == pool \in [Indexes -> SUBSET PerkHashes]

\* Every column that rolls has a perk to roll.
LEMMA RollPerksFacts ==
    ASSUME PoolTyped, NEW i \in RollIndexes
    PROVE  /\ i \in Indexes
           /\ RollPerks(i) # {}
           /\ RollPerks(i) \subseteq pool[i]
           /\ pool[i] \subseteq PerkHashes
           /\ pool[i] \cap (Traits \cup Enhanced \cup Origins) # {}
           /\ pool[i] \cap Enhanced # {} => RollPerks(i) \subseteq Enhanced
<1>1. i \in Indexes /\ (IsTrait(pool[i]) \/ IsOrigin(pool[i]))
  BY DEF RollIndexes
<1>2. pool[i] \subseteq PerkHashes
  BY <1>1 DEF PoolTyped
<1>3. CASE IsTrait(pool[i])
  BY <1>1, <1>2, <1>3 DEF IsTrait, RollPerks, PreferEnhanced
<1>4. CASE ~IsTrait(pool[i])
  BY <1>1, <1>2, <1>4 DEF IsTrait, IsOrigin, RollPerks
<1> QED
  BY <1>3, <1>4

\* What the columns of a pool are: the indexes that roll, each once, and in
\* each column the perks that roll, each once.
ColumnsOfPool(cols) ==
    /\ DOMAIN cols \subseteq Nat
    /\ \E b \in Nat : DOMAIN cols = 1 .. b
    /\ cols = << >> <=> RollIndexes = {}
    /\ \A k \in DOMAIN cols :
          LET perks == cols[k].perks
              i == cols[k].index
          IN  /\ i \in RollIndexes
              /\ perks \in [1 .. Len(perks) -> RollPerks(i)]
              /\ Len(perks) \in 1 .. Cardinality(PerkHashes)
              /\ \A m, n \in 1 .. Len(perks) : perks[m] = perks[n] => m = n
              /\ \A p \in RollPerks(i) : \E n \in 1 .. Len(perks) : perks[n] = p
    /\ \A j, k \in DOMAIN cols : cols[j].index = cols[k].index => j = k
    /\ \A i \in RollIndexes : \E k \in DOMAIN cols : cols[k].index = i

\* RollColumns lists them.
LEMMA RollColumnsFacts == PoolTyped => ColumnsOfPool(RollColumns)
<1> SUFFICES ASSUME PoolTyped, NEW cols, cols = RollColumns
             PROVE  ColumnsOfPool(cols)
  OBVIOUS
<1> DEFINE order == Ascending(RollIndexes)
           b == Cardinality(RollIndexes)
<1>1. RollIndexes \in SUBSET Nat /\ IsFiniteSet(RollIndexes)
  <2>1. RollIndexes \subseteq Indexes
    BY DEF RollIndexes
  <2> QED
    BY <2>1, RollsAssumption, FS_Subset
<1>2. /\ b \in Nat
      /\ order \in [1 .. b -> RollIndexes]
      /\ \A j, k \in 1 .. b : order[j] = order[k] => j = k
      /\ \A i \in RollIndexes : \E k \in 1 .. b : order[k] = i
  BY <1>1, AscendingLists
<1>3. b = 0 <=> RollIndexes = {}
  BY <1>1, FS_EmptySet
<1> HIDE DEF order, b
<1>4. cols = [k \in 1 .. b |->
                    [index |-> order[k], perks |-> Ascending(RollPerks(order[k]))]]
  BY DEF RollColumns, order, b
<1>5. /\ DOMAIN cols = 1 .. b
      /\ \A k \in 1 .. b : /\ cols[k].index = order[k]
                           /\ cols[k].perks = Ascending(RollPerks(order[k]))
  BY <1>4
<1>6. cols = << >> <=> RollIndexes = {}
  BY <1>2, <1>3, <1>5
<1>7. ASSUME NEW i \in RollIndexes
      PROVE  LET perks == Ascending(RollPerks(i)) IN
             /\ perks \in [1 .. Len(perks) -> RollPerks(i)]
             /\ Len(perks) \in 1 .. Cardinality(PerkHashes)
             /\ \A m, n \in 1 .. Len(perks) : perks[m] = perks[n] => m = n
             /\ \A p \in RollPerks(i) : \E n \in 1 .. Len(perks) : perks[n] = p
  <2> DEFINE P == RollPerks(i)
  <2>1. P \in SUBSET PerkHashes /\ P # {}
    BY RollPerksFacts
  <2> HIDE DEF P
  <2>2. P \in SUBSET Nat /\ IsFiniteSet(P) /\ IsFiniteSet(PerkHashes)
        /\ Cardinality(P) <= Cardinality(PerkHashes)
    BY <2>1, RollsAssumption, FS_Subset
  <2>3. Cardinality(P) # 0 /\ Cardinality(PerkHashes) \in Nat
    BY <2>1, <2>2, FS_EmptySet, FS_CardinalityType
  <2>4. LET f == Ascending(P) IN
        /\ Cardinality(P) \in Nat
        /\ f \in [1 .. Cardinality(P) -> P]
        /\ Len(f) = Cardinality(P)
        /\ \A m, n \in 1 .. Cardinality(P) : f[m] = f[n] => m = n
        /\ \A p \in P : \E n \in 1 .. Cardinality(P) : f[n] = p
    BY <2>2, AscendingLists
  <2>5. Cardinality(P) \in 1 .. Cardinality(PerkHashes)
    BY <2>2, <2>3, <2>4
  <2> QED
    BY <2>4, <2>5 DEF P
<1>8. ASSUME NEW k \in DOMAIN cols
      PROVE  LET perks == cols[k].perks
                 i == cols[k].index
             IN  /\ i \in RollIndexes
                 /\ perks \in [1 .. Len(perks) -> RollPerks(i)]
                 /\ Len(perks) \in 1 .. Cardinality(PerkHashes)
                 /\ \A m, n \in 1 .. Len(perks) : perks[m] = perks[n] => m = n
                 /\ \A p \in RollPerks(i) : \E n \in 1 .. Len(perks) : perks[n] = p
  <2>1. /\ order[k] \in RollIndexes
        /\ cols[k].index = order[k]
        /\ cols[k].perks = Ascending(RollPerks(order[k]))
    BY <1>2, <1>5
  <2> QED
    BY <1>7, <2>1
<1>9. \A j, k \in DOMAIN cols : cols[j].index = cols[k].index => j = k
  BY <1>2, <1>5
<1>10. \A i \in RollIndexes : \E k \in DOMAIN cols : cols[k].index = i
  BY <1>2, <1>5
<1>11. DOMAIN cols \subseteq Nat
  BY <1>2, <1>5
<1> QED
  BY <1>2, <1>5, <1>6, <1>8, <1>9, <1>10, <1>11 DEF ColumnsOfPool

\* The same of the variable that holds them.
LEMMA ColumnFacts ==
    ASSUME PoolTyped, columns = RollColumns
    PROVE  /\ DOMAIN columns \subseteq Nat
           /\ \E b \in Nat : DOMAIN columns = 1 .. b
           /\ columns = << >> <=> RollIndexes = {}
           /\ \A k \in DOMAIN columns :
                 LET perks == columns[k].perks
                     i == columns[k].index
                 IN  /\ i \in RollIndexes
                     /\ perks \in [1 .. Len(perks) -> RollPerks(i)]
                     /\ Len(perks) \in 1 .. Cardinality(PerkHashes)
                     /\ \A m, n \in 1 .. Len(perks) : perks[m] = perks[n] => m = n
                     /\ \A p \in RollPerks(i) : \E n \in 1 .. Len(perks) : perks[n] = p
           /\ \A j, k \in DOMAIN columns : columns[j].index = columns[k].index => j = k
           /\ \A i \in RollIndexes : \E k \in DOMAIN columns : columns[k].index = i
<1>1. ColumnsOfPool(columns)
  BY RollColumnsFacts
<1> QED
  BY <1>1 DEF ColumnsOfPool

\* Different positions give different combinations.
LEMMA ComboInjective ==
    ASSUME PoolTyped, columns = RollColumns,
           NEW f \in Positions, NEW g \in Positions, Combo(f) = Combo(g)
    PROVE  f = g
<1>1. ASSUME NEW k \in DOMAIN columns PROVE f[k] = g[k]
  <2>1. <<columns[k].perks[f[k]], columns[k].index>> \in Combo(g)
    BY DEF Combo
  <2>2. PICK j \in DOMAIN columns :
           /\ columns[k].perks[f[k]] = columns[j].perks[g[j]]
           /\ columns[k].index = columns[j].index
    BY <2>1 DEF Combo
  <2>3. j = k
    BY <2>2, ColumnFacts
  <2>4. f[k] \in 1 .. Len(columns[k].perks) /\ g[k] \in 1 .. Len(columns[k].perks)
    BY DEF Positions
  <2> QED
    BY <2>2, <2>3, <2>4, ColumnFacts
<1> QED
  BY <1>1 DEF Positions

-----------------------------------------------------------------------------
(* The order of the odometer.                                              *)

\* Two positions differ first in some column.
LEMMA FirstDifference ==
    ASSUME NEW f \in Positions, NEW g \in Positions, f # g,
           DOMAIN columns \subseteq Nat
    PROVE  \E k \in DOMAIN columns :
              f[k] # g[k] /\ \A j \in DOMAIN columns : j < k => f[j] = g[j]
<1> DEFINE D == {k \in DOMAIN columns : f[k] # g[k]}
<1>1. D # {}
  BY DEF Positions
<1>2. PICK k \in D : \A j \in D : k <= j
  BY <1>1, Least
<1>3. ASSUME NEW j \in DOMAIN columns, j < k PROVE f[j] = g[j]
  <2>1. j \in Nat /\ k \in Nat
    BY <1>2
  <2>2. j \notin D
    BY <1>2, <1>3, <2>1
  <2> QED
    BY <2>2
<1> QED
  BY <1>2, <1>3

\* No position comes before itself.
LEMMA BeforeIrreflexive ==
    ASSUME NEW g \in Positions PROVE ~Before(g, g)
<1> SUFFICES ASSUME NEW k \in DOMAIN columns, g[k] < g[k] PROVE FALSE
  BY DEF Before
<1>1. g[k] \in 1 .. Cardinality(PerkHashes)
  BY DEF Positions
<1>2. g[k] \in Int
  BY <1>1
<1> QED
  BY <1>2

\* When no column from k on can advance any more, a position that agrees
\* with g to the left of k comes before g or is g.
LEMMA LastPosition ==
    ASSUME PoolTyped, columns = RollColumns,
           NEW f \in Positions, NEW g \in Positions, f # g, NEW k \in Nat,
           \A j \in DOMAIN columns : j < k => f[j] = g[j],
           \A j \in DOMAIN columns : j >= k => ~(g[j] < Len(columns[j].perks))
    PROVE  Before(f, g)
<1>1. DOMAIN columns \subseteq Nat
  BY ColumnFacts
<1>2. PICK d \in DOMAIN columns :
         f[d] # g[d] /\ \A j \in DOMAIN columns : j < d => f[j] = g[j]
  BY <1>1, FirstDifference
<1>3. d >= k
  <2>1. d \in Nat /\ ~(d < k)
    BY <1>1, <1>2
  <2> QED
    BY <2>1
<1>4. /\ f[d] \in 1 .. Len(columns[d].perks)
      /\ g[d] \in 1 .. Len(columns[d].perks)
      /\ Len(columns[d].perks) \in Nat
  <2>1. Len(columns[d].perks) \in 1 .. Cardinality(PerkHashes)
    BY ColumnFacts
  <2> QED
    BY <2>1 DEF Positions
<1>5. ~(g[d] < Len(columns[d].perks))
  BY <1>3
<1>6. f[d] < g[d]
  BY <1>2, <1>4, <1>5
<1> QED
  BY <1>2, <1>6 DEF Before

\* The rightmost column that can advance.
LEMMA RightmostFacts ==
    ASSUME PoolTyped, columns = RollColumns, Advancable # {}
    PROVE  /\ Rightmost(Advancable) \in Advancable
           /\ \A j \in DOMAIN columns :
                 j > Rightmost(Advancable) => ~(odometer[j] < Len(columns[j].perks))
<1>1. PICK b \in Nat : DOMAIN columns = 1 .. b
  BY ColumnFacts
<1>2. Advancable \in SUBSET Nat /\ \A j \in Advancable : j <= b
  BY <1>1 DEF Advancable
<1>3. \E k \in Advancable : \A j \in Advancable : j <= k
  BY <1>2, Greatest
<1>4. /\ Rightmost(Advancable) \in Advancable
      /\ \A j \in Advancable : j <= Rightmost(Advancable)
  BY <1>3 DEF Rightmost
<1>5. ASSUME NEW j \in DOMAIN columns, j > Rightmost(Advancable),
             odometer[j] < Len(columns[j].perks)
      PROVE  FALSE
  <2>1. j \in Advancable
    BY <1>5 DEF Advancable
  <2>2. j \in Nat /\ Rightmost(Advancable) \in Nat
    BY <1>2, <1>4, <2>1
  <2> QED
    BY <1>4, <1>5, <2>1, <2>2
<1> QED
  BY <1>4, <1>5

\* Advancing moves to the next position: before the new one come those that
\* came before the old one, and the old one.
LEMMA NextPosition ==
    ASSUME PoolTyped, columns = RollColumns, odometer \in Positions,
           Advancable # {}, Advance(Rightmost(Advancable))
    PROVE  /\ odometer' \in Positions
           /\ \A f \in Positions :
                 Before(f, odometer') <=> Before(f, odometer) \/ f = odometer
<1> DEFINE k == Rightmost(Advancable)
<1>1. /\ k \in DOMAIN columns
      /\ odometer[k] < Len(columns[k].perks)
      /\ \A j \in DOMAIN columns : j > k => ~(odometer[j] < Len(columns[j].perks))
  BY RightmostFacts DEF Advancable
<1>2. odometer' = [j \in DOMAIN columns |-> IF j < k THEN odometer[j]
                                   ELSE IF j = k THEN odometer[j] + 1 ELSE 1]
  BY DEF Advance
<1> HIDE DEF k
<1>3. DOMAIN columns \subseteq Nat
  BY ColumnFacts
<1>4. \A j \in DOMAIN columns : /\ Len(columns[j].perks) \in 1 .. Cardinality(PerkHashes)
                                /\ Cardinality(PerkHashes) \in Nat
  BY ColumnFacts, RollsAssumption, FS_CardinalityType
<1>5. \A j \in DOMAIN columns : /\ odometer[j] \in 1 .. Len(columns[j].perks)
                                /\ odometer[j] \in Nat
  BY DEF Positions
<1>6. /\ \A j \in DOMAIN columns : j < k => odometer'[j] = odometer[j]
      /\ odometer'[k] = odometer[k] + 1
      /\ \A j \in DOMAIN columns : k < j => odometer'[j] = 1
  <2>1. \A j \in DOMAIN columns : j \in Nat /\ k \in Nat
    BY <1>1, <1>3
  <2> QED
    BY <1>1, <1>2, <2>1
<1>7. odometer' \in Positions
  <2>1. ASSUME NEW j \in DOMAIN columns
        PROVE  odometer'[j] \in 1 .. Len(columns[j].perks)
    <3>1. j < k \/ j = k \/ k < j
      BY <1>1, <1>3
    <3>2. CASE j < k
      BY <1>5, <1>6, <3>2
    <3>3. CASE j = k
      <4>1. Len(columns[k].perks) \in Nat /\ odometer[k] \in Nat
        BY <1>1, <1>4, <1>5
      <4> QED
        BY <1>1, <1>6, <3>3, <4>1
    <3>4. CASE k < j
      BY <1>4, <1>6, <3>4
    <3> QED
      BY <3>1, <3>2, <3>3, <3>4
  <2>2. \A j \in DOMAIN columns : odometer'[j] \in 1 .. Cardinality(PerkHashes)
    BY <1>4, <2>1
  <2>3. odometer' \in [DOMAIN columns -> 1 .. Cardinality(PerkHashes)]
    BY <1>2, <2>2
  <2> QED
    BY <2>1, <2>3 DEF Positions
<1>8. ASSUME NEW f \in Positions, Before(f, odometer'), f # odometer
      PROVE  Before(f, odometer)
  <2>1. PICK d \in DOMAIN columns :
           f[d] < odometer'[d] /\ \A j \in DOMAIN columns : j < d => f[j] = odometer'[j]
    BY <1>8 DEF Before
  <2>2. f[d] \in 1 .. Len(columns[d].perks) /\ f[d] \in Nat
    BY DEF Positions
  <2>3. ~(k < d)
    <3>1. ~(f[d] < 1)
      BY <2>2
    <3> QED
      BY <1>6, <2>1, <3>1
  <2>4. d \in Nat /\ k \in Nat
    BY <1>1, <1>3
  <2>5. \A j \in DOMAIN columns : j < d => f[j] = odometer[j]
    BY <1>3, <1>6, <2>1, <2>3, <2>4
  <2>6. CASE d < k
    BY <1>6, <2>1, <2>5, <2>6 DEF Before
  <2>7. CASE d = k
    <3>1. f[k] < odometer[k] \/ f[k] = odometer[k]
      BY <1>5, <1>6, <2>1, <2>2, <2>7
    <3>2. CASE f[k] < odometer[k]
      BY <1>1, <2>5, <2>7, <3>2 DEF Before
    <3>3. CASE f[k] = odometer[k]
      <4>1. ASSUME NEW j \in DOMAIN columns, j < k + 1
            PROVE  f[j] = odometer[j]
        <5>1. j < k \/ j = k
          BY <1>3, <2>4, <4>1
        <5> QED
          BY <2>5, <2>7, <3>3, <5>1
      <4>2. ASSUME NEW j \in DOMAIN columns, j >= k + 1
            PROVE  ~(odometer[j] < Len(columns[j].perks))
        <5>1. j > k
          BY <1>3, <2>4, <4>2
        <5> QED
          BY <1>1, <5>1
      <4>3. k + 1 \in Nat
        BY <2>4
      <4> QED
        BY <1>8, <4>1, <4>2, <4>3, LastPosition
    <3> QED
      BY <3>1, <3>2, <3>3
  <2> QED
    BY <2>3, <2>4, <2>6, <2>7
<1>9. Before(odometer, odometer')
  <2>1. odometer[k] < odometer'[k]
    BY <1>1, <1>5, <1>6
  <2> QED
    BY <1>1, <1>6, <2>1 DEF Before
<1>10. ASSUME NEW f \in Positions, Before(f, odometer) PROVE Before(f, odometer')
  <2>1. PICK d \in DOMAIN columns :
           f[d] < odometer[d] /\ \A j \in DOMAIN columns : j < d => f[j] = odometer[j]
    BY <1>10 DEF Before
  <2>2. f[d] \in 1 .. Len(columns[d].perks) /\ f[d] \in Nat
    BY DEF Positions
  <2>3. d \in Nat /\ k \in Nat
    BY <1>1, <1>3
  <2>4. CASE d < k
    <3>1. \A j \in DOMAIN columns : j < d => j < k
      BY <1>3, <2>3, <2>4
    <3> QED
      BY <1>6, <2>1, <2>4, <3>1 DEF Before
  <2>5. CASE d = k
    <3>1. f[k] < odometer'[k]
      BY <1>5, <1>6, <2>1, <2>2, <2>5
    <3> QED
      BY <1>1, <1>6, <2>1, <2>5, <3>1 DEF Before
  <2>6. CASE k < d
    <3>1. f[k] = odometer[k]
      BY <1>1, <2>1, <2>6
    <3>2. f[k] < odometer'[k]
      BY <1>1, <1>5, <1>6, <3>1
    <3>3. \A j \in DOMAIN columns : j < k => f[j] = odometer'[j]
      BY <1>3, <1>6, <2>1, <2>3, <2>6
    <3> QED
      BY <1>1, <3>2, <3>3 DEF Before
  <2> QED
    BY <2>3, <2>4, <2>5, <2>6
<1> QED
  BY <1>7, <1>8, <1>9, <1>10

\* At the last position every other one came before.
LEMMA AllBeforeLast ==
    ASSUME PoolTyped, columns = RollColumns, odometer \in Positions,
           Advancable = {}
    PROVE  \A f \in Positions : Before(f, odometer) \/ f = odometer
<1> SUFFICES ASSUME NEW f \in Positions, f # odometer PROVE Before(f, odometer)
  OBVIOUS
<1>1. \A j \in DOMAIN columns : j \in Nat
  BY ColumnFacts
<1>2. \A j \in DOMAIN columns : ~(j < 0)
  BY <1>1
<1>3. \A j \in DOMAIN columns : ~(odometer[j] < Len(columns[j].perks))
  BY DEF Advancable
<1> QED
  BY <1>2, <1>3, LastPosition

-----------------------------------------------------------------------------
(* The inductive invariant.                                                *)

\* A combination takes from every roll column one perk that rolls there.
LEMMA ComboTyped ==
    ASSUME PoolTyped, columns = RollColumns, NEW g \in Positions
    PROVE  /\ Combo(g) \in SUBSET (PerkHashes \X Indexes)
           /\ \A l \in Combo(g) : l[2] \in RollIndexes /\ l[1] \in RollPerks(l[2])
           /\ \A l, m \in Combo(g) : l[2] = m[2] => l = m
<1>1. ASSUME NEW k \in DOMAIN columns
      PROVE  /\ columns[k].index \in RollIndexes
             /\ columns[k].perks[g[k]] \in RollPerks(columns[k].index)
             /\ columns[k].index \in Indexes
             /\ columns[k].perks[g[k]] \in PerkHashes
  <2>1. /\ columns[k].index \in RollIndexes
        /\ columns[k].perks \in [1 .. Len(columns[k].perks)
                                    -> RollPerks(columns[k].index)]
    BY ColumnFacts
  <2>2. g[k] \in 1 .. Len(columns[k].perks)
    BY DEF Positions
  <2>3. columns[k].perks[g[k]] \in RollPerks(columns[k].index)
    BY <2>1, <2>2
  <2> QED
    BY <2>1, <2>3, RollPerksFacts
<1>2. ASSUME NEW l \in Combo(g)
      PROVE  \E k \in DOMAIN columns :
                l = <<columns[k].perks[g[k]], columns[k].index>>
  BY DEF Combo
<1>3. Combo(g) \in SUBSET (PerkHashes \X Indexes)
  BY <1>1, <1>2
<1>4. \A l \in Combo(g) : l[2] \in RollIndexes /\ l[1] \in RollPerks(l[2])
  BY <1>1, <1>2
<1>5. ASSUME NEW l \in Combo(g), NEW m \in Combo(g), l[2] = m[2] PROVE l = m
  <2>1. PICK j \in DOMAIN columns :
           l = <<columns[j].perks[g[j]], columns[j].index>>
    BY <1>2
  <2>2. PICK k \in DOMAIN columns :
           m = <<columns[k].perks[g[k]], columns[k].index>>
    BY <1>2
  <2>3. j = k
    BY <1>5, <2>1, <2>2, ColumnFacts
  <2> QED
    BY <2>1, <2>2, <2>3
<1> QED
  BY <1>3, <1>4, <1>5

\* What appending one element to a sequence makes of its elements.
LEMMA AppendFacts ==
    ASSUME NEW S, NEW s \in Seq(S), NEW e \in S
    PROVE  /\ Append(s, e) \in Seq(S)
           /\ ToSet(Append(s, e)) = ToSet(s) \cup {e}
           /\ (\A m, n \in 1 .. Len(s) : s[m] = s[n] => m = n) /\ e \notin ToSet(s)
                 => \A m, n \in 1 .. Len(Append(s, e)) :
                       Append(s, e)[m] = Append(s, e)[n] => m = n
<1> DEFINE t == Append(s, e)
<1>1. /\ t \in Seq(S) /\ Len(s) \in Nat /\ Len(t) = Len(s) + 1
      /\ t[Len(s) + 1] = e
      /\ \A i \in 1 .. Len(s) : t[i] = s[i]
  OBVIOUS
<1>2. DOMAIN s = 1 .. Len(s) /\ DOMAIN t = 1 .. Len(t)
  BY <1>1
<1> HIDE DEF t
<1>3. \A i \in 1 .. Len(t) : i \in 1 .. Len(s) \/ i = Len(s) + 1
  BY <1>1
<1>4. \A i \in 1 .. Len(s) : i \in 1 .. Len(t)
  BY <1>1
<1>5. Len(s) + 1 \in 1 .. Len(t)
  BY <1>1
<1>6. ToSet(t) = ToSet(s) \cup {e}
  BY <1>1, <1>2, <1>3, <1>4, <1>5 DEF ToSet
<1>7. ASSUME \A m, n \in 1 .. Len(s) : s[m] = s[n] => m = n, e \notin ToSet(s),
             NEW m \in 1 .. Len(t), NEW n \in 1 .. Len(t), t[m] = t[n]
      PROVE  m = n
  <2>1. \A i \in 1 .. Len(s) : s[i] # e
    BY <1>2, <1>7 DEF ToSet
  <2> QED
    BY <1>1, <1>3, <1>7, <2>1
<1> QED
  BY <1>1, <1>6, <1>7 DEF t

\* The initial state satisfies the invariant.
LEMMA RollsInvInit == Init => RollsInv
<1>1. << >> \in Seq(SUBSET (PerkHashes \X Indexes)) /\ Len(<< >>) = 0
  OBVIOUS
<1> QED
  BY <1>1 DEF Init, RollsInv, NoneYieldedTwice

\* Every step preserves the invariant.
LEMMA RollsInvNext == RollsInv /\ [Next]_vars => RollsInv'
<1> SUFFICES ASSUME RollsInv, [Next]_vars PROVE RollsInv'
  OBVIOUS
<1>t. PoolTyped
  BY DEF RollsInv, PoolTyped
<1>p. UNCHANGED pool
  BY DEF Next, CheckCap, Yield, Finished, vars
<1>r. RollColumns' = RollColumns
  BY <1>p DEF RollColumns, RollIndexes, RollPerks
<1>1. CASE UNCHANGED vars
  BY <1>1, <1>r DEF vars, RollsInv, NoneYieldedTwice, Positions, Before, Combo
<1>2. CASE CheckCap
  <2>1. /\ pc = "count" /\ columns' = RollColumns
        /\ pc' \in {"generate", "done", "skipped"}
        /\ pc' = "generate" => RollColumns # << >>
        /\ pc' = "done" => RollColumns = << >>
        /\ odometer' = [k \in DOMAIN RollColumns |-> 1]
        /\ yielded' = yielded /\ yielded = << >>
    BY <1>2 DEF CheckCap, RollsInv
  <2>2. ToSet(yielded') = {}
    BY <2>1 DEF ToSet
  <2>3. ASSUME NEW k \in DOMAIN columns'
        PROVE  Len(columns'[k].perks) \in 1 .. Cardinality(PerkHashes)
    BY <1>t, <2>1, <2>3, RollColumnsFacts DEF ColumnsOfPool
  <2>4. odometer' \in Positions'
    <3>1. ASSUME NEW k \in DOMAIN columns'
          PROVE  /\ odometer'[k] \in 1 .. Len(columns'[k].perks)
                 /\ odometer'[k] \in 1 .. Cardinality(PerkHashes)
      <4>1. Cardinality(PerkHashes) \in Nat
        BY RollsAssumption, FS_CardinalityType
      <4> QED
        BY <2>1, <2>3, <4>1
    <3> QED
      BY <2>1, <3>1 DEF Positions
  <2>5. ASSUME NEW f \in Positions' PROVE ~Before(f, odometer)'
    <3>1. \A k \in DOMAIN columns' : f[k] \in 1 .. Len(columns'[k].perks)
                                      /\ odometer'[k] = 1
      BY <2>1 DEF Positions
    <3>2. \A k \in DOMAIN columns' : ~(f[k] < odometer'[k])
      BY <3>1
    <3> QED
      BY <3>2 DEF Before
  <2>6. pc' = "generate" =>
           ToSet(yielded') = {Combo(g)' : g \in {f \in Positions' : Before(f, odometer)'}}
    BY <2>2, <2>5
  <2>7. NoneYieldedTwice'
    BY <2>1 DEF NoneYieldedTwice, RollsInv
  <2> QED
    BY <1>p, <1>r, <2>1, <2>2, <2>4, <2>6, <2>7 DEF RollsInv
<1>3. CASE Yield
  <2>1. /\ pc = "generate" /\ columns = RollColumns /\ columns # << >>
        /\ odometer \in Positions
        /\ ToSet(yielded) = {Combo(g) : g \in {f \in Positions : Before(f, odometer)}}
        /\ yielded \in Seq(SUBSET (PerkHashes \X Indexes))
        /\ NoneYieldedTwice
        /\ yielded' = Append(yielded, Combo(odometer))
        /\ columns' = columns
    BY <1>3 DEF Yield, RollsInv
  <2>2. Combo(odometer) \in SUBSET (PerkHashes \X Indexes)
    BY <1>t, <2>1, ComboTyped
  <2>3. Combo(odometer) \notin ToSet(yielded)
    <3> SUFFICES ASSUME NEW g \in Positions, Before(g, odometer),
                        Combo(g) = Combo(odometer)
                 PROVE  FALSE
      BY <2>1
    <3>1. g = odometer
      BY <1>t, <2>1, ComboInjective
    <3> QED
      BY <2>1, <3>1, BeforeIrreflexive
  <2>4. /\ yielded' \in Seq(SUBSET (PerkHashes \X Indexes))
        /\ ToSet(yielded') = ToSet(yielded) \cup {Combo(odometer)}
        /\ NoneYieldedTwice'
    BY <2>1, <2>2, <2>3, AppendFacts DEF NoneYieldedTwice
  <2>5. Positions' = Positions /\ (\A g : Combo(g)' = Combo(g))
        /\ (\A f, g : Before(f, g)' = Before(f, g))
    BY <2>1 DEF Positions, Combo, Before
  <2>6. CASE Advancable = {}
    <3>1. pc' = "done"
      BY <1>3, <2>6 DEF Yield
    <3>2. \A f \in Positions : Before(f, odometer) \/ f = odometer
      BY <1>t, <2>1, <2>6, AllBeforeLast
    <3>3. ToSet(yielded') = {Combo(g) : g \in Positions}
      BY <2>1, <2>4, <3>2
    <3>4. ToSet(yielded') = {Combo(g)' : g \in Positions'}
      BY <2>5, <3>3
    <3> QED
      BY <1>p, <1>r, <2>1, <2>4, <3>1, <3>4 DEF RollsInv
  <2>7. CASE Advancable # {}
    <3>1. pc' = "generate" /\ Advance(Rightmost(Advancable))
      BY <1>3, <2>1, <2>7 DEF Yield
    <3>2. /\ odometer' \in Positions
          /\ \A f \in Positions :
                Before(f, odometer') <=> Before(f, odometer) \/ f = odometer
      BY <1>t, <2>1, <2>7, <3>1, NextPosition
    <3>3. ToSet(yielded')
             = {Combo(g) : g \in {f \in Positions : Before(f, odometer')}}
      BY <2>1, <2>4, <3>2
    <3>4. odometer' \in Positions'
          /\ ToSet(yielded')
               = {Combo(g)' : g \in {f \in Positions' : Before(f, odometer)'}}
      BY <2>5, <3>2, <3>3
    <3> QED
      BY <1>p, <1>r, <2>1, <2>4, <3>1, <3>4 DEF RollsInv
  <2> QED
    BY <2>6, <2>7
<1>4. CASE Finished
  BY <1>1, <1>4 DEF Finished
<1> QED
  BY <1>1, <1>2, <1>3, <1>4 DEF Next

\* The invariant of roll generation.
THEOREM RollsInvariance == Spec => []RollsInv
BY RollsInvInit, RollsInvNext, PTL DEF Spec

-----------------------------------------------------------------------------
(* What follows of the rolls of a weapon.                                  *)

\* Choosing a perk in every column that rolls is choosing a position in every
\* roll column.
LEMMA PositionsAreChoices ==
    ASSUME PoolTyped, columns = RollColumns, columns # << >>
    PROVE  {Combo(g) : g \in Positions} = Combinations
<1>1. RollIndexes # {}
  BY ColumnFacts
<1> DEFINE PerkChoices == {f \in [RollIndexes -> PerkHashes] :
                             \A i \in RollIndexes : f[i] \in RollPerks(i)}
<1>2. Combinations = {{<<f[i], i>> : i \in RollIndexes} : f \in PerkChoices}
  BY <1>1 DEF Combinations
<1>3. ASSUME NEW g \in Positions
      PROVE  \E f \in PerkChoices : Combo(g) = {<<f[i], i>> : i \in RollIndexes}
  <2> DEFINE col(i) == CHOOSE k \in DOMAIN columns : columns[k].index = i
             f == [i \in RollIndexes |-> columns[col(i)].perks[g[col(i)]]]
  <2>1. ASSUME NEW i \in RollIndexes
        PROVE  col(i) \in DOMAIN columns /\ columns[col(i)].index = i
    BY ColumnFacts
  <2>2. ASSUME NEW k \in DOMAIN columns
        PROVE  /\ columns[k].index \in RollIndexes
               /\ col(columns[k].index) = k
    BY <2>1, ColumnFacts
  <2> HIDE DEF col
  <2>3. ASSUME NEW i \in RollIndexes
        PROVE  /\ f[i] = columns[col(i)].perks[g[col(i)]]
               /\ f[i] \in RollPerks(i)
               /\ <<f[i], i>> \in Combo(g)
    <3>1. <<columns[col(i)].perks[g[col(i)]], i>> \in Combo(g)
      BY <2>1 DEF Combo
    <3>2. columns[col(i)].perks[g[col(i)]] \in RollPerks(i)
      BY <3>1, ComboTyped
    <3> QED
      BY <3>1, <3>2
  <2> HIDE DEF f
  <2>4. ASSUME NEW k \in DOMAIN columns
        PROVE  <<columns[k].perks[g[k]], columns[k].index>>
                  = <<f[columns[k].index], columns[k].index>>
    BY <2>2, <2>3
  <2>5. Combo(g) = {<<f[i], i>> : i \in RollIndexes}
    BY <2>2, <2>3, <2>4 DEF Combo
  <2>6. f \in PerkChoices
    <3>1. \A i \in RollIndexes : f[i] \in PerkHashes
      BY <2>3, RollPerksFacts
    <3>2. f = [i \in RollIndexes |-> f[i]]
      BY DEF f
    <3> QED
      BY <2>3, <3>1, <3>2
  <2> QED
    BY <2>5, <2>6
<1>4. ASSUME NEW f \in PerkChoices
      PROVE  \E g \in Positions : Combo(g) = {<<f[i], i>> : i \in RollIndexes}
  <2> DEFINE pos(k) == CHOOSE n \in 1 .. Len(columns[k].perks) :
                          columns[k].perks[n] = f[columns[k].index]
             g == [k \in DOMAIN columns |-> pos(k)]
  <2>1. ASSUME NEW k \in DOMAIN columns
        PROVE  /\ columns[k].index \in RollIndexes
               /\ pos(k) \in 1 .. Len(columns[k].perks)
               /\ columns[k].perks[pos(k)] = f[columns[k].index]
               /\ Len(columns[k].perks) \in 1 .. Cardinality(PerkHashes)
    <3>1. /\ columns[k].index \in RollIndexes
          /\ Len(columns[k].perks) \in 1 .. Cardinality(PerkHashes)
          /\ \A p \in RollPerks(columns[k].index) :
                \E n \in 1 .. Len(columns[k].perks) : columns[k].perks[n] = p
      BY ColumnFacts
    <3>2. f[columns[k].index] \in RollPerks(columns[k].index)
      BY <3>1
    <3> QED
      BY <3>1, <3>2
  <2> HIDE DEF pos
  <2>2. \A k \in DOMAIN columns : pos(k) \in 1 .. Cardinality(PerkHashes)
    <3>1. Cardinality(PerkHashes) \in Nat
      BY RollsAssumption, FS_CardinalityType
    <3> QED
      BY <2>1, <3>1
  <2>3. g \in Positions
    BY <2>1, <2>2 DEF Positions
  <2>4. \A k \in DOMAIN columns :
           <<columns[k].perks[g[k]], columns[k].index>>
              = <<f[columns[k].index], columns[k].index>>
    BY <2>1
  <2> HIDE DEF g
  <2>5. \A i \in RollIndexes : \E k \in DOMAIN columns : columns[k].index = i
    BY ColumnFacts
  <2>6. Combo(g) = {<<f[i], i>> : i \in RollIndexes}
    BY <2>1, <2>4, <2>5 DEF Combo
  <2> QED
    BY <2>3, <2>6
<1> DEFINE chosen(f) == {<<f[i], i>> : i \in RollIndexes}
<1>5. /\ \A g \in Positions : \E f \in PerkChoices : Combo(g) = chosen(f)
      /\ \A f \in PerkChoices : \E g \in Positions : Combo(g) = chosen(f)
      /\ Combinations = {chosen(f) : f \in PerkChoices}
  BY <1>2, <1>3, <1>4
<1> HIDE DEF PerkChoices, chosen
<1> QED
  BY <1>5

\* The end of a generation.
LEMMA YieldedAll == RollsInv => EveryComboOnce
<1> SUFFICES ASSUME RollsInv, pc = "done"
             PROVE  /\ ToSet(yielded) = Combinations
                    /\ Len(yielded) = Cardinality(Combinations)
  BY DEF EveryComboOnce
<1>1. /\ PoolTyped
      /\ columns = RollColumns
      /\ ToSet(yielded) = IF columns = << >> THEN {} ELSE {Combo(g) : g \in Positions}
      /\ yielded \in Seq(SUBSET (PerkHashes \X Indexes))
      /\ NoneYieldedTwice
  BY DEF RollsInv, PoolTyped
<1>2. ToSet(yielded) = Combinations
  <2>1. CASE columns = << >>
    <3>1. RollIndexes = {}
      BY <1>1, <2>1, ColumnFacts
    <3> QED
      BY <1>1, <2>1, <3>1 DEF Combinations
  <2>2. CASE columns # << >>
    BY <1>1, <2>2, PositionsAreChoices
  <2> QED
    BY <2>1, <2>2
<1> DEFINE n == Len(yielded)
<1>3. n \in Nat /\ DOMAIN yielded = 1 .. n
  BY <1>1
<1>4. yielded \in Bijection(1 .. n, ToSet(yielded))
  <2>1. yielded \in [1 .. n -> ToSet(yielded)]
    BY <1>1, <1>3 DEF ToSet
  <2>2. \A i, j \in 1 .. n : yielded[i] = yielded[j] => i = j
    BY <1>1 DEF NoneYieldedTwice
  <2>3. \A e \in ToSet(yielded) : \E i \in 1 .. n : yielded[i] = e
    BY <1>3 DEF ToSet
  <2> QED
    BY <2>1, <2>2, <2>3 DEF Bijection, Injection, Surjection, IsInjective
<1>5. IsFiniteSet(1 .. n) /\ Cardinality(1 .. n) = n
  <2> HIDE DEF n
  <2> QED
    BY <1>3, FS_Interval
<1>6. Cardinality(ToSet(yielded)) = n
  BY <1>4, <1>5, FS_Bijection DEF ExistsBijection
<1> QED
  BY <1>2, <1>6

\* EveryComboOnce: a finished generation has yielded the whole cartesian
\* product of the roll columns, and no combination twice.
THEOREM GenerationIsComplete == Spec => []EveryComboOnce
BY YieldedAll, RollsInvariance, PTL

\* Every state of a generation.
LEMMA YieldedFromPool == RollsInv => RollsFromPool
<1> SUFFICES ASSUME RollsInv, NEW n \in 1 .. Len(yielded)
             PROVE  /\ \A l, m \in yielded[n] : l[2] = m[2] => l = m
                    /\ \A l \in yielded[n] :
                          /\ l[1] \in pool[l[2]]
                          /\ pool[l[2]] \cap (Traits \cup Enhanced \cup Origins) # {}
                          /\ pool[l[2]] \cap Enhanced # {} => l[1] \in Enhanced
  BY DEF RollsFromPool
<1>1. PoolTyped /\ yielded \in Seq(SUBSET (PerkHashes \X Indexes))
  BY DEF RollsInv, PoolTyped
<1>2. yielded[n] \in ToSet(yielded)
  BY <1>1 DEF ToSet
<1>3. yielded # << >>
  BY <1>1
<1>4. pc \in {"generate", "done"} /\ columns = RollColumns
  BY <1>3 DEF RollsInv
<1>5. \E g \in Positions : yielded[n] = Combo(g)
  BY <1>2, <1>4 DEF RollsInv
<1>6. PICK g \in Positions : yielded[n] = Combo(g)
  BY <1>5
<1>7. \A l, m \in yielded[n] : l[2] = m[2] => l = m
  BY <1>1, <1>4, <1>6, ComboTyped
<1>8. ASSUME NEW l \in yielded[n]
      PROVE  l[2] \in RollIndexes /\ l[1] \in RollPerks(l[2])
  BY <1>1, <1>4, <1>6, ComboTyped
<1>9. ASSUME NEW l \in yielded[n]
      PROVE  /\ l[1] \in pool[l[2]]
             /\ pool[l[2]] \cap (Traits \cup Enhanced \cup Origins) # {}
             /\ pool[l[2]] \cap Enhanced # {} => l[1] \in Enhanced
  BY <1>1, <1>8, RollPerksFacts
<1> QED
  BY <1>7, <1>9

\* RollsFromPool: whatever the state of the generation, each roll yielded has
\* one perk per column, out of the links of the weapon.
THEOREM RollsComeFromPool == Spec => []RollsFromPool
BY YieldedFromPool, RollsInvariance, PTL

-----------------------------------------------------------------------------
(* Count, and the cap.                                                     *)

\* There are only finitely many combinations.
LEMMA CombinationsFinite == PoolTyped => IsFiniteSet(Combinations)
<1> SUFFICES ASSUME PoolTyped PROVE IsFiniteSet(Combinations)
  OBVIOUS
<1> DEFINE Pairs == PerkHashes \X Indexes
<1>1. IsFiniteSet(Pairs)
  BY RollsAssumption, FS_Product
<1>2. IsFiniteSet(SUBSET Pairs)
  BY <1>1, FS_SUBSET
<1>3. Combinations \subseteq SUBSET Pairs
  <2>1. RollIndexes \subseteq Indexes
    BY DEF RollIndexes
  <2>2. ASSUME NEW f \in [RollIndexes -> PerkHashes]
        PROVE  {<<f[i], i>> : i \in RollIndexes} \in SUBSET Pairs
    BY <2>1
  <2> HIDE DEF Pairs
  <2>3. \A c \in Combinations :
           \E f \in [RollIndexes -> PerkHashes] : c = {<<f[i], i>> : i \in RollIndexes}
    BY DEF Combinations
  <2> QED
    BY <2>2, <2>3
<1> HIDE DEF Pairs
<1> QED
  BY <1>2, <1>3, FS_Subset

\* There are as many of them as positions of the odometer.
LEMMA PositionsCounted ==
    ASSUME PoolTyped, columns = RollColumns, columns # << >>
    PROVE  /\ IsFiniteSet(Positions)
           /\ Cardinality(Positions) = Cardinality(Combinations)
<1> DEFINE c == [g \in Positions |-> Combo(g)]
<1>1. c \in Injection(Positions, Combinations)
  <2>1. c \in [Positions -> Combinations]
    BY PositionsAreChoices
  <2>2. \A f, g \in Positions : c[f] = c[g] => f = g
    BY ComboInjective
  <2> HIDE DEF c
  <2> QED
    BY <2>1, <2>2 DEF Injection, IsInjective
<1>2. c \in Surjection(Positions, Combinations)
  <2>1. c \in [Positions -> Combinations]
    BY PositionsAreChoices
  <2>2. \A y \in Combinations : \E g \in Positions : c[g] = y
    BY PositionsAreChoices
  <2> HIDE DEF c
  <2> QED
    BY <2>1, <2>2 DEF Surjection
<1> HIDE DEF c
<1> QED
  BY <1>1, <1>2, CombinationsFinite, FS_Injection

\* The ways to choose a position in each of the first k columns.
Partial(k) ==
    {g \in [1 .. k -> 1 .. Cardinality(PerkHashes)] :
        \A j \in 1 .. k : g[j] \in 1 .. Len(columns[j].perks)}

\* There is one way to choose nothing, and no more ways to fill a part of the
\* columns than all of them.
LEMMA PartialCounted ==
    ASSUME PoolTyped, columns = RollColumns, columns # << >>,
           NEW b \in Nat, DOMAIN columns = 1 .. b
    PROVE  /\ Cardinality(Partial(0)) = 1
           /\ Cardinality(Partial(b)) = Cardinality(Combinations)
           /\ \A k \in 0 .. b :
                 /\ IsFiniteSet(Partial(k))
                 /\ Cardinality(Partial(k)) \in 1 .. Cardinality(Combinations)
<1> DEFINE N == Cardinality(PerkHashes)
<1>1. N \in Nat /\ \A k \in 1 .. b : Len(columns[k].perks) \in 1 .. N
  BY ColumnFacts, RollsAssumption, FS_CardinalityType
<1>2. Partial(b) = Positions
  BY DEF Partial, Positions
<1>3. IsFiniteSet(Positions) /\ Cardinality(Positions) = Cardinality(Combinations)
  BY PositionsCounted
<1> HIDE DEF N
<1>4. \A k : Partial(k) = {g \in [1 .. k -> 1 .. N] :
                               \A j \in 1 .. k : g[j] \in 1 .. Len(columns[j].perks)}
  BY DEF Partial, N
<1>5. Cardinality(Partial(0)) = 1
  <2> DEFINE none == [j \in 1 .. 0 |-> 1]
  <2>1. none \in Partial(0)
    <3>1. \A j : j \notin 1 .. 0
      OBVIOUS
    <3>2. none \in [1 .. 0 -> 1 .. N]
      BY <3>1
    <3> HIDE DEF none
    <3> QED
      BY <1>4, <3>1, <3>2
  <2>2. \A g \in Partial(0) : g = none
    BY <1>4
  <2>3. Partial(0) = {none}
    BY <2>1, <2>2
  <2> QED
    BY <2>3, FS_Singleton
<1>6. ASSUME NEW k \in 0 .. b
      PROVE  /\ IsFiniteSet(Partial(k))
             /\ Cardinality(Partial(k)) \in 1 .. Cardinality(Combinations)
  <2> DEFINE pad(g) == [j \in 1 .. b |-> IF j \in 1 .. k THEN g[j] ELSE 1]
             padded == [g \in Partial(k) |-> pad(g)]
  <2>1. ASSUME NEW g \in Partial(k) PROVE pad(g) \in Partial(b)
    <3>1. ASSUME NEW j \in 1 .. b
          PROVE  pad(g)[j] \in 1 .. N /\ pad(g)[j] \in 1 .. Len(columns[j].perks)
      BY <1>1, <1>4
    <3> HIDE DEF N
    <3> QED
      BY <1>4, <3>1
  <2>2. ASSUME NEW f \in Partial(k), NEW g \in Partial(k), pad(f) = pad(g)
        PROVE  f = g
    <3>1. ASSUME NEW j \in 1 .. k PROVE f[j] = g[j]
      <4>1. j \in 1 .. b /\ pad(f)[j] = f[j] /\ pad(g)[j] = g[j]
        OBVIOUS
      <4> QED
        BY <2>2, <4>1
    <3>2. f \in [1 .. k -> 1 .. N] /\ g \in [1 .. k -> 1 .. N]
      BY <1>4
    <3> QED
      BY <3>1, <3>2
  <2> HIDE DEF pad
  <2>3. padded \in Injection(Partial(k), Partial(b))
    BY <2>1, <2>2 DEF Injection, IsInjective
  <2>4. IsFiniteSet(Partial(k))
        /\ Cardinality(Partial(k)) <= Cardinality(Partial(b))
    BY <1>2, <1>3, <2>3, FS_Injection
  <2>5. Partial(k) # {}
    <3>1. [j \in 1 .. k |-> 1] \in Partial(k)
      BY <1>1, <1>4
    <3> QED
      BY <3>1
  <2>6. Cardinality(Partial(k)) \in Nat /\ Cardinality(Partial(k)) # 0
        /\ Cardinality(Combinations) \in Nat
    BY <1>3, <2>4, <2>5, FS_EmptySet, FS_CardinalityType
  <2> QED
    BY <1>2, <1>3, <2>4, <2>6
<1> QED
  BY <1>2, <1>3, <1>5, <1>6

\* Each column multiplies the ways by its number of perks.
LEMMA PartialMultiply ==
    ASSUME PoolTyped, columns = RollColumns, columns # << >>,
           NEW b \in Nat, DOMAIN columns = 1 .. b, NEW k \in 1 .. b
    PROVE  Cardinality(Partial(k))
              = Cardinality(Partial(k - 1)) * Len(columns[k].perks)
<1> DEFINE N == Cardinality(PerkHashes)
           n == Len(columns[k].perks)
           Pairs == Partial(k - 1) \X (1 .. n)
           longer(g, m) == [j \in 1 .. k |-> IF j = k THEN m ELSE g[j]]
           extend == [q \in Pairs |-> longer(q[1], q[2])]
<1>1. n \in 1 .. N /\ N \in Nat
  BY ColumnFacts, RollsAssumption, FS_CardinalityType
<1>2. IsFiniteSet(Partial(k - 1))
  BY PartialCounted
<1>3. IsFiniteSet(1 .. n) /\ Cardinality(1 .. n) = n
  <2> HIDE DEF n
  <2> QED
    BY <1>1, FS_Interval
<1>4. IsFiniteSet(Pairs) /\ Cardinality(Pairs) = Cardinality(Partial(k - 1)) * n
  <2> HIDE DEF n
  <2> QED
    BY <1>2, <1>3, FS_Product
<1> HIDE DEF N
<1>5. \A i : Partial(i) = {g \in [1 .. i -> 1 .. N] :
                               \A j \in 1 .. i : g[j] \in 1 .. Len(columns[j].perks)}
  BY DEF Partial, N
<1>6. ASSUME NEW g \in Partial(k - 1), NEW m \in 1 .. n
      PROVE  longer(g, m) \in Partial(k)
  <2>1. ASSUME NEW j \in 1 .. k
        PROVE  longer(g, m)[j] \in 1 .. N
               /\ longer(g, m)[j] \in 1 .. Len(columns[j].perks)
    <3>1. CASE j = k
      BY <1>1, <3>1
    <3>2. CASE j # k
      <4>1. j \in 1 .. k - 1
        BY <3>2
      <4>2. longer(g, m)[j] = g[j]
        BY <3>2
      <4> QED
        BY <1>5, <4>1, <4>2
    <3> QED
      BY <3>1, <3>2
  <2> QED
    BY <1>5, <2>1
<1>7. ASSUME NEW g \in Partial(k - 1), NEW m \in 1 .. n,
             NEW f \in Partial(k - 1), NEW l \in 1 .. n,
             longer(g, m) = longer(f, l)
      PROVE  g = f /\ m = l
  <2>1. longer(g, m)[k] = m /\ longer(f, l)[k] = l
    OBVIOUS
  <2>2. ASSUME NEW j \in 1 .. k - 1 PROVE g[j] = f[j]
    <3>1. j \in 1 .. k /\ j # k
      OBVIOUS
    <3>2. longer(g, m)[j] = g[j] /\ longer(f, l)[j] = f[j]
      BY <3>1
    <3> QED
      BY <1>7, <3>2
  <2>3. g \in [1 .. k - 1 -> 1 .. N] /\ f \in [1 .. k - 1 -> 1 .. N]
    BY <1>5
  <2> QED
    BY <1>7, <2>1, <2>2, <2>3
<1>8. ASSUME NEW h \in Partial(k)
      PROVE  \E g \in Partial(k - 1), m \in 1 .. n : longer(g, m) = h
  <2> DEFINE g == [j \in 1 .. k - 1 |-> h[j]]
  <2>1. h \in [1 .. k -> 1 .. N] /\ \A j \in 1 .. k : h[j] \in 1 .. Len(columns[j].perks)
    BY <1>5
  <2>2. g \in Partial(k - 1)
    <3>1. \A j \in 1 .. k - 1 : j \in 1 .. k
      OBVIOUS
    <3>2. g \in [1 .. k - 1 -> 1 .. N]
          /\ \A j \in 1 .. k - 1 : g[j] \in 1 .. Len(columns[j].perks)
      BY <2>1, <3>1
    <3> QED
      BY <1>5, <3>2
  <2>3. h[k] \in 1 .. n
    BY <2>1
  <2>4. longer(g, h[k]) = h
    <3>1. ASSUME NEW j \in 1 .. k PROVE longer(g, h[k])[j] = h[j]
      <4>1. j # k => j \in 1 .. k - 1
        OBVIOUS
      <4> QED
        BY <4>1
    <3> QED
      BY <2>1, <3>1
  <2> QED
    BY <2>2, <2>3, <2>4
<1> HIDE DEF longer, n
<1>9. extend \in Bijection(Pairs, Partial(k))
  <2>1. \A q \in Pairs : q[1] \in Partial(k - 1) /\ q[2] \in 1 .. n /\ q = <<q[1], q[2]>>
    OBVIOUS
  <2>2. extend \in [Pairs -> Partial(k)]
    BY <1>6, <2>1
  <2>3. \A q, r \in Pairs : extend[q] = extend[r] => q = r
    BY <1>7, <2>1
  <2>4. \A h \in Partial(k) : \E q \in Pairs : extend[q] = h
    <3> SUFFICES ASSUME NEW h \in Partial(k) PROVE \E q \in Pairs : extend[q] = h
      OBVIOUS
    <3>1. PICK g \in Partial(k - 1), m \in 1 .. n : longer(g, m) = h
      BY <1>8
    <3>2. <<g, m>> \in Pairs /\ extend[<<g, m>>] = h
      BY <3>1
    <3> QED
      BY <3>2
  <2> HIDE DEF extend, Pairs
  <2> QED
    BY <2>2, <2>3, <2>4 DEF Bijection, Injection, Surjection, IsInjective
<1> HIDE DEF extend, Pairs
<1>10. Cardinality(Partial(k)) = Cardinality(Pairs)
  BY <1>4, <1>9, FS_Bijection DEF ExistsBijection
<1> QED
  BY <1>4, <1>10 DEF n

\* The powers of two, of which nothing is known but that they are the sizes
\* of the power sets.
LEMMA PowersOfTwo ==
    ASSUME NEW n \in Nat
    PROVE  2 ^ n \in Nat /\ 2 ^ n <= 2 ^ (n + 1)
<1>1. ASSUME NEW m \in Nat
      PROVE  /\ IsFiniteSet(SUBSET (1 .. m))
             /\ Cardinality(SUBSET (1 .. m)) = 2 ^ m
             /\ Cardinality(SUBSET (1 .. m)) \in Nat
  <2>1. IsFiniteSet(1 .. m) /\ Cardinality(1 .. m) = m
    BY FS_Interval
  <2>2. IsFiniteSet(SUBSET (1 .. m)) /\ Cardinality(SUBSET (1 .. m)) = 2 ^ m
    BY <2>1, FS_SUBSET
  <2> QED
    BY <2>2, FS_CardinalityType
<1>2. SUBSET (1 .. n) \in SUBSET (SUBSET (1 .. n + 1))
  OBVIOUS
<1>3. Cardinality(SUBSET (1 .. n)) <= Cardinality(SUBSET (1 .. n + 1))
  <2>1. n + 1 \in Nat
    OBVIOUS
  <2> QED
    BY <1>1, <1>2, <2>1, FS_Subset
<1> QED
  <2>1. n + 1 \in Nat
    OBVIOUS
  <2> QED
    BY <1>1, <1>3, <2>1

\* A number that fits is its own machine integer.
LEMMA WrapFits ==
    ASSUME NEW m \in Nat, m < 2 ^ (Width - 1)
    PROVE  Wrap(m) = m
<1> DEFINE h == 2 ^ (Width - 1)
           q == 2 ^ Width
<1>1. Width - 1 \in Nat /\ (Width - 1) + 1 = Width
  BY RollsAssumption
<1>2. h \in Nat /\ q \in Nat /\ h <= q
  BY <1>1, PowersOfTwo
<1>3. Wrap(m) = IF m % q >= h THEN (m % q) - q ELSE m % q
  BY DEF Wrap
<1>4. m < h
  OBVIOUS
<1> HIDE DEF h, q
<1>5. m % q = m
  BY <1>2, <1>4
<1> QED
  BY <1>2, <1>3, <1>4, <1>5

\* As long as the number of combinations fits the integer, the product is
\* that number: neither does it wrap, nor is it 0 after the first column.
LEMMA CountIsExact ==
    ASSUME PoolTyped, columns = RollColumns, CountFits
    PROVE  Count(columns) = Cardinality(Combinations)
<1>1. PICK b \in Nat : DOMAIN columns = 1 .. b
  BY ColumnFacts
<1>2. Len(columns) = b
  <2>1. columns = [k \in 1 .. b |-> columns[k]]
    BY <1>1 DEF RollColumns
  <2> QED
    BY <2>1
<1> DEFINE IsProduct(p) ==
              p = [k \in 0 .. b |->
                      IF k = 0 THEN 0
                      ELSE Wrap((IF p[k - 1] = 0 THEN 1 ELSE p[k - 1])
                                * Len(columns[k].perks))]
           product == CHOOSE p : IsProduct(p)
<1>3. Count(columns) = product[b]
  BY <1>2 DEF Count
<1>4. CASE columns = << >>
  <2>1. b = 0
    BY <1>1, <1>4
  <2>2. IsProduct([k \in 0 .. b |-> 0])
    BY <2>1
  <2>3. IsProduct(product)
    BY <2>2
  <2> HIDE DEF product
  <2>4. product[b] = 0
    BY <2>1, <2>3
  <2>5. Combinations = {}
    BY <1>4, ColumnFacts DEF Combinations
  <2> QED
    BY <1>3, <2>4, <2>5, FS_EmptySet
<1>5. CASE columns # << >>
  <2> DEFINE size(k) == IF k = 0 THEN 0 ELSE Cardinality(Partial(k))
  <2>1. /\ Cardinality(Partial(0)) = 1
        /\ Cardinality(Partial(b)) = Cardinality(Combinations)
        /\ \A k \in 0 .. b :
              Cardinality(Partial(k)) \in 1 .. Cardinality(Combinations)
    BY <1>1, <1>5, PartialCounted
  <2>2. b # 0
    BY <1>1, <1>5
  <2>3. Cardinality(Combinations) \in Nat
    BY CombinationsFinite, FS_CardinalityType
  <2>4. ASSUME NEW k \in 1 .. b
        PROVE  size(k) = Wrap((IF size(k - 1) = 0 THEN 1 ELSE size(k - 1))
                              * Len(columns[k].perks))
    <3>1. Cardinality(Partial(k))
             = Cardinality(Partial(k - 1)) * Len(columns[k].perks)
      BY <1>1, <1>5, PartialMultiply
    <3>2. k - 1 \in 0 .. b /\ k \in 0 .. b
      OBVIOUS
    <3>3. (IF size(k - 1) = 0 THEN 1 ELSE size(k - 1)) = Cardinality(Partial(k - 1))
      BY <2>1, <3>2
    <3>4. Cardinality(Partial(k)) \in Nat
          /\ Cardinality(Partial(k)) <= Cardinality(Combinations)
      BY <2>1, <2>3, <3>2
    <3>5. Wrap(Cardinality(Partial(k))) = Cardinality(Partial(k))
      <4>1. 2 ^ (Width - 1) \in Nat
        BY RollsAssumption, PowersOfTwo
      <4> DEFINE h == 2 ^ (Width - 1)
      <4>2. Cardinality(Partial(k)) < h
        <5> HIDE DEF h
        <5>1. h \in Nat /\ Cardinality(Combinations) < h
          BY <4>1 DEF h, CountFits
        <5> QED
          BY <2>3, <3>4, <5>1
      <4> QED
        BY <3>4, <4>2, WrapFits
    <3> QED
      BY <3>1, <3>3, <3>5
  <2> DEFINE sizes == [k \in 0 .. b |-> size(k)]
  <2>5. IsProduct(sizes)
    <3>1. ASSUME NEW k \in 0 .. b
          PROVE  size(k) = IF k = 0 THEN 0
                           ELSE Wrap((IF sizes[k - 1] = 0 THEN 1 ELSE sizes[k - 1])
                                     * Len(columns[k].perks))
      <4>1. CASE k = 0
        BY <4>1
      <4>2. CASE k # 0
        <5>1. k \in 1 .. b /\ k - 1 \in 0 .. b
          BY <4>2
        <5>2. sizes[k - 1] = size(k - 1)
          BY <5>1
        <5> HIDE DEF sizes, size
        <5> QED
          BY <2>4, <4>2, <5>1, <5>2
      <4> QED
        BY <4>1, <4>2
    <3> HIDE DEF size
    <3> QED
      BY <3>1
  <2>6. IsProduct(product)
    <3> HIDE DEF IsProduct, sizes
    <3> QED
      BY <2>5
  <2> HIDE DEF product
  <2> DEFINE Wrong == {k \in 0 .. b : product[k] # sizes[k]}
  <2>7. Wrong = {}
    <3> SUFFICES ASSUME Wrong # {} PROVE FALSE
      OBVIOUS
    <3>1. PICK k \in Wrong : \A j \in Wrong : k <= j
      <4>1. Wrong \in SUBSET Nat
        OBVIOUS
      <4> HIDE DEF Wrong
      <4> QED
        BY <4>1, Least
    <3>2. k \in 0 .. b /\ product[k] # sizes[k]
      OBVIOUS
    <3>3. k # 0
      BY <2>5, <2>6, <3>2
    <3>4. k - 1 \in 0 .. b /\ k - 1 \notin Wrong
      BY <3>1, <3>2, <3>3
    <3>5. product[k - 1] = sizes[k - 1]
      BY <3>4
    <3> HIDE DEF sizes, Wrong
    <3>6. product[k] = Wrap((IF product[k - 1] = 0 THEN 1 ELSE product[k - 1])
                            * Len(columns[k].perks))
          /\ sizes[k] = Wrap((IF sizes[k - 1] = 0 THEN 1 ELSE sizes[k - 1])
                             * Len(columns[k].perks))
      BY <2>5, <2>6, <3>2, <3>3
    <3> QED
      BY <3>2, <3>5, <3>6
  <2>8. product[b] = sizes[b]
    <3>1. b \in 0 .. b
      OBVIOUS
    <3> HIDE DEF sizes
    <3> QED
      BY <2>7, <3>1
  <2>9. sizes[b] = Cardinality(Partial(b))
    BY <2>2
  <2> QED
    BY <1>3, <2>1, <2>8, <2>9
<1> QED
  BY <1>4, <1>5

\* The cap skips a weapon exactly when Count exceeds it.
LEMMA CapDecidedNext == RollsInv /\ CapDecided /\ [Next]_vars => CapDecided'
<1> SUFFICES ASSUME RollsInv, CapDecided, [Next]_vars PROVE CapDecided'
  OBVIOUS
<1>1. UNCHANGED pool
  BY DEF Next, CheckCap, Yield, Finished, vars
<1>2. RollColumns' = RollColumns
  BY <1>1 DEF RollColumns, RollIndexes, RollPerks
<1>3. CASE UNCHANGED vars
  BY <1>2, <1>3 DEF CapDecided, vars, Count
<1>4. CASE CheckCap
  <2>1. /\ columns' = RollColumns
        /\ pc' = IF Count(RollColumns) > MaxRolls THEN "skipped"
                 ELSE IF RollColumns = << >> THEN "done" ELSE "generate"
    BY <1>4 DEF CheckCap
  <2>2. Count(columns)' = Count(RollColumns)
    BY <2>1 DEF Count
  <2> QED
    BY <1>2, <2>1, <2>2 DEF CapDecided
<1>5. CASE Yield
  <2>1. pc = "generate" /\ pc' \in {"generate", "done"} /\ columns' = columns
    BY <1>5 DEF Yield
  <2>2. Count(columns)' = Count(columns)
    BY <2>1 DEF Count
  <2> QED
    BY <1>2, <2>1, <2>2 DEF CapDecided
<1>6. CASE Finished
  BY <1>3, <1>6 DEF Finished
<1> QED
  BY <1>3, <1>4, <1>5, <1>6 DEF Next

\* In every reachable state.
LEMMA CapDecidedInvariance == Spec => []CapDecided
<1>1. Init => CapDecided
  BY DEF Init, CapDecided
<1> QED
  BY <1>1, CapDecidedNext, RollsInvariance, PTL DEF Spec

\* No more is yielded than there are combinations.
LEMMA YieldedBounded == RollsInv => Len(yielded) <= Cardinality(Combinations)
<1> SUFFICES ASSUME RollsInv PROVE Len(yielded) <= Cardinality(Combinations)
  OBVIOUS
<1>1. PoolTyped /\ yielded \in Seq(SUBSET (PerkHashes \X Indexes)) /\ NoneYieldedTwice
  BY DEF RollsInv, PoolTyped
<1>2. IsFiniteSet(Combinations) /\ Cardinality(Combinations) \in Nat
  BY <1>1, CombinationsFinite, FS_CardinalityType
<1> DEFINE n == Len(yielded)
<1>3. n \in Nat /\ DOMAIN yielded = 1 .. n
  BY <1>1
<1>4. CASE yielded = << >>
  BY <1>2, <1>4
<1>5. CASE yielded # << >>
  <2>1. yielded[1] \in ToSet(yielded)
    BY <1>3, <1>5 DEF ToSet
  <2>2. columns = RollColumns /\ columns # << >>
        /\ ToSet(yielded) \subseteq {Combo(g) : g \in Positions}
    BY <1>5, <2>1 DEF RollsInv
  <2>3. ToSet(yielded) \subseteq Combinations
    BY <1>1, <2>2, PositionsAreChoices
  <2>4. yielded \in Injection(1 .. n, Combinations)
    <3>1. \A i \in 1 .. n : yielded[i] \in Combinations
      BY <1>3, <2>3 DEF ToSet
    <3>2. \A i, j \in 1 .. n : yielded[i] = yielded[j] => i = j
      BY <1>1 DEF NoneYieldedTwice
    <3>3. yielded \in [1 .. n -> Combinations]
      BY <1>1, <1>3, <3>1
    <3> QED
      BY <3>2, <3>3 DEF Injection, IsInjective
  <2>5. Cardinality(1 .. n) = n
    <3> HIDE DEF n
    <3> QED
      BY <1>3, FS_Interval
  <2>6. Cardinality(1 .. n) <= Cardinality(Combinations)
    <3> HIDE DEF n
    <3> QED
      BY <1>2, <2>4, FS_Injection
  <2> QED
    BY <2>5, <2>6
<1> QED
  BY <1>4, <1>5

\* The cap, as long as Count is exact.
LEMMA CapExact == RollsInv /\ CapDecided => (CountFits => CapHolds /\ SkippedOnlyOverCap)
<1> SUFFICES ASSUME RollsInv, CapDecided, CountFits
             PROVE  CapHolds /\ SkippedOnlyOverCap
  OBVIOUS
<1>1. PoolTyped
  BY DEF RollsInv, PoolTyped
<1>2. Cardinality(Combinations) \in Nat
  BY <1>1, CombinationsFinite, FS_CardinalityType
<1>3. pc # "count" =>
         (pc = "skipped" <=> Cardinality(Combinations) > MaxRolls)
  BY <1>1, CountIsExact DEF CapDecided
<1>4. CASE pc \in {"count", "skipped"}
  <2>1. Len(yielded) = 0
    BY <1>4 DEF RollsInv
  <2> QED
    BY <1>3, <2>1, <1>4, RollsAssumption DEF CapHolds, SkippedOnlyOverCap
<1>5. CASE pc \notin {"count", "skipped"}
  <2>1. Cardinality(Combinations) <= MaxRolls
    BY <1>2, <1>3, <1>5, RollsAssumption
  <2>2. Len(yielded) <= Cardinality(Combinations) /\ Len(yielded) \in Nat
    BY YieldedBounded DEF RollsInv
  <2> QED
    BY <1>2, <1>5, <2>1, <2>2, RollsAssumption DEF CapHolds, SkippedOnlyOverCap
<1> QED
  BY <1>4, <1>5

\* CapHolds and SkippedOnlyOverCap, for every weapon whose number of
\* combinations fits the integer in which Count multiplies: it gets all its
\* rolls or, above the cap, none.
THEOREM CapIsExact ==
    Spec => [](CountFits => CapHolds /\ SkippedOnlyOverCap)
BY CapExact, RollsInvariance, CapDecidedInvariance, PTL
=============================================================================

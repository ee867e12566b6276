-------------------------- MODULE CategorizeProofs --------------------------
(***************************************************************************)
(* Proofs about Categorize, for all weapon definitions and plug sets: what *)
(* PerkColumns computes, and the rolls of a weapon from its definition on. *)
(***************************************************************************)
EXTENDS Categorize, RollsProofs

-----------------------------------------------------------------------------
(* The plug loop.                                                          *)

Items == [plug : Nat, rolls : BOOLEAN]

KindOf(perks) ==
    IF IsTrait(perks) THEN "trait" ELSE IF IsOrigin(perks) THEN "origin" ELSE ""

\* The plugs with a name among the first m items that can roll.
NamedPlugs(items, m) ==
    {items[i].plug : i \in {j \in 1 .. m : items[j].rolls}} \cap PerkHashes

\* The column after m turns of the loop.
Scanned(col, ordinal, items, m) ==
    /\ col \in [index : {ordinal}, kind : {"trait", "origin", ""},
                perks : Seq(PerkHashes)]
    /\ ToSet(col.perks) = NamedPlugs(items, m)
    /\ \A i, j \in 1 .. Len(col.perks) : col.perks[i] = col.perks[j] => i = j
    /\ col.kind = KindOf(ToSet(col.perks))

\* A perk more makes the kind what it should be, wherever it comes.
LEMMA KindAfterFacts ==
    ASSUME NEW S, NEW p \in PerkHashes
    PROVE  KindAfter(KindOf(S), p) = KindOf(S \cup {p})
<1>1. CASE p \in Traits \cup Enhanced
  BY <1>1 DEF KindAfter, KindOf, IsTrait
<1>2. CASE p \notin Traits \cup Enhanced
  <2>1. IsTrait(S \cup {p}) <=> IsTrait(S)
    BY <1>2 DEF IsTrait
  <2>2. CASE IsTrait(S)
    BY <1>2, <2>1, <2>2 DEF KindAfter, KindOf
  <2>3. CASE ~IsTrait(S)
    <3>1. KindOf(S) # "trait"
      BY <2>3 DEF KindOf
    <3>2. CASE p \in Origins
      BY <1>2, <2>1, <2>3, <3>1, <3>2 DEF KindAfter, KindOf, IsOrigin
    <3>3. CASE p \notin Origins
      <4>1. IsOrigin(S \cup {p}) <=> IsOrigin(S)
        BY <2>1, <3>3 DEF IsOrigin
      <4> QED
        BY <1>2, <2>1, <2>3, <3>3, <4>1 DEF KindAfter, KindOf
    <3> QED
      BY <3>2, <3>3
  <2> QED
    BY <2>2, <2>3
<1> QED
  BY <1>1, <1>2

\* One turn of the loop.
LEMMA TakePlugFacts ==
    ASSUME NEW items \in Seq(Items), NEW ordinal, NEW m \in 1 .. Len(items),
           NEW col, Scanned(col, ordinal, items, m - 1)
    PROVE  Scanned(TakePlug(col, items[m]), ordinal, items, m)
<1> DEFINE item == items[m]
           p == item.plug
           old == NamedPlugs(items, m - 1)
<1>1. item \in Items /\ Len(items) \in Nat
  OBVIOUS
<1>2. /\ col \in [index : {ordinal}, kind : {"trait", "origin", ""},
                  perks : Seq(PerkHashes)]
      /\ ToSet(col.perks) = old
      /\ \A i, j \in 1 .. Len(col.perks) : col.perks[i] = col.perks[j] => i = j
      /\ col.kind = KindOf(old)
  BY DEF Scanned
<1>3. \A i \in 1 .. m : i \in 1 .. m - 1 \/ i = m
  BY <1>1
<1>4. m \in 1 .. m /\ \A i \in 1 .. m - 1 : i \in 1 .. m
  BY <1>1
<1>5. NamedPlugs(items, m)
         = IF item.rolls /\ p \in PerkHashes THEN old \cup {p} ELSE old
  BY <1>3, <1>4 DEF NamedPlugs
<1> HIDE DEF old
<1>6. CASE item.rolls /\ p \in PerkHashes \ old
  <2> DEFINE new == TakePlug(col, item)
             ps == Append(col.perks, p)
  <2>1. new.kind = KindAfter(col.kind, p) /\ new.perks = ps
    BY <1>2, <1>6 DEF TakePlug
  <2>2. /\ ps \in Seq(PerkHashes)
        /\ ToSet(ps) = old \cup {p}
        /\ \A i, j \in 1 .. Len(ps) : ps[i] = ps[j] => i = j
    <3>1. col.perks \in Seq(PerkHashes) /\ p \in PerkHashes /\ p \notin ToSet(col.perks)
      BY <1>2, <1>6
    <3> DEFINE s == col.perks
    <3>2. s \in Seq(PerkHashes) /\ p \in PerkHashes /\ p \notin ToSet(s)
          /\ ToSet(s) = old /\ \A i, j \in 1 .. Len(s) : s[i] = s[j] => i = j
      BY <1>2, <3>1
    <3> HIDE DEF s, p
    <3>3. /\ Append(s, p) \in Seq(PerkHashes)
          /\ ToSet(Append(s, p)) = ToSet(s) \cup {p}
          /\ \A i, j \in 1 .. Len(Append(s, p)) :
                Append(s, p)[i] = Append(s, p)[j] => i = j
      BY <3>2, AppendFacts
    <3> QED
      BY <3>2, <3>3 DEF s
  <2>3. NamedPlugs(items, m) = old \cup {p}
    BY <1>5, <1>6
  <2>4. KindAfter(col.kind, p) = KindOf(old \cup {p})
    BY <1>2, <1>6, KindAfterFacts
  <2>5. new \in [index : {ordinal}, kind : {"trait", "origin", ""},
                 perks : Seq(PerkHashes)]
    <3>1. new = [col EXCEPT !.kind = KindAfter(@, p), !.perks = Append(@, p)]
      BY <1>2, <1>6 DEF TakePlug
    <3>2. KindAfter(col.kind, p) \in {"trait", "origin", ""}
      BY <2>4 DEF KindOf
    <3> HIDE DEF new
    <3> QED
      BY <1>2, <2>2, <3>1, <3>2
  <2>6. /\ ToSet(new.perks) = NamedPlugs(items, m)
        /\ \A i, j \in 1 .. Len(new.perks) : new.perks[i] = new.perks[j] => i = j
        /\ new.kind = KindOf(ToSet(new.perks))
    <3> HIDE DEF new, ps
    <3> QED
      BY <1>2, <2>1, <2>2, <2>3, <2>4
  <2>7. Scanned(new, ordinal, items, m)
    <3> HIDE DEF new
    <3> QED
      BY <2>5, <2>6 DEF Scanned
  <2> QED
    BY <2>7
<1>7. CASE ~(item.rolls /\ p \in PerkHashes \ old)
  <2>1. TakePlug(col, item) = col
    BY <1>2, <1>7 DEF TakePlug
  <2>2. NamedPlugs(items, m) = old
    BY <1>5, <1>7
  <2> QED
    BY <1>2, <2>1, <2>2 DEF Scanned
<1> QED
  BY <1>6, <1>7

\* The whole loop: the turns exist, and after each the column is what it
\* should be.
LEMMA ScanFacts ==
    ASSUME NEW items \in Seq(Items), NEW ordinal
    PROVE  Scanned(Scan(ordinal, items), ordinal, items, Len(items))
<1> DEFINE l == Len(items)
           base == [index |-> ordinal, kind |-> "", perks |-> << >>]
           IsScan(a, n) == a = [m \in 0 .. n |-> IF m = 0 THEN base
                                                 ELSE TakePlug(a[m - 1], items[m])]
           after == CHOOSE a : IsScan(a, l)
<1>1. l \in Nat
  OBVIOUS
<1>2. Scan(ordinal, items) = after[l]
  BY DEF Scan
<1> HIDE DEF l, base
<1>3. \E a : IsScan(a, l)
  <2> DEFINE Missing == {n \in Nat : ~\E a : IsScan(a, n)}
  <2>1. Missing = {}
    <3> SUFFICES ASSUME Missing # {} PROVE FALSE
      OBVIOUS
    <3>1. PICK n \in Missing : \A k \in Missing : n <= k
      <4>1. Missing \in SUBSET Nat
        OBVIOUS
      <4> HIDE DEF Missing
      <4> QED
        BY <4>1, Least
    <3>2. CASE n = 0
      <4> DEFINE a == [m \in 0 .. 0 |-> base]
      <4>1. IsScan(a, 0)
        OBVIOUS
      <4> QED
        BY <3>1, <3>2, <4>1
    <3>3. CASE n # 0
      <4>1. n \in Nat /\ n - 1 \in Nat /\ n - 1 \notin Missing
        <5>1. n \in Nat
          BY <3>1
        <5>2. n - 1 \in Nat /\ ~(n <= n - 1)
          BY <3>3, <5>1
        <5> HIDE DEF Missing
        <5> QED
          BY <3>1, <5>1, <5>2
      <4>2. PICK a : IsScan(a, n - 1)
        BY <4>1
      <4> DEFINE b == [m \in 0 .. n |-> IF m = n THEN TakePlug(a[n - 1], items[n])
                                                 ELSE a[m]]
      <4>3. ASSUME NEW m \in 0 .. n
            PROVE  b[m] = IF m = 0 THEN base ELSE TakePlug(b[m - 1], items[m])
        <5>1. m # 0 => m - 1 \in 0 .. n /\ m - 1 # n
          BY <4>1
        <5>2. m # 0 => b[m - 1] = a[m - 1]
          BY <5>1
        <5>3. CASE m = n
          <6>1. b[m] = TakePlug(a[n - 1], items[n])
            BY <5>3
          <6> HIDE DEF b
          <6> QED
            BY <3>3, <5>2, <5>3, <6>1
        <5>4. CASE m # n
          <6>1. m \in 0 .. n - 1
            BY <4>1, <5>4
          <6>2. a[m] = IF m = 0 THEN base ELSE TakePlug(a[m - 1], items[m])
            BY <4>2, <6>1
          <6>3. b[m] = a[m]
            BY <5>4
          <6> HIDE DEF b
          <6> QED
            BY <5>2, <6>2, <6>3
        <5> QED
          BY <5>3, <5>4
      <4>4. IsScan(b, n)
        <5>1. b = [m \in 0 .. n |-> b[m]]
          OBVIOUS
        <5> HIDE DEF b
        <5> QED
          BY <4>3, <5>1
      <4> HIDE DEF IsScan, b
      <4> QED
        BY <4>4
    <3> QED
      BY <3>2, <3>3
  <2> HIDE DEF IsScan
  <2> QED
    BY <1>1, <2>1
<1>4. IsScan(after, l)
  <2> HIDE DEF IsScan
  <2> QED
    BY <1>3
<1> HIDE DEF after
<1>5. /\ after[0] = base
      /\ \A m \in 1 .. l : after[m] = TakePlug(after[m - 1], items[m])
  <2>1. 0 \in 0 .. l
    BY <1>1
  <2>2. \A m \in 1 .. l : m \in 0 .. l /\ m # 0
    BY <1>1
  <2> QED
    BY <1>4, <2>1, <2>2
<1> DEFINE Bad == {m \in 0 .. l : ~Scanned(after[m], ordinal, items, m)}
<1>6. Bad = {}
  <2> SUFFICES ASSUME Bad # {} PROVE FALSE
    OBVIOUS
  <2>1. PICK m \in Bad : \A k \in Bad : m <= k
    <3>1. Bad \in SUBSET Nat
      BY <1>1
    <3> HIDE DEF Bad
    <3> QED
      BY <3>1, Least
  <2>2. m \in 0 .. l /\ ~Scanned(after[m], ordinal, items, m)
    OBVIOUS
  <2>3. CASE m = 0
    <3>1. NamedPlugs(items, 0) = {}
      BY DEF NamedPlugs
    <3>2. base.perks = << >> /\ base.kind = "" /\ base.index = ordinal
      BY DEF base
    <3>3. << >> \in Seq(PerkHashes) /\ Len(<< >>) = 0 /\ ToSet(<< >>) = {}
      BY DEF ToSet
    <3>4. KindOf({}) = ""
      BY DEF KindOf, IsTrait, IsOrigin
    <3>5. base \in [index : {ordinal}, kind : {"trait", "origin", ""},
                    perks : Seq(PerkHashes)]
      BY <3>3 DEF base
    <3>6. ToSet(base.perks) = {} /\ Len(base.perks) = 0
      BY <3>2, <3>3
    <3>7. Scanned(base, ordinal, items, 0)
      <4>1. \A i, j \in 1 .. Len(base.perks) : base.perks[i] = base.perks[j] => i = j
        BY <3>6
      <4>2. base.kind = KindOf(ToSet(base.perks))
        BY <3>2, <3>4, <3>6
      <4> QED
        BY <3>1, <3>5, <3>6, <4>1, <4>2 DEF Scanned
    <3> QED
      BY <1>5, <2>2, <2>3, <3>7
  <2>4. CASE m # 0
    <3>1. m \in 1 .. l /\ m - 1 \in 0 .. l /\ m - 1 < m
      BY <1>1, <2>2, <2>4
    <3>2. m - 1 \notin Bad
      BY <2>1, <2>2, <3>1
    <3>3. Scanned(after[m - 1], ordinal, items, m - 1)
      BY <3>1, <3>2
    <3>4. Scanned(TakePlug(after[m - 1], items[m]), ordinal, items, m)
      BY <3>1, <3>3, TakePlugFacts DEF l
    <3> QED
      BY <1>5, <2>2, <3>1, <3>4
  <2> QED
    BY <2>3, <2>4
<1>7. l \in 0 .. l
  BY <1>1
<1> QED
  BY <1>2, <1>6, <1>7 DEF l

-----------------------------------------------------------------------------
(* The sorted columns.                                                     *)

\* Sorting a list without repetition puts each of its elements in one place,
\* in ascending order.
LEMMA SortedFacts ==
    ASSUME NEW S \in SUBSET Nat, NEW s \in Seq(S),
           \A i, j \in 1 .. Len(s) : s[i] = s[j] => i = j
    PROVE  /\ Sorted(s) \in Seq(S)
           /\ ToSet(Sorted(s)) = ToSet(s)
           /\ \A i, j \in 1 .. Len(Sorted(s)) : i < j => Sorted(s)[i] < Sorted(s)[j]
<1> DEFINE n == Len(s)
           Below(i) == {j \in 1 .. n : s[j] <= s[i]}
           rank == [i \in 1 .. n |-> Cardinality(Below(i))]
<1>1. n \in Nat /\ DOMAIN s = 1 .. n /\ \A i \in 1 .. n : s[i] \in S /\ s[i] \in Nat
  <2>1. n \in Nat /\ DOMAIN s = 1 .. n /\ \A i \in 1 .. n : s[i] \in S
    OBVIOUS
  <2> HIDE DEF n
  <2> QED
    BY <2>1
<1> HIDE DEF n
<1>2. ASSUME NEW i \in 1 .. n PROVE Rank(s, i) = rank[i]
  <2>1. {j \in DOMAIN s : s[j] < s[i] \/ (s[j] = s[i] /\ j <= i)} = Below(i)
    <3>1. ASSUME NEW j \in 1 .. n
          PROVE  (s[j] < s[i] \/ (s[j] = s[i] /\ j <= i)) <=> s[j] <= s[i]
      <4>1. s[j] \in Nat /\ s[i] \in Nat /\ (s[j] = s[i] => j = i)
        BY <1>1 DEF n
      <4>2. i <= i
        BY <1>1
      <4> QED
        BY <4>1, <4>2
    <3> QED
      BY <1>1, <3>1
  <2> QED
    BY <2>1 DEF Rank
<1>3. ASSUME NEW i \in 1 .. n
      PROVE  /\ IsFiniteSet(Below(i))
             /\ rank[i] = Cardinality(Below(i)) /\ rank[i] \in 1 .. n
  <2>1. IsFiniteSet(1 .. n) /\ Cardinality(1 .. n) = n
    BY <1>1, FS_Interval
  <2>2. IsFiniteSet(Below(i)) /\ Cardinality(Below(i)) <= n
    <3> DEFINE D == 1 .. n
               B == Below(i)
    <3>1. B \in SUBSET D
      OBVIOUS
    <3>2. IsFiniteSet(D) /\ Cardinality(D) = n
      BY <2>1
    <3> HIDE DEF B, D
    <3>3. IsFiniteSet(B) /\ Cardinality(B) <= n
      BY <3>1, <3>2, FS_Subset
    <3> QED
      BY <3>3 DEF B
  <2>3. i \in Below(i)
    BY <1>1
  <2>4. Cardinality(Below(i)) \in Nat /\ Cardinality(Below(i)) # 0
    BY <2>2, <2>3, FS_CardinalityType, FS_EmptySet
  <2> QED
    BY <1>1, <2>2, <2>4
<1>4. ASSUME NEW i \in 1 .. n, NEW j \in 1 .. n, s[i] < s[j]
      PROVE  rank[i] < rank[j]
  <2>1. Below(i) \in SUBSET Below(j) /\ j \in Below(j) /\ j \notin Below(i)
    <3>1. s[i] \in Nat /\ s[j] \in Nat
      BY <1>1
    <3>2. ASSUME NEW l \in 1 .. n, s[l] <= s[i] PROVE s[l] <= s[j]
      BY <1>1, <1>4, <3>1, <3>2
    <3>3. s[j] <= s[j] /\ ~(s[j] <= s[i])
      BY <1>4, <3>1
    <3> QED
      BY <3>2, <3>3
  <2>2. /\ Cardinality(Below(i)) <= Cardinality(Below(j))
        /\ Cardinality(Below(j)) # Cardinality(Below(i))
    BY <1>3, <2>1, FS_Subset
  <2>3. /\ rank[i] = Cardinality(Below(i)) /\ rank[i] \in Nat
        /\ rank[j] = Cardinality(Below(j)) /\ rank[j] \in Nat
    <3> HIDE DEF rank, Below
    <3> QED
      BY <1>1, <1>3
  <2> HIDE DEF rank, Below
  <2> QED
    BY <2>2, <2>3
<1> HIDE DEF rank
<1>5. rank \in [1 .. n -> 1 .. n]
  BY <1>3 DEF rank
<1>6. rank \in Injection(1 .. n, 1 .. n)
  <2>1. ASSUME NEW i \in 1 .. n, NEW j \in 1 .. n, rank[i] = rank[j] PROVE i = j
    <3>1. rank[i] \in 1 .. n /\ s[i] \in Nat /\ s[j] \in Nat
      BY <1>1, <1>5
    <3>2. ~(s[i] < s[j]) /\ ~(s[j] < s[i])
      BY <1>1, <1>4, <2>1, <3>1
    <3>3. s[i] = s[j]
      BY <3>1, <3>2
    <3> QED
      BY <3>3 DEF n
  <2> QED
    BY <1>5, <2>1 DEF Injection, IsInjective
<1>7. rank \in Surjection(1 .. n, 1 .. n)
  <2>1. IsFiniteSet(1 .. n)
    BY <1>1, FS_Interval
  <2> QED
    BY <1>6, <2>1, FS_Injection
<1> DEFINE at(k) == CHOOSE i \in DOMAIN s : Rank(s, i) = k
           t == Sorted(s)
<1>8. ASSUME NEW k \in 1 .. n PROVE at(k) \in 1 .. n /\ rank[at(k)] = k
  <2>1. \E i \in 1 .. n : rank[i] = k
    BY <1>7 DEF Surjection
  <2>2. \E i \in DOMAIN s : Rank(s, i) = k
    BY <1>1, <1>2, <2>1
  <2>3. at(k) \in DOMAIN s /\ Rank(s, at(k)) = k
    BY <2>2
  <2> HIDE DEF at
  <2> QED
    BY <1>1, <1>2, <2>3
<1>9. t = [k \in 1 .. n |-> s[at(k)]]
  BY <1>1 DEF Sorted
<1> HIDE DEF at, t
<1>10. DOMAIN t = 1 .. n /\ \A k \in 1 .. n : t[k] = s[at(k)] /\ t[k] \in S
  BY <1>1, <1>8, <1>9
<1>11. t \in Seq(S) /\ Len(t) = n
  <2>1. t \in [1 .. n -> S]
    BY <1>9, <1>10
  <2> QED
    BY <1>1, <2>1
<1>12. ToSet(t) = ToSet(s)
  <2>1. ASSUME NEW i \in 1 .. n PROVE \E k \in 1 .. n : t[k] = s[i]
    <3>1. rank[i] \in 1 .. n
      BY <1>5
    <3>2. at(rank[i]) \in 1 .. n /\ rank[at(rank[i])] = rank[i]
      BY <1>8, <3>1
    <3>3. at(rank[i]) = i
      BY <1>6, <3>2 DEF Injection, IsInjective
    <3> QED
      BY <1>10, <3>1, <3>3
  <2>2. ASSUME NEW k \in 1 .. n PROVE \E i \in 1 .. n : s[i] = t[k]
    BY <1>8, <1>10
  <2>3. ToSet(t) = {t[k] : k \in 1 .. n} /\ ToSet(s) = {s[k] : k \in 1 .. n}
    BY <1>1, <1>10 DEF ToSet
  <2>4. ASSUME NEW e \in ToSet(t) PROVE e \in ToSet(s)
    BY <2>2, <2>3
  <2>5. ASSUME NEW e \in ToSet(s) PROVE e \in ToSet(t)
    BY <2>1, <2>3
  <2> QED
    BY <2>4, <2>5
<1>13. ASSUME NEW i \in 1 .. n, NEW j \in 1 .. n, i < j PROVE t[i] < t[j]
  <2>1. /\ at(i) \in 1 .. n /\ rank[at(i)] = i /\ t[i] = s[at(i)] /\ t[i] \in Nat
        /\ at(j) \in 1 .. n /\ rank[at(j)] = j /\ t[j] = s[at(j)] /\ t[j] \in Nat
    BY <1>1, <1>8, <1>10
  <2>2. at(i) # at(j)
    BY <1>13, <2>1
  <2>3. s[at(i)] # s[at(j)]
    BY <2>1, <2>2 DEF n
  <2>4. ~(t[j] < t[i])
    <3>1. t[j] < t[i] => j < i
      BY <1>4, <2>1
    <3> QED
      BY <1>1, <1>13, <3>1
  <2> QED
    BY <2>1, <2>3, <2>4
<1> QED
  BY <1>11, <1>12, <1>13 DEF t

\* The rollable perks of a list of plug items.
RollableOf(items) ==
    {item.plug : item \in {i \in ToSet(items) : i.rolls}} \cap PerkHashes

\* A column keeps its ordinal, holds every rollable perk of its plug set once
\* and in ascending order, and has the kind that its perks give it.
ColumnOf(col, ordinal, perks) ==
    /\ col.index = ordinal
    /\ col.perks \in Seq(PerkHashes)
    /\ ToSet(col.perks) = perks
    /\ \A i, j \in 1 .. Len(col.perks) : i < j => col.perks[i] < col.perks[j]
    /\ col.kind = KindOf(perks)

\* Column makes such a column of any socket.
LEMMA ColumnIsSorted ==
    ASSUME NEW d, NEW ordinal, NEW n
    PROVE  ColumnOf(Column(d, ordinal, n), ordinal, RollableOf(PlugItems(d, n)))
<1> DEFINE items == PlugItems(d, n)
           col == Scan(ordinal, items)
           sorted == Sorted(col.perks)
           out == Column(d, ordinal, n)
<1>1. items \in Seq(Items)
  <2>1. << >> \in Seq(Items)
    OBVIOUS
  <2>2. \A h \in DOMAIN PlugSets : PlugSets[h] \in Seq(Items)
    BY DefinitionsAssumption DEF Items
  <2> QED
    BY <2>1, <2>2 DEF PlugItems
<1>2. out = [col EXCEPT !.perks = sorted]
  BY DEF Column
<1> HIDE DEF items, out
<1>3. Scanned(col, ordinal, items, Len(items))
  BY <1>1, ScanFacts
<1>4. NamedPlugs(items, Len(items)) = RollableOf(items)
  <2>1. DOMAIN items = 1 .. Len(items)
    BY <1>1
  <2> QED
    BY <2>1 DEF NamedPlugs, RollableOf, ToSet
<1> HIDE DEF col, sorted
<1>5. /\ col \in [index : {ordinal}, kind : {"trait", "origin", ""},
                  perks : Seq(PerkHashes)]
      /\ ToSet(col.perks) = RollableOf(items)
      /\ \A i, j \in 1 .. Len(col.perks) : col.perks[i] = col.perks[j] => i = j
      /\ col.kind = KindOf(RollableOf(items))
  BY <1>3, <1>4 DEF Scanned
<1>6. /\ sorted \in Seq(PerkHashes)
      /\ ToSet(sorted) = RollableOf(items)
      /\ \A i, j \in 1 .. Len(sorted) : i < j => sorted[i] < sorted[j]
  <2>1. PerkHashes \in SUBSET Nat
    BY RollsAssumption
  <2>2. col.perks \in Seq(PerkHashes)
    BY <1>5
  <2> DEFINE s == col.perks
  <2> HIDE DEF s
  <2>3. s \in Seq(PerkHashes) /\ \A i, j \in 1 .. Len(s) : s[i] = s[j] => i = j
    BY <1>5, <2>2 DEF s
  <2>4. /\ Sorted(s) \in Seq(PerkHashes)
        /\ ToSet(Sorted(s)) = ToSet(s)
        /\ \A i, j \in 1 .. Len(Sorted(s)) : i < j => Sorted(s)[i] < Sorted(s)[j]
    BY <2>1, <2>3, SortedFacts
  <2> QED
    BY <1>5, <2>4 DEF s, sorted
<1>7. out.index = ordinal /\ out.kind = col.kind /\ out.perks = sorted
  BY <1>2, <1>5
<1> QED
  BY <1>5, <1>6, <1>7 DEF ColumnOf, items, out

\* PerkColumns finds every column that has a rollable perk, in the order of
\* the ordinals.
LEMMA PerkColumnsFacts ==
    ASSUME NEW d \in Definitions
    PROVE  LET cols == PerkColumns(d) IN
           /\ \E b \in Nat : DOMAIN cols = 1 .. b /\ Len(cols) = b
           /\ \A k \in DOMAIN cols :
                 /\ cols[k].index \in Indexes
                 /\ ColumnOf(cols[k], cols[k].index, Rollable(d, cols[k].index))
                 /\ cols[k].perks # << >>
           /\ \A j, k \in DOMAIN cols : j < k => cols[j].index < cols[k].index
           /\ \A i \in Indexes : Rollable(d, i) # {} =>
                 \E k \in DOMAIN cols : cols[k].index = i
<1> DEFINE sockets == WeaponPerkSocketIndexes(d)
           l == Len(sockets)
           all == [k \in DOMAIN sockets |-> Column(d, k - 1, sockets[k])]
           K == {k \in DOMAIN sockets : all[k].perks # << >>}
           kept == Ascending(K)
           b == Cardinality(K)
           cols == PerkColumns(d)
<1>1. sockets \in Seq(Int) /\ \A k \in DOMAIN sockets : k - 1 \in Indexes
  BY DefinitionsAssumption
<1>2. l \in Nat /\ DOMAIN sockets = 1 .. l
  BY <1>1
<1>3. cols = [k \in DOMAIN kept |-> all[kept[k]]]
  BY DEF PerkColumns
<1>4. ASSUME NEW k \in 1 .. l
      PROVE  /\ all[k] = Column(d, k - 1, sockets[k])
             /\ Rollable(d, k - 1) = RollableOf(PlugItems(d, sockets[k]))
  <2>1. k \in Nat /\ (k - 1) + 1 = k
    BY <1>2
  <2>2. k \in DOMAIN sockets
    BY <1>2
  <2> HIDE DEF sockets
  <2> QED
    BY <2>1, <2>2 DEF Rollable, RollableOf, sockets
<1>5. \A i : Rollable(d, i) # {} => i + 1 \in DOMAIN sockets
  BY DEF Rollable
<1> HIDE DEF sockets, l, all, kept, b, cols
<1>6. ASSUME NEW k \in 1 .. l
      PROVE  ColumnOf(all[k], k - 1, Rollable(d, k - 1))
  BY <1>4, <1>6, ColumnIsSorted
<1>7. K \in SUBSET Nat /\ K \subseteq 1 .. l /\ IsFiniteSet(K)
  <2>1. K \in SUBSET (1 .. l) /\ IsFiniteSet(1 .. l)
    BY <1>2, FS_Interval
  <2>2. K \in SUBSET Nat
    BY <1>2
  <2> HIDE DEF K
  <2> QED
    BY <2>1, <2>2, FS_Subset
<1>8. \A k \in K : all[k].perks # << >>
  OBVIOUS
<1>9. \A k \in 1 .. l : all[k].perks # << >> => k \in K
  BY <1>2
<1> HIDE DEF K
<1>10. /\ b \in Nat
       /\ kept \in [1 .. b -> K]
       /\ \A j, k \in 1 .. b : j < k => kept[j] < kept[k]
       /\ \A k \in K : \E j \in 1 .. b : kept[j] = k
  <2>1. kept \in [1 .. b -> K] /\ \A j, k \in 1 .. b : j < k => kept[j] < kept[k]
    BY <1>7, AscendingExists DEF Ascending, kept, b
  <2>2. b \in Nat /\ \A k \in K : \E j \in 1 .. b : kept[j] = k
    BY <1>7, AscendingLists DEF kept, b
  <2> QED
    BY <2>1, <2>2
<1>11. DOMAIN cols = 1 .. b /\ \A k \in 1 .. b : cols[k] = all[kept[k]]
  BY <1>3, <1>10
<1>12. Len(cols) = b
  <2>1. DOMAIN kept = 1 .. b
    BY <1>10
  <2>2. cols = [k \in 1 .. b |-> all[kept[k]]]
    BY <1>3, <2>1
  <2> QED
    BY <1>10, <2>2
<1>13. ASSUME NEW k \in 1 .. b
       PROVE  /\ kept[k] \in 1 .. l
              /\ cols[k].index = kept[k] - 1
              /\ cols[k].index \in Indexes
              /\ ColumnOf(cols[k], cols[k].index, Rollable(d, cols[k].index))
              /\ cols[k].perks # << >>
  <2>1. kept[k] \in K /\ kept[k] \in 1 .. l /\ cols[k] = all[kept[k]]
    BY <1>7, <1>10, <1>11
  <2>2. ColumnOf(all[kept[k]], kept[k] - 1, Rollable(d, kept[k] - 1))
    BY <1>6, <2>1
  <2>3. cols[k].index = kept[k] - 1
    BY <2>1, <2>2 DEF ColumnOf
  <2>4. kept[k] - 1 \in Indexes
    BY <1>1, <1>2, <2>1
  <2> QED
    BY <1>8, <2>1, <2>2, <2>3, <2>4
<1>14. ASSUME NEW j \in 1 .. b, NEW k \in 1 .. b, j < k
       PROVE  cols[j].index < cols[k].index
  <2>1. kept[j] \in Nat /\ kept[k] \in Nat /\ kept[j] < kept[k]
    BY <1>7, <1>10, <1>14
  <2>2. cols[j].index = kept[j] - 1 /\ cols[k].index = kept[k] - 1
    BY <1>13
  <2> QED
    BY <2>1, <2>2
<1>15. ASSUME NEW i \in Indexes, Rollable(d, i) # {}
       PROVE  \E k \in 1 .. b : cols[k].index = i
  <2>1. i \in Nat /\ i + 1 \in 1 .. l /\ (i + 1) - 1 = i
    BY <1>2, <1>5, <1>15, RollsAssumption
  <2>2. ColumnOf(all[i + 1], i, Rollable(d, i))
    <3>1. ColumnOf(all[i + 1], (i + 1) - 1, Rollable(d, (i + 1) - 1))
      BY <1>6, <2>1
    <3> QED
      BY <2>1, <3>1
  <2>3. all[i + 1].perks # << >>
    <3>1. ToSet(<< >>) = {}
      BY DEF ToSet
    <3> QED
      BY <1>15, <2>2, <3>1 DEF ColumnOf
  <2>4. PICK k \in 1 .. b : kept[k] = i + 1
    BY <1>9, <1>10, <2>1, <2>3
  <2> QED
    BY <1>13, <2>1, <2>4
<1> QED
  BY <1>10, <1>11, <1>12, <1>13, <1>14, <1>15 DEF cols

-----------------------------------------------------------------------------
(* The invariant.                                                          *)

\* The union of the columns at an ordinal is the full pool of that ordinal.
LEMMA PoolIsRollable ==
    ASSUME NEW d \in Definitions, NEW i \in Indexes
    PROVE  UNION {ToSet(PerkColumns(d)[k].perks) :
                     k \in {m \in DOMAIN PerkColumns(d) : PerkColumns(d)[m].index = i}}
              = Rollable(d, i)
<1> DEFINE cols == PerkColumns(d)
<1>1. /\ \A k \in DOMAIN cols :
            ToSet(cols[k].perks) = Rollable(d, cols[k].index)
      /\ Rollable(d, i) # {} => \E k \in DOMAIN cols : cols[k].index = i
  BY PerkColumnsFacts DEF ColumnOf
<1> HIDE DEF cols
<1>2. \A k \in {m \in DOMAIN cols : cols[m].index = i} :
         ToSet(cols[k].perks) = Rollable(d, i)
  BY <1>1
<1>3. UNION {ToSet(cols[k].perks) : k \in {m \in DOMAIN cols : cols[m].index = i}}
         = Rollable(d, i)
  <2> DEFINE A == {m \in DOMAIN cols : cols[m].index = i}
             R == Rollable(d, i)
  <2>1. /\ \A k \in A : ToSet(cols[k].perks) = R
        /\ R # {} => \E k \in A : TRUE
    BY <1>1, <1>2
  <2> HIDE DEF A, R
  <2>2. UNION {ToSet(cols[k].perks) : k \in A} = R
    <3>1. CASE A = {}
      BY <2>1, <3>1
    <3>2. CASE A # {}
      BY <2>1, <3>2
    <3> QED
      BY <3>1, <3>2
  <2> QED
    BY <2>2 DEF A, R
<1> QED
  BY <1>3 DEF cols

\* The initial state satisfies the invariant.
LEMMA CategorizeInvInit == CInit => CategorizeInv
BY DEF CInit, CategorizeInv

\* Every step preserves it.
LEMMA CategorizeInvNext == CategorizeInv /\ [CNext]_cvars => CategorizeInv'
<1> SUFFICES ASSUME CategorizeInv, [CNext]_cvars PROVE CategorizeInv'
  OBVIOUS
<1>1. CASE UNCHANGED cvars
  <2>1. UNCHANGED vars /\ UNCHANGED <<def, perkColumns, weapon>>
    BY <1>1 DEF cvars
  <2>2. CASE pc = "derive"
    BY <2>1, <2>2 DEF CategorizeInv, vars
  <2>3. CASE pc # "derive"
    <3>1. RollsInv' /\ CapDecided'
      BY <2>1, <2>3, RollsInvNext, CapDecidedNext DEF CategorizeInv
    <3> QED
      BY <2>1, <2>3, <3>1 DEF CategorizeInv, vars
  <2> QED
    BY <2>2, <2>3
<1>2. CASE Derive
  <2>1. /\ pc = "derive" /\ pc' = "count" /\ def \in Definitions /\ def' = def
        /\ perkColumns' = PerkColumns(def)
        /\ weapon' = Weapon(def, perkColumns')
        /\ columns' = << >> /\ yielded' = << >>
    BY <1>2 DEF Derive, CategorizeInv
  <2>2. pool' = [i \in Indexes |-> Rollable(def, i)]
    <3>1. pool' = [i \in Indexes |->
                      UNION {ToSet(PerkColumns(def)[k].perks) :
                                k \in {m \in DOMAIN PerkColumns(def) :
                                          PerkColumns(def)[m].index = i}}]
      BY <1>2, <2>1 DEF Derive
    <3> QED
      BY <2>1, <3>1, PoolIsRollable
  <2>3. pool' \in [Indexes -> SUBSET PerkHashes]
    BY <2>2 DEF Rollable
  <2>4. RollsInv'
    <3>1. << >> \in Seq(SUBSET (PerkHashes \X Indexes)) /\ Len(<< >>) = 0
      OBVIOUS
    <3> QED
      BY <2>1, <2>3, <3>1 DEF RollsInv, NoneYieldedTwice
  <2>5. CapDecided'
    BY <2>1 DEF CapDecided
  <2> QED
    BY <2>1, <2>2, <2>4, <2>5 DEF CategorizeInv
<1>3. CASE Generation
  <2>1. pc # "derive" /\ pc' # "derive" /\ UNCHANGED pool
    BY <1>3 DEF Generation, Next, CheckCap, Yield, Finished, vars
  <2>2. RollsInv' /\ CapDecided'
    BY <1>3, <2>1, RollsInvNext, CapDecidedNext DEF CategorizeInv, Generation
  <2> QED
    BY <1>3, <2>1, <2>2 DEF CategorizeInv, Generation
<1> QED
  BY <1>1, <1>2, <1>3 DEF CNext

\* The invariant of the derivation and the generation together.
THEOREM CategorizeInvariance == CSpec => []CategorizeInv
BY CategorizeInvInit, CategorizeInvNext, PTL DEF CSpec

-----------------------------------------------------------------------------
(* What follows for a weapon, from its definition to its rolls.            *)

\* ColumnsAreThePool: the links of a weapon are all the perks that can roll,
\* each once, in ascending columns and ascending within them, whatever its
\* plug sets retire, repeat, misorder or name without a definition.
THEOREM ColumnsAreAlwaysThePool == CSpec => []ColumnsAreThePool
<1>1. CategorizeInv => ColumnsAreThePool
  <2> SUFFICES ASSUME CategorizeInv, pc # "derive"
               PROVE  /\ \A i \in Indexes : pool[i] = Rollable(def, i)
                      /\ \A k \in 2 .. Len(perkColumns) :
                            perkColumns[k - 1].index < perkColumns[k].index
                      /\ \A k \in DOMAIN perkColumns :
                            LET perks == perkColumns[k].perks
                            IN  \A n \in 2 .. Len(perks) : perks[n - 1] < perks[n]
    BY DEF ColumnsAreThePool
  <2>1. /\ def \in Definitions /\ perkColumns = PerkColumns(def)
        /\ \A i \in Indexes : pool[i] = Rollable(def, i)
    BY DEF CategorizeInv
  <2>2. /\ \E b \in Nat : DOMAIN perkColumns = 1 .. b /\ Len(perkColumns) = b
        /\ \A k \in DOMAIN perkColumns :
              ColumnOf(perkColumns[k], perkColumns[k].index,
                       Rollable(def, perkColumns[k].index))
        /\ \A j, k \in DOMAIN perkColumns :
              j < k => perkColumns[j].index < perkColumns[k].index
    BY <2>1, PerkColumnsFacts
  <2>3. ASSUME NEW k \in 2 .. Len(perkColumns)
        PROVE  perkColumns[k - 1].index < perkColumns[k].index
    <3>1. k - 1 \in DOMAIN perkColumns /\ k \in DOMAIN perkColumns /\ k - 1 < k
      BY <2>2
    <3> QED
      BY <2>2, <3>1
  <2>4. ASSUME NEW k \in DOMAIN perkColumns,
               NEW n \in 2 .. Len(perkColumns[k].perks)
        PROVE  perkColumns[k].perks[n - 1] < perkColumns[k].perks[n]
    <3> DEFINE perks == perkColumns[k].perks
    <3>1. /\ perks \in Seq(PerkHashes)
          /\ \A i, j \in 1 .. Len(perks) : i < j => perks[i] < perks[j]
      BY <2>2 DEF ColumnOf
    <3>2. n \in 2 .. Len(perks)
      OBVIOUS
    <3> HIDE DEF perks
    <3>3. n - 1 \in 1 .. Len(perks) /\ n \in 1 .. Len(perks) /\ n - 1 < n
      BY <3>1, <3>2
    <3>4. perks[n - 1] < perks[n]
      BY <3>1, <3>3
    <3> QED
      BY <3>4 DEF perks
  <2> QED
    BY <2>1, <2>3, <2>4
<1> QED
  BY <1>1, CategorizeInvariance, PTL

\* KindsAgree: the kind of a column, worked out plug by plug, is the kind of
\* its set of perks.
THEOREM KindsAlwaysAgree == CSpec => []KindsAgree
<1>1. CategorizeInv => KindsAgree
  <2> SUFFICES ASSUME CategorizeInv, NEW k \in DOMAIN perkColumns
               PROVE  perkColumns[k].kind = KindOf(ToSet(perkColumns[k].perks))
    BY DEF KindsAgree, KindOf
  <2>1. pc # "derive" /\ def \in Definitions /\ perkColumns = PerkColumns(def)
    BY DEF CategorizeInv
  <2>2. ColumnOf(perkColumns[k], perkColumns[k].index,
                 Rollable(def, perkColumns[k].index))
    BY <2>1, PerkColumnsFacts
  <2> QED
    BY <2>2 DEF ColumnOf
<1> QED
  BY <1>1, CategorizeInvariance, PTL

\* A weapon is enhanceable exactly when a column of its pool has an enhanced
\* trait.
LEMMA EnhanceableFacts ==
    ASSUME CategorizeInv, pc # "derive"
    PROVE  weapon.enhanceable <=> \E i \in Indexes : pool[i] \cap Enhanced # {}
<1>1. /\ def \in Definitions /\ perkColumns = PerkColumns(def)
      /\ weapon = Weapon(def, perkColumns)
      /\ \A i \in Indexes : pool[i] = Rollable(def, i)
  BY DEF CategorizeInv
<1>2. weapon.enhanceable <=>
         \E k \in DOMAIN perkColumns : ToSet(perkColumns[k].perks) \cap Enhanced # {}
  BY <1>1 DEF Weapon, Enhanceable
<1>3. /\ \A k \in DOMAIN perkColumns :
            /\ perkColumns[k].index \in Indexes
            /\ ColumnOf(perkColumns[k], perkColumns[k].index,
                        Rollable(def, perkColumns[k].index))
      /\ \A i \in Indexes : Rollable(def, i) # {} =>
            \E k \in DOMAIN perkColumns : perkColumns[k].index = i
  BY <1>1, PerkColumnsFacts
<1>4. \A k \in DOMAIN perkColumns :
         ToSet(perkColumns[k].perks) = pool[perkColumns[k].index]
  BY <1>1, <1>3 DEF ColumnOf
<1> QED
  BY <1>1, <1>2, <1>3, <1>4

\* EnhanceableRolls: the flag promises an enhanced trait, and the rolls keep
\* the promise: each has one, or none has and the flag is not set.
THEOREM EnhanceableIsKept == CSpec => []EnhanceableRolls
<1>1. CategorizeInv => EnhanceableRolls
  <2> SUFFICES ASSUME CategorizeInv, pc = "done"
               PROVE  /\ weapon.enhanceable => yielded # << >>
                      /\ \A n \in DOMAIN yielded :
                            weapon.enhanceable <=> \E l \in yielded[n] : l[1] \in Enhanced
    BY DEF EnhanceableRolls
  <2>1. RollsInv /\ PoolTyped /\ columns = RollColumns
    BY DEF CategorizeInv, RollsInv, PoolTyped
  <2>2. weapon.enhanceable <=> \E i \in Indexes : pool[i] \cap Enhanced # {}
    BY EnhanceableFacts
  <2>3. ASSUME NEW i \in Indexes, pool[i] \cap Enhanced # {}
        PROVE  i \in RollIndexes /\ RollPerks(i) \subseteq Enhanced
    <3>1. IsTrait(pool[i])
      BY <2>3 DEF IsTrait
    <3>2. i \in RollIndexes
      BY <3>1 DEF RollIndexes
    <3> QED
      BY <2>1, <2>3, <3>2, RollPerksFacts
  <2>4. ToSet(yielded) = Combinations
    BY <2>1, YieldedAll DEF EveryComboOnce
  <2>5. DOMAIN yielded = 1 .. Len(yielded) /\ Len(yielded) \in Nat
    BY <2>1 DEF RollsInv
  <2>6. ASSUME weapon.enhanceable PROVE yielded # << >>
    <3>1. RollIndexes # {}
      BY <2>2, <2>3, <2>6
    <3>2. Combinations # {}
      <4> DEFINE f == [i \in RollIndexes |-> CHOOSE p \in RollPerks(i) : TRUE]
      <4>1. ASSUME NEW i \in RollIndexes
            PROVE  f[i] \in RollPerks(i) /\ f[i] \in PerkHashes
        <5>1. RollPerks(i) # {} /\ RollPerks(i) \subseteq PerkHashes
          BY <2>1, RollPerksFacts
        <5> QED
          BY <5>1
      <4>2. f \in [RollIndexes -> PerkHashes]
        BY <4>1
      <4> HIDE DEF f
      <4>3. {<<f[i], i>> : i \in RollIndexes} \in Combinations
        BY <3>1, <4>1, <4>2 DEF Combinations
      <4> QED
        BY <4>3
    <3>3. ToSet(<< >>) = {}
      BY DEF ToSet
    <3> QED
      BY <2>4, <3>2, <3>3
  <2>7. ASSUME NEW n \in DOMAIN yielded
        PROVE  weapon.enhanceable <=> \E l \in yielded[n] : l[1] \in Enhanced
    <3>1. yielded[n] \in Combinations
      BY <2>4 DEF ToSet
    <3>2. PICK f \in [RollIndexes -> PerkHashes] :
             /\ \A i \in RollIndexes : f[i] \in RollPerks(i)
             /\ yielded[n] = {<<f[i], i>> : i \in RollIndexes}
      BY <3>1 DEF Combinations
    <3>3. ASSUME NEW i \in Indexes, pool[i] \cap Enhanced # {}
          PROVE  \E l \in yielded[n] : l[1] \in Enhanced
      <4>1. <<f[i], i>> \in yielded[n] /\ f[i] \in Enhanced
        BY <2>3, <3>2, <3>3
      <4> QED
        BY <4>1
    <3>4. ASSUME NEW l \in yielded[n], l[1] \in Enhanced
          PROVE  \E i \in Indexes : pool[i] \cap Enhanced # {}
      <4>1. PICK i \in RollIndexes : l = <<f[i], i>>
        BY <3>2
      <4>2. f[i] \in Enhanced /\ f[i] \in pool[i] /\ i \in Indexes
        BY <2>1, <3>2, <3>4, <4>1, RollPerksFacts
      <4> QED
        BY <4>2
    <3> QED
      BY <2>2, <3>3, <3>4
  <2> QED
    BY <2>6, <2>7
<1> QED
  BY <1>1, CategorizeInvariance, PTL

\* EveryComboOnce and RollsFromPool of the pool that PerkColumns derived.
THEOREM DerivedRolls == CSpec => [](EveryComboOnce /\ RollsFromPool)
<1>1. CategorizeInv => EveryComboOnce /\ RollsFromPool
  <2>1. ASSUME pc = "derive", yielded = << >>
        PROVE  EveryComboOnce /\ RollsFromPool
    <3>1. Len(yielded) = 0
      BY <2>1
    <3> QED
      BY <2>1, <3>1 DEF EveryComboOnce, RollsFromPool
  <2> QED
    BY <2>1, YieldedAll, YieldedFromPool DEF CategorizeInv
<1> QED
  BY <1>1, CategorizeInvariance, PTL

\* CapHolds and SkippedOnlyOverCap of the same, while Count does not overflow.
THEOREM DerivedCap == CSpec => [](CountFits => CapHolds /\ SkippedOnlyOverCap)
<1>1. CategorizeInv => (CountFits => CapHolds /\ SkippedOnlyOverCap)
  <2>1. ASSUME pc = "derive", yielded = << >>
        PROVE  CapHolds /\ SkippedOnlyOverCap
    <3>1. Len(yielded) = 0
      BY <2>1
    <3> QED
      BY <2>1, <3>1, RollsAssumption DEF CapHolds, SkippedOnlyOverCap
  <2> QED
    BY <2>1, CapExact DEF CategorizeInv
<1> QED
  BY <1>1, CategorizeInvariance, PTL

=============================================================================

----------------------------- MODULE Categorize -----------------------------
(***************************************************************************)
(* processOne from the definition of a weapon on: categorize.PerkColumns   *)
(* and categorize.Weapon, then the roll generation of Rolls over the       *)
(* columns they found.  Rolls keeps a column as the set of its perks; the  *)
(* code keeps a sorted slice and a kind it works out plug by plug.         *)
(***************************************************************************)
EXTENDS Rolls

CONSTANTS
    Definitions,    \* weapon definitions
    PlugSets,       \* Lookups.PlugSets : hash -> sequence of plug items
    Collectibles    \* Lookups.Collectibles : hash -> [live, source]

\* 0 is the absent hash.
ASSUME CategorizeAssumption ==
    /\ DOMAIN PlugSets \subseteq Nat \ {0}
    /\ DOMAIN Collectibles \subseteq Nat \ {0}

VARIABLES
    def,            \* the definition
    perkColumns,    \* what PerkColumns returned
    weapon          \* the flags of the row that Weapon returned

cvars == <<vars, def, perkColumns, weapon>>

-----------------------------------------------------------------------------
(* PerkColumns.                                                            *)

\* The first category of the kind counts; none is an empty list.
WeaponPerkSocketIndexes(d) ==
    LET perks == {n \in DOMAIN d.categories : d.categories[n].kind = "perks"}
    IN  IF perks = {} THEN << >>
        ELSE d.categories[CHOOSE n \in perks : \A m \in perks : n <= m].indexes

\* Lookups.PlugSets holds lists of plug items; Indexes has every ordinal.
ASSUME DefinitionsAssumption ==
    /\ \A h \in DOMAIN PlugSets : PlugSets[h] \in Seq([plug : Nat, rolls : BOOLEAN])
    /\ \A d \in Definitions :
          /\ WeaponPerkSocketIndexes(d) \in Seq(Int)
          /\ \A k \in DOMAIN WeaponPerkSocketIndexes(d) : k - 1 \in Indexes

\* The plug items of socket n, 0-based; none for an index out of range, a
\* socket without plug set or a plug set that is not in the lookup.
PlugItems(d, n) ==
    IF n \notin 0 .. Len(d.sockets) - 1 THEN << >>
    ELSE LET entry == d.sockets[n + 1]
             hash == IF entry.randomized # 0 THEN entry.randomized
                                             ELSE entry.reusable
         IN  IF hash \in DOMAIN PlugSets THEN PlugSets[hash] ELSE << >>

\* Faulty variant: the last trait or origin plug decides.
KindAfterLast(kind, plug) ==
    IF plug \in Traits \cup Enhanced THEN "trait"
    ELSE IF plug \in Origins THEN "origin" ELSE kind

\* A trait makes a trait column, whatever the order of the plugs.
KindAfter(kind, plug) ==
    IF plug \in Traits \cup Enhanced THEN "trait"
    ELSE IF plug \in Origins /\ kind # "trait" THEN "origin" ELSE kind

\* Faulty variant: no `seen`.
TakePlugAgain(col, item) ==
    IF item.rolls /\ item.plug \in PerkHashes
    THEN [col EXCEPT !.kind = KindAfter(@, item.plug),
                     !.perks = Append(@, item.plug)]
    ELSE col

\* One turn of the plug loop.  Lookups.Plugs has a name for PerkHashes only.
\* `seen` is the list of perks: a plug without a name leaves no trace.
TakePlug(col, item) ==
    IF item.rolls /\ item.plug \in PerkHashes \ ToSet(col.perks)
    THEN [col EXCEPT !.kind = KindAfter(@, item.plug),
                     !.perks = Append(@, item.plug)]
    ELSE col

\* The plug loop of one column.
Scan(ordinal, items) ==
    LET after[m \in 0 .. Len(items)] ==
            IF m = 0 THEN [index |-> ordinal, kind |-> "", perks |-> << >>]
            ELSE TakePlug(after[m - 1], items[m])
    IN  after[Len(items)]

\* An element's place in the sorted sequence: how many are not above it.
Rank(s, i) ==
    Cardinality({j \in DOMAIN s : s[j] < s[i] \/ (s[j] = s[i] /\ j <= i)})

Sorted(s) == [k \in DOMAIN s |-> s[CHOOSE i \in DOMAIN s : Rank(s, i) = k]]

Column(d, ordinal, n) ==
    LET col == Scan(ordinal, PlugItems(d, n))
    IN  [col EXCEPT !.perks = Sorted(@)]

\* Columns without perks are omitted, and the others keep their ordinal.
PerkColumns(d) ==
    LET sockets == WeaponPerkSocketIndexes(d)
        all == [k \in DOMAIN sockets |-> Column(d, k - 1, sockets[k])]
        kept == Ascending({k \in DOMAIN sockets : all[k].perks # << >>})
    IN  [k \in DOMAIN kept |-> all[kept[k]]]

-----------------------------------------------------------------------------
(* Weapon.                                                                 *)

Live(d) == d.collectible \in DOMAIN Collectibles /\ Collectibles[d.collectible].live

\* Faulty variant: the search ends with the first column.
EnhanceableFirst(cols) ==
    cols # << >> /\ ToSet(cols[1].perks) \cap Enhanced # {}

Enhanceable(cols) ==
    \E k \in DOMAIN cols : ToSet(cols[k].perks) \cap Enhanced # {}

Weapon(d, cols) ==
    [craftable   |-> d.recipe,
     obtainable  |-> Live(d) \/ d.recipe,
     source      |-> Live(d) /\ Collectibles[d.collectible].source,
     enhanceable |-> Enhanceable(cols)]

-----------------------------------------------------------------------------
NoFlags == [craftable |-> FALSE, obtainable |-> FALSE, source |-> FALSE,
            enhanceable |-> FALSE]

CInit ==
    /\ def \in Definitions
    /\ perkColumns = << >>
    /\ weapon = NoFlags
    /\ pool = [i \in Indexes |-> {}]
    /\ columns = << >>
    /\ pc = "derive"
    /\ odometer = << >>
    /\ yielded = << >>

\* PerkColumns and Weapon.  Rolls goes on from the sets of perks.
Derive ==
    /\ pc = "derive"
    /\ perkColumns' = PerkColumns(def)
    /\ weapon' = Weapon(def, perkColumns')
    /\ pool' = [i \in Indexes |->
                   UNION {ToSet(perkColumns'[k].perks) :
                             k \in {m \in DOMAIN perkColumns' :
                                       perkColumns'[m].index = i}}]
    /\ pc' = "count"
    /\ UNCHANGED <<columns, odometer, yielded, def>>

Generation == Next /\ UNCHANGED <<def, perkColumns, weapon>>

CNext == Derive \/ Generation

CSpec == CInit /\ [][CNext]_cvars

-----------------------------------------------------------------------------
(* Properties.                                                             *)

\* The reference for one column: "every rollable perk in every WEAPON PERKS
\* column" (README, Roll semantics).
Rollable(d, ordinal) ==
    LET sockets == WeaponPerkSocketIndexes(d)
    IN  IF ordinal + 1 \notin DOMAIN sockets THEN {}
        ELSE {item.plug : item \in {i \in ToSet(PlugItems(d, sockets[ordinal + 1])) :
                                        i.rolls}} \cap PerkHashes

\* ColumnsAreThePool: the links are the full pool, and "column indexes are
\* unique by construction" (processOne), as are the perks of a column, which
\* the primary keys of weapon_perk and roll_perk rely on; columns and perks
\* come in ascending order however the plug sets repeat and order their plugs.
ColumnsAreThePool ==
    pc # "derive" =>
        /\ \A i \in Indexes : pool[i] = Rollable(def, i)
        /\ \A k \in 2 .. Len(perkColumns) :
              perkColumns[k - 1].index < perkColumns[k].index
        /\ \A k \in DOMAIN perkColumns :
              LET perks == perkColumns[k].perks
              IN  \A n \in 2 .. Len(perks) : perks[n - 1] < perks[n]

\* KindsAgree: the kind worked out plug by plug does not depend on the order
\* of the plugs, so the columns RollColumns chooses by kind are the columns
\* chosen by what they contain.
KindsAgree ==
    \A k \in DOMAIN perkColumns :
        LET perks == ToSet(perkColumns[k].perks)
        IN  perkColumns[k].kind = IF IsTrait(perks) THEN "trait"
                                  ELSE IF IsOrigin(perks) THEN "origin" ELSE ""

\* EnhanceableRolls: the flag that Weapon derives from all columns agrees
\* with the rolls generated from some of them: an enhanceable weapon has an
\* enhanced perk in each of its rolls, any other weapon in none.
EnhanceableRolls ==
    pc = "done" =>
        /\ weapon.enhanceable => yielded # << >>
        /\ \A n \in DOMAIN yielded :
              weapon.enhanceable <=> \E l \in yielded[n] : l[1] \in Enhanced

-----------------------------------------------------------------------------
(* The inductive invariant (CategorizeProofs): what was derived is a       *)
(* function of the definition, and Rolls runs on the full pool.            *)

CategorizeInv ==
    /\ def \in Definitions
    /\ pc = "derive" =>
          perkColumns = << >> /\ columns = << >> /\ yielded = << >>
    /\ pc # "derive" =>
          /\ perkColumns = PerkColumns(def)
          /\ weapon = Weapon(def, perkColumns)
          /\ \A i \in Indexes : pool[i] = Rollable(def, i)
          /\ RollsInv
          /\ CapDecided
=============================================================================

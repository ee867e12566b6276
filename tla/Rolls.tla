-------------------------------- MODULE Rolls --------------------------------
(***************************************************************************)
(* The roll skeletons of one weapon: categorize.RollColumns chooses the    *)
(* columns, rolls.Count and the safety cap of processOne decide whether to *)
(* generate, and rolls.Generate steps an odometer through the columns,     *)
(* yielding one combination at a time.                                     *)
(***************************************************************************)
EXTENDS Integers, Sequences, FiniteSets, SequencesExt

CONSTANTS
    Traits,     \* hashes of base traits
    Enhanced,   \* hashes of enhanced traits
    Origins,    \* hashes of origin traits
    Hardware,   \* hashes of barrels, magazines and the like
    Indexes,    \* column ordinals
    MaxRolls,   \* MaxRollsPerWeapon
    Width       \* bits of the integer that Count computes in

PerkHashes == Traits \cup Enhanced \cup Origins \cup Hardware

ASSUME RollsAssumption ==
    /\ PerkHashes \subseteq Nat /\ IsFiniteSet(PerkHashes)
    /\ Indexes \subseteq Nat /\ IsFiniteSet(Indexes)
    /\ MaxRolls \in Nat
    /\ Width \in Nat \ {0}

VARIABLES
    pool,       \* pool[i] : the perks of column i; {} where there is none
    columns,    \* the roll columns, sorted by index
    pc,         \* "count", "generate", "done" or "skipped"
    odometer,   \* positions, 1-based, one per roll column
    yielded     \* the combinations yielded so far

vars == <<pool, columns, pc, odometer, yielded>>

-----------------------------------------------------------------------------
(* categorize.RollColumns.                                                 *)

\* A column is a trait column as soon as it has a trait, else an origin
\* column when it has an origin trait.
IsTrait(perks) == perks \cap (Traits \cup Enhanced) # {}
IsOrigin(perks) == ~IsTrait(perks) /\ perks \cap Origins # {}

\* Faulty variant: base and enhanced traits multiply one another.
PreferNone(perks) == perks

PreferEnhanced(perks) ==
    IF perks \cap Enhanced # {} THEN perks \cap Enhanced ELSE perks

\* Origin traits alone do not make a roll.
RollIndexes ==
    IF \E i \in Indexes : IsTrait(pool[i])
    THEN {i \in Indexes : IsTrait(pool[i]) \/ IsOrigin(pool[i])} ELSE {}

RollPerks(i) == IF IsTrait(pool[i]) THEN PreferEnhanced(pool[i]) ELSE pool[i]

\* A set of numbers in ascending order.
Ascending(S) ==
    CHOOSE f \in [1 .. Cardinality(S) -> S] :
        \A i, j \in 1 .. Cardinality(S) : i < j => f[i] < f[j]

\* Columns in the order of their index, perks in the order of their hash.
RollColumns ==
    LET order == Ascending(RollIndexes)
    IN  [k \in 1 .. Cardinality(RollIndexes) |->
            [index |-> order[k], perks |-> Ascending(RollPerks(order[k]))]]

-----------------------------------------------------------------------------
(* rolls.Count.                                                            *)

\* Two's complement of the given width.
Wrap(n) ==
    LET m == n % 2 ^ Width
    IN  IF m >= 2 ^ (Width - 1) THEN m - 2 ^ Width ELSE m

\* The running product restarts at 1 whenever it is 0, which is meant for
\* the first column.
Count(cols) ==
    LET product[k \in 0 .. Len(cols)] ==
            IF k = 0 THEN 0
            ELSE Wrap((IF product[k - 1] = 0 THEN 1 ELSE product[k - 1])
                      * Len(cols[k].perks))
    IN  product[Len(cols)]

-----------------------------------------------------------------------------
(* rolls.Generate.                                                         *)

\* The combination at positions g, as its set of (perk, column) pairs.
Combo(g) == {<<columns[k].perks[g[k]], columns[k].index>> : k \in DOMAIN columns}

\* Columns that have not reached their last perk.
Advancable == {k \in DOMAIN columns : odometer[k] < Len(columns[k].perks)}

Rightmost(S) == CHOOSE k \in S : \A j \in S : j <= k

\* Faulty variant: the columns to the right keep their position.
AdvanceNoReset(k) == odometer' = [odometer EXCEPT ![k] = @ + 1]

\* Advance position k; the exhausted ones to its right start over.
Advance(k) ==
    odometer' = [j \in DOMAIN columns |-> IF j < k THEN odometer[j]
                                     ELSE IF j = k THEN odometer[j] + 1 ELSE 1]

Yield ==
    /\ pc = "generate"
    /\ yielded' = Append(yielded, Combo(odometer))
    /\ IF Advancable = {}
       THEN pc' = "done" /\ UNCHANGED odometer
       ELSE Advance(Rightmost(Advancable)) /\ pc' = pc
    /\ UNCHANGED <<pool, columns>>

\* Faulty variants: the cap is off by one, either way.
CheckCapLoose ==
    /\ pc = "count"
    /\ columns' = RollColumns
    /\ pc' = IF Count(RollColumns) > MaxRolls + 1 THEN "skipped"
             ELSE IF RollColumns = << >> THEN "done" ELSE "generate"
    /\ odometer' = [k \in DOMAIN RollColumns |-> 1]
    /\ UNCHANGED <<pool, yielded>>

CheckCapStrict ==
    /\ pc = "count"
    /\ columns' = RollColumns
    /\ pc' = IF Count(RollColumns) >= MaxRolls THEN "skipped"
             ELSE IF RollColumns = << >> THEN "done" ELSE "generate"
    /\ odometer' = [k \in DOMAIN RollColumns |-> 1]
    /\ UNCHANGED <<pool, yielded>>

\* processOne: over the cap, the weapon keeps its links but gets no rolls.
CheckCap ==
    /\ pc = "count"
    /\ columns' = RollColumns
    /\ pc' = IF Count(RollColumns) > MaxRolls THEN "skipped"
             ELSE IF RollColumns = << >> THEN "done" ELSE "generate"
    /\ odometer' = [k \in DOMAIN RollColumns |-> 1]
    /\ UNCHANGED <<pool, yielded>>

Finished == pc \in {"done", "skipped"} /\ UNCHANGED vars

Init ==
    /\ pool \in [Indexes -> SUBSET PerkHashes]
    /\ columns = << >>
    /\ pc = "count"
    /\ odometer = << >>
    /\ yielded = << >>

Next == CheckCap \/ Yield \/ Finished

Spec == Init /\ [][Next]_vars

-----------------------------------------------------------------------------
(* Properties.                                                             *)

\* The reference: one perk of every roll column, in all possible ways.
Combinations ==
    IF RollIndexes = {} THEN {}
    ELSE {{<<f[i], i>> : i \in RollIndexes} :
             f \in {g \in [RollIndexes -> PerkHashes] :
                       \A i \in RollIndexes : g[i] \in RollPerks(i)}}

\* EveryComboOnce: a finished generation has yielded every combination and
\* none twice, so the combo keys of a weapon are complete and unique.
EveryComboOnce ==
    pc = "done" => /\ ToSet(yielded) = Combinations
                   /\ Len(yielded) = Cardinality(Combinations)

\* CapHolds: "a 1M-combination cap per weapon guards against pathological
\* future manifests" (README, Design notes).
CapHolds == Len(yielded) <= MaxRolls

\* SkippedOnlyOverCap: a weapon with no more combinations than the cap
\* never loses its rolls, and with them its curated scores.
SkippedOnlyOverCap == pc = "skipped" => Cardinality(Combinations) > MaxRolls

\* Count computes in a signed integer of Width bits; a weapon with more
\* combinations than it holds can slip under the cap (run rolls_overflow).
CountFits == Cardinality(Combinations) < 2 ^ (Width - 1)

\* RollsFromPool: every roll takes its perks from the weapon's links, one
\* per column, never a hardware column, and no base trait in a column that
\* has an enhanced one.
RollsFromPool ==
    \A n \in 1 .. Len(yielded) :
        /\ \A l, m \in yielded[n] : l[2] = m[2] => l = m
        /\ \A l \in yielded[n] :
              /\ l[1] \in pool[l[2]]
              /\ pool[l[2]] \cap (Traits \cup Enhanced \cup Origins) # {}
              /\ pool[l[2]] \cap Enhanced # {} => l[1] \in Enhanced

-----------------------------------------------------------------------------
(* The inductive invariant (RollsProofs): the odometer counts through the  *)
(* positions in lexicographic order, and what has been yielded are the     *)
(* combinations at the positions before it.                                *)

Positions ==
    {g \in [DOMAIN columns -> 1 .. Cardinality(PerkHashes)] :
        \A k \in DOMAIN columns : g[k] \in 1 .. Len(columns[k].perks)}

Before(f, g) ==
    \E k \in DOMAIN columns :
        f[k] < g[k] /\ \A j \in DOMAIN columns : j < k => f[j] = g[j]

NoneYieldedTwice ==
    \A m, n \in 1 .. Len(yielded) : yielded[m] = yielded[n] => m = n

RollsInv ==
    /\ pc \in {"count", "generate", "done", "skipped"}
    /\ pool \in [Indexes -> SUBSET PerkHashes]
    /\ pc \in {"count", "skipped"} => yielded = << >>
    /\ pc \in {"generate", "done"} => columns = RollColumns
    /\ pc = "generate" =>
          /\ columns # << >>
          /\ odometer \in Positions
          /\ ToSet(yielded) = {Combo(g) : g \in {f \in Positions : Before(f, odometer)}}
    /\ pc = "done" =>
          ToSet(yielded) = IF columns = << >> THEN {} ELSE {Combo(g) : g \in Positions}
    /\ yielded \in Seq(SUBSET (PerkHashes \X Indexes))
    /\ NoneYieldedTwice

\* What the cap has decided.
CapDecided ==
    pc # "count" => /\ columns = RollColumns
                    /\ pc = "skipped" <=> Count(columns) > MaxRolls
=============================================================================

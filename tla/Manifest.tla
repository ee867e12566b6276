------------------------------ MODULE Manifest ------------------------------
(***************************************************************************)
(* What one Bungie manifest version says, after internal/categorize and    *)
(* internal/rolls have derived it: the rows, links and rolls that one      *)
(* import has to put into the database.  Derivation is pure, so a version  *)
(* determines all of it; the values themselves are abstract.               *)
(***************************************************************************)
EXTENDS Naturals, FiniteSets

CONSTANTS
    Versions,   \* manifest version strings
    Weapons,    \* weapon hashes; results are written in ascending order
    Perks,      \* perk hashes
    Columns,    \* perk column ordinals
    Facts,      \* identity rows: every non-key column of one perk or weapon
    NoRow,      \* the absent table row, or the absent manifest entry
    PerkOf,     \* PerkOf[v][p]   : what version v says of perk p
    WeaponOf,   \* WeaponOf[v][w] : what version v says of weapon w, or NoRow
    PoolOf,     \* PoolOf[v][w]   : the links (perk, column) of weapon w
    CombosOf    \* CombosOf[v][w] : the rolls of weapon w; {} when their
                \* number exceeds MaxRollsPerWeapon (processOne's cap)

Links == Perks \X Columns

ASSUME ManifestAssumption ==
    /\ Weapons \subseteq Nat
    /\ IsFiniteSet(Weapons)
    /\ NoRow \notin Facts \cup Versions
    /\ PerkOf \in [Versions -> [Perks -> Facts]]
    /\ WeaponOf \in [Versions -> [Weapons -> Facts \cup {NoRow}]]
    /\ PoolOf \in [Versions -> [Weapons -> SUBSET Links]]
    /\ CombosOf \in [Versions -> [Weapons -> SUBSET SUBSET Links]]

\* rolls.Generate picks from categorize.RollColumns, which only filters
\* the columns that become links.
ASSUME CombosWithinPool ==
    \A v \in Versions, w \in Weapons :
        \A c \in CombosOf[v][w] : c \subseteq PoolOf[v][w]

\* The hash of a combination is its ComboKey; SHA-256 is taken as injective,
\* so the combination stands for its key.
ComboKeys == UNION {CombosOf[v][w] : v \in Versions, w \in Weapons}

WeaponsOf(v) == {w \in Weapons : WeaponOf[v][w] # NoRow}

PerksIn(links) == {l[1] : l \in links}

\* The deduplicated perk batch that write() builds from every column.
PerksOf(v) == UNION {PerksIn(PoolOf[v][w]) : w \in WeaponsOf(v)}
=============================================================================

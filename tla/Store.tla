------------------------------- MODULE Store -------------------------------
(***************************************************************************)
(* The tables of last_light_armory and the statements of internal/db that  *)
(* change them.  Each statement is one atomic step of the database: the    *)
(* upserts and ReplaceWeaponPerks are single SQL statements, ReplaceRolls  *)
(* is one transaction.  A table is a total function in which NoRow marks   *)
(* an absent row.  Serial ids are left out: no statement ever deletes a    *)
(* perk or weapon row, so the hash stands for the id.  updated_at and      *)
(* last_checked_at, which no code reads, are left out.                     *)
(***************************************************************************)
EXTENDS Manifest

CONSTANTS
    Scores,     \* what last-light-armory may write into a score column
    Null        \* SQL NULL

VARIABLES
    perk,        \* perk[p]        : identity row or NoRow
    weapon,      \* weapon[w]      : identity row or NoRow
    weapon_perk, \* weapon_perk[w] : the set of links of weapon w
    roll,        \* roll[w][c]     : the score of roll c, Null, or NoRow
    sync         \* manifest_sync_state: [version, changed_at]

tables == <<perk, weapon, weapon_perk, roll, sync>>
content == <<perk, weapon, weapon_perk, roll>>

ASSUME StoreAssumption == NoRow \notin Scores \cup {Null}

\* last_changed_at: 0 is NULL.  Only whether it moves is ever of interest,
\* so a clock of two alternating readings stands for now().
Times == 0 .. 2
Now(t) == IF t = 1 THEN 2 ELSE 1

StoreTypeOK ==
    /\ perk \in [Perks -> Facts \cup {NoRow}]
    /\ weapon \in [Weapons -> Facts \cup {NoRow}]
    /\ weapon_perk \in [Weapons -> SUBSET Links]
    /\ roll \in [Weapons -> [ComboKeys -> Scores \cup {Null, NoRow}]]
    /\ sync \in [version : Versions \cup {NoRow}, changed_at : Times]

StoreInit ==
    /\ perk = [p \in Perks |-> NoRow]
    /\ weapon = [w \in Weapons |-> NoRow]
    /\ weapon_perk = [w \in Weapons |-> {}]
    /\ roll = [w \in Weapons |-> [c \in ComboKeys |-> NoRow]]
    /\ sync = [version |-> NoRow, changed_at |-> 0]

StoredPerks == {p \in Perks : perk[p] # NoRow}
StoredRolls(w) == {c \in ComboKeys : roll[w][c] # NoRow}

-----------------------------------------------------------------------------
(* The statements.                                                         *)

\* Faulty variants, each caught by a property: the batch only updates; the
\* batch replaces the whole table; the rows outside the batch are lost.
UpsertPerksUpdateOnly(ps, row) ==
    /\ perk' = [p \in Perks |-> IF p \in ps /\ perk[p] # NoRow
                                THEN row[p] ELSE perk[p]]
    /\ UNCHANGED <<weapon, weapon_perk, roll, sync>>

UpsertPerksReload(ps, row) ==
    /\ perk' = [p \in Perks |-> IF p \in ps THEN row[p] ELSE NoRow]
    /\ UNCHANGED <<weapon, weapon_perk, roll, sync>>

UpsertPerksTruncate(ps, row) ==
    /\ perk' = [p \in ps |-> row[p]]
    /\ UNCHANGED <<weapon, weapon_perk, roll, sync>>

UpsertPerks(ps, row) ==
    /\ perk' = [p \in Perks |-> IF p \in ps THEN row[p] ELSE perk[p]]
    /\ UNCHANGED <<weapon, weapon_perk, roll, sync>>

UpsertWeapons(ws, row) ==
    /\ weapon' = [w \in Weapons |-> IF w \in ws THEN row[w] ELSE weapon[w]]
    /\ UNCHANGED <<perk, weapon_perk, roll, sync>>

\* A link whose perk has no row falls out of the JOIN without an error; a
\* weapon without a row makes the whole statement a no-op.
ReplaceWeaponPerks(w, links) ==
    /\ weapon_perk' = IF weapon[w] = NoRow THEN weapon_perk
                      ELSE [weapon_perk EXCEPT ![w] =
                               {l \in links : perk[l[1]] # NoRow}]
    /\ UNCHANGED <<perk, weapon, roll, sync>>

\* The transaction rolls back when the weapon has no row, or when a roll it
\* is about to insert names a perk that perkIDs does not have.
RollsResolve(w, combos, perkIDs) ==
    /\ weapon[w] # NoRow
    /\ \A c \in combos \ StoredRolls(w) : PerksIn(c) \subseteq perkIDs

\* Faulty variant: delete all, insert all.
ReplaceRollsReload(w, combos, perkIDs) ==
    /\ roll' = [roll EXCEPT ![w] = [c \in ComboKeys |->
                   IF c \in combos THEN Null ELSE NoRow]]
    /\ UNCHANGED <<perk, weapon, weapon_perk, sync>>

\* Faulty variant: stale rolls stay.
ReplaceRollsNoPrune(w, combos, perkIDs) ==
    /\ roll' = IF RollsResolve(w, combos, perkIDs)
               THEN [roll EXCEPT ![w] = [c \in ComboKeys |->
                        IF c \in combos /\ roll[w][c] = NoRow THEN Null
                        ELSE roll[w][c]]]
               ELSE roll
    /\ UNCHANGED <<perk, weapon, weapon_perk, sync>>

\* Stale rolls are pruned, new ones are inserted unscored, the others keep
\* their row and with it the curated score.
ReplaceRolls(w, combos, perkIDs) ==
    /\ roll' = IF RollsResolve(w, combos, perkIDs)
               THEN [roll EXCEPT ![w] = [c \in ComboKeys |->
                        IF c \notin combos THEN NoRow
                        ELSE IF roll[w][c] = NoRow THEN Null ELSE roll[w][c]]]
               ELSE roll
    /\ UNCHANGED <<perk, weapon, weapon_perk, sync>>

UpsertSyncState(v, changed) ==
    /\ sync' = [version |-> v,
                changed_at |-> IF changed THEN Now(sync.changed_at)
                               ELSE sync.changed_at]
    /\ UNCHANGED content

\* The scoring job of last-light-armory writes a score column of a roll.
ScoreRoll(w, c, s) ==
    /\ roll[w][c] # NoRow
    /\ roll' = [roll EXCEPT ![w][c] = s]
    /\ UNCHANGED <<perk, weapon, weapon_perk, sync>>

-----------------------------------------------------------------------------
(* What it means for the database to hold a manifest version.              *)

PerksMatch(v) == \A p \in PerksOf(v) : perk[p] = PerkOf[v][p]
WeaponsMatch(v) == \A w \in WeaponsOf(v) : weapon[w] = WeaponOf[v][w]
LinksMatch(v, w) == weapon_perk[w] = PoolOf[v][w]
RollsMatch(v, w) == StoredRolls(w) = CombosOf[v][w]

\* Weapons a version no longer lists are left as they were: nothing in the
\* code deletes a weapon row.
Holds(v) ==
    /\ PerksMatch(v)
    /\ WeaponsMatch(v)
    /\ \A w \in WeaponsOf(v) : LinksMatch(v, w) /\ RollsMatch(v, w)
=============================================================================

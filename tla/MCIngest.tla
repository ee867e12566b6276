------------------------------ MODULE MCIngest ------------------------------
(***************************************************************************)
(* Small manifests for the model checker.  From v1 to v2 weapon 1 is       *)
(* renamed and re-rolled, weapon 2 keeps links but no rolls (no trait      *)
(* column, or over the cap), weapon 3 is new; perk "a" leaves the manifest *)
(* and perk "b" is renamed.                                                *)
(***************************************************************************)
EXTENDS Ingest, TLC

MCVersions == {"v1", "v2"}
MCWeapons == 1 .. 3
MCPerks == {"a", "b"}
MCColumns == {0}
MCFacts == {"old", "new"}

A0 == <<"a", 0>>
B0 == <<"b", 0>>

MCPerkOf == [v \in MCVersions |->
    [p \in MCPerks |-> IF v = "v2" /\ p = "b" THEN "new" ELSE "old"]]

MCWeaponOf == [v \in MCVersions |-> [w \in MCWeapons |->
    CASE w = 1 -> IF v = "v1" THEN "old" ELSE "new"
      [] w = 2 -> "old"
      [] w = 3 -> IF v = "v1" THEN NoRow ELSE "old"]]

MCPoolOf == [v \in MCVersions |-> [w \in MCWeapons |->
    CASE w = 1 -> IF v = "v1" THEN {A0} ELSE {B0}
      [] w = 2 -> IF v = "v1" THEN {A0, B0} ELSE {B0}
      [] w = 3 -> IF v = "v1" THEN {} ELSE {B0}]]

MCCombosOf == [v \in MCVersions |-> [w \in MCWeapons |->
    CASE w = 1 -> IF v = "v1" THEN {{A0}} ELSE {{B0}}
      [] w = 2 -> IF v = "v1" THEN {{A0}, {B0}} ELSE {}
      [] w = 3 -> IF v = "v1" THEN {} ELSE {{B0}}]]

Upgrade == {<<"v1", "v2">>}
UpgradeAndRollback == {<<"v1", "v2">>, <<"v2", "v1">>}
\* Hosts differ in nothing.
HostSymmetry == Permutations(Hosts)
=============================================================================

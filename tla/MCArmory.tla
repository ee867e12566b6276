------------------------------ MODULE MCArmory ------------------------------
(***************************************************************************)
(* Two weapons: the first is new in v2; from v1 to v2 the second is        *)
(* renamed, gets a new perk and loses its rolls.                           *)
(***************************************************************************)
EXTENDS Armory

MCVersions == {"v1", "v2"}
MCWeapons == 1 .. 2
MCPerks == {"a", "b"}
MCColumns == {0}
MCFacts == {"old", "new"}

A0 == <<"a", 0>>
B0 == <<"b", 0>>

MCPerkOf == [v \in MCVersions |-> [p \in MCPerks |-> "old"]]

MCWeaponOf == [v \in MCVersions |-> [w \in MCWeapons |->
    CASE w = 1 -> IF v = "v1" THEN NoRow ELSE "old"
      [] w = 2 -> IF v = "v1" THEN "old" ELSE "new"]]

MCPoolOf == [v \in MCVersions |-> [w \in MCWeapons |->
    CASE w = 1 -> IF v = "v1" THEN {} ELSE {B0}
      [] w = 2 -> IF v = "v1" THEN {A0} ELSE {B0}]]

MCCombosOf == [v \in MCVersions |-> [w \in MCWeapons |->
    CASE w = 1 -> IF v = "v1" THEN {} ELSE {{B0}}
      [] w = 2 -> IF v = "v1" THEN {{A0}} ELSE {}]]

Upgrade == {<<"v1", "v2">>}
=============================================================================

------------------------------ MODULE MCFaults ------------------------------
(***************************************************************************)
(* A smaller manifest than MCIngest's, for overlapping runs: from v1 to v2 *)
(* the weapon is renamed and keeps one of its two rolls, perk "a" leaves   *)
(* the manifest and perk "b" is renamed.                                   *)
(***************************************************************************)
EXTENDS IngestFaults

MCVersions == {"v1", "v2"}
MCWeapons == {1}
MCPerks == {"a", "b"}
MCColumns == {0}
MCFacts == {"old", "new"}

A0 == <<"a", 0>>
B0 == <<"b", 0>>

MCPerkOf == [v \in MCVersions |->
    [p \in MCPerks |-> IF v = "v2" /\ p = "b" THEN "new" ELSE "old"]]

MCWeaponOf == [v \in MCVersions |-> [w \in MCWeapons |->
    IF v = "v2" THEN "new" ELSE "old"]]

MCPoolOf == [v \in MCVersions |-> [w \in MCWeapons |->
    IF v = "v1" THEN {A0, B0} ELSE {B0}]]

MCCombosOf == [v \in MCVersions |-> [w \in MCWeapons |->
    {{l} : l \in MCPoolOf[v][w]}]]

Upgrade == {<<"v1", "v2">>}
=============================================================================

---------------------------- MODULE MCCategorize ----------------------------
(***************************************************************************)
(* Definitions of two kinds.  The regular ones have three WEAPON PERKS     *)
(* sockets, at ordinals 0, 1 and 3, over every choice of three pools.  The *)
(* irregular ones have two sockets over plug sets that retire, repeat and  *)
(* misorder plugs or name unknown ones, and category lists with gaps.      *)
(***************************************************************************)
EXTENDS Categorize

Roll(p) == [plug |-> p, rolls |-> TRUE]
Retired(p) == [plug |-> p, rolls |-> FALSE]

\* Trait 1, enhanced trait 2, origin trait 3, hardware 4; 5 has no name.
Pools == SUBSET {1, 2, 3, 4} \ {{}}

\* A pool's hash: one bit per perk, so 1 .. 15.
PoolHash(P) == (IF 1 \in P THEN 1 ELSE 0) + (IF 2 \in P THEN 2 ELSE 0)
             + (IF 3 \in P THEN 4 ELSE 0) + (IF 4 \in P THEN 8 ELSE 0)

Irregular ==
    (16 :> <<Roll(3), Roll(1)>>)
 @@ (17 :> <<Roll(2), Retired(1), Roll(1), Roll(2)>>)
 @@ (18 :> <<Roll(4), Roll(3), Roll(3), Retired(2)>>)
 @@ (19 :> <<Roll(5), Retired(1)>>)
 @@ (20 :> <<Roll(2), Roll(5), Roll(3)>>)

MCPlugSets ==
    [h \in 1 .. 20 |->
        IF h > 15 THEN Irregular[h]
        ELSE SetToSeq({Roll(p) : p \in CHOOSE P \in Pools : PoolHash(P) = h})]

MCCollectibles ==
       (1 :> [live |-> TRUE, source |-> TRUE])
    @@ (2 :> [live |-> TRUE, source |-> FALSE])
    @@ (3 :> [live |-> FALSE, source |-> TRUE])

Perks(indexes) == [kind |-> "perks", indexes |-> indexes]
Other(indexes) == [kind |-> "other", indexes |-> indexes]

Regular ==
    {[recipe |-> FALSE, collectible |-> 1,
      sockets |-> [n \in 1 .. 3 |-> [randomized |-> hashes[n], reusable |-> 0]],
      categories |-> <<Perks(<<0, 1, -1, 2>>)>>] :
        hashes \in [1 .. 3 -> 0 .. 15]}

\* 21 is not in the lookup.
Sockets == [randomized : {0, 16, 17, 18, 19, 20, 21}, reusable : {0, 2, 16}]

Categories ==
    {<< >>, <<Other(<<0, 1>>)>>, <<Other(<<0>>), Perks(<<1, 0>>)>>,
     <<Perks(<<0, 1>>), Perks(<<1>>)>>, <<Perks(<<2, 0, 0, 1>>)>>}

MCDefinitions == Regular \cup
    [recipe : BOOLEAN, collectible : 0 .. 4, sockets : [1 .. 2 -> Sockets],
     categories : Categories]
=============================================================================

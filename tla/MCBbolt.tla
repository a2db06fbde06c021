------------------------------ MODULE MCBbolt ------------------------------
(* Values of the constants for model checking the server over a bbolt store. *)
EXTENDS BboltServer, TLC

ReaderSymmetry == Permutations(Readers)

E == <<"e">>
EA == <<"e", "a">>

Labels == {"e", "a", "x", "y"}
MCLower == [l \in Labels |-> l]
MCData == {<<"x">>, <<"y">>}
MCRank == [d \in MCData |-> 0]
MCCanon == [d \in MCData |-> d]
MCShardOf == [z \in Zones |-> 0]

Rec(name, ttl, data) ==
    [zone |-> E, name |-> name, ttl |-> ttl, class |-> "none", type |-> "A", data |-> data]

MCZones == {E}
MCRecords == {Rec(EA, 1, <<"x">>), Rec(EA, 2, <<"x">>), Rec(EA, 1, <<"y">>)}
MCStores == {{}, {NormalizeRecord(Rec(EA, 1, <<"y">>))}}
MCQuestions == {[name |-> EA, type |-> "A", class |-> "IN"]}

\* The seed holds one record twice, with different TTLs: the first one counts.
MCSeed == [zones |-> {E}, records |-> {Rec(EA, 1, <<"x">>), Rec(EA, 2, <<"x">>)}]
=============================================================================

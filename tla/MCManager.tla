----------------------------- MODULE MCManager -----------------------------
(* Values of the constants for model checking the Manager. *)
EXTENDS Manager

E == <<"e">>
EA == <<"e", "a">>
EB == <<"e", "b">>

Labels == {"e", "a", "b", "x", "y", "X"}
MCLower == [l \in Labels |-> IF l = "X" THEN "x" ELSE l]
MCData == {EA, EB, <<"x">>, <<"y">>, <<"X">>}

\* No step of the Manager compares or parses data.
MCRank == [d \in MCData |-> 0]
MCCanon == [d \in MCData |-> d]

Rec(name, class, type, data) ==
    [zone |-> E, name |-> name, ttl |-> 1, class |-> class, type |-> type, data |-> data]

\* A member of an RRset that leaves its zone, name and type to the set.
Member(class, data) ==
    [zone |-> Root, name |-> Root, ttl |-> 2, class |-> class, type |-> "none", data |-> data]

RRSet(name, type, members) == [zone |-> E, name |-> name, type |-> type, records |-> members]

Seed(members) == [zones |-> {}, records |-> members]

EmptyStore == {{}}

\* Two goroutines, an address and an SOA in its place and out of it; a seed that is
\* complete and one whose SOA lacks the apex NS.
DuoZones == {E}
DuoRRSets == {RRSet(EA, "A", {Member("none", <<"x">>), Member("none", <<"y">>)})}
DuoSeeds == {Seed({Rec(E, "none", "SOA", <<"x">>), Rec(E, "none", "NS", EB)}),
             Seed({Rec(E, "none", "SOA", <<"x">>)})}
DuoRecords ==
    {Rec(EA, "none", "A", <<"x">>), Rec(EA, "none", "SOA", <<"x">>), Rec(E, "none", "SOA", <<"x">>)}
        \cup UNION {{normalizeRRSetRecord(s, r) : r \in s.records} : s \in DuoRRSets}
        \cup UNION {s.records : s \in DuoSeeds}
=============================================================================

------------------------------ MODULE MCClient ------------------------------
(* Values of the constants for model checking the client of the server. *)
EXTENDS Client, TLC

\* The goroutines of the server are interchangeable: no definition names one of them.
ServerSymmetry == Permutations(Writers)

E == <<"e">>
EA == <<"e", "a">>
EB == <<"e", "b">>

Labels == {"e", "a", "b", "x", "y", "A"}
MCLower == [l \in Labels |-> IF l = "A" THEN "a" ELSE l]
MCData == {EB, <<"x">>, <<"y">>}
MCRank == [d \in MCData |-> 0]
MCCanon == [d \in MCData |-> d]

Rec(name, type, data) ==
    [zone |-> E, name |-> name, ttl |-> 1, class |-> "none", type |-> type, data |-> data]

Member(data) ==
    [zone |-> Root, name |-> Root, ttl |-> 1, class |-> "none", type |-> "none", data |-> data]

RRSet(name, type, members) == [zone |-> E, name |-> name, type |-> type, records |-> members]

OfRecord(op, r) == [op |-> op, set |-> RRSet(r.name, r.type, {r})]
OfSet(op, name, type, members) == [op |-> op, set |-> RRSet(name, type, members)]

\* Two names: one with addresses and an alias that exclude each other, one with a text.
MCRequests ==
    {OfRecord("UpsertRecord", Rec(EA, "A", <<"x">>)),
     OfRecord("UpsertRecord", Rec(EA, "CNAME", EB)),
     OfRecord("DeleteRecord", Rec(EA, "A", <<"x">>)),
     OfSet("UpsertRRSet", EA, "A", {Member(<<"x">>), Member(<<"y">>)}),
     OfSet("DeleteRRSet", <<"e", "A">>, "A", {}),
     OfSet("DeleteName", EA, "none", {}),
     OfRecord("UpsertRecord", Rec(EB, "TXT", <<"x">>)),
     OfSet("DeleteRRSet", EB, "A", {})}

\* The records of the requests, and the one to delete as its RR names it, without a TTL.
MCRecords == {Rec(EA, "A", <<"x">>), Rec(EA, "A", <<"y">>), Rec(EA, "CNAME", EB),
              Rec(EB, "TXT", <<"x">>), [Rec(EA, "A", <<"x">>) EXCEPT !.ttl = 0]}
MCStores == {{}, {NormalizeRecord(Rec(EB, "TXT", <<"x">>))}}
NoInputs == {}
=============================================================================

---------------------------- MODULE MCFrontEnds ----------------------------
(* Values of the constants for model checking the HTTP and the update handler. *)
EXTENDS FrontEnds

E == <<"e">>
F == <<"f">>
EA == <<"e", "a">>

Labels == {"e", "f", "a", "x", "y", "A"}
MCLower == [l \in Labels |-> IF l = "A" THEN "a" ELSE l]
MCData == {F, <<"x">>, <<"y">>}
MCRank == [d \in MCData |-> 0]
MCCanon == [d \in MCData |-> d]

\* Messages: additions that conflict, the three kinds of deletion, an RR outside the
\* zone and one without data.
RR(name, class, type, data) ==
    [name |-> name, ttl |-> 1, class |-> class, type |-> type, data |-> data]

Message(rrs) == [zone |-> E, wellFormed |-> TRUE, prerequisites |-> FALSE, rrs |-> rrs]

GoodRRs ==
    {RR(EA, "IN", "A", <<"x">>), RR(EA, "IN", "CNAME", F), RR(EA, "NONE", "A", <<"x">>),
     RR(EA, "ANY", "A", <<>>), RR(EA, "ANY", "ANY", <<>>)}
MCRRs == GoodRRs \cup
    {RR(<<"e", "A">>, "CH", "A", <<"y">>), RR(E, "IN", "SOA", <<"x">>), RR(E, "IN", "SOA", <<"y">>),
     RR(F, "IN", "A", <<"x">>), RR(EA, "NONE", "A", <<>>), RR(F, "ANY", "ANY", <<>>)}

MCMessages ==
    {Message(<<r, s>>) : r, s \in MCRRs} \cup {Message(<<r, s, t>>) : r, s, t \in GoodRRs}
        \cup {[Message(<<r>>) EXCEPT !.wellFormed = FALSE] : r \in GoodRRs}
        \cup {[Message(<<r>>) EXCEPT !.zone = Root] : r \in GoodRRs}
        \cup {[Message(<<r>>) EXCEPT !.prerequisites = TRUE] : r \in GoodRRs}

\* Requests: every route, and for each of them arguments that are refused early and late.
Rec(zone, name, type, data) ==
    [zone |-> zone, name |-> name, ttl |-> 1, class |-> "none", type |-> type, data |-> data]

Filter(zone, name, type) == [zone |-> zone, name |-> name, type |-> type, class |-> "none"]

Request(method, path, arg) ==
    [method |-> method, path |-> path, decodes |-> TRUE, arg |-> arg]

Address == Rec(E, EA, "A", <<"x">>)
Alias   == Rec(E, <<"e", "A">>, "CNAME", F)
Apex    == Rec(E, E, "SOA", <<"x">>)
Server  == Rec(E, E, "NS", F)
Outside == Rec(E, F, "A", <<"x">>)

MCRequests ==
    {Request("GET", "/healthz", Root), Request("GET", "/zones", Root),
     Request("PUT", "/zones", Root), Request("PUT", "/zones/", E), Request("PUT", "/zones/", F),
     Request("DELETE", "/zones/", E), Request("GET", "/zones/", Root),
     Request("GET", "/zones/", E), Request("GET", "/records", Filter(Root, Root, "none")),
     Request("GET", "/records", Filter(E, <<"e", "A">>, "A")),
     Request("GET", "/records", Filter(E, F, "none")),
     Request("PUT", "/records", Address), Request("PUT", "/records", Alias),
     Request("PUT", "/records", Apex), Request("PUT", "/records", Outside),
     Request("DELETE", "/records", Address),
     [Request("PUT", "/records", Address) EXCEPT !.decodes = FALSE],
     Request("POST", "/seed/import", [zones |-> {F}, records |-> {Apex, Server, Address}]),
     Request("POST", "/seed/import", [zones |-> {F}, records |-> {Apex, Address}])}

MCZones == {E, F}
MCRecords == {Address, Alias, Apex, Server}
                 \cup {RecordOf(E, rr) : rr \in {r \in MCRRs : r.class \in {"IN", "CH"}}}
MCStores == {{}, {NormalizeRecord(Address), NormalizeRecord(Apex)}}
NoInputs == {}
=============================================================================

----------------------------- MODULE MCChanges -----------------------------
(* Values of the constants for model checking batches of changes. *)
EXTENDS Changes

E == <<"e">>
F == <<"f">>
EA == <<"e", "a">>

Labels == {"e", "f", "a", "x", "y", "X"}
MCLower == [l \in Labels |-> IF l = "X" THEN "x" ELSE l]
MCData == {EA, F, <<"x">>, <<"y">>, <<"X">>}

\* No step of the Manager compares or parses data.
MCRank == [d \in MCData |-> 0]
MCCanon == [d \in MCData |-> d]

Rec(zone, name, ttl, type, data) ==
    [zone |-> zone, name |-> name, ttl |-> ttl, class |-> "none", type |-> type, data |-> data]

NoRecord == Rec(Root, Root, 0, "none", <<>>)

Member(zone, data) == Rec(zone, Root, 2, "none", data)

Blank == [kind |-> "none", zone |-> Root, record |-> NoRecord, records |-> {},
          name |-> Root, type |-> "none"]

ZoneChange(kind, zone) == [Blank EXCEPT !.kind = kind, !.zone = zone]
RecordChange(kind, record) == [Blank EXCEPT !.kind = kind, !.record = record]
SetChange(kind, zone, name, type, members) ==
    [Blank EXCEPT !.kind = kind, !.zone = zone, !.name = name, !.type = type, !.records = members]

Address == Rec(E, EA, 1, "A", <<"x">>)
Alias   == Rec(E, EA, 1, "CNAME", F)
Apex    == Rec(E, E, 1, "SOA", <<"x">>)
Server  == Rec(E, E, 1, "NS", F)
Other   == Rec(F, F, 1, "A", <<"x">>)

\* Changes that conflict, repair each other and touch two zones; then, in batches of up
\* to two, a change that names no zone, one outside its zone, and an RRset whose zone
\* only its records name, which the preview accepts and the Manager refuses.
GoodChanges ==
    {ZoneChange("upsert_zone", F), ZoneChange("delete_zone", E),
     RecordChange("upsert_record", Address), RecordChange("upsert_record", Alias),
     RecordChange("upsert_record", Apex), RecordChange("upsert_record", Server),
     RecordChange("upsert_record", Other), RecordChange("delete_record", Server),
     SetChange("upsert_rrset", E, EA, "A", {Member(Root, <<"X">>), Member(Root, <<"y">>)}),
     SetChange("upsert_rrset", E, EA, "CNAME", {Member(Root, F), Member(Root, EA)}),
     SetChange("delete_rrset", E, E, "SOA", {}),
     SetChange("delete_name", E, EA, "none", {})}
MCChanges == GoodChanges \cup
    {RecordChange("delete_record", NoRecord), SetChange("delete_rrset", E, F, "SOA", {}),
     SetChange("upsert_rrset", Root, EA, "A", {Member(E, <<"y">>)})}

MCBatches == {<<c>> : c \in MCChanges} \cup {<<c, d>> : c, d \in MCChanges}
                 \cup {<<c, d, e>> : c, d, e \in GoodChanges}

MCRecords == {Address, Alias, Apex, Server, Other, Rec(E, EA, 2, "A", <<"X">>),
              Rec(E, EA, 2, "A", <<"y">>), Rec(E, EA, 2, "CNAME", F),
              Rec(E, EA, 2, "CNAME", EA)}

MCStores == {{}} \cup {{NormalizeRecord(r) : r \in s} :
                          s \in {{Address}, {Alias, Apex, Server}, {Address, Apex, Server}}}

NoInputs == {}

\* Batches that each leave a valid and complete zone when they run alone.
RaceBatches ==
    {<<RecordChange("upsert_record", Apex)>>, <<RecordChange("delete_record", Server)>>,
     <<RecordChange("upsert_record", Address)>>, <<RecordChange("upsert_record", Alias)>>}
RaceStores == {{NormalizeRecord(Server)}}
RaceRecords == {Apex, Server, Address, Alias}
=============================================================================

----------------------------- MODULE MCResolver -----------------------------
(* Values of the constants for model checking the resolver. *)
EXTENDS CacheTTL, MemoryRepository, TLC

\* The readers are interchangeable: no definition names one of them.
ReaderSymmetry == Permutations(Readers)

E == <<"e">>              \* e.
F == <<"f">>              \* f.
EA == <<"e", "a">>        \* a.e.
EB == <<"e", "b">>        \* b.e.
EC == <<"e", "c">>        \* c.e.

Labels == {"e", "f", "a", "b", "c", "A", "x", "y", "long", "bad"}
MCLower == [l \in Labels |-> IF l = "A" THEN "a" ELSE l]

\* Every label sequence that is data: EB and <<"y">> sort after the others.
MCData == {E, F, EA, EB, EC, <<"e", "A">>, <<"x">>, <<"y">>, <<"long">>, <<"bad">>}
MCRank == [d \in MCData |-> IF d \in {EB, <<"y">>} THEN 1 ELSE 0]

\* An address that is written out in full is printed in its short form.
MCCanon == [d \in MCData |-> IF d = <<"long">> THEN <<"y">> ELSE d]
MCBadData == {<<"A", <<"bad">>>>, <<"SOA", <<"bad">>>>}

Rec(zone, name, type, data) ==
    [zone |-> zone, name |-> name, ttl |-> 1, class |-> "none", type |-> type, data |-> data]

Timed(record, ttl) == [record EXCEPT !.ttl = ttl]

Ask(name, type, class) == [name |-> name, type |-> type, class |-> class]

\* The subsets of a set of records that a store can hold.
Stores(raws) ==
    {stored \in SUBSET {NormalizeRecord(r) : r \in raws} :
        \A r, s \in stored : Key(r) = Key(s) => r = s}

EmptyStore == {{}}

MCShardOf == [z \in Zones |-> IF z = E THEN 0 ELSE 1]

\* Two zones side by side; an alias and its target in one of them.
FlatZones == {E, F}
FlatRecords == {Rec(E, EA, "A", <<"x">>), Rec(E, EB, "CNAME", <<"e", "A">>)}
FlatStores == {{}, {NormalizeRecord(r) : r \in FlatRecords}}
FlatQuestions == {Ask(EB, "A", "IN")}

\* A zone and a zone below it that both hold the name b.a.e.
Deep == <<"e", "a", "b">>
NestedZones == {E, EA}
NestedRecords == {Rec(E, Deep, "A", <<"x">>), Rec(EA, Deep, "A", <<"y">>)}
NestedQuestions == {Ask(Deep, "A", "IN")}

\* Every section, error and chain shape, with no writer.
SectionRecords ==
    {Timed(Rec(E, EA, "CNAME", EB), 3), Timed(Rec(E, EA, "CNAME", EC), 6),
     Timed(Rec(E, EB, "CNAME", EC), 0), Timed(Rec(E, EC, "CNAME", EA), 6),
     Rec(E, EC, "CNAME", F), Timed(Rec(E, EC, "A", <<"x">>), 3),
     Rec(E, EC, "A", <<"bad">>), Timed(Rec(E, EC, "AAAA", <<"long">>), 0),
     Timed(Rec(E, E, "SOA", <<"x">>), 6), Rec(E, E, "NS", EC)}
SectionStores == Stores(SectionRecords)
SectionQuestions ==
    {Ask(EA, "A", "IN"), Ask(EA, "CNAME", "IN"), Ask(<<"e", "A">>, "ANY", "IN"),
     Ask(E, "NS", "ANY"), Ask(EC, "TXT", "IN"), Ask(EC, "A", "CH"),
     Ask(F, "A", "IN"), Ask(Root, "A", "IN")}

\* Aliases in a circle, of which none, two or all may be stored, and a zone below theirs
\* that answers the question itself.
LoopAliases == {Rec(E, Deep, "CNAME", EB), Rec(E, EB, "CNAME", EC), Rec(E, EC, "CNAME", EB)}
LoopRecords == LoopAliases \cup {Rec(EA, Deep, "A", <<"x">>)}
LoopStores == {stored \in Stores(LoopAliases) : Cardinality(stored) # 1}
=============================================================================

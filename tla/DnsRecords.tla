----------------------------- MODULE DnsRecords -----------------------------
(***************************************************************************)
(* Zones and records of package dnsserver, and the pure functions on them: *)
(* normalization, the store key, the lookup filter, the longest-suffix     *)
(* zone match, the preview helpers and the zone validation rules.          *)
(*                                                                         *)
(* A domain name is the sequence of its labels, top-level label first (the *)
(* order of reverseDNSName); the root "." is the empty sequence.  Record   *)
(* data is a sequence of labels too: the target for CNAME, NS, MX and SRV, *)
(* a one-label text for the other types.  A set of records stands for the  *)
(* slices and rows of the code, whose order is only that of CompareRecords.*)
(***************************************************************************)
EXTENDS Naturals, Sequences, FiniteSets

CONSTANTS
    Lower,        \* the lower-case form of every label
    Rank,         \* the position of every data in the order of CompareRecordsByData
    Canon,        \* the data as dns.NewRR parses it and RR.String() prints it
    BadData,      \* pairs <<type, data>> that dns.NewRR rejects
    RawZones,     \* zone names callers pass, before normalization
    RawRecords    \* records callers pass, before normalization

Root == <<>>

\* The Record struct: texts in any case, numbers and the mnemonics of type and class.
Texts == Seq(DOMAIN Lower)

RecordType == [zone : Texts, name : Texts, ttl : Nat, data : Texts,
               class : {r.class : r \in RawRecords} \cup {"IN"},
               type  : {r.type : r \in RawRecords}]

ASSUME RawAssumption == RawRecords \subseteq RecordType /\ RawZones \subseteq Texts

\* strings.ToLower leaves a lower-case text as it is.
ASSUME LowerAssumption ==
    \A l \in DOMAIN Lower : Lower[l] \in DOMAIN Lower /\ Lower[Lower[l]] = Lower[l]

\* strings.ToLower, strings.TrimSpace and dns.Fqdn applied to a name or to data.
Fold(text) == [i \in DOMAIN text |-> Lower[text[i]]]

\* dns.IsSubDomain of the library: name is zone or lies below it.
IsSubDomain(zone, name) ==
    /\ Len(zone) <= Len(name)
    /\ SubSeq(name, 1, Len(zone)) = zone

NormalizeZoneName(zone) == Fold(zone)

\* The inputs NormalizeZoneName and NormalizeRecord return no error for.
ZoneAccepted(zone) == zone # Root

RecordAccepted(record) ==
    /\ ZoneAccepted(record.zone)
    /\ record.name # Root
    /\ IsSubDomain(Fold(record.zone), Fold(record.name))
    /\ record.data # <<>>
    /\ record.type # "none"

NormalizeRecord(record) ==
    [record EXCEPT !.zone  = NormalizeZoneName(@),
                   !.name  = Fold(@),
                   !.class = IF @ = "none" THEN "IN" ELSE @]

Records == {NormalizeRecord(r) : r \in {x \in RawRecords : RecordAccepted(x)}}

\* Rows are finite and CompareRecordsByData orders them: each has a last record.
ASSUME RankAssumption ==
    \A row \in SUBSET Records : row # {} =>
        \E r \in row : \A s \in row : Rank[s.data] <= Rank[r.data]

Zones ==
    {NormalizeZoneName(z) : z \in {x \in RawZones : ZoneAccepted(x)}}
        \cup {r.zone : r \in Records}

\* Two records with one key are one cell of the store; the TTL is not part of it.
Key(record) ==
    <<record.zone, record.name, record.type, record.class, Fold(record.data)>>

\* The row of the record table a record lives in (recordNameRowKey).
RowKey(record) == <<record.zone, record.name>>

Put(records, record) == {r \in records : Key(r) # Key(record)} \cup {record}

Without(records, record) == {r \in records : Key(r) # Key(record)}

\* lookupRecords: one row of the table, filtered by type and class.
LookupIn(records, zone, name, type, class) ==
    {r \in records : /\ RowKey(r) = <<zone, name>>
                     /\ type = "ANY" \/ r.type = type
                     /\ class = "ANY" \/ r.class = class}

-----------------------------------------------------------------------------
(* Resource records. *)

Parsable(records) == \A r \in records : <<r.type, r.data>> \notin BadData

\* Record.RR of every record: the RR carries no zone and the parsed data.
RRs(records) ==
    {[name |-> r.name, ttl |-> r.ttl, class |-> r.class,
      type |-> r.type, data |-> Canon[r.data]] : r \in records}

\* Record.CNAME of the last record in data order.
LastTarget(cnames) ==
    Fold((CHOOSE r \in cnames : \A s \in cnames : Rank[s.data] <= Rank[r.data]).data)

\* The names in the zone whose addresses go to the additional section.
AdditionalTargets(zone, answer) ==
    {n \in {Fold(rr.data) : rr \in {x \in answer : x.type \in {"CNAME", "NS", "MX", "SRV"}}} :
        n # Root /\ IsSubDomain(zone, n)}

-----------------------------------------------------------------------------
(* The zone index. *)

NoZone == Root        \* mo.None: no zone has the root name

\* LongestPrefix in the trie of reversed names, then the subdomain test.
MatchZone(index, name) ==
    LET above == {z \in index : IsSubDomain(z, name)}
    IN  IF above = {} THEN NoZone
        ELSE CHOOSE z \in above : \A y \in above : Len(y) <= Len(z)

-----------------------------------------------------------------------------
(* Previews and validation of a zone's records. *)

\* Mutant: the preview does not contain the replacements.
upsertNothing(records, replacements) == records

\* A replacement whose key is already there is dropped: the old record wins.
upsertRecords(records, replacements) ==
    records \cup {n \in replacements : \A r \in records : Key(r) # Key(n)}

SOAAtApexOnly(zone, records) ==
    \A r \in records : r.type = "SOA" => r.name = zone

AtMostOneSOA(zone, records) ==
    \A r, s \in records :
        r.type = "SOA" /\ s.type = "SOA" /\ r.name = zone /\ s.name = zone => r = s

ApexNSPresent(zone, records, requireApexNS) ==
    requireApexNS /\ (\E r \in records : r.name = zone /\ r.type = "SOA") =>
        \E r \in records : r.name = zone /\ r.type = "NS"

\* validateCNAMECount and validateCNAMECoexistence: alone at its name.
CNAMEAlone(records) ==
    \A r, s \in records : r.type = "CNAME" /\ s.name = r.name => r = s

validateZoneRecords(zone, records, requireApexNS) ==
    /\ SOAAtApexOnly(zone, records)
    /\ AtMostOneSOA(zone, records)
    /\ ApexNSPresent(zone, records, requireApexNS)
    /\ CNAMEAlone(records)

InZone(records, zone) == {r \in records : r.zone = zone}

validateRecordsByZone(records, requireApexNS) ==
    \A z \in {r.zone : r \in records} :
        validateZoneRecords(z, InZone(records, z), requireApexNS)

-----------------------------------------------------------------------------
(* Seed data. *)

\* The records left when only the first of each key is kept; the order is free.
Deduped(all) ==
    {kept \in SUBSET all :
        /\ \A r, s \in kept : Key(r) = Key(s) => r = s
        /\ \A r \in all : \E s \in kept : Key(r) = Key(s)}

\* collectSeedZones and collectSeedRecords
SeedAccepted(seed) ==
    /\ \A z \in seed.zones : ZoneAccepted(z)
    /\ \A r \in seed.records : RecordAccepted(r)

SeedZones(seed) ==
    {NormalizeZoneName(z) : z \in seed.zones}
        \cup {NormalizeRecord(r).zone : r \in seed.records}
=============================================================================

----------------------------- MODULE MemoryStore -----------------------------
(***************************************************************************)
(* MemoryStore, the in-memory Repository: a sharded map of zones, a table  *)
(* of records under one lock and an atomic revision counter.  No lock      *)
(* spans a call, so a call is several steps, and the calls of different    *)
(* goroutines interleave between them.  The last step of every writing     *)
(* call adds one to the revision; until then the call is busy in its zone. *)
(***************************************************************************)
EXTENDS DnsRecords

CONSTANTS
    Writers,        \* goroutines that call the writing methods
    InitStores,     \* the records the store may hold at the start, left behind
    InitZones,      \* by earlier, finished calls, the zones saved by themselves,
    InitRevision,   \* and the number of those calls
    MaxCalls        \* bound on the number of writing calls that follow

ASSUME InitAssumption ==
    /\ \A stored \in InitStores :
          /\ stored \subseteq Records
          /\ \A r, s \in stored : Key(r) = Key(s) => r = s
    /\ InitZones \subseteq Zones
    /\ InitRevision \in Nat

ASSUME MaxCallsAssumption == MaxCalls \in Nat

VARIABLES
    zones,      \* the keys of MemoryStore.zones
    records,    \* the cells of MemoryStore.records
    revision,   \* MemoryStore.revision
    call        \* the writing call each goroutine is in

storeVars == <<zones, records, revision, call>>

\* One step of a call: what it has left to do, the zone it writes, the record
\* SaveRecord has yet to put, and the rows DeleteZone has yet to drop.
NoCall == [pc |-> "idle", zone |-> NoZone, record |-> {}, rows |-> {}]

Calls == [pc     : {"idle", "put", "rows", "drop", "bump"},
          zone   : Zones \cup {NoZone},
          record : SUBSET Records,
          rows   : SUBSET (Zones \X {r.name : r \in Records})]

Busy(zone) == \E p \in Writers : call[p].pc # "idle" /\ call[p].zone = zone

Quiet == \A p \in Writers : call[p].pc = "idle"

StoreInit ==
    /\ records \in InitStores
    /\ zones = InitZones \cup {r.zone : r \in records}
    /\ revision = InitRevision
    /\ call = [p \in Writers |-> NoCall]

-----------------------------------------------------------------------------
\* A call starts only while its own increment stays within the bound.
CanCall(p) ==
    /\ call[p].pc = "idle"
    /\ revision + Cardinality({q \in Writers : call[q].pc # "idle"})
           < InitRevision + MaxCalls

\* Mutant: the revision is not incremented.
SaveZoneSilently(p, raw) ==
    /\ CanCall(p)
    /\ ZoneAccepted(raw)
    /\ zones' = zones \cup {NormalizeZoneName(raw)}
    /\ UNCHANGED <<records, revision, call>>

SaveZone(p, raw) ==
    /\ CanCall(p)
    /\ ZoneAccepted(raw)
    /\ zones' = zones \cup {NormalizeZoneName(raw)}
    /\ call' = [call EXCEPT ![p] = [NoCall EXCEPT !.pc = "bump",
                                                  !.zone = NormalizeZoneName(raw)]]
    /\ UNCHANGED <<records, revision>>

SaveRecord(p, raw) ==
    LET record == NormalizeRecord(raw)
    IN  /\ CanCall(p)
        /\ RecordAccepted(raw)
        /\ zones' = zones \cup {record.zone}
        /\ call' = [call EXCEPT ![p] = [NoCall EXCEPT !.pc = "put",
                                                      !.zone = record.zone,
                                                      !.record = {record}]]
        /\ UNCHANGED <<records, revision>>

\* Mutant: the revision is not incremented.
PutRecordSilently(p) ==
    /\ call[p].pc = "put"
    /\ \E record \in call[p].record : records' = Put(records, record)
    /\ call' = [call EXCEPT ![p] = NoCall]
    /\ UNCHANGED <<zones, revision>>

PutRecord(p) ==
    /\ call[p].pc = "put"
    /\ \E record \in call[p].record : records' = Put(records, record)
    /\ call' = [call EXCEPT ![p].pc = "bump", ![p].record = {}]
    /\ UNCHANGED <<zones, revision>>

\* Mutant: the revision is not incremented.
DeleteRecordSilently(p, raw) ==
    /\ CanCall(p)
    /\ RecordAccepted(raw)
    /\ records' = Without(records, NormalizeRecord(raw))
    /\ UNCHANGED <<zones, revision, call>>

DeleteRecord(p, raw) ==
    LET record == NormalizeRecord(raw)
    IN  /\ CanCall(p)
        /\ RecordAccepted(raw)
        /\ records' = Without(records, record)
        /\ call' = [call EXCEPT ![p] = [NoCall EXCEPT !.pc = "bump",
                                                      !.zone = record.zone]]
        /\ UNCHANGED <<zones, revision>>

\* Mutant: the zone's records stay.
DeleteZoneOnly(p, raw) ==
    /\ CanCall(p)
    /\ ZoneAccepted(raw)
    /\ zones' = zones \ {NormalizeZoneName(raw)}
    /\ call' = [call EXCEPT ![p] = [NoCall EXCEPT !.pc = "bump",
                                                  !.zone = NormalizeZoneName(raw)]]
    /\ UNCHANGED <<records, revision>>

DeleteZone(p, raw) ==
    /\ CanCall(p)
    /\ ZoneAccepted(raw)
    /\ zones' = zones \ {NormalizeZoneName(raw)}
    /\ call' = [call EXCEPT ![p] = [NoCall EXCEPT !.pc = "rows",
                                                  !.zone = NormalizeZoneName(raw)]]
    /\ UNCHANGED <<records, revision>>

\* deleteRecordRowsByZone takes the row keys once ...
ListRows(p) ==
    /\ call[p].pc = "rows"
    /\ call' = [call EXCEPT ![p].rows = {RowKey(r) : r \in InZone(records, call[p].zone)},
                            ![p].pc = "drop"]
    /\ UNCHANGED <<zones, records, revision>>

\* Mutant: the call returns after the last row, without incrementing the revision.
DropRowSilently(p) ==
    /\ call[p].pc = "drop"
    /\ \E row \in call[p].rows :
          /\ records' = {r \in records : RowKey(r) # row}
          /\ call' = [call EXCEPT ![p] = IF call[p].rows = {row} THEN NoCall
                                         ELSE [@ EXCEPT !.rows = @ \ {row}]]
    /\ UNCHANGED <<zones, revision>>

\* ... and then deletes those rows one by one, in the order of a Go map.
DropRow(p) ==
    /\ call[p].pc = "drop"
    /\ \E row \in call[p].rows :
          /\ records' = {r \in records : RowKey(r) # row}
          /\ call' = [call EXCEPT ![p].rows = @ \ {row}]
    /\ UNCHANGED <<zones, revision>>

\* revision.Add(1), after which the call returns.
Bump(p) ==
    /\ \/ call[p].pc = "bump"
       \/ call[p].pc = "drop" /\ call[p].rows = {}
    /\ revision' = revision + 1
    /\ call' = [call EXCEPT ![p] = NoCall]
    /\ UNCHANGED <<zones, records>>

\* The steps a call takes by itself once it has started.
StoreStep(p) == PutRecord(p) \/ ListRows(p) \/ DropRow(p) \/ Bump(p)

StoreNext ==
    \E p \in Writers :
        \/ \E raw \in RawZones : SaveZone(p, raw) \/ DeleteZone(p, raw)
        \/ \E raw \in RawRecords : SaveRecord(p, raw) \/ DeleteRecord(p, raw)
        \/ PutRecord(p)
        \/ ListRows(p)
        \/ DropRow(p)
        \/ Bump(p)

-----------------------------------------------------------------------------
StoreTypeOK ==
    /\ zones \subseteq Zones
    /\ records \subseteq Records
    /\ revision \in Nat
    /\ call \in [Writers -> Calls]

\* A busy call knows its zone, and holds only rows and a record of that zone.
CallsInOneZone ==
    \A p \in Writers :
        /\ \A r \in call[p].record : r.zone = call[p].zone
        /\ \A row \in call[p].rows : row[1] = call[p].zone
=============================================================================

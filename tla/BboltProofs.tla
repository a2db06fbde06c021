---------------------------- MODULE BboltProofs ----------------------------
(***************************************************************************)
(* Proofs about the server over a bbolt store, across failed transactions, *)
(* crashes and restarts: the store implements the Repository, the zone     *)
(* index of the current revision is right, a cached response of it is the  *)
(* answer of its zone, and a server that starts to serve holds its whole   *)
(* seed.                                                                   *)
(*                                                                         *)
(* The argument.  The zones with an unannounced change play the part that  *)
(* the busy zones play for MemoryStore, so every lemma about a query holds *)
(* here too; a restart, which sets the revision back to zero, also empties *)
(* the index and the cache.  While the seed is applied only Main writes,   *)
(* so each record of it is still to be saved, in Main's call or stored.    *)
(***************************************************************************)
EXTENDS BboltServer, ResolutionProofs

\* The zones with an unannounced change, as the resolver's invariant needs them.
OpenInv ==
    /\ stale \subseteq Zones
    /\ \E open \in SUBSET Zones : open = Unannounced /\ ResolverInv(open)

\* What an idle goroutine, a process that is down and one that does not yet serve hold.
PhaseInv ==
    /\ faults \in Nat
    /\ \A p \in Writers : call[p].pc = "idle" => call[p].record = {}
    /\ phase = "down" => call = [p \in Writers |-> NoCall] /\ stale = {}
    /\ phase # "serving" => ResolverInit

\* The records of the seed after normalization.
Seeded == {NormalizeRecord(r) : r \in SeedFile.records}

\* How far openStore has come.
SeedInv ==
    phase = "seeding" =>
        /\ \A p \in Writers : p # Main => call[p].pc = "idle"
        /\ call[Main].pc \in {"idle", "put", "bump"}
        /\ seedZones \subseteq SeedZones(SeedFile)
        /\ SeedZones(SeedFile) \subseteq zones \cup seedZones
        /\ seedRecords \subseteq Seeded /\ call[Main].record \subseteq Seeded
        /\ \A r, s \in call[Main].record : r = s
        /\ \A raw \in SeedFile.records :
              \E r \in (records \cup seedRecords \cup call[Main].record) \cap Seeded :
                  Key(r) = Key(NormalizeRecord(raw))

ServerInv == StoreInv /\ OpenInv /\ PhaseInv /\ SeedInv

-----------------------------------------------------------------------------
(* The steps of the store. *)

\* A change inside one zone, which is unannounced afterwards.
ChangesIn(zone) ==
    /\ revision' = revision
    /\ Unannounced' = Unannounced \cup {zone}
    /\ \A z : z # zone => /\ z \in zones' <=> z \in zones
                          /\ InZone(records', z) = InZone(records, z)

\* What a step of a writing call may do: change its zone, announce, or only return.
Moves ==
    \/ \E zone \in Zones : ChangesIn(zone)
    \/ Announces /\ Unannounced' \subseteq Unannounced
    \/ revision' = revision /\ zones' = zones /\ records' = records /\ Unannounced' = Unannounced

\* One goroutine's step of a writing call leaves the store and the calls in order.
CallStep(p) ==
    /\ StoreInv'
    /\ stale' \subseteq Zones
    /\ Moves
    /\ \A q \in Writers : call'[q].pc = "idle" => call'[q].record = {}
    /\ \A q \in Writers : q # p => call'[q] = call[q]

\* A call whose change is not announced keeps its zone among the unannounced ones.
LEMMA UnannouncedAfter ==
    ASSUME StoreInv, NEW p \in Writers, NEW c, call' = [call EXCEPT ![p] = c], stale' = stale,
           c.pc \in {"rows", "bump"},
           call[p].pc \notin {"rows", "bump"} \/ call[p].zone = c.zone
    PROVE  Unannounced' = Unannounced \cup {c.zone}
<1>1. call'[p] = c /\ \A q \in Writers : q # p => call'[q] = call[q]
  BY DEF StoreInv, StoreTypeOK
<1>2. ASSUME NEW z PROVE z \in Unannounced' <=> z \in Unannounced \cup {c.zone}
  BY <1>1 DEF Unannounced
<1> QED
  BY <1>2

\* The transaction of SaveZone puts the zone, which is unannounced from then on.
LEMMA PutZoneStep ==
    ASSUME StoreInv, OpenInv, PhaseInv, NEW p \in Writers, NEW zone \in Zones,
           NEW record \in SUBSET Records, \A r \in record : r.zone = zone,
           PutZone(p, zone, record)
    PROVE  CallStep(p)
<1> DEFINE c == [NoCall EXCEPT !.pc = "bump", !.zone = zone, !.record = record]
<1>1. /\ call[p].pc = "idle" /\ zones' = zones \cup {zone} /\ call' = [call EXCEPT ![p] = c]
      /\ records' = records /\ revision' = revision /\ stale' = stale
  BY DEF PutZone
<1>2. c \in Calls /\ c.pc = "bump" /\ c.zone = zone /\ c.record = record /\ c.rows = {}
  BY DEF NoCall, Calls
<1> HIDE DEF c
<1>3. StoreInv'
  BY <1>1, <1>2, CallUpdate DEF StoreInv, StoreTypeOK
<1>4. ChangesIn(zone)
  BY <1>1, <1>2, UnannouncedAfter DEF ChangesIn
<1>5. call'[p] = c /\ \A q \in Writers : q # p => call'[q] = call[q]
  BY <1>1 DEF StoreInv, StoreTypeOK
<1> QED
  BY <1>1, <1>2, <1>3, <1>4, <1>5 DEF CallStep, Moves, OpenInv, PhaseInv

\* The one transaction of DeleteRecord.
LEMMA BboltDeleteRecordStep ==
    ASSUME StoreInv, OpenInv, PhaseInv, NEW p \in Writers, NEW raw \in RawRecords,
           BboltDeleteRecord(p, raw)
    PROVE  CallStep(p)
<1> DEFINE r == NormalizeRecord(raw)
           c == [NoCall EXCEPT !.pc = "bump", !.zone = r.zone]
<1>1. r \in Records /\ r.zone \in Zones
  BY CallFacts DEF BboltDeleteRecord
<1>2. /\ call[p].pc = "idle" /\ records' = Without(records, r) /\ call' = [call EXCEPT ![p] = c]
      /\ zones' = zones /\ revision' = revision /\ stale' = stale
  BY DEF BboltDeleteRecord, BeginCall
<1>3. c \in Calls /\ c.pc = "bump" /\ c.zone = r.zone /\ c.record = {} /\ c.rows = {}
  BY <1>1 DEF NoCall, Calls
<1> HIDE DEF c, r
<1>4. \A z : z # r.zone => InZone(records', z) = InZone(records, z)
  BY <1>2, KeyZone DEF Without, InZone
<1>5. StoreInv'
  BY <1>1, <1>2, <1>3, CallUpdate DEF StoreInv, StoreTypeOK, Without
<1>6. ChangesIn(r.zone)
  BY <1>2, <1>3, <1>4, UnannouncedAfter DEF ChangesIn
<1>7. call'[p] = c /\ \A q \in Writers : q # p => call'[q] = call[q]
  BY <1>2 DEF StoreInv, StoreTypeOK
<1> QED
  BY <1>1, <1>2, <1>3, <1>5, <1>6, <1>7 DEF CallStep, Moves, OpenInv, PhaseInv

\* The first transaction of DeleteZone.
LEMMA BboltDeleteZoneStep ==
    ASSUME StoreInv, OpenInv, PhaseInv, NEW p \in Writers, NEW raw \in RawZones,
           BboltDeleteZone(p, raw)
    PROVE  CallStep(p)
<1> DEFINE zone == NormalizeZoneName(raw)
           c == [NoCall EXCEPT !.pc = "rows", !.zone = zone]
<1>1. zone \in Zones
  BY CallFacts DEF BboltDeleteZone
<1>2. /\ call[p].pc = "idle" /\ zones' = zones \ {zone} /\ call' = [call EXCEPT ![p] = c]
      /\ records' = records /\ revision' = revision /\ stale' = stale
  BY DEF BboltDeleteZone, BeginCall
<1>3. c \in Calls /\ c.pc = "rows" /\ c.zone = zone /\ c.record = {} /\ c.rows = {}
  BY <1>1 DEF NoCall, Calls
<1> HIDE DEF c, zone
<1>4. StoreInv'
  BY <1>1, <1>2, <1>3, CallUpdate DEF StoreInv, StoreTypeOK
<1>5. ChangesIn(zone)
  BY <1>2, <1>3, UnannouncedAfter DEF ChangesIn
<1>6. call'[p] = c /\ \A q \in Writers : q # p => call'[q] = call[q]
  BY <1>2 DEF StoreInv, StoreTypeOK
<1> QED
  BY <1>1, <1>2, <1>3, <1>4, <1>5, <1>6 DEF CallStep, Moves, OpenInv, PhaseInv

\* A transaction that fails ends its call: the zones left unannounced are those given.
LEMMA FailStep ==
    ASSUME StoreInv, OpenInv, PhaseInv, NEW p \in Writers, NEW op, Fail(p, op),
           stale' \subseteq Zones, Unannounced' = Unannounced
    PROVE  CallStep(p)
<1>1. call' = [call EXCEPT ![p] = NoCall] /\ zones' = zones /\ records' = records
      /\ revision' = revision
  BY DEF Fail
<1>2. NoCall \in Calls /\ NoCall.pc = "idle" /\ NoCall.record = {} /\ NoCall.rows = {}
  BY CallFacts DEF NoCall
<1>3. StoreInv'
  BY <1>1, <1>2, CallUpdate DEF StoreInv, StoreTypeOK
<1>4. call'[p] = NoCall /\ \A q \in Writers : q # p => call'[q] = call[q]
  BY <1>1 DEF StoreInv, StoreTypeOK
<1> QED
  BY <1>1, <1>2, <1>3, <1>4 DEF CallStep, Moves, PhaseInv

\* The second transaction of SaveRecord: the record is put, or the call fails.
LEMMA BboltPutRecordStep ==
    ASSUME StoreInv, OpenInv, PhaseInv, NEW p \in Writers, BboltPutRecord(p)
    PROVE  CallStep(p)
<1>1. call[p] \in Calls /\ call[p].pc = "put" /\ call[p].zone \in Zones
  BY DEF BboltPutRecord, StoreInv, StoreTypeOK, BusyInZones
<1>2. CASE \E record \in call[p].record :
               /\ records' = Put(records, record)
               /\ call' = [call EXCEPT ![p].pc = "bump", ![p].record = {}]
               /\ UNCHANGED <<zones, revision, stale, calls, faults>>
  <2> DEFINE c == [call[p] EXCEPT !.pc = "bump", !.record = {}]
  <2>1. PICK r \in call[p].record : records' = Put(records, r)
    BY <1>2
  <2>2. call' = [call EXCEPT ![p] = c] /\ zones' = zones /\ revision' = revision
        /\ stale' = stale
    BY <1>2 DEF StoreInv, StoreTypeOK
  <2>3. r \in Records /\ r.zone = call[p].zone
    BY <1>1, <2>1 DEF StoreInv, CallsInOneZone, Calls
  <2>4. c \in Calls /\ c.pc = "bump" /\ c.zone = call[p].zone /\ c.record = {}
        /\ c.rows = call[p].rows
    BY <1>1 DEF Calls
  <2> HIDE DEF c
  <2>5. \A z : z # r.zone => InZone(records', z) = InZone(records, z)
    BY <2>1, KeyZone DEF Put, InZone
  <2>6. StoreInv'
    BY <1>1, <2>1, <2>2, <2>3, <2>4, CallUpdate
    DEF StoreInv, StoreTypeOK, CallsInOneZone, Put
  <2>7. ChangesIn(r.zone)
    BY <1>1, <2>2, <2>3, <2>4, <2>5, UnannouncedAfter DEF ChangesIn
  <2>8. call'[p] = c /\ \A q \in Writers : q # p => call'[q] = call[q]
    BY <2>2 DEF StoreInv, StoreTypeOK
  <2> QED
    BY <1>1, <2>2, <2>3, <2>4, <2>6, <2>7, <2>8 DEF CallStep, Moves, OpenInv, PhaseInv
<1>3. CASE Fail(p, "SaveRecord") /\ UNCHANGED stale
  <2>1. call'[p].pc = "idle" /\ \A q \in Writers : q # p => call'[q] = call[q]
    BY <1>3 DEF Fail, NoCall, StoreInv, StoreTypeOK
  <2>2. ASSUME NEW z PROVE z \in Unannounced' <=> z \in Unannounced
    BY <1>1, <1>3, <2>1 DEF Unannounced
  <2> QED
    BY <1>3, <2>2, FailStep DEF OpenInv
<1> QED
  BY <1>2, <1>3 DEF BboltPutRecord

\* The second transaction of DeleteZone: when it fails, the zone stays unannounced.
LEMMA DeleteRowsStep ==
    ASSUME StoreInv, OpenInv, PhaseInv, NEW p \in Writers, DeleteRows(p)
    PROVE  CallStep(p)
<1>1. call[p] \in Calls /\ call[p].pc = "rows" /\ call[p].zone \in Zones
  BY DEF DeleteRows, StoreInv, StoreTypeOK, BusyInZones
<1>2. CASE /\ records' = records \ InZone(records, call[p].zone)
           /\ call' = [call EXCEPT ![p].pc = "bump"]
           /\ UNCHANGED <<zones, revision, stale, calls, faults>>
  <2> DEFINE c == [call[p] EXCEPT !.pc = "bump"]
  <2>1. call' = [call EXCEPT ![p] = c] /\ zones' = zones /\ revision' = revision
        /\ stale' = stale /\ records' = records \ InZone(records, call[p].zone)
    BY <1>2 DEF StoreInv, StoreTypeOK
  <2>2. c \in Calls /\ c.pc = "bump" /\ c.zone = call[p].zone /\ c.record = call[p].record
        /\ c.rows = call[p].rows
    BY <1>1 DEF Calls
  <2> HIDE DEF c
  <2>3. \A z : z # call[p].zone => InZone(records', z) = InZone(records, z)
    BY <2>1 DEF InZone
  <2>4. StoreInv'
    BY <1>1, <2>1, <2>2, CallUpdate DEF StoreInv, StoreTypeOK, CallsInOneZone
  <2>5. ChangesIn(call[p].zone)
    BY <1>1, <2>1, <2>2, <2>3, UnannouncedAfter DEF ChangesIn
  <2>6. call'[p] = c /\ \A q \in Writers : q # p => call'[q] = call[q]
    BY <2>1 DEF StoreInv, StoreTypeOK
  <2> QED
    BY <1>1, <2>1, <2>2, <2>4, <2>5, <2>6 DEF CallStep, Moves, OpenInv, PhaseInv
<1>3. CASE Fail(p, "DeleteZone") /\ stale' = stale \cup {call[p].zone}
  <2>1. call'[p].pc = "idle" /\ \A q \in Writers : q # p => call'[q] = call[q]
    BY <1>3 DEF Fail, NoCall, StoreInv, StoreTypeOK
  <2>2. ASSUME NEW z PROVE z \in Unannounced' <=> z \in Unannounced
    BY <1>1, <1>3, <2>1 DEF Unannounced
  <2> QED
    BY <1>1, <1>3, <2>2, FailStep DEF OpenInv
<1> QED
  BY <1>2, <1>3 DEF DeleteRows

\* revision.Add(1) announces every change so far, whoever made it.
LEMMA BboltBumpStep ==
    ASSUME StoreInv, OpenInv, PhaseInv, NEW p \in Writers, BboltBump(p)
    PROVE  CallStep(p)
<1> DEFINE c == IF call[p].record = {} THEN NoCall ELSE [call[p] EXCEPT !.pc = "put"]
<1>1. call[p] \in Calls /\ call[p].pc = "bump" /\ call[p].zone \in Zones
  BY DEF BboltBump, StoreInv, StoreTypeOK, BusyInZones
<1>2. call' = [call EXCEPT ![p] = c] /\ Announces /\ stale' = {}
  BY DEF BboltBump, Announces
<1>3. /\ c \in Calls /\ c.pc \in {"idle", "put"} /\ (c.pc = "idle" => c.record = {})
      /\ (c.pc # "idle" => c.zone \in Zones)
      /\ (\A r \in c.record : r.zone = c.zone) /\ (\A row \in c.rows : row[1] = c.zone)
  <2>1. CASE call[p].record = {}
    BY <2>1, CallFacts DEF NoCall
  <2>2. CASE call[p].record # {}
    <3>1. c \in Calls /\ c.pc = "put" /\ c.zone = call[p].zone /\ c.record = call[p].record
          /\ c.rows = call[p].rows
      BY <1>1, <2>2 DEF Calls
    <3> QED
      BY <1>1, <3>1 DEF StoreInv, CallsInOneZone
  <2> QED
    BY <2>1, <2>2
<1> HIDE DEF c
<1>4. zones' \subseteq Zones /\ records' \subseteq Records /\ revision' \in Nat
  BY <1>2 DEF StoreInv, StoreTypeOK, Announces
<1>5. StoreInv'
  BY <1>2, <1>3, <1>4, CallUpdate
<1>6. call'[p] = c /\ \A q \in Writers : q # p => call'[q] = call[q]
  BY <1>2 DEF StoreInv, StoreTypeOK
<1>7. ASSUME NEW z, z \in Unannounced' PROVE z \in Unannounced
  BY <1>2, <1>3, <1>6, <1>7 DEF Unannounced
<1> QED
  BY <1>2, <1>3, <1>5, <1>6, <1>7 DEF CallStep, Moves, PhaseInv

\* What the seed puts into the store is made of the store's zones and records.
LEMMA SeedFacts ==
    /\ Seeded \subseteq Records
    /\ SeedZones(SeedFile) \subseteq Zones
    /\ \A r \in Records : r.zone \in Zones
<1>1. \A raw \in SeedFile.records : raw \in RawRecords /\ RecordAccepted(raw)
  BY ServerAssumption DEF SeedAccepted
<1>2. \A raw \in SeedFile.zones : raw \in RawZones /\ ZoneAccepted(raw)
  BY ServerAssumption DEF SeedAccepted
<1>3. Seeded \subseteq Records
  BY <1>1, CallFacts DEF Seeded
<1>4. SeedZones(SeedFile) \subseteq Zones
  BY <1>1, <1>2, CallFacts DEF SeedZones
<1> QED
  BY <1>3, <1>4, CallFacts

\* Every writing call, in any phase, moves by such steps.
LEMMA WritesAreCallSteps ==
    ASSUME ServerInv,
           NEW p \in Writers,
           \/ Write(p) \/ WriteStep(p)
           \/ p = Main /\ phase = "seeding" /\ \E zone \in seedZones : PutZone(Main, zone, {})
           \/ /\ p = Main /\ phase = "seeding"
              /\ \E record \in seedRecords : PutZone(Main, record.zone, {record})
    PROVE  CallStep(p)
<1> USE DEF ServerInv
<1>1. ASSUME NEW raw \in RawZones, BboltSaveZone(p, raw) PROVE CallStep(p)
  <2>1. PICK zone \in Zones : PutZone(p, zone, {})
    BY <1>1, CallFacts DEF BboltSaveZone
  <2> QED
    BY <2>1, PutZoneStep
<1>2. ASSUME NEW raw \in RawRecords, BboltSaveRecord(p, raw) PROVE CallStep(p)
  <2>1. PICK r \in Records : PutZone(p, r.zone, {r})
    BY <1>2, CallFacts DEF BboltSaveRecord
  <2>2. r.zone \in Zones
    BY CallFacts
  <2> QED
    BY <2>1, <2>2, PutZoneStep
<1>3. ASSUME phase = "seeding", NEW zone \in seedZones, PutZone(Main, zone, {})
      PROVE  CallStep(Main)
  <2>1. zone \in Zones
    BY <1>3, SeedFacts DEF SeedInv
  <2> QED
    BY <1>3, <2>1, PutZoneStep, ServerAssumption
<1>4. ASSUME phase = "seeding", NEW r \in seedRecords, PutZone(Main, r.zone, {r})
      PROVE  CallStep(Main)
  <2>1. r \in Records /\ r.zone \in Zones
    BY <1>4, SeedFacts DEF SeedInv
  <2> QED
    BY <1>4, <2>1, PutZoneStep, ServerAssumption
<1>5. CASE Write(p)
  BY <1>1, <1>2, <1>5, BboltDeleteRecordStep, BboltDeleteZoneStep DEF Write
<1>6. CASE WriteStep(p)
  BY <1>6, BboltPutRecordStep, DeleteRowsStep, BboltBumpStep DEF WriteStep
<1> QED
  BY <1>3, <1>4, <1>5, <1>6

-----------------------------------------------------------------------------
(* The resolver over the store. *)

\* The unannounced zones are zones of the store.
LEMMA UnannouncedZones ==
    ASSUME StoreInv, stale \subseteq Zones
    PROVE  Unannounced \subseteq Zones
BY DEF Unannounced, StoreInv, BusyInZones

\* The same of the next state.
LEMMA UnannouncedZonesNext ==
    ASSUME StoreInv', stale' \subseteq Zones
    PROVE  Unannounced' \subseteq Zones
BY DEF Unannounced, StoreInv, BusyInZones

\* A step of a writing call, seen from the resolver.
LEMMA CallStepOpen ==
    ASSUME OpenInv, NEW p \in Writers, CallStep(p), UNCHANGED resolverVars
    PROVE  OpenInv'
<1>1. PICK before \in SUBSET Zones : before = Unannounced /\ ResolverInv(before)
  BY DEF OpenInv
<1>2. StoreInv' /\ stale' \subseteq Zones /\ Moves
  BY DEF CallStep
<1>3. PICK after \in SUBSET Zones : after = Unannounced'
  BY <1>2, UnannouncedZonesNext
<1>4. Announces \/ Hides(before, after)
  BY <1>1, <1>2, <1>3 DEF Moves, ChangesIn, Hides
<1>5. ResolverInv(after)'
  BY <1>1, <1>2, <1>4, WriterStep DEF StoreInv
<1> QED
  BY <1>2, <1>3, <1>5 DEF OpenInv

\* A step of the resolver, or of neither, leaves the unannounced zones alone.
LEMMA ReadStepOpen ==
    ASSUME StoreInv, OpenInv, UNCHANGED <<zones, records, revision, call, stale>>,
           \A open : ResolverInv(open) => ResolverInv(open)'
    PROVE  StoreInv' /\ OpenInv' /\ Unannounced' = Unannounced
<1>1. PICK open \in SUBSET Zones : open = Unannounced /\ ResolverInv(open)
  BY DEF OpenInv
<1>2. Unannounced' = Unannounced
  BY DEF Unannounced
<1>3. StoreInv'
  BY DEF StoreInv, StoreTypeOK, CallsInOneZone, BusyInZones
<1> QED
  BY <1>1, <1>2, <1>3 DEF OpenInv

\* A failed read returns SERVFAIL and leaves nothing behind.
LEMMA ReadFailsStep ==
    ASSUME NEW open, ResolverInv(open), NEW p \in Readers, ReadFails(p)
    PROVE  ResolverInv(open)'
<1>1. query[p] \in Queries /\ query[p].revision <= revision
  BY QueryFacts DEF ResolverInv, QueryInv
<1>2. Failed(query[p]) = Returned(query[p], Unanswered("SERVFAIL"))
      /\ Unanswered("SERVFAIL") \in Results
  BY <1>1, FailedFacts
<1>3. Failed(query[p]) \in Queries /\ QueryInv(Failed(query[p]), open)
  BY <1>1, <1>2, ReturnedInv
<1>4. query' = [query EXCEPT ![p] = Failed(query[p])]
      /\ UNCHANGED <<storeVars, zoneIndex, zonesLoaded, zonesVersion, cache>>
  BY DEF ReadFails, bboltVars, storeVars
<1> QED
  BY <1>3, <1>4, ReaderStep

\* A process that has just started, or ended, has an empty index and an empty cache.
LEMMA RestartOpen ==
    ASSUME StoreInv, call' = [p \in Writers |-> NoCall], stale' = {}, revision' = 0,
           zones' = zones, records' = records, ResolverInit'
    PROVE  StoreInv' /\ OpenInv' /\ Unannounced' = {}
<1>1. StoreInv'
  BY CallFacts DEF StoreInv, StoreTypeOK, CallsInOneZone, BusyInZones, NoCall
<1>2. Unannounced' = {}
  BY DEF Unannounced, NoCall
<1>3. /\ zoneIndex' = {} /\ zonesLoaded' = FALSE /\ zonesVersion' = 0 /\ cache' = {}
      /\ query' = [p \in Readers |-> NoQuery]
  BY DEF ResolverInit
<1>4. TypeOK'
  BY <1>1, <1>3, NoQueryType DEF TypeOK, StoreInv
<1>5. QueryInv(NoQuery, {})'
  BY DEF QueryInv, NoQuery, StillTrue, EarlyPcs
<1>6. ResolverInv({})'
  BY <1>3, <1>4, <1>5 DEF ResolverInv, IndexInv
<1> QED
  BY <1>1, <1>2, <1>6 DEF OpenInv

-----------------------------------------------------------------------------
(* The steps of the process. *)

\* What a step is to the Repository: one of its steps, or none.
Refines == [BboltContract!RepositoryNext]_(BboltContract!repositoryVars)

\* A change is a change of the Repository, an increment announces, a return is no step.
LEMMA MovesRefine == Moves => Refines
<1>1. ASSUME NEW zone \in Zones, ChangesIn(zone) PROVE BboltContract!Change(zone)
  <2>1. zones' \ {zone} = zones \ {zone}
    BY <1>1 DEF ChangesIn
  <2>2. \A r : r.zone # zone => (r \in records' <=> r \in records)
    BY <1>1 DEF ChangesIn, InZone
  <2>3. BboltContract!Outside(records', zone) = BboltContract!Outside(records, zone)
    BY <2>2 DEF BboltContract!Outside
  <2> QED
    BY <1>1, <2>1, <2>3 DEF ChangesIn, BboltContract!Change
<1>2. ASSUME Announces, Unannounced' \subseteq Unannounced PROVE BboltContract!Announce
  BY <1>2 DEF Announces, BboltContract!Announce
<1> QED
  BY <1>1, <1>2 DEF Moves, Refines, BboltContract!RepositoryNext, BboltContract!repositoryVars

\* The first start of the process on an empty file, or on what an earlier one left.
LEMMA ServerInitInv == ServerInit => ServerInv /\ BboltContract!RepositoryInit
<1> SUFFICES ASSUME ServerInit PROVE ServerInv /\ BboltContract!RepositoryInit
  OBVIOUS
<1>1. StoreInv /\ ResolverInit /\ stale = {} /\ faults = 0 /\ phase = "down"
      /\ call = [p \in Writers |-> NoCall]
  BY StoreInitInv DEF ServerInit, BboltInit, StoreInit
<1>2. Unannounced = {}
  BY <1>1 DEF Unannounced, NoCall
<1>3. ResolverInv({})
  BY <1>1, FreshResolver DEF StoreInv
<1>4. OpenInv
  BY <1>1, <1>2, <1>3 DEF OpenInv
<1>5. PhaseInv /\ SeedInv
  BY <1>1 DEF PhaseInv, SeedInv, NoCall
<1>6. BboltContract!RepositoryInit
  BY <1>1, <1>2 DEF BboltContract!RepositoryInit, StoreInv, StoreTypeOK
<1> QED
  BY <1>1, <1>4, <1>5, <1>6 DEF ServerInv

\* Opening the file starts the revision at zero again, under an empty resolver.
LEMMA OpenStep ==
    ASSUME ServerInv, Open
    PROVE  ServerInv' /\ Refines
<1>1. /\ phase = "down" /\ phase' = "seeding" /\ revision' = 0 /\ zones' = zones
      /\ records' = records /\ call' = call /\ stale' = stale /\ faults' = faults
      /\ seedZones' = SeedZones(SeedFile) /\ UNCHANGED resolverVars
  BY DEF Open
<1>2. StoreInv /\ PhaseInv /\ call = [p \in Writers |-> NoCall] /\ stale = {} /\ ResolverInit
  BY <1>1 DEF ServerInv, PhaseInv
<1>3. ResolverInit'
  BY <1>1, <1>2 DEF ResolverInit, resolverVars
<1>4. StoreInv' /\ OpenInv' /\ Unannounced' = {}
  BY <1>1, <1>2, <1>3, RestartOpen
<1>5. PhaseInv'
  BY <1>1, <1>2, <1>3 DEF PhaseInv
<1>6. SeedInv'
  <2>1. PICK kept \in Deduped(Seeded) : seedRecords' = kept
    BY DEF Open, Seeded
  <2>2. kept \subseteq Seeded /\ \A r \in Seeded : \E s \in kept : Key(r) = Key(s)
    BY <2>1 DEF Deduped
  <2>3. \A raw \in SeedFile.records : \E s \in kept : Key(s) = Key(NormalizeRecord(raw))
    BY <2>2 DEF Seeded
  <2>4. call'[Main].record = {} /\ \A p \in Writers : call'[p].pc = "idle"
    BY <1>1, <1>2, ServerAssumption DEF NoCall
  <2>5. call'[Main].pc = "idle"
    BY <2>4, ServerAssumption
  <2> QED
    BY <1>1, <2>1, <2>2, <2>3, <2>4, <2>5 DEF SeedInv
<1>7. Refines
  BY <1>1, <1>4 DEF Refines, BboltContract!RepositoryNext, BboltContract!Reopen
<1> QED
  BY <1>4, <1>5, <1>6, <1>7 DEF ServerInv

\* A crash loses the revision together with everything that was filed under it.
LEMMA CrashStep ==
    ASSUME ServerInv, Crash
    PROVE  ServerInv' /\ Refines
<1>1. /\ phase' = "down" /\ revision' = 0 /\ zones' = zones /\ records' = records
      /\ call' = [p \in Writers |-> NoCall] /\ stale' = {} /\ faults' = faults
      /\ ResolverInit'
  BY DEF Crash, ResolverInit
<1>2. StoreInv' /\ OpenInv' /\ Unannounced' = {}
  BY <1>1, RestartOpen DEF ServerInv
<1>3. PhaseInv' /\ SeedInv'
  BY <1>1 DEF ServerInv, PhaseInv, SeedInv, NoCall
<1>4. Refines
  BY <1>1, <1>2 DEF Refines, BboltContract!RepositoryNext, BboltContract!Reopen
<1> QED
  BY <1>2, <1>3, <1>4 DEF ServerInv

\* A writing call of a running process keeps all parts of the invariant but the seed's.
LEMMA CallStepServer ==
    ASSUME ServerInv, NEW p \in Writers, CallStep(p), UNCHANGED resolverVars,
           phase # "down", phase' = phase, faults' \in Nat
    PROVE  StoreInv' /\ OpenInv' /\ PhaseInv' /\ Refines
<1>1. StoreInv' /\ OpenInv'
  BY CallStepOpen DEF ServerInv, CallStep
<1>2. phase' # "serving" => ResolverInit'
  BY DEF ServerInv, PhaseInv, ResolverInit, resolverVars
<1>3. PhaseInv'
  BY <1>2 DEF CallStep, PhaseInv
<1> QED
  BY <1>1, <1>3, MovesRefine DEF CallStep

\* A zone of the seed goes into the store in the transaction that takes it off the list.
LEMMA SeedZoneStep ==
    ASSUME ServerInv, SeedZone
    PROVE  ServerInv' /\ Refines
<1>1. PICK zone \in seedZones : PutZone(Main, zone, {}) /\ seedZones' = seedZones \ {zone}
  BY DEF SeedZone
<1>2. /\ phase = "seeding" /\ phase' = phase /\ seedRecords' = seedRecords
      /\ UNCHANGED resolverVars /\ Main \in Writers
  BY ServerAssumption DEF SeedZone
<1>3. /\ zones' = zones \cup {zone} /\ records' = records /\ faults' = faults
      /\ call' = [call EXCEPT ![Main] = [NoCall EXCEPT !.pc = "bump", !.zone = zone,
                                                       !.record = {}]]
  BY <1>1 DEF PutZone
<1>4. CallStep(Main)
  BY <1>1, <1>2, WritesAreCallSteps
<1>5. StoreInv' /\ OpenInv' /\ PhaseInv' /\ Refines
  BY <1>2, <1>3, <1>4, CallStepServer DEF ServerInv, PhaseInv
<1>6. call'[Main].pc = "bump" /\ call'[Main].record = {}
      /\ \A p \in Writers : p # Main => call'[p] = call[p]
  BY <1>2, <1>3 DEF ServerInv, StoreInv, StoreTypeOK, NoCall
<1>7. call[Main].record = {}
  BY <1>1, <1>2 DEF PutZone, ServerInv, PhaseInv
<1>8. SeedInv'
  BY <1>1, <1>2, <1>3, <1>6, <1>7 DEF ServerInv, SeedInv
<1> QED
  BY <1>5, <1>8 DEF ServerInv

\* A record of the seed moves from the list into the call that will put it.
LEMMA SeedRecordStep ==
    ASSUME ServerInv, SeedRecord
    PROVE  ServerInv' /\ Refines
<1>1. PICK record \in seedRecords :
          PutZone(Main, record.zone, {record}) /\ seedRecords' = seedRecords \ {record}
  BY DEF SeedRecord
<1>2. /\ phase = "seeding" /\ phase' = phase /\ seedZones' = seedZones
      /\ UNCHANGED resolverVars /\ Main \in Writers
  BY ServerAssumption DEF SeedRecord
<1>3. /\ zones' = zones \cup {record.zone} /\ records' = records /\ faults' = faults
      /\ call' = [call EXCEPT ![Main] = [NoCall EXCEPT !.pc = "bump", !.zone = record.zone,
                                                       !.record = {record}]]
  BY <1>1 DEF PutZone
<1>4. CallStep(Main)
  BY <1>1, <1>2, WritesAreCallSteps
<1>5. StoreInv' /\ OpenInv' /\ PhaseInv' /\ Refines
  BY <1>2, <1>3, <1>4, CallStepServer DEF ServerInv, PhaseInv
<1>6. call'[Main].pc = "bump" /\ call'[Main].record = {record}
      /\ \A p \in Writers : p # Main => call'[p] = call[p]
  BY <1>2, <1>3 DEF ServerInv, StoreInv, StoreTypeOK, NoCall
<1>7. call[Main].record = {}
  BY <1>1, <1>2 DEF PutZone, ServerInv, PhaseInv
<1>8. records' \cup seedRecords' \cup call'[Main].record
          = records \cup seedRecords \cup call[Main].record
  BY <1>1, <1>3, <1>6, <1>7
<1>9. SeedInv'
  BY <1>1, <1>2, <1>3, <1>6, <1>8 DEF ServerInv, SeedInv
<1> QED
  BY <1>5, <1>9 DEF ServerInv

\* A writing call of the serving process says nothing about the seed.
LEMMA WriteInv ==
    ASSUME ServerInv, NEW p \in Writers, Write(p)
    PROVE  ServerInv' /\ Refines
<1>1. phase = "serving" /\ phase' = phase /\ UNCHANGED resolverVars
  BY DEF Write, processVars
<1>2. faults' = faults
  BY DEF Write, BboltSaveZone, BboltDeleteZone, BboltSaveRecord, BboltDeleteRecord, PutZone
<1>3. CallStep(p)
  BY WritesAreCallSteps
<1>4. StoreInv' /\ OpenInv' /\ PhaseInv' /\ Refines
  BY <1>1, <1>2, <1>3, CallStepServer DEF ServerInv, PhaseInv
<1>5. SeedInv'
  BY <1>1 DEF SeedInv
<1> QED
  BY <1>4, <1>5 DEF ServerInv

\* While the seed is applied, the step of a call is Main's, and puts what Main holds.
LEMMA WriteStepInv ==
    ASSUME ServerInv, NEW p \in Writers, WriteStep(p)
    PROVE  ServerInv' /\ Refines
<1>1. /\ phase' = phase /\ seedZones' = seedZones /\ seedRecords' = seedRecords
      /\ UNCHANGED resolverVars
  BY DEF WriteStep, processVars
<1>2. call[p].pc # "idle" /\ faults' \in Nat /\ faults \in Nat
  BY DEF WriteStep, BboltPutRecord, DeleteRows, BboltBump, Fail, ServerInv, PhaseInv
<1>3. phase # "down"
  BY <1>2 DEF ServerInv, PhaseInv, NoCall
<1>4. CallStep(p)
  BY WritesAreCallSteps
<1>5. StoreInv' /\ OpenInv' /\ PhaseInv' /\ Refines
  BY <1>1, <1>2, <1>3, <1>4, CallStepServer
<1>6. ASSUME phase = "seeding" PROVE SeedInv'
  <2>1. p = Main /\ Main \in Writers
    BY <1>2, <1>6, ServerAssumption DEF ServerInv, SeedInv
  <2>2. call[Main].pc \in {"put", "bump"} /\ call[Main] \in Calls
    BY <1>2, <1>6, <2>1 DEF ServerInv, SeedInv, StoreInv, StoreTypeOK
  <2>3. \A q \in Writers : q # Main => call'[q] = call[q]
    BY <1>4, <2>1 DEF CallStep
  <2>4. CASE BboltPutRecord(Main)
    <3>1. faults' = faults
      BY <1>6, <2>1, <2>4 DEF WriteStep, BboltPutRecord, DeleteRows, BboltBump
    <3>2. ~Fail(Main, "SaveRecord")
      BY <1>2, <3>1 DEF Fail
    <3>3. PICK record \in call[Main].record : records' = Put(records, record)
      BY <2>4, <3>2 DEF BboltPutRecord
    <3>4. zones' = zones /\ call' = [call EXCEPT ![Main].pc = "bump", ![Main].record = {}]
      BY <2>4, <3>2 DEF BboltPutRecord
    <3>5. call'[Main].pc = "bump" /\ call'[Main].record = {}
      BY <2>1, <2>2, <3>4 DEF ServerInv, StoreInv, StoreTypeOK, Calls
    <3>6. record \in Seeded /\ call[Main].record \subseteq Seeded
      BY <1>6, <3>3 DEF ServerInv, SeedInv
    <3>7. \A r \in call[Main].record : r = record
      BY <1>6, <3>3 DEF ServerInv, SeedInv
    <3>8. ASSUME NEW raw \in SeedFile.records
          PROVE  \E r \in (records' \cup seedRecords') \cap Seeded :
                     Key(r) = Key(NormalizeRecord(raw))
      <4>1. PICK r \in (records \cup seedRecords \cup call[Main].record) \cap Seeded :
                Key(r) = Key(NormalizeRecord(raw))
        BY <1>6 DEF ServerInv, SeedInv
      <4>2. record \in records' /\ (r \in records /\ Key(r) # Key(record) => r \in records')
        BY <3>3 DEF Put
      <4> QED
        BY <1>1, <3>6, <3>7, <4>1, <4>2
    <3> QED
      BY <1>1, <1>6, <2>3, <3>4, <3>5, <3>8 DEF ServerInv, SeedInv
  <2>5. CASE BboltBump(Main)
    <3>1. zones' = zones /\ records' = records
      BY <2>5 DEF BboltBump
    <3>2. call'[Main].record = call[Main].record /\ call'[Main].pc \in {"idle", "put"}
      BY <2>1, <2>2, <2>5 DEF BboltBump, NoCall, Calls, ServerInv, StoreInv, StoreTypeOK
    <3> QED
      BY <1>1, <1>6, <2>3, <3>1, <3>2 DEF ServerInv, SeedInv
  <2> QED
    BY <2>1, <2>2, <2>4, <2>5 DEF WriteStep, DeleteRows
<1> QED
  BY <1>1, <1>5, <1>6 DEF ServerInv, SeedInv

\* Queries, failed reads and evictions leave the store and the process alone.
LEMMA ReadInv ==
    ASSUME ServerInv,
           UNCHANGED <<zones, records, revision, call, stale, faults,
                       phase, seedZones, seedRecords>>,
           \A open : ResolverInv(open) => ResolverInv(open)',
           phase' # "serving" => ResolverInit'
    PROVE  ServerInv' /\ Refines
<1>1. StoreInv' /\ OpenInv' /\ Unannounced' = Unannounced
  BY ReadStepOpen DEF ServerInv
<1>2. PhaseInv' /\ SeedInv'
  BY DEF ServerInv, PhaseInv, SeedInv
<1>3. Refines
  BY <1>1 DEF Refines, BboltContract!repositoryVars
<1> QED
  BY <1>1, <1>2, <1>3 DEF ServerInv

\* Nothing is asked before the process serves, so a reader's step is one of a server.
LEMMA ReaderInv ==
    ASSUME ServerInv, NEW p \in Readers, Answering(p) \/ ReadFails(p)
    PROVE  ServerInv' /\ Refines
<1>1. CASE Answering(p)
  <2>1. /\ phase = "serving" /\ ((\E raw \in Questions : Resolve(p, raw)) \/ QueryStep(p))
        /\ UNCHANGED <<stale, faults, phase, seedZones, seedRecords>>
    BY <1>1 DEF Answering, processVars
  <2>2. \A open : ResolverInv(open) => ResolverInv(open)' /\ UNCHANGED storeVars
    BY <2>1, QueryNextStep
  <2>3. UNCHANGED storeVars
    BY <2>2 DEF ServerInv, OpenInv
  <2> QED
    BY <2>1, <2>2, <2>3, ReadInv DEF storeVars
<1>2. CASE ReadFails(p)
  <2>1. UNCHANGED <<zones, records, revision, call, stale, faults,
                    phase, seedZones, seedRecords>>
    BY <1>2 DEF ReadFails, bboltVars
  <2>2. phase = "serving"
    <3>1. query[p].pc # "idle"
      BY <1>2 DEF ReadFails
    <3> QED
      BY <3>1 DEF ServerInv, PhaseInv, ResolverInit, NoQuery
  <2>3. \A open : ResolverInv(open) => ResolverInv(open)'
    BY <1>2, ReadFailsStep
  <2> QED
    BY <2>1, <2>2, <2>3, ReadInv
<1> QED
  BY <1>1, <1>2

\* Every step of the server keeps the invariant and is a step of the Repository or none.
LEMMA ServerNextInv == ServerInv /\ [ServerNext]_serverVars => ServerInv' /\ Refines
<1> SUFFICES ASSUME ServerInv, [ServerNext]_serverVars PROVE ServerInv' /\ Refines
  OBVIOUS
<1>1. CASE Serve
  <2>1. /\ UNCHANGED <<zones, records, revision, call, stale, calls, faults>>
        /\ phase' = "serving" /\ UNCHANGED resolverVars
    BY <1>1 DEF Serve, bboltVars
  <2>2. UNCHANGED vars
    BY <2>1 DEF vars, resolverVars
  <2>3. \A open : ResolverInv(open) => ResolverInv(open)'
    BY <2>2, IdleStep
  <2>4. StoreInv' /\ OpenInv' /\ Unannounced' = Unannounced
    BY <2>1, <2>3, ReadStepOpen DEF ServerInv
  <2>5. PhaseInv' /\ SeedInv'
    BY <2>1 DEF ServerInv, PhaseInv, SeedInv
  <2>6. Refines
    BY <2>1, <2>4 DEF Refines, BboltContract!repositoryVars
  <2> QED
    BY <2>4, <2>5, <2>6 DEF ServerInv
<1>2. CASE Evict /\ UNCHANGED <<stale, calls, faults, processVars>>
  <2>1. UNCHANGED <<zones, records, revision, call, stale, faults,
                    phase, seedZones, seedRecords>>
    BY <1>2 DEF Evict, storeVars, processVars
  <2>2. phase = "serving"
    BY <1>2 DEF Evict, ServerInv, PhaseInv, ResolverInit
  <2>3. \A open : ResolverInv(open) => ResolverInv(open)'
    BY <1>2, EvictStep
  <2> QED
    BY <2>1, <2>2, <2>3, ReadInv
<1>3. CASE UNCHANGED serverVars
  <2>1. /\ UNCHANGED <<zones, records, revision, call, stale, faults,
                       phase, seedZones, seedRecords>>
        /\ UNCHANGED resolverVars
    BY <1>3 DEF serverVars, bboltVars, processVars
  <2>2. UNCHANGED vars
    BY <2>1 DEF vars, resolverVars
  <2>3. \A open : ResolverInv(open) => ResolverInv(open)'
    BY <2>2, IdleStep
  <2>4. phase' # "serving" => ResolverInit'
    BY <2>1 DEF ServerInv, PhaseInv, ResolverInit, resolverVars
  <2> QED
    BY <2>1, <2>3, <2>4, ReadInv
<1> QED
  BY <1>1, <1>2, <1>3, OpenStep, SeedZoneStep, SeedRecordStep, CrashStep, WriteInv,
     WriteStepInv, ReaderInv DEF ServerNext

-----------------------------------------------------------------------------
\* The inductive invariant holds in every reachable state of the server.
LEMMA ServerInvHolds == ServerSpec => []ServerInv
BY ServerInitInv, ServerNextInv, PTL DEF ServerSpec

\* The bbolt store implements the Repository the resolver relies on, whichever
\* transactions fail and however often the process ends and starts again.
THEOREM BboltStoreImplementsRepository == ServerSpec => BboltImplementsRepository
BY ServerInitInv, ServerNextInv, PTL
DEF ServerSpec, BboltImplementsRepository, BboltContract!RepositorySpec, Refines

\* The invariant implies what the index and the cache are relied on for.
LEMMA ServerInvConsequences == ServerInv => IndexFresh
<1> SUFFICES ASSUME ServerInv PROVE IndexFresh
  OBVIOUS
<1>1. PICK open \in SUBSET Zones : open = Unannounced /\ ResolverInv(open)
  BY DEF ServerInv, OpenInv
<1> QED
  BY <1>1 DEF ResolverInv, IndexInv, IndexFresh

\* The zone index of the current revision is the zone list of the file, but for zones
\* with an unannounced change: no start of the process inherits an index, and no failed
\* transaction leaves one behind.
THEOREM IndexIsFresh == ServerSpec => []IndexFresh
BY ServerInvHolds, ServerInvConsequences, PTL

\* The steps of the server keep what a query has looked up exact.
LEMMA ServerExactStep ==
    ASSUME ServerInv, ExactInv, [ServerNext]_serverVars
    PROVE  ExactInv'
<1>1. TypeOK
  BY DEF ServerInv, OpenInv, ResolverInv
<1>2. CASE UNCHANGED <<cache, query>>
  BY <1>2, ExactKept
<1>3. CASE Crash
  BY <1>3, ExactReturned DEF Crash, ExactInv
<1>4. ASSUME NEW p \in Readers, Answering(p) PROVE ExactInv'
  BY <1>1, <1>4, ExactNextStep DEF Answering
<1>5. ASSUME NEW p \in Readers, ReadFails(p) PROVE ExactInv'
  BY <1>1, <1>5, ExactReturned, ExactReader DEF ReadFails, Failed, ExactInv
<1>6. CASE Evict
  BY <1>6, ExactKept
<1>7. ASSUME Open \/ SeedZone \/ SeedRecord \/ Serve \/ UNCHANGED serverVars
             \/ \E p \in Writers : Write(p) \/ WriteStep(p)
      PROVE  UNCHANGED <<cache, query>>
  BY <1>7 DEF Open, SeedZone, SeedRecord, Serve, Write, WriteStep, serverVars, resolverVars
<1> QED
  BY <1>2, <1>3, <1>4, <1>5, <1>6, <1>7 DEF ServerNext

\* Both invariants hold in every reachable state of the server.
LEMMA ServerExactHolds == ServerSpec => [](ServerInv /\ ExactInv)
<1>1. ServerInit => ExactInv
  BY ExactKept DEF ServerInit
<1>2. ServerInv /\ ExactInv /\ [ServerNext]_serverVars => ServerInv' /\ ExactInv'
  BY ServerNextInv, ServerExactStep
<1> QED
  BY <1>1, <1>2, ServerInitInv, PTL DEF ServerSpec

\* A cached response of the current revision is its zone's answer in the store, unless
\* the zone holds an unannounced change: neither a write that failed half-way nor an
\* earlier start of the process leaves another one behind.
THEOREM CacheIsFresh == ServerSpec => []CacheFresh
<1>1. ServerInv /\ ExactInv => CacheFresh
  <2> SUFFICES ASSUME ServerInv, ExactInv, NEW e \in cache, e.key = revision,
                      e.zone \notin Unannounced
               PROVE  e.result = ZoneAnswer(records, e.zone, e.question)
    BY DEF CacheFresh
  <2>1. PICK open \in SUBSET Zones : open = Unannounced /\ ResolverInv(open)
    BY DEF ServerInv, OpenInv
  <2> QED
    BY <2>1, EntryIsExact
<1> QED
  BY <1>1, ServerExactHolds, PTL

-----------------------------------------------------------------------------
(* The answers of the server. *)

\* The result that a query may return instead of the store's answer once a read has failed.
Excused == IF readFaults > 0 THEN {Unanswered("SERVFAIL")} ELSE {}

ServerAnswers ==
    /\ readFaults \in Nat
    /\ \E open \in SUBSET Zones, excused \in SUBSET {Unanswered("SERVFAIL")} :
          open = Unannounced /\ excused = Excused /\ AnswerInv(open, excused)

\* A step of a writing call, seen from the queries.
LEMMA CallStepAnswers ==
    ASSUME ServerInv, ServerAnswers, NEW p \in Writers, CallStep(p), UNCHANGED resolverVars,
           readFaults' = readFaults
    PROVE  ServerAnswers'
<1>1. PICK before \in SUBSET Zones, excused \in SUBSET {Unanswered("SERVFAIL")} :
          before = Unannounced /\ excused = Excused /\ AnswerInv(before, excused)
  BY DEF ServerAnswers
<1>2. ResolverInv(before)
  BY <1>1 DEF ServerInv, OpenInv
<1>3. StoreInv' /\ stale' \subseteq Zones /\ Moves
  BY DEF CallStep
<1>4. PICK after \in SUBSET Zones : after = Unannounced'
  BY <1>3, UnannouncedZonesNext
<1>5. Announces \/ Hides(before, after)
  BY <1>1, <1>3, <1>4 DEF Moves, ChangesIn, Hides
<1>6. AnswerInv(after, excused)'
  BY <1>1, <1>2, <1>3, <1>5, AnswerWriter DEF StoreInv
<1>7. excused = Excused'
  BY <1>1 DEF Excused
<1> QED
  BY <1>4, <1>6, <1>7 DEF ServerAnswers

\* A process that has just started, or ended, answers nothing.
LEMMA RestartAnswers ==
    ASSUME ServerAnswers, Unannounced' = {}, ResolverInit', readFaults' = readFaults
    PROVE  ServerAnswers'
<1>1. cache' = {} /\ query' = [p \in Readers |-> NoQuery]
  BY DEF ResolverInit
<1>2. PICK excused \in SUBSET {Unanswered("SERVFAIL")} : excused = Excused'
  BY DEF Excused
<1>3. AnswerQuery(NoQuery, {}, excused)'
  BY DEF AnswerQuery, NoQuery, EarlyPcs, PlacedPcs, KeyedPcs, ResolvingPcs, LatePcs
<1>4. AnswerInv({}, excused)'
  BY <1>1, <1>3 DEF AnswerInv
<1> QED
  BY <1>2, <1>4 DEF ServerAnswers

\* A step that leaves the store and its writers alone.
LEMMA ReadAnswers ==
    ASSUME ServerAnswers, UNCHANGED <<call, stale>>, readFaults' = readFaults,
           \A open, excused :
               open = Unannounced /\ AnswerInv(open, excused) => AnswerInv(open, excused)'
    PROVE  ServerAnswers'
<1>1. PICK open \in SUBSET Zones, excused \in SUBSET {Unanswered("SERVFAIL")} :
          open = Unannounced /\ excused = Excused /\ AnswerInv(open, excused)
  BY DEF ServerAnswers
<1>2. open = Unannounced' /\ excused = Excused'
  BY <1>1 DEF Unannounced, Excused
<1> QED
  BY <1>1, <1>2 DEF ServerAnswers

\* A failed read: from now on SERVFAIL is excused.
LEMMA ReadFailsAnswers ==
    ASSUME ServerInv, ServerAnswers, NEW p \in Readers, ReadFails(p)
    PROVE  ServerAnswers'
<1> DEFINE result == Unanswered("SERVFAIL")
<1>1. PICK open \in SUBSET Zones, excused \in SUBSET {result} :
          open = Unannounced /\ AnswerInv(open, excused)
  BY DEF ServerAnswers
<1>2. TypeOK
  BY DEF ServerInv, OpenInv, ResolverInv
<1>3. query' = [query EXCEPT ![p] = Returned(query[p], result)] /\ cache' = cache
      /\ UNCHANGED storeVars /\ UNCHANGED <<call, stale>> /\ readFaults' = readFaults + 1
  BY DEF ReadFails, Failed, bboltVars, storeVars
<1>4. readFaults' \in Nat /\ readFaults' > 0
  BY <1>3 DEF ServerAnswers
<1>5. {result} = Excused' /\ open = Unannounced'
  BY <1>1, <1>3, <1>4 DEF Excused, Unannounced
<1> HIDE DEF result
<1>6. AnswerInv(open, {result})
  BY <1>1 DEF AnswerInv, AnswerQuery
<1>7. AnswerQuery(Returned(query[p], result), open, {result})
  BY AnswerReturned
<1>8. AnswerInv(open, {result})'
  BY <1>2, <1>3, <1>6, <1>7, AnswerReader DEF AnswerInv
<1> QED
  BY <1>4, <1>5, <1>8 DEF ServerAnswers, result

\* Every step of the server.
LEMMA ServerAnswersStep ==
    ASSUME OneZoneAbove, ServerInv, ExactInv, ServerAnswers, [ServerNext]_serverVars
    PROVE  ServerAnswers'
<1>1. CASE Open \/ Crash
  <2>1. readFaults' = readFaults
    BY <1>1 DEF Open, Crash
  <2>2. CASE Open
    <3>1. ResolverInit' /\ Unannounced' = {}
      BY <2>2 DEF Open, ServerInv, PhaseInv, ResolverInit, resolverVars, Unannounced, NoCall
    <3> QED
      BY <2>1, <3>1, RestartAnswers
  <2>3. CASE Crash
    <3>1. ResolverInit' /\ Unannounced' = {}
      BY <2>3 DEF Crash, ResolverInit, Unannounced, NoCall
    <3> QED
      BY <2>1, <3>1, RestartAnswers
  <2> QED
    BY <1>1, <2>2, <2>3
<1>2. CASE SeedZone \/ SeedRecord
  <2>1. readFaults' = readFaults /\ UNCHANGED resolverVars /\ Main \in Writers
    BY <1>2, ServerAssumption DEF SeedZone, SeedRecord
  <2>2. CallStep(Main)
    BY <1>2, <2>1, WritesAreCallSteps DEF SeedZone, SeedRecord
  <2> QED
    BY <2>1, <2>2, CallStepAnswers
<1>3. ASSUME NEW p \in Writers, Write(p) \/ WriteStep(p) PROVE ServerAnswers'
  <2>1. readFaults' = readFaults /\ UNCHANGED resolverVars
    BY <1>3 DEF Write, WriteStep, processVars
  <2>2. CallStep(p)
    BY <1>3, WritesAreCallSteps
  <2> QED
    BY <2>1, <2>2, CallStepAnswers
<1>4. CASE Serve \/ UNCHANGED serverVars
  <2>1. UNCHANGED vars /\ UNCHANGED <<call, stale>> /\ readFaults' = readFaults
    BY <1>4 DEF Serve, serverVars, bboltVars, processVars, resolverVars, vars
  <2> QED
    BY <2>1, ReadAnswers, AnswerKept
<1>5. CASE Evict /\ UNCHANGED <<stale, calls, faults, processVars>>
  <2>1. UNCHANGED <<call, stale>> /\ readFaults' = readFaults
    BY <1>5 DEF Evict, storeVars, processVars
  <2> QED
    BY <1>5, <2>1, ReadAnswers, AnswerKept
<1>6. ASSUME NEW p \in Readers, Answering(p) PROVE ServerAnswers'
  <2>1. ((\E raw \in Questions : Resolve(p, raw)) \/ QueryStep(p))
        /\ stale' = stale /\ readFaults' = readFaults
    BY <1>6 DEF Answering, processVars
  <2>2. \A open : open = Unannounced => ResolverInv(open)
    BY DEF ServerInv, OpenInv
  <2>3. call' = call
    BY <2>1, <2>2, QueryNextStep DEF storeVars
  <2>4. ASSUME NEW open, NEW excused, open = Unannounced, AnswerInv(open, excused)
        PROVE  AnswerInv(open, excused)'
    BY <2>1, <2>2, <2>4, AnswerNextStep
  <2> QED
    BY <2>1, <2>3, <2>4, ReadAnswers
<1> QED
  BY <1>1, <1>2, <1>3, <1>4, <1>5, <1>6, ReadFailsAnswers DEF ServerNext

\* A query that ran while no write was under way, and with no failed DeleteZone still
\* unannounced, returned the answer of the store or, after a failed read, SERVFAIL,
\* whichever start of the process it was, provided that no question lies under two zones.
THEOREM AnswerIsFresh ==
    ASSUME OneZoneAbove
    PROVE  ServerSpec => []AnswerFresh
<1>1. ServerInit => ServerAnswers
  <2> SUFFICES ASSUME ServerInit PROVE ServerAnswers
    OBVIOUS
  <2>1. readFaults = 0 /\ ResolverInit /\ Unannounced = {}
    BY DEF ServerInit, BboltInit, StoreInit, Unannounced, NoCall
  <2>2. Excused = {}
    BY <2>1 DEF Excused
  <2> QED
    BY <2>1, <2>2, AnswerKept DEF ServerAnswers
<1>2. ServerInv /\ ExactInv /\ ServerAnswers /\ [ServerNext]_serverVars => ServerAnswers'
  BY ServerAnswersStep
<1>3. ServerAnswers => AnswerFresh
  <2> SUFFICES ASSUME ServerAnswers, NEW p \in Readers, query[p].pc = "done", Quiet,
                      stale = {}, query[p].revision = revision
               PROVE  \/ query[p].result = Answer(zones, records, query[p].question)
                      \/ readFaults > 0 /\ query[p].result = Unanswered("SERVFAIL")
    BY DEF AnswerFresh
  <2>1. PICK open \in SUBSET Zones, excused \in SUBSET {Unanswered("SERVFAIL")} :
            open = Unannounced /\ excused = Excused /\ AnswerInv(open, excused)
    BY DEF ServerAnswers
  <2>2. open = {}
    BY <2>1 DEF Unannounced, Quiet
  <2>3. query[p].result \in {Answer(zones, records, query[p].question)} \cup Excused
    BY <2>1, <2>2 DEF AnswerInv, AnswerQuery
  <2> QED
    BY <2>3 DEF Excused
<1> QED
  BY <1>1, <1>2, <1>3, ServerExactHolds, PTL DEF ServerSpec

-----------------------------------------------------------------------------
\* The step that starts to serve finds the whole seed in the store.
LEMMA ServeFindsSeed ==
    ASSUME ServerInv, [ServerNext]_serverVars, phase # "serving", phase' = "serving"
    PROVE  /\ SeedZones(SeedFile) \subseteq zones
           /\ \A raw \in SeedFile.records :
                 \E r \in records \cap {NormalizeRecord(x) : x \in SeedFile.records} :
                     Key(r) = Key(NormalizeRecord(raw))
<1>1. Serve
  BY DEF ServerNext, serverVars, processVars, Open, SeedZone, SeedRecord, Crash, Write,
         WriteStep, Answering, ReadFails
<1>2. call[Main].record = {}
  BY <1>1, ServerAssumption DEF Serve, ServerInv, PhaseInv
<1> QED
  BY <1>1, <1>2 DEF Serve, ServerInv, SeedInv, Seeded

\* The server never starts to serve before every zone and record of its seed is stored,
\* with the seed's TTLs, whatever crash interrupted an earlier attempt.
THEOREM SeedIsServed == ServerSpec => SeedServed
<1>1. ServerInv /\ [ServerNext]_serverVars =>
          [phase # "serving" /\ phase' = "serving" =>
             /\ SeedZones(SeedFile) \subseteq zones
             /\ \A raw \in SeedFile.records :
                   \E r \in records \cap {NormalizeRecord(x) : x \in SeedFile.records} :
                       Key(r) = Key(NormalizeRecord(raw))]_serverVars
  BY ServeFindsSeed
<1> QED
  BY <1>1, ServerInvHolds, PTL DEF ServerSpec, SeedServed
=============================================================================

------------------------- MODULE MemoryStoreProofs -------------------------
(***************************************************************************)
(* Proofs that MemoryStore implements the Repository the resolver relies   *)
(* on.                                                                     *)
(*                                                                         *)
(* The argument.  A writing call has one zone, which its record and its    *)
(* rows belong to.  From its first change to its increment of the revision *)
(* the call is busy, so each of its steps is a change inside a zone that   *)
(* is busy afterwards, and only the increment ends it.                     *)
(***************************************************************************)
EXTENDS MemoryRepository, TLAPS

-----------------------------------------------------------------------------
(* Two kinds of steps. *)

\* A step after which the revision is new and the data is what it was.
Announces ==
    /\ revision' = revision + 1
    /\ zones' = zones
    /\ records' = records

\* A step inside one zone: it changes nothing elsewhere, and ends no call.
Touches(zone) ==
    /\ revision' = revision
    /\ \A z : Busy(z)' <=> Busy(z) \/ z = zone
    /\ \A z : z # zone => /\ z \in zones' <=> z \in zones
                          /\ InZone(records', z) = InZone(records, z)

\* A record key determines the zone of the record.
LEMMA KeyZone ==
    ASSUME NEW r, NEW s, Key(r) = Key(s)
    PROVE  r.zone = s.zone
BY DEF Key

\* What lookupRecords finds depends on the records of the zone only.
LEMMA LookupInZone ==
    ASSUME NEW S, NEW T, NEW zone, InZone(S, zone) = InZone(T, zone),
           NEW name, NEW type, NEW class
    PROVE  LookupIn(S, zone, name, type, class) = LookupIn(T, zone, name, type, class)
<1>1. \A r \in S : r.zone = zone => r \in T
  BY DEF InZone
<1>2. \A r \in T : r.zone = zone => r \in S
  BY DEF InZone
<1>3. \A r : RowKey(r) = <<zone, name>> => r.zone = zone
  BY DEF RowKey
<1> QED
  BY <1>1, <1>2, <1>3 DEF LookupIn

\* NoCall is a call, and the zone of a stored record is a zone.
LEMMA CallFacts ==
    /\ NoCall \in Calls
    /\ \A r \in Records : r.zone \in Zones
    /\ \A raw \in RawRecords : RecordAccepted(raw) => NormalizeRecord(raw) \in Records
    /\ \A raw \in RawZones : ZoneAccepted(raw) => NormalizeZoneName(raw) \in Zones
<1>1. \A raw \in RawRecords : RecordAccepted(raw) => NormalizeRecord(raw) \in Records
  BY DEF Records
<1>2. \A raw \in RawZones : ZoneAccepted(raw) => NormalizeZoneName(raw) \in Zones
  BY DEF Zones
<1>3. \A r \in Records : r.zone \in Zones
  BY DEF Zones
<1>4. NoCall \in Calls
  BY DEF NoCall, Calls
<1> QED
  BY <1>1, <1>2, <1>3, <1>4

\* A call that starts in a zone, or goes on in it, and changes nothing outside it.
LEMMA TouchesOwnZone ==
    ASSUME NEW p \in Writers, StoreTypeOK,
           NEW c \in Calls, c.pc # "idle", call[p].pc = "idle" \/ call[p].zone = c.zone,
           call' = [call EXCEPT ![p] = c],
           revision' = revision,
           \A z : z # c.zone => /\ z \in zones' <=> z \in zones
                                /\ InZone(records', z) = InZone(records, z)
    PROVE  Touches(c.zone)
<1>1. call'[p] = c /\ \A q \in Writers : q # p => call'[q] = call[q]
  BY DEF StoreTypeOK
<1>2. \A z : Busy(z)' <=> Busy(z) \/ z = c.zone
  BY <1>1 DEF Busy
<1> QED
  BY <1>2 DEF Touches

\* The invariant of the store: its type, and calls that stay in one zone.
BusyInZones == \A p \in Writers : call[p].pc # "idle" => call[p].zone \in Zones

StoreInv == StoreTypeOK /\ CallsInOneZone /\ BusyInZones

\* What earlier, finished calls left behind satisfies the store part of the invariant.
LEMMA StoreInitInv == StoreInit => StoreInv
<1> SUFFICES ASSUME StoreInit PROVE StoreInv
  OBVIOUS
<1>1. zones \subseteq Zones /\ records \subseteq Records /\ revision \in Nat
  BY InitAssumption, CallFacts DEF StoreInit
<1>2. call \in [Writers -> Calls]
  BY CallFacts DEF StoreInit
<1>3. CallsInOneZone /\ BusyInZones
  BY DEF StoreInit, CallsInOneZone, BusyInZones, NoCall
<1> QED
  BY <1>1, <1>2, <1>3 DEF StoreInv, StoreTypeOK

\* A call that is replaced by one in order leaves the calls in order.
LEMMA CallUpdate ==
    ASSUME StoreInv, NEW p \in Writers, NEW c \in Calls,
           call' = [call EXCEPT ![p] = c],
           zones' \subseteq Zones, records' \subseteq Records, revision' \in Nat,
           \A r \in c.record : r.zone = c.zone,
           \A row \in c.rows : row[1] = c.zone,
           c.pc # "idle" => c.zone \in Zones
    PROVE  StoreInv'
<1>1. call' \in [Writers -> Calls]
  BY DEF StoreInv, StoreTypeOK
<1>2. CallsInOneZone' /\ BusyInZones'
  BY DEF StoreInv, StoreTypeOK, CallsInOneZone, BusyInZones
<1> QED
  BY <1>1, <1>2 DEF StoreInv, StoreTypeOK

\* SaveZone keeps the store invariant, changes only its own zone and is busy there when it does.
LEMMA SaveZoneStep ==
    ASSUME StoreInv, NEW p \in Writers, NEW raw, NormalizeZoneName(raw) \in Zones,
           SaveZone(p, raw)
    PROVE  StoreInv' /\ Touches(NormalizeZoneName(raw))
<1> DEFINE z == NormalizeZoneName(raw)
           c == [NoCall EXCEPT !.pc = "bump", !.zone = z]
<1>1. z \in Zones /\ call' = [call EXCEPT ![p] = c] /\ call[p].pc = "idle"
      /\ zones' = zones \cup {z} /\ records' = records /\ revision' = revision
  BY CallFacts DEF SaveZone, CanCall
<1>2. c \in Calls /\ c.pc # "idle" /\ c.zone = z /\ c.record = {} /\ c.rows = {}
  BY <1>1 DEF NoCall, Calls
<1> HIDE DEF z, c
<1>3. StoreInv'
  BY <1>1, <1>2, CallUpdate DEF StoreInv, StoreTypeOK
<1>4. Touches(z)
  BY <1>1, <1>2, TouchesOwnZone DEF StoreInv
<1> QED
  BY <1>3, <1>4 DEF z

\* The same of the first step of DeleteZone, which removes the zone and leaves its rows.
LEMMA DeleteZoneStep ==
    ASSUME StoreInv, NEW p \in Writers, NEW raw, NormalizeZoneName(raw) \in Zones,
           DeleteZone(p, raw)
    PROVE  StoreInv' /\ Touches(NormalizeZoneName(raw))
<1> DEFINE z == NormalizeZoneName(raw)
           c == [NoCall EXCEPT !.pc = "rows", !.zone = z]
<1>1. z \in Zones /\ call' = [call EXCEPT ![p] = c] /\ call[p].pc = "idle"
      /\ zones' = zones \ {z} /\ records' = records /\ revision' = revision
  BY CallFacts DEF DeleteZone, CanCall
<1>2. c \in Calls /\ c.pc # "idle" /\ c.zone = z /\ c.record = {} /\ c.rows = {}
  BY <1>1 DEF NoCall, Calls
<1> HIDE DEF z, c
<1>3. StoreInv'
  BY <1>1, <1>2, CallUpdate DEF StoreInv, StoreTypeOK
<1>4. Touches(z)
  BY <1>1, <1>2, TouchesOwnZone DEF StoreInv
<1> QED
  BY <1>3, <1>4 DEF z

\* The same of the first step of SaveRecord, which saves the record's zone.
LEMMA SaveRecordStep ==
    ASSUME StoreInv, NEW p \in Writers, NEW raw, NormalizeRecord(raw) \in Records,
           SaveRecord(p, raw)
    PROVE  StoreInv' /\ Touches(NormalizeRecord(raw).zone)
<1> DEFINE r == NormalizeRecord(raw)
           c == [NoCall EXCEPT !.pc = "put", !.zone = r.zone, !.record = {r}]
<1>1. r \in Records /\ r.zone \in Zones
  BY CallFacts DEF SaveRecord
<1>2. call' = [call EXCEPT ![p] = c] /\ call[p].pc = "idle"
      /\ zones' = zones \cup {r.zone} /\ records' = records /\ revision' = revision
  BY DEF SaveRecord, CanCall
<1>3. c \in Calls /\ c.pc # "idle" /\ c.zone = r.zone /\ c.record = {r} /\ c.rows = {}
  BY <1>1 DEF NoCall, Calls
<1> HIDE DEF r, c
<1>4. StoreInv'
  BY <1>1, <1>2, <1>3, CallUpdate DEF StoreInv, StoreTypeOK
<1>5. Touches(r.zone)
  BY <1>1, <1>2, <1>3, TouchesOwnZone DEF StoreInv
<1> QED
  BY <1>4, <1>5 DEF r

\* The same of DeleteRecord, which removes the cell and has the revision yet to increment.
LEMMA DeleteRecordStep ==
    ASSUME StoreInv, NEW p \in Writers, NEW raw, NormalizeRecord(raw) \in Records,
           DeleteRecord(p, raw)
    PROVE  StoreInv' /\ Touches(NormalizeRecord(raw).zone)
<1> DEFINE r == NormalizeRecord(raw)
           c == [NoCall EXCEPT !.pc = "bump", !.zone = r.zone]
<1>1. r \in Records /\ r.zone \in Zones
  BY CallFacts DEF DeleteRecord
<1>2. call' = [call EXCEPT ![p] = c] /\ call[p].pc = "idle"
      /\ zones' = zones /\ records' = Without(records, r) /\ revision' = revision
  BY DEF DeleteRecord, CanCall
<1>3. c \in Calls /\ c.pc # "idle" /\ c.zone = r.zone /\ c.record = {} /\ c.rows = {}
  BY <1>1 DEF NoCall, Calls
<1> HIDE DEF r, c
<1>4. \A z : z # r.zone => InZone(records', z) = InZone(records, z)
  BY <1>2, KeyZone DEF Without, InZone
<1>5. StoreInv'
  BY <1>1, <1>2, <1>3, CallUpdate DEF StoreInv, StoreTypeOK, Without
<1>6. Touches(r.zone)
  BY <1>2, <1>3, <1>4, TouchesOwnZone DEF StoreInv
<1> QED
  BY <1>5, <1>6 DEF r

\* The same of the step of SaveRecord that puts the record while the call is busy.
LEMMA PutRecordStep ==
    ASSUME StoreInv, NEW p \in Writers, PutRecord(p)
    PROVE  StoreInv' /\ Touches(call[p].zone) /\ call[p].zone \in Zones
<1> DEFINE c == [call[p] EXCEPT !.pc = "bump", !.record = {}]
<1>1. PICK r \in call[p].record : records' = Put(records, r)
  BY DEF PutRecord
<1>2. call[p] \in Calls /\ call[p].pc = "put" /\ r \in Records /\ r.zone = call[p].zone
  BY <1>1 DEF PutRecord, StoreInv, StoreTypeOK, Calls, CallsInOneZone
<1>3. call' = [call EXCEPT ![p] = c] /\ zones' = zones /\ revision' = revision
  BY DEF PutRecord, StoreInv, StoreTypeOK
<1>4. c \in Calls /\ c.pc # "idle" /\ c.zone = call[p].zone /\ c.record = {}
      /\ c.rows = call[p].rows
  BY <1>2 DEF Calls
<1> HIDE DEF c
<1>5. \A z : z # r.zone => InZone(records', z) = InZone(records, z)
  BY <1>1, KeyZone DEF Put, InZone
<1>6. StoreInv'
  BY <1>1, <1>2, <1>3, <1>4, CallUpdate DEF StoreInv, StoreTypeOK, CallsInOneZone, BusyInZones, Put
<1>7. Touches(call[p].zone) /\ call[p].zone \in Zones
  BY <1>2, <1>3, <1>4, <1>5, TouchesOwnZone DEF StoreInv, BusyInZones
<1> QED
  BY <1>6, <1>7

\* DeleteZone's listing of the rows of its zone changes no zone and no record.
LEMMA ListRowsStep ==
    ASSUME StoreInv, NEW p \in Writers, ListRows(p)
    PROVE  StoreInv' /\ Touches(call[p].zone) /\ call[p].zone \in Zones
<1> DEFINE rows == {RowKey(r) : r \in InZone(records, call[p].zone)}
           c    == [call[p] EXCEPT !.rows = rows, !.pc = "drop"]
<1>1. call[p] \in Calls /\ call[p].pc = "rows"
  BY DEF ListRows, StoreInv, StoreTypeOK
<1>2. call' = [call EXCEPT ![p] = c] /\ zones' = zones /\ records' = records
      /\ revision' = revision
  BY DEF ListRows, StoreInv, StoreTypeOK
<1>3. rows \subseteq Zones \X {r.name : r \in Records}
  BY CallFacts DEF RowKey, InZone, StoreInv, StoreTypeOK
<1>4. \A row \in rows : row[1] = call[p].zone
  BY DEF RowKey, InZone
<1>5. c \in Calls /\ c.pc # "idle" /\ c.zone = call[p].zone /\ c.record = call[p].record
      /\ c.rows = rows
  BY <1>1, <1>3 DEF Calls
<1> HIDE DEF c, rows
<1>6. StoreInv'
  BY <1>1, <1>2, <1>4, <1>5, CallUpdate DEF StoreInv, StoreTypeOK, CallsInOneZone, BusyInZones
<1>7. Touches(call[p].zone) /\ call[p].zone \in Zones
  BY <1>1, <1>2, <1>5, TouchesOwnZone DEF StoreInv, BusyInZones
<1> QED
  BY <1>6, <1>7

\* Dropping one row changes records of the zone that DeleteZone is busy in, and no other.
LEMMA DropRowStep ==
    ASSUME StoreInv, NEW p \in Writers, DropRow(p)
    PROVE  StoreInv' /\ Touches(call[p].zone) /\ call[p].zone \in Zones
<1>1. PICK row \in call[p].rows :
          /\ records' = {r \in records : RowKey(r) # row}
          /\ call' = [call EXCEPT ![p].rows = @ \ {row}]
  BY DEF DropRow
<1> DEFINE c == [call[p] EXCEPT !.rows = @ \ {row}]
<1>2. call[p] \in Calls /\ call[p].pc = "drop" /\ row[1] = call[p].zone
  BY DEF DropRow, StoreInv, StoreTypeOK, CallsInOneZone
<1>3. call' = [call EXCEPT ![p] = c] /\ zones' = zones /\ revision' = revision
  BY <1>1 DEF DropRow, StoreInv, StoreTypeOK
<1>4. c \in Calls /\ c.pc # "idle" /\ c.zone = call[p].zone /\ c.record = call[p].record
      /\ c.rows = call[p].rows \ {row}
  BY <1>2 DEF Calls
<1> HIDE DEF c
<1>5. \A z : z # call[p].zone => InZone(records', z) = InZone(records, z)
  BY <1>1, <1>2 DEF InZone, RowKey
<1>6. zones' \subseteq Zones /\ records' \subseteq Records /\ revision' \in Nat
  BY <1>1, <1>3 DEF StoreInv, StoreTypeOK
<1>7. /\ \A r \in c.record : r.zone = c.zone
      /\ \A w \in c.rows : w[1] = c.zone
  BY <1>4 DEF StoreInv, CallsInOneZone
<1>8. StoreInv'
  BY <1>2, <1>3, <1>4, <1>6, <1>7, CallUpdate DEF StoreInv, BusyInZones
<1>9. Touches(call[p].zone) /\ call[p].zone \in Zones
  BY <1>2, <1>3, <1>4, <1>5, TouchesOwnZone DEF StoreInv, BusyInZones
<1> QED
  BY <1>8, <1>9

\* revision.Add(1) ends a call: every query and entry of the old revision is stale from here.
LEMMA BumpStep ==
    ASSUME StoreInv, NEW p \in Writers, Bump(p)
    PROVE  StoreInv' /\ Announces
<1>1. Announces
  BY DEF Bump, Announces
<1>2. call' = [call EXCEPT ![p] = NoCall] /\ NoCall.record = {} /\ NoCall.rows = {}
  BY DEF Bump, NoCall
<1>3. zones' \subseteq Zones /\ records' \subseteq Records /\ revision' \in Nat
  BY <1>1 DEF Announces, StoreInv, StoreTypeOK
<1>4. NoCall.pc = "idle"
  BY DEF NoCall
<1>5. StoreInv'
  BY <1>2, <1>3, <1>4, CallFacts, CallUpdate
<1> QED
  BY <1>1, <1>5

\* Every step of the store keeps its invariant, and touches one zone or announces.
LEMMA StoreNextStep ==
    ASSUME StoreInv, StoreNext
    PROVE  StoreInv' /\ ((\E zone \in Zones : Touches(zone)) \/ \E p \in Writers : Bump(p))
<1>1. PICK p \in Writers :
          \/ \E raw \in RawZones : SaveZone(p, raw) \/ DeleteZone(p, raw)
          \/ \E raw \in RawRecords : SaveRecord(p, raw) \/ DeleteRecord(p, raw)
          \/ PutRecord(p) \/ ListRows(p) \/ DropRow(p) \/ Bump(p)
  BY DEF StoreNext
<1>2. ASSUME NEW raw \in RawZones, SaveZone(p, raw) \/ DeleteZone(p, raw)
      PROVE  StoreInv' /\ \E zone \in Zones : Touches(zone)
  <2>1. NormalizeZoneName(raw) \in Zones
    BY <1>2, CallFacts DEF SaveZone, DeleteZone
  <2> QED
    BY <1>2, <2>1, SaveZoneStep, DeleteZoneStep
<1>3. ASSUME NEW raw \in RawRecords, SaveRecord(p, raw) \/ DeleteRecord(p, raw)
      PROVE  StoreInv' /\ \E zone \in Zones : Touches(zone)
  <2>1. NormalizeRecord(raw) \in Records
    BY <1>3, CallFacts DEF SaveRecord, DeleteRecord
  <2>2. NormalizeRecord(raw).zone \in Zones
    BY <2>1, CallFacts
  <2> QED
    BY <1>3, <2>1, <2>2, SaveRecordStep, DeleteRecordStep
<1> QED
  BY <1>1, <1>2, <1>3, PutRecordStep, ListRowsStep, DropRowStep, BumpStep

-----------------------------------------------------------------------------
(* The refinement. *)

\* The zones with a change that no increment has followed yet.
OpenZones == {z \in Zones : Busy(z)}

\* What a step inside one zone is to the Repository: a change of that zone.
LEMMA TouchIsChange ==
    ASSUME NEW zone \in Zones, Touches(zone)
    PROVE  Contract!Change(zone)
<1>1. zones' \ {zone} = zones \ {zone}
  BY DEF Touches
<1>2. \A r : r.zone # zone => (r \in records' <=> r \in records)
  BY DEF Touches, InZone
<1>3. Contract!Outside(records', zone) = Contract!Outside(records, zone)
  BY <1>2 DEF Contract!Outside
<1>4. {z \in Zones : Busy(z)}' = {z \in Zones : Busy(z)} \cup {zone}
  BY DEF Touches
<1>5. UNCHANGED revision
  BY DEF Touches
<1> QED
  BY <1>1, <1>3, <1>4, <1>5 DEF Contract!Change

\* What revision.Add(1) is to it: an increment after which no other zone is busy.
LEMMA BumpIsAnnounce ==
    ASSUME StoreInv, NEW p \in Writers, Bump(p)
    PROVE  Contract!Announce
<1>1. Announces
  BY BumpStep
<1>2. \A q \in Writers : call'[q] = call[q] \/ call'[q].pc = "idle"
  BY DEF Bump, StoreInv, StoreTypeOK, NoCall
<1>3. {z \in Zones : Busy(z)}' \subseteq {z \in Zones : Busy(z)}
  BY <1>2 DEF Busy
<1> QED
  BY <1>1, <1>3 DEF Announces, Contract!Announce

\* Every step of the store keeps its invariant, and is a step of the Repository or none.
LEMMA StoreStepRefines ==
    StoreInv /\ [StoreNext]_storeVars =>
        StoreInv' /\ [Contract!RepositoryNext]_(Contract!repositoryVars)
<1> SUFFICES ASSUME StoreInv, [StoreNext]_storeVars
             PROVE  StoreInv' /\ [Contract!RepositoryNext]_(Contract!repositoryVars)
  OBVIOUS
<1>1. CASE StoreNext
  BY <1>1, StoreNextStep, TouchIsChange, BumpIsAnnounce DEF Contract!RepositoryNext
<1>2. CASE UNCHANGED storeVars
  <2>1. /\ zones' = zones /\ records' = records /\ revision' = revision /\ call' = call
    BY <1>2 DEF storeVars
  <2> QED
    BY <2>1
    DEF StoreInv, StoreTypeOK, CallsInOneZone, BusyInZones, Busy, Contract!repositoryVars
<1> QED
  BY <1>1, <1>2

\* A Repository that has just been opened.
LEMMA StoreInitRefines == StoreInit => Contract!RepositoryInit
<1> SUFFICES ASSUME StoreInit PROVE Contract!RepositoryInit
  OBVIOUS
<1>1. revision \in Nat
  BY InitAssumption DEF StoreInit
<1>2. {z \in Zones : Busy(z)} = {}
  BY DEF StoreInit, Busy, NoCall
<1> QED
  BY <1>1, <1>2 DEF Contract!RepositoryInit

\* The invariant of the store holds in every reachable state of the store by itself.
LEMMA StoreInvHolds == StoreSpec => []StoreInv
BY StoreInitInv, StoreStepRefines, PTL DEF StoreSpec

\* MemoryStore implements the Repository, for any number of writing goroutines, any
\* zones and records, and any interleaving of the steps of their calls.
THEOREM MemoryStoreImplementsRepository == StoreSpec => MemoryImplementsRepository
BY StoreInitInv, StoreInitRefines, StoreStepRefines, PTL
DEF StoreSpec, MemoryImplementsRepository, Contract!RepositorySpec
=============================================================================

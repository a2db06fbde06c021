------------------------------- MODULE Manager -------------------------------
(***************************************************************************)
(* Manager, the write side of the library, over a MemoryStore.  The        *)
(* goroutines of an application call its methods; a method validates what  *)
(* the zone would become against a listing it reads row by row, and then   *)
(* makes its store calls one after the other.  Nothing locks the zone      *)
(* between the listing and the calls, or between two calls.                *)
(*                                                                         *)
(* Writers are the calling goroutines.  An input that a method's           *)
(* normalization rejects changes nothing and is not a step.                *)
(***************************************************************************)
EXTENDS MemoryStore

CONSTANTS
    Operations,      \* the Manager methods the application uses
    RawRRSets,       \* arguments of UpsertRRSet, DeleteRRSet and DeleteName
    RawSeeds,        \* arguments of ImportSeedData
    MaxOperations    \* bound on the number of Manager calls

ASSUME ManagerAssumption == MaxOperations \in Nat

VARIABLES
    task,       \* the Manager call each goroutine is in
    started     \* Manager calls so far

managerVars == <<zones, records, revision, call, task, started>>

\* What a method still holds: the records it writes (target), those not yet
\* upserted (todo) and the one being upserted (current), the rows and the records
\* of its listing, the records to delete, and the zones a seed has yet to save.
NoTask == [op |-> "none", pc |-> "idle", zone |-> NoZone, name |-> Root, type |-> "none",
           target |-> {}, todo |-> {}, current |-> {}, rows |-> {}, listed |-> {},
           drops |-> {}, seedZones |-> {}]

Types == {"none", "ANY"} \cup {r.type : r \in RawRecords} \cup {s.type : s \in RawRRSets}

Tasks == [op : Operations \cup {"none", "PreviewChanges", "ListRecords"},
          pc : {"idle", "list", "read", "find", "drop", "add", "seed", "return", "failed"},
          zone : Zones \cup {NoZone}, name : Texts, type : Types,
          target : SUBSET Records, todo : SUBSET Records, current : SUBSET Records,
          rows : SUBSET (Zones \X {r.name : r \in Records}), listed : SUBSET Records,
          drops : SUBSET Records, seedZones : SUBSET Zones]

ManagerInit ==
    /\ StoreInit
    /\ task = [p \in Writers |-> NoTask]
    /\ started = 0

-----------------------------------------------------------------------------
(* Arguments. *)

\* normalizeRRSetLookup
LookupAccepted(set) ==
    /\ ZoneAccepted(set.zone)
    /\ set.name # Root
    /\ IsSubDomain(Fold(set.zone), Fold(set.name))

\* normalizeRRSetRecord before it normalizes: empty fields are those of the set.
Candidate(set, record) ==
    [record EXCEPT !.zone = IF @ = Root THEN Fold(set.zone) ELSE @,
                   !.name = IF @ = Root THEN Fold(set.name) ELSE @,
                   !.type = IF @ = "none" THEN set.type ELSE @]

\* Mutant: the defaults of a record are not filled in.
normalizeRRSetName(set, record) == Candidate(set, record)

normalizeRRSetRecord(set, record) == NormalizeRecord(Candidate(set, record))

RRSetAccepted(set) ==
    /\ set.records # {}
    /\ LookupAccepted(set)
    /\ set.type # "none"
    /\ \A r \in set.records :
          LET n == normalizeRRSetRecord(set, r)
          IN  /\ RecordAccepted(Candidate(set, r))
              /\ n.zone = Fold(set.zone) /\ n.name = Fold(set.name) /\ n.type = set.type

\* Zones and Records contain what the arguments name.
RRSetInUniverse(set) ==
    /\ set.zone \in Texts /\ set.name \in Texts /\ set.type \in Types
    /\ LookupAccepted(set) => Fold(set.zone) \in Zones
    /\ \A r \in set.records :
          RecordAccepted(Candidate(set, r)) => NormalizeRecord(Candidate(set, r)) \in Records

SeedInUniverse(seed) ==
    /\ \A r \in seed.records : RecordAccepted(r) => NormalizeRecord(r) \in Records
    /\ \A z \in seed.zones : ZoneAccepted(z) => NormalizeZoneName(z) \in Zones

ASSUME ArgumentsAssumption ==
    /\ \A set \in RawRRSets : RRSetInUniverse(set)
    /\ \A seed \in RawSeeds : SeedInUniverse(seed)

-----------------------------------------------------------------------------
(* Calls. *)

\* A goroutine calls the method op.
Begin(p, op) ==
    /\ op \in Operations
    /\ task[p].pc = "idle"
    /\ call[p].pc = "idle"
    /\ started < MaxOperations
    /\ started' = started + 1

\* A step of the method that makes no store call.
Go(p, t) ==
    /\ task' = [task EXCEPT ![p] = t]
    /\ UNCHANGED <<storeVars, started>>

UpsertZone(p, raw) ==
    /\ Begin(p, "UpsertZone")
    /\ SaveZone(p, raw)
    /\ task' = [task EXCEPT ![p] = [NoTask EXCEPT !.op = "UpsertZone", !.pc = "return"]]

ManagerDeleteZone(p, raw) ==
    /\ Begin(p, "DeleteZone")
    /\ DeleteZone(p, raw)
    /\ task' = [task EXCEPT ![p] = [NoTask EXCEPT !.op = "DeleteZone", !.pc = "return"]]

ManagerDeleteRecord(p, raw) ==
    /\ Begin(p, "DeleteRecord")
    /\ DeleteRecord(p, raw)
    /\ task' = [task EXCEPT ![p] = [NoTask EXCEPT !.op = "DeleteRecord", !.pc = "return"]]

UpsertRecord(p, raw) ==
    LET record == NormalizeRecord(raw)
    IN  /\ Begin(p, "UpsertRecord")
        /\ RecordAccepted(raw)
        /\ task' = [task EXCEPT ![p] =
                       [NoTask EXCEPT !.op = "UpsertRecord", !.pc = "list", !.zone = record.zone,
                                      !.target = {record}, !.current = {record}]]
        /\ UNCHANGED storeVars

UpsertRRSet(p, set) ==
    /\ Begin(p, "UpsertRRSet")
    /\ RRSetAccepted(set)
    /\ \E kept \in Deduped({normalizeRRSetRecord(set, r) : r \in set.records}) :
          task' = [task EXCEPT ![p] =
                      [NoTask EXCEPT !.op = "UpsertRRSet", !.pc = "list",
                                     !.zone = Fold(set.zone), !.name = Fold(set.name),
                                     !.type = set.type, !.target = kept, !.todo = kept]]
    /\ UNCHANGED storeVars

DeleteRRSet(p, set) ==
    /\ Begin(p, "DeleteRRSet")
    /\ LookupAccepted(set)
    /\ task' = [task EXCEPT ![p] =
                   [NoTask EXCEPT !.op = "DeleteRRSet", !.pc = "find", !.zone = Fold(set.zone),
                                  !.name = Fold(set.name), !.type = set.type]]
    /\ UNCHANGED storeVars

DeleteName(p, set) ==
    /\ Begin(p, "DeleteName")
    /\ LookupAccepted(set)
    /\ task' = [task EXCEPT ![p] =
                   [NoTask EXCEPT !.op = "DeleteName", !.pc = "find", !.zone = Fold(set.zone),
                                  !.name = Fold(set.name), !.type = "ANY"]]
    /\ UNCHANGED storeVars

\* The seed is validated by itself, not against what the store holds.
ImportSeedData(p, seed) ==
    /\ Begin(p, "ImportSeedData")
    /\ SeedAccepted(seed)
    /\ \E kept \in Deduped({NormalizeRecord(r) : r \in seed.records}) :
          /\ validateRecordsByZone(kept, TRUE)
          /\ task' = [task EXCEPT ![p] =
                         [NoTask EXCEPT !.op = "ImportSeedData", !.pc = "seed",
                                        !.target = kept, !.todo = kept,
                                        !.seedZones = SeedZones(seed)]]
    /\ UNCHANGED storeVars

-----------------------------------------------------------------------------
(* The steps of a call. *)

\* ListRecords of the zone: the row keys, and then each row.
ListKeys(p) ==
    /\ task[p].pc = "list"
    /\ Go(p, [task[p] EXCEPT !.pc = "read", !.listed = {},
                             !.rows = {RowKey(r) : r \in InZone(records, task[p].zone)}])

\* Mutant: the row stays among the rows to read.
ReadRowAgain(p) ==
    /\ task[p].pc = "read"
    /\ \E row \in task[p].rows :
          Go(p, [task[p] EXCEPT !.listed = @ \cup {r \in records : RowKey(r) = row}])

ReadRow(p) ==
    /\ task[p].pc = "read"
    /\ \E row \in task[p].rows :
          Go(p, [task[p] EXCEPT !.rows = @ \ {row},
                                !.listed = @ \cup {r \in records : RowKey(r) = row}])

\* A failed validation: the method returns its error, what it wrote stays.
Abort(p) == Go(p, [task[p] EXCEPT !.pc = "failed"])

\* Mutant: the set is not validated as a whole.
ValidateRRSetLater(p) ==
    /\ task[p].pc = "read" /\ task[p].rows = {} /\ task[p].current = {} /\ task[p].target # {}
    /\ Go(p, [task[p] EXCEPT !.pc = "find", !.listed = {}])

\* validateRRSetUpsert; records of another class than the first stay in the preview.
ValidateRRSet(p) ==
    LET t == task[p]
        Preview(first) ==
            upsertRecords({r \in t.listed : ~ /\ r.name = first.name
                                              /\ r.type = first.type
                                              /\ r.class = first.class}, t.target)
    IN  /\ t.pc = "read" /\ t.rows = {} /\ t.current = {}
        /\ \E first \in t.target :
              IF validateZoneRecords(t.zone, Preview(first), FALSE)
              THEN Go(p, [t EXCEPT !.pc = "find", !.listed = {}])
              ELSE Abort(p)

\* Mutant: one record of the set is looked up.
FindRRSetOne(p) ==
    LET t     == task[p]
        found == LookupIn(records, t.zone, t.name, t.type, "ANY")
    IN  /\ t.pc = "find"
        /\ \E drops \in {{r} : r \in found} \cup {{}} :
              /\ drops # {} \/ found = {}
              /\ Go(p, [t EXCEPT !.pc = "drop", !.drops = drops])

\* Lookup of the records to delete, of every class.
FindRRSet(p) ==
    LET t == task[p]
    IN  /\ t.pc = "find"
        /\ Go(p, [t EXCEPT !.pc = "drop",
                           !.drops = LookupIn(records, t.zone, t.name, t.type, "ANY")])

\* deleteRecords: one DeleteRecord after the other.
DropRecord(p) ==
    /\ task[p].pc = "drop"
    /\ \E r \in task[p].drops :
          /\ DeleteRecord(p, r)
          /\ task' = [task EXCEPT ![p].drops = @ \ {r}]
    /\ UNCHANGED started

Dropped(p) ==
    /\ task[p].pc = "drop" /\ task[p].drops = {} /\ call[p].pc = "idle"
    /\ Go(p, [task[p] EXCEPT !.pc = IF task[p].op = "UpsertRRSet" THEN "add" ELSE "return"])

\* UpsertRRSet upserts its records one by one, each with its own validation.
NextRecord(p) ==
    /\ task[p].pc = "add" /\ call[p].pc = "idle"
    /\ \E r \in task[p].todo :
          Go(p, [task[p] EXCEPT !.pc = "list", !.todo = @ \ {r}, !.current = {r}])

\* validateRecordUpsert, and SaveRecord when it passes.
ValidateRecord(p) ==
    LET t    == task[p]
        next == IF t.op = "UpsertRRSet" THEN "add" ELSE "return"
    IN  /\ t.pc = "read" /\ t.rows = {}
        /\ \E r \in t.current :
              \/ /\ validateZoneRecords(t.zone, upsertRecords(t.listed, {r}), FALSE)
                 /\ SaveRecord(p, r)
                 /\ task' = [task EXCEPT ![p] = [t EXCEPT !.pc = next, !.listed = {},
                                                          !.current = {}]]
                 /\ UNCHANGED started
              \/ /\ ~validateZoneRecords(t.zone, upsertRecords(t.listed, {r}), FALSE)
                 /\ Abort(p)

\* saveSeedZones, then saveSeedRecords.
SaveSeedZone(p) ==
    /\ task[p].pc = "seed"
    /\ \E z \in task[p].seedZones :
          /\ SaveZone(p, z)
          /\ task' = [task EXCEPT ![p].seedZones = @ \ {z}]
    /\ UNCHANGED started

SaveSeedRecord(p) ==
    /\ task[p].pc = "seed" /\ task[p].seedZones = {}
    /\ \E r \in task[p].todo :
          /\ SaveRecord(p, r)
          /\ task' = [task EXCEPT ![p].todo = @ \ {r}]
    /\ UNCHANGED started

\* Every method returns when nothing is left to do and its last store call is over.
Finished(p) ==
    \/ task[p].pc \in {"return", "failed"}
    \/ task[p].pc = "add" /\ task[p].todo = {}
    \/ task[p].pc = "seed" /\ task[p].seedZones = {} /\ task[p].todo = {}

Return(p) ==
    /\ Finished(p) /\ call[p].pc = "idle"
    /\ Go(p, NoTask)

\* No call is left within the bound: the goroutines rest.
Rest ==
    /\ started = MaxOperations
    /\ \A p \in Writers : task[p].pc = "idle" /\ call[p].pc = "idle"
    /\ UNCHANGED managerVars

-----------------------------------------------------------------------------
\* The steps of a call before it returns.
WorkStep(p) ==
    \/ ListKeys(p) \/ ReadRow(p) \/ ValidateRRSet(p) \/ FindRRSet(p) \/ DropRecord(p)
    \/ Dropped(p) \/ NextRecord(p) \/ ValidateRecord(p)
    \/ SaveSeedZone(p) \/ SaveSeedRecord(p)
    \/ StoreStep(p) /\ UNCHANGED <<task, started>>

TaskStep(p) == WorkStep(p) \/ Return(p)

\* A transaction of the bbolt store fails, for the composition of the Manager with that
\* store: one that reads, the first or only one of a writing call, or the second one of
\* SaveRecord or DeleteZone.  It changes nothing, what was written before it stays, and
\* its error ends the store call and the method.
StoreFails(p) ==
    /\ \/ call[p].pc = "idle" /\ task[p].pc \in {"list", "read", "find"}
       \/ call[p].pc = "idle" /\ task[p].pc = "drop" /\ task[p].drops # {}
       \/ call[p].pc = "idle" /\ task[p].pc = "seed" /\ ~Finished(p)
       \/ call[p].pc \in {"put", "rows"}
    /\ task' = [task EXCEPT ![p] = NoTask]
    /\ call' = [call EXCEPT ![p] = NoCall]
    /\ UNCHANGED <<zones, records, revision, started>>

ManagerNext ==
    \/ \E p \in Writers :
          \/ \E raw \in RawZones : UpsertZone(p, raw) \/ ManagerDeleteZone(p, raw)
          \/ \E raw \in RawRecords : UpsertRecord(p, raw) \/ ManagerDeleteRecord(p, raw)
          \/ \E set \in RawRRSets : UpsertRRSet(p, set) \/ DeleteRRSet(p, set) \/ DeleteName(p, set)
          \/ \E seed \in RawSeeds : ImportSeedData(p, seed)
          \/ TaskStep(p)
    \/ Rest

ManagerSpec == ManagerInit /\ [][ManagerNext]_managerVars

ManagerFairSpec == ManagerSpec /\ \A p \in Writers : WF_managerVars(TaskStep(p))

-----------------------------------------------------------------------------
(* Properties. *)

\* The type invariant: what the store and the calls of the Manager hold.
ManagerTypeOK ==
    /\ StoreTypeOK
    /\ task \in [Writers -> Tasks]
    /\ started \in 0 .. MaxOperations

\* Whatever the methods of one goroutine do, step by step, no zone ever breaks the
\* rules of validateZoneRecords that an upsert enforces.
ZonesValid ==
    \A z \in Zones : validateZoneRecords(z, InZone(records, z), FALSE)

\* An SOA record is stored at its zone's apex only (ErrSOAMustBeAtZoneApex), even when
\* the listing a validation used was torn by other goroutines.
SOAPlaced ==
    \A z \in Zones : SOAAtApexOnly(z, InZone(records, z))

\* UpsertRRSet that fails has failed in its first validation and written nothing: the
\* validations it repeats per record accept whatever the first one accepted.
RRSetAllOrNothing ==
    \A p \in Writers :
        task[p].op = "UpsertRRSet" /\ task[p].pc = "failed" => task[p].todo = task[p].target

\* UpsertRRSet that succeeds leaves exactly its records in the set, and DeleteRRSet and
\* DeleteName leave nothing.
RRSetReplaced ==
    \A p \in Writers :
        LET t == task[p]
        IN  Finished(p) /\ t.pc # "failed" /\ call[p].pc = "idle"
              /\ t.op \in {"UpsertRRSet", "DeleteRRSet", "DeleteName"} =>
                LookupIn(records, t.zone, t.name, t.type, "ANY") = t.target

\* Between calls, no record is left in a zone that the store does not list.
RecordsHaveZone ==
    Quiet => \A r \in records : r.zone \in zones

\* Every Manager call returns, whatever the other goroutines do.
CallsReturn ==
    \A p \in Writers : task[p].pc # "idle" ~> task[p].pc = "idle"
=============================================================================

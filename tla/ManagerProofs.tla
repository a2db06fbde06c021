---------------------------- MODULE ManagerProofs ----------------------------
(***************************************************************************)
(* Proofs about the Manager, under calls of its methods (ManagerSpec) and  *)
(* under batches of changes (ChangesSpec).                                 *)
(*                                                                         *)
(* The argument.  ManagerInv holds with any number of goroutines: types,   *)
(* one record per key, and the shape of what a method holds.  Nothing that *)
(* a goroutine knows of the store survives a step of another one, but what *)
(* it is about to put has passed a preview that contains it, and an SOA's  *)
(* place is a matter of that one record.                                   *)
(*                                                                         *)
(* With one goroutine, SoloOK says what it knows: the rows of its listing  *)
(* that it has read are the store's, and from the validation of an RRset   *)
(* on, the zone with the new records in place of the old ones is valid     *)
(* (Fits).  Fits is what makes the validations after the deletion succeed: *)
(* each of them looks at fewer records of the same keys (ValidByKeys).     *)
(*                                                                         *)
(* Both specifications are shown to take the steps of ManagerStep only, so *)
(* that each invariant is proved once.                                     *)
(***************************************************************************)
EXTENDS Changes, MemoryStoreProofs

-----------------------------------------------------------------------------
(* The operators. *)

\* Folding a text twice is folding it once, and folding makes no text of a non-text.
LEMMA FoldText ==
    ASSUME NEW text \in Texts
    PROVE  Fold(text) \in Texts /\ Fold(Fold(text)) = Fold(text)
<1>1. PICK n \in Nat : text \in [1 .. n -> DOMAIN Lower]
  BY DEF Texts
<1>2. Fold(text) \in [1 .. n -> DOMAIN Lower] /\ \A i \in 1 .. n : Fold(text)[i] = Lower[text[i]]
  BY <1>1, LowerAssumption DEF Fold
<1>3. Fold(text) \in Texts
  BY <1>2 DEF Texts
<1>4. \A i \in 1 .. n : Lower[Lower[text[i]]] = Lower[text[i]]
  BY <1>1, LowerAssumption
<1>5. Fold(Fold(text)) = [i \in 1 .. n |-> Lower[Fold(text)[i]]]
  BY <1>2 DEF Fold
<1>6. Fold(Fold(text)) = Fold(text)
  BY <1>2, <1>4, <1>5
<1> QED
  BY <1>3, <1>6

\* A stored record is in normal form: a method may normalize it again.
LEMMA StoredNormal ==
    ASSUME NEW r \in Records
    PROVE  r \in RecordType /\ NormalizeRecord(r) = r
<1>1. PICK raw \in RawRecords : r = NormalizeRecord(raw)
  BY DEF Records
<1>2. raw \in RecordType
  BY RawAssumption
<1> DEFINE class == IF raw.class = "none" THEN "IN" ELSE raw.class
<1>3. NormalizeRecord(raw) =
          [raw EXCEPT !.zone = Fold(raw.zone), !.name = Fold(raw.name), !.class = class]
  BY <1>2 DEF NormalizeRecord, NormalizeZoneName, RecordType
<1>4. raw.zone \in Texts /\ raw.name \in Texts
  BY <1>2 DEF RecordType
<1>5. Fold(raw.zone) \in Texts /\ Fold(raw.name) \in Texts
  BY <1>4, FoldText
<1>6. class \in {x.class : x \in RawRecords} \cup {"IN"} /\ class # "none"
  BY Zenon
<1>7. r = [raw EXCEPT !.zone = Fold(raw.zone), !.name = Fold(raw.name), !.class = class]
  BY <1>1, <1>3
<1>8. r \in RecordType
  BY <1>2, <1>7, <1>5, <1>6 DEF RecordType
<1>9. r.zone = Fold(raw.zone) /\ r.name = Fold(raw.name) /\ r.class # "none"
  BY <1>2, <1>7, <1>5, <1>6 DEF RecordType
<1>10. Fold(r.zone) = r.zone /\ Fold(r.name) = r.name
  BY <1>4, <1>9, FoldText
<1>11. NormalizeRecord(r) = [r EXCEPT !.zone = r.zone, !.name = r.name, !.class = r.class]
  BY <1>9, <1>10 DEF NormalizeRecord, NormalizeZoneName
<1>12. NormalizeRecord(r) = r
  BY <1>8, <1>11 DEF RecordType
<1> QED
  BY <1>8, <1>12

\* No two of the records have one key, as in the cells of a store.
UniqueKeys(stored) == \A r, s \in stored : Key(r) = Key(s) => r = s

\* What a key tells of its record.
LEMMA KeyParts ==
    ASSUME NEW r, NEW s, Key(r) = Key(s)
    PROVE  r.zone = s.zone /\ r.name = s.name /\ r.type = s.type
BY DEF Key

\* The rules look at keys only: records that have all their keys in a set that passes
\* validateZoneRecords, pass it too.
LEMMA ValidByKeys ==
    ASSUME NEW A, NEW B, NEW zone,
           UniqueKeys(A),
           \A x \in A : \E y \in B : Key(x) = Key(y),
           validateZoneRecords(zone, B, FALSE)
    PROVE  validateZoneRecords(zone, A, FALSE)
<1>1. SOAAtApexOnly(zone, A)
  BY KeyParts DEF validateZoneRecords, SOAAtApexOnly
<1>2. AtMostOneSOA(zone, A)
  <2> SUFFICES ASSUME NEW r \in A, NEW s \in A, r.type = "SOA", s.type = "SOA",
                      r.name = zone, s.name = zone
               PROVE  r = s
    BY DEF AtMostOneSOA
  <2>1. PICK x \in B : Key(r) = Key(x)
    OBVIOUS
  <2>2. PICK y \in B : Key(s) = Key(y)
    OBVIOUS
  <2>3. x.type = "SOA" /\ y.type = "SOA" /\ x.name = zone /\ y.name = zone
    BY <2>1, <2>2, KeyParts
  <2>4. x = y
    BY <2>3 DEF validateZoneRecords, AtMostOneSOA
  <2> QED
    BY <2>1, <2>2, <2>4 DEF UniqueKeys
<1>3. CNAMEAlone(A)
  <2> SUFFICES ASSUME NEW r \in A, NEW s \in A, r.type = "CNAME", s.name = r.name
               PROVE  r = s
    BY DEF CNAMEAlone
  <2>1. PICK x \in B : Key(r) = Key(x)
    OBVIOUS
  <2>2. PICK y \in B : Key(s) = Key(y)
    OBVIOUS
  <2>3. x.type = "CNAME" /\ y.name = x.name
    BY <2>1, <2>2, KeyParts
  <2>4. x = y
    BY <2>3 DEF validateZoneRecords, CNAMEAlone
  <2> QED
    BY <2>1, <2>2, <2>4 DEF UniqueKeys
<1> QED
  BY <1>1, <1>2, <1>3 DEF validateZoneRecords, ApexNSPresent

\* Fewer records pass too.
LEMMA ValidSubset ==
    ASSUME NEW B, NEW A \in SUBSET B, NEW zone, validateZoneRecords(zone, B, FALSE)
    PROVE  validateZoneRecords(zone, A, FALSE)
BY DEF validateZoneRecords, SOAAtApexOnly, AtMostOneSOA, ApexNSPresent, CNAMEAlone

\* Storing a record replaces the one cell with its key.
LEMMA PutFacts ==
    ASSUME NEW stored, UniqueKeys(stored), NEW r
    PROVE  /\ UniqueKeys(Put(stored, r))
           /\ \A z : z # r.zone => InZone(Put(stored, r), z) = InZone(stored, z)
           /\ InZone(Put(stored, r), r.zone) = Put(InZone(stored, r.zone), r)
<1>1. UniqueKeys(Put(stored, r))
  BY DEF UniqueKeys, Put
<1>2. \A z : z # r.zone => InZone(Put(stored, r), z) = InZone(stored, z)
  BY KeyZone DEF InZone, Put
<1>3. InZone(Put(stored, r), r.zone) = Put(InZone(stored, r.zone), r)
  BY DEF InZone, Put
<1> QED
  BY <1>1, <1>2, <1>3

\* The preview of an upsert keeps the old record of a key and the store the new one: a
\* preview that passes makes a zone that passes.
LEMMA PutIsPreviewed ==
    ASSUME NEW stored, UniqueKeys(stored), NEW r, NEW zone,
           validateZoneRecords(zone, upsertRecords(stored, {r}), FALSE)
    PROVE  validateZoneRecords(zone, Put(stored, r), FALSE)
<1>1. UniqueKeys(Put(stored, r))
  BY PutFacts
<1>2. \A x \in Put(stored, r) : \E y \in upsertRecords(stored, {r}) : Key(x) = Key(y)
  BY DEF Put, upsertRecords
<1> QED
  BY <1>1, <1>2, ValidByKeys

-----------------------------------------------------------------------------
(* What a goroutine holds. *)

\* The records of an UpsertRRSet: all it is to store, those of them it has yet to take up,
\* and the one at hand.
RRSetShape(t) ==
    t.op = "UpsertRRSet" =>
        /\ t.pc \in {"list", "read", "find", "drop", "add", "failed"}
        /\ \A r \in t.target : r.name = t.name /\ r.type = t.type
        /\ UniqueKeys(t.target)
        /\ t.todo \subseteq t.target
        /\ t.current \subseteq t.target \ t.todo
        /\ t.pc \in {"find", "drop", "add"} => t.current = {}
        /\ t.pc \in {"list", "read", "find", "drop"} /\ t.current = {} => t.todo = t.target

\* The same of every method: its records are in its zone, but for the seed's.
TaskShape(t) ==
    /\ t.pc = "idle" => t.op = "none"
    /\ t.pc = "seed" <=> t.op = "ImportSeedData"
    /\ t.pc = "add" => t.op = "UpsertRRSet"
    /\ t.current # {} => t.op \in {"UpsertRecord", "UpsertRRSet"}
    /\ t.op # "ImportSeedData" => \A r \in t.target \cup t.current : r.zone = t.zone
    /\ t.op \in {"DeleteRRSet", "DeleteName"} =>
          t.target = {} /\ t.pc \in {"find", "drop", "return"}
    /\ \A r, s \in t.current : r = s
    /\ RRSetShape(t)

\* A store call holds a record from the first step of SaveRecord to its second.
CallShape(c) ==
    /\ c.pc # "put" => c.record = {}
    /\ \A r, s \in c.record : r = s

ManagerInv ==
    /\ StoreInv
    /\ task \in [Writers -> Tasks]
    /\ started \in 0 .. MaxOperations
    /\ UniqueKeys(records)
    /\ \A p \in Writers : TaskShape(task[p]) /\ CallShape(call[p])

\* UpsertRRSet has deleted the old set and is upserting its records.
Adding(t) ==
    /\ t.op = "UpsertRRSet"
    /\ \/ t.pc = "add"
       \/ t.pc \in {"list", "read"} /\ t.current # {}

\* The records of the set in the store.
SetIn(stored, t) == LookupIn(stored, t.zone, t.name, t.type, "ANY")

\* The zone with the records of the set in place of the old ones passes the rules.
Fits(stored, zone, name, type, target) ==
    validateZoneRecords(zone,
        {r \in InZone(stored, zone) : ~(r.name = name /\ r.type = type)} \cup target, FALSE)

\* What a goroutine that nobody disturbs knows of the store: while it reads its listing,
\* the rows it has not read are those it still misses; while it deletes the old set, the
\* rest of it is among its records to delete; while it upserts the new one, the set is
\* what it has upserted.
ListingExact(t, stored) ==
    t.pc = "read" /\ t.op # "ListRecords" =>
        /\ t.listed \subseteq InZone(stored, t.zone)
        /\ \A r \in InZone(stored, t.zone) : r \in t.listed \/ RowKey(r) \in t.rows
        /\ \A row \in t.rows : row[1] = t.zone

SetKnown(t, c, stored) ==
    /\ t.pc = "drop" => SetIn(stored, t) \subseteq t.drops
    /\ t.op \in {"DeleteRRSet", "DeleteName"} /\ t.pc = "return" => SetIn(stored, t) = {}
    /\ Adding(t) => /\ SetIn(stored, t) = (t.target \ t.todo) \ (t.current \cup c.record)
                    /\ c.record \subseteq t.target \ t.todo

SetFits(t, stored) ==
    /\ Adding(t) \/ (t.op = "UpsertRRSet" /\ t.pc \in {"find", "drop"}) =>
          Fits(stored, t.zone, t.name, t.type, t.target)
    /\ t.op = "UpsertRRSet" /\ t.pc = "failed" => t.todo = t.target

CallOfTask(t, c) ==
    /\ t.pc \in {"idle", "list", "read", "find"} => c.pc = "idle"
    /\ c.pc \in {"rows", "drop"} => t.op = "DeleteZone"
    /\ c.pc = "put" => \/ t.op \in {"UpsertRecord", "ImportSeedData"} /\ t.pc \in {"return", "seed"}
                       \/ Adding(t)

SoloOK(t, c, stored) ==
    /\ CallOfTask(t, c)
    /\ ListingExact(t, stored)
    /\ SetKnown(t, c, stored)
    /\ SetFits(t, stored)

\* A step of goroutine p keeps its own part of the invariants, and nobody else's changes.
Advances(p) ==
    /\ task' \in [Writers -> Tasks]
    /\ TaskShape(task'[p]) /\ CallShape(call'[p])
    /\ \A q \in Writers : q # p => task'[q] = task[q] /\ call'[q] = call[q]
    /\ SoloOK(task[p], call[p], records) => SoloOK(task'[p], call'[p], records')

-----------------------------------------------------------------------------
(* The steps of a call. *)

\* A step that changes the goroutine's task only.
LEMMA TaskOnly ==
    ASSUME ManagerInv, NEW p \in Writers, NEW u \in Tasks, TaskShape(u),
           task' = [task EXCEPT ![p] = u], UNCHANGED storeVars,
           SoloOK(task[p], call[p], records) => SoloOK(u, call[p], records)
    PROVE  Advances(p)
<1>1. task' \in [Writers -> Tasks] /\ task'[p] = u
      /\ \A q \in Writers : q # p => task'[q] = task[q]
  BY DEF ManagerInv
<1>2. call' = call /\ records' = records
  BY DEF storeVars
<1> QED
  BY <1>1, <1>2 DEF Advances, ManagerInv

\* A step that changes the goroutine's task, its store call and the records.
LEMMA TaskAndCall ==
    ASSUME ManagerInv, NEW p \in Writers, NEW u \in Tasks, TaskShape(u), NEW c, CallShape(c),
           task' = [task EXCEPT ![p] = u], call' = [call EXCEPT ![p] = c],
           NEW stored, records' = stored,
           SoloOK(task[p], call[p], records) => SoloOK(u, c, stored)
    PROVE  Advances(p)
<1>1. task' \in [Writers -> Tasks] /\ task'[p] = u
      /\ \A q \in Writers : q # p => task'[q] = task[q]
  BY DEF ManagerInv
<1>2. call'[p] = c /\ \A q \in Writers : q # p => call'[q] = call[q]
  BY DEF ManagerInv, StoreInv, StoreTypeOK
<1> QED
  BY <1>1, <1>2 DEF Advances

\* A goroutine outside the Manager holds nothing.
LEMMA NoTaskFacts ==
    /\ NoTask \in Tasks
    /\ NoTask = [op |-> "none", pc |-> "idle", zone |-> NoZone, name |-> Root, type |-> "none",
                 target |-> {}, todo |-> {}, current |-> {}, rows |-> {}, listed |-> {},
                 drops |-> {}, seedZones |-> {}]
BY DEF NoTask, Tasks, Texts, Root, Types

\* ListRecords takes the row keys of the zone.
LEMMA ListKeysAdvances ==
    ASSUME ManagerInv, NEW p \in Writers, ListKeys(p)
    PROVE  Advances(p)
<1>1. PICK t : t = task[p]
  OBVIOUS
<1>2. PICK rows : rows = {RowKey(r) : r \in InZone(records, t.zone)}
  OBVIOUS
<1>3. PICK u : u = [t EXCEPT !.pc = "read", !.listed = {}, !.rows = rows]
  OBVIOUS
<1>4. t \in Tasks /\ TaskShape(t) /\ t.pc = "list"
  BY <1>1 DEF ManagerInv, ListKeys
<1>5. task' = [task EXCEPT ![p] = u] /\ UNCHANGED storeVars
  BY <1>1, <1>2, <1>3 DEF ListKeys, Go
<1>6. rows \subseteq Zones \X {r.name : r \in Records}
  BY <1>2, CallFacts DEF RowKey, InZone, ManagerInv, StoreInv, StoreTypeOK
<1>7. /\ u \in Tasks
      /\ u.op = t.op /\ u.pc = "read" /\ u.zone = t.zone /\ u.name = t.name /\ u.type = t.type
      /\ u.target = t.target /\ u.todo = t.todo /\ u.current = t.current
      /\ u.listed = {} /\ u.rows = rows
  BY <1>3, <1>4, <1>6 DEF Tasks
<1>8. TaskShape(u)
  BY <1>4, <1>7 DEF TaskShape, RRSetShape
<1>9. ASSUME SoloOK(t, call[p], records) PROVE SoloOK(u, call[p], records)
  <2>1. ListingExact(u, records)
    BY <1>2, <1>7 DEF ListingExact, InZone, RowKey
  <2>2. CallOfTask(u, call[p]) /\ SetKnown(u, call[p], records) /\ SetFits(u, records)
    BY <1>4, <1>7, <1>9 DEF SoloOK, CallOfTask, SetKnown, SetFits, Adding, SetIn
  <2> QED
    BY <2>1, <2>2 DEF SoloOK
<1> QED
  BY <1>1, <1>5, <1>7, <1>8, <1>9, TaskOnly

\* ListRecords reads one row.
LEMMA ReadRowAdvances ==
    ASSUME ManagerInv, NEW p \in Writers, ReadRow(p)
    PROVE  Advances(p)
<1>1. PICK t : t = task[p]
  OBVIOUS
<1>2. PICK row \in t.rows :
          Go(p, [t EXCEPT !.rows = @ \ {row},
                          !.listed = @ \cup {r \in records : RowKey(r) = row}])
  BY <1>1 DEF ReadRow
<1>3. PICK found : found = {r \in records : RowKey(r) = row}
  OBVIOUS
<1>4. PICK u : u = [t EXCEPT !.rows = @ \ {row}, !.listed = @ \cup found]
  OBVIOUS
<1>5. t \in Tasks /\ TaskShape(t) /\ t.pc = "read"
  BY <1>1 DEF ManagerInv, ReadRow
<1>6. task' = [task EXCEPT ![p] = u] /\ UNCHANGED storeVars
  BY <1>2, <1>3, <1>4 DEF Go
<1>7. found \subseteq Records
  BY <1>3 DEF ManagerInv, StoreInv, StoreTypeOK
<1>8. /\ u \in Tasks
      /\ u.op = t.op /\ u.pc = "read" /\ u.zone = t.zone /\ u.name = t.name /\ u.type = t.type
      /\ u.target = t.target /\ u.todo = t.todo /\ u.current = t.current
      /\ u.listed = t.listed \cup found /\ u.rows = t.rows \ {row}
  BY <1>4, <1>5, <1>7 DEF Tasks
<1>9. TaskShape(u)
  BY <1>5, <1>8 DEF TaskShape, RRSetShape
<1>10. ASSUME SoloOK(t, call[p], records) PROVE SoloOK(u, call[p], records)
  <2>1. ListingExact(u, records)
    <3>1. t.op # "ListRecords" => \A r \in found : r \in InZone(records, t.zone)
      BY <1>2, <1>3, <1>5, <1>10 DEF SoloOK, ListingExact, InZone, RowKey
    <3>2. \A r \in InZone(records, t.zone) : RowKey(r) = row => r \in found
      BY <1>3 DEF InZone
    <3> QED
      BY <1>5, <1>8, <1>10, <3>1, <3>2 DEF SoloOK, ListingExact
  <2>2. CallOfTask(u, call[p]) /\ SetKnown(u, call[p], records) /\ SetFits(u, records)
    BY <1>5, <1>8, <1>10 DEF SoloOK, CallOfTask, SetKnown, SetFits, Adding, SetIn
  <2> QED
    BY <2>1, <2>2 DEF SoloOK
<1> QED
  BY <1>1, <1>6, <1>8, <1>9, <1>10, TaskOnly

\* The preview of an RRset passes only if the zone with the set in place of the old one does:
\* it keeps more of the old records, those of another class, and all the keys of the new.
LEMMA PreviewFits ==
    ASSUME NEW stored, UniqueKeys(stored), NEW target, UniqueKeys(target),
           NEW zone, NEW name, NEW type,
           \A r \in target : r.name = name /\ r.type = type,
           NEW first \in target, NEW kept,
           kept = {r \in InZone(stored, zone) : ~ /\ r.name = first.name
                                                  /\ r.type = first.type
                                                  /\ r.class = first.class},
           validateZoneRecords(zone, upsertRecords(kept, target), FALSE)
    PROVE  Fits(stored, zone, name, type, target)
<1>1. PICK others : others = {r \in InZone(stored, zone) : ~(r.name = name /\ r.type = type)}
  OBVIOUS
<1>2. others \subseteq kept /\ others \subseteq stored
  BY <1>1 DEF InZone
<1>3. UniqueKeys(others \cup target)
  <2> SUFFICES ASSUME NEW r \in others \cup target, NEW s \in others \cup target, Key(r) = Key(s)
               PROVE  r = s
    BY DEF UniqueKeys
  <2>1. r.name = s.name /\ r.type = s.type
    BY KeyParts
  <2>2. CASE r \in target
    <3>1. s \notin others
      BY <1>1, <2>1, <2>2
    <3> QED
      BY <2>2, <3>1 DEF UniqueKeys
  <2>3. CASE r \in others
    <3>1. s \notin target
      BY <1>1, <2>1, <2>3
    <3> QED
      BY <1>2, <2>3, <3>1 DEF UniqueKeys
  <2> QED
    BY <2>2, <2>3
<1>4. \A x \in others \cup target : \E y \in upsertRecords(kept, target) : Key(x) = Key(y)
  BY <1>2 DEF upsertRecords
<1>5. validateZoneRecords(zone, others \cup target, FALSE)
  BY <1>3, <1>4, ValidByKeys
<1> QED
  BY <1>1, <1>5 DEF Fits

\* validateRRSetUpsert looks at the whole set, and lets it through when the zone with it fits.
LEMMA ValidateRRSetAdvances ==
    ASSUME ManagerInv, NEW p \in Writers, ValidateRRSet(p)
    PROVE  Advances(p)
<1>1. PICK t : t = task[p]
  OBVIOUS
<1> DEFINE Kept(first) == {r \in t.listed : ~ /\ r.name = first.name
                                               /\ r.type = first.type
                                               /\ r.class = first.class}
<1>2. PICK first \in t.target :
          IF validateZoneRecords(t.zone, upsertRecords(Kept(first), t.target), FALSE)
          THEN Go(p, [t EXCEPT !.pc = "find", !.listed = {}])
          ELSE Abort(p)
  BY <1>1 DEF ValidateRRSet
<1>3. PICK kept : kept = Kept(first)
  OBVIOUS
<1>4. t \in Tasks /\ TaskShape(t) /\ t.pc = "read" /\ t.rows = {} /\ t.current = {}
  BY <1>1 DEF ManagerInv, ValidateRRSet
<1>5. CASE validateZoneRecords(t.zone, upsertRecords(kept, t.target), FALSE)
  <2>1. PICK u : u = [t EXCEPT !.pc = "find", !.listed = {}]
    OBVIOUS
  <2>2. task' = [task EXCEPT ![p] = u] /\ UNCHANGED storeVars
    BY <1>2, <1>3, <1>5, <2>1 DEF Go
  <2>3. /\ u \in Tasks
        /\ u.op = t.op /\ u.pc = "find" /\ u.zone = t.zone /\ u.name = t.name /\ u.type = t.type
        /\ u.target = t.target /\ u.todo = t.todo /\ u.current = t.current
    BY <1>4, <2>1 DEF Tasks
  <2>4. TaskShape(u)
    BY <1>4, <2>3 DEF TaskShape, RRSetShape
  <2>5. ASSUME SoloOK(t, call[p], records), t.op = "UpsertRRSet"
        PROVE  Fits(records, t.zone, t.name, t.type, t.target)
    <3>1. t.listed = InZone(records, t.zone)
      BY <1>4, <2>5 DEF SoloOK, ListingExact
    <3>2. kept = {r \in InZone(records, t.zone) : ~ /\ r.name = first.name
                                                    /\ r.type = first.type
                                                    /\ r.class = first.class}
      BY <1>3, <3>1
    <3>3. UniqueKeys(records) /\ UniqueKeys(t.target)
          /\ \A r \in t.target : r.name = t.name /\ r.type = t.type
      BY <1>4, <2>5 DEF TaskShape, RRSetShape, ManagerInv
    <3> HIDE DEF Kept
    <3> QED
      BY <1>2, <1>5, <3>2, <3>3, PreviewFits
  <2>6. ASSUME SoloOK(t, call[p], records) PROVE SoloOK(u, call[p], records)
    <3>1. CallOfTask(u, call[p]) /\ ListingExact(u, records) /\ SetKnown(u, call[p], records)
      BY <1>4, <2>3, <2>6 DEF SoloOK, CallOfTask, ListingExact, SetKnown, Adding, SetIn
    <3>2. SetFits(u, records)
      BY <2>3, <2>5, <2>6 DEF SetFits, Adding
    <3> QED
      BY <3>1, <3>2 DEF SoloOK
  <2> QED
    BY <1>1, <2>2, <2>3, <2>4, <2>6, TaskOnly
<1>6. CASE ~validateZoneRecords(t.zone, upsertRecords(kept, t.target), FALSE)
  <2>1. PICK u : u = [t EXCEPT !.pc = "failed"]
    OBVIOUS
  <2>2. task' = [task EXCEPT ![p] = u] /\ UNCHANGED storeVars
    BY <1>1, <1>2, <1>3, <1>6, <2>1 DEF Abort, Go
  <2>3. /\ u \in Tasks
        /\ u.op = t.op /\ u.pc = "failed" /\ u.zone = t.zone /\ u.name = t.name /\ u.type = t.type
        /\ u.target = t.target /\ u.todo = t.todo /\ u.current = t.current
    BY <1>4, <2>1 DEF Tasks
  <2>4. TaskShape(u)
    BY <1>4, <2>3 DEF TaskShape, RRSetShape
  <2>5. ASSUME SoloOK(t, call[p], records) PROVE SoloOK(u, call[p], records)
    <3>1. CallOfTask(u, call[p]) /\ ListingExact(u, records) /\ SetKnown(u, call[p], records)
      BY <1>4, <2>3, <2>5 DEF SoloOK, CallOfTask, ListingExact, SetKnown, Adding, SetIn
    <3>2. SetFits(u, records)
      BY <1>4, <2>3 DEF SetFits, Adding, TaskShape, RRSetShape
    <3> QED
      BY <3>1, <3>2 DEF SoloOK
  <2> QED
    BY <1>1, <2>2, <2>3, <2>4, <2>5, TaskOnly
<1> QED
  BY <1>5, <1>6

\* Lookup finds the records to delete.
LEMMA FindRRSetAdvances ==
    ASSUME ManagerInv, NEW p \in Writers, FindRRSet(p)
    PROVE  Advances(p)
<1>1. PICK t : t = task[p]
  OBVIOUS
<1>2. PICK drops : drops = LookupIn(records, t.zone, t.name, t.type, "ANY")
  OBVIOUS
<1>3. PICK u : u = [t EXCEPT !.pc = "drop", !.drops = drops]
  OBVIOUS
<1>4. t \in Tasks /\ TaskShape(t) /\ t.pc = "find"
  BY <1>1 DEF ManagerInv, FindRRSet
<1>5. task' = [task EXCEPT ![p] = u] /\ UNCHANGED storeVars
  BY <1>1, <1>2, <1>3 DEF FindRRSet, Go
<1>6. drops \subseteq Records
  BY <1>2 DEF LookupIn, ManagerInv, StoreInv, StoreTypeOK
<1>7. /\ u \in Tasks
      /\ u.op = t.op /\ u.pc = "drop" /\ u.zone = t.zone /\ u.name = t.name /\ u.type = t.type
      /\ u.target = t.target /\ u.todo = t.todo /\ u.current = t.current /\ u.drops = drops
  BY <1>3, <1>4, <1>6 DEF Tasks
<1>8. TaskShape(u)
  BY <1>4, <1>7 DEF TaskShape, RRSetShape
<1>9. ASSUME SoloOK(t, call[p], records) PROVE SoloOK(u, call[p], records)
  BY <1>2, <1>4, <1>7, <1>9
  DEF SoloOK, CallOfTask, ListingExact, SetKnown, SetFits, Adding, SetIn
<1> QED
  BY <1>1, <1>5, <1>7, <1>8, <1>9, TaskOnly

\* Fewer stored records fit the set too.
LEMMA FitsSubset ==
    ASSUME NEW stored, NEW fewer \in SUBSET stored, NEW zone, NEW name, NEW type, NEW target,
           Fits(stored, zone, name, type, target)
    PROVE  Fits(fewer, zone, name, type, target)
<1> DEFINE Others(S) == {r \in InZone(S, zone) : ~(r.name = name /\ r.type = type)}
<1>1. Others(fewer) \cup target \subseteq Others(stored) \cup target
  BY DEF InZone
<1> QED
  BY <1>1, ValidSubset DEF Fits

\* deleteRecords deletes a record it has found, in the form it was stored in.
LEMMA DropRecordAdvances ==
    ASSUME ManagerInv, NEW p \in Writers, DropRecord(p)
    PROVE  Advances(p)
<1>1. PICK t : t = task[p]
  OBVIOUS
<1>2. PICK r \in t.drops : DeleteRecord(p, r) /\ task' = [task EXCEPT ![p].drops = @ \ {r}]
  BY <1>1 DEF DropRecord
<1>3. PICK u : u = [t EXCEPT !.drops = @ \ {r}]
  OBVIOUS
<1>4. PICK d : d = [NoCall EXCEPT !.pc = "bump", !.zone = r.zone]
  OBVIOUS
<1>5. t \in Tasks /\ TaskShape(t) /\ t.pc = "drop"
  BY <1>1 DEF ManagerInv, DropRecord
<1>6. r \in Records
  BY <1>2, <1>5 DEF Tasks
<1>7. NormalizeRecord(r) = r
  BY <1>6, StoredNormal
<1>8. /\ task' = [task EXCEPT ![p] = u]
      /\ call' = [call EXCEPT ![p] = d]
      /\ records' = Without(records, r)
  BY <1>1, <1>2, <1>3, <1>4, <1>7 DEF DeleteRecord, ManagerInv
<1>9. /\ u \in Tasks
      /\ u.op = t.op /\ u.pc = "drop" /\ u.zone = t.zone /\ u.name = t.name /\ u.type = t.type
      /\ u.target = t.target /\ u.todo = t.todo /\ u.current = t.current
      /\ u.drops = t.drops \ {r}
  BY <1>3, <1>5 DEF Tasks
<1>10. d.pc = "bump" /\ d.record = {} /\ CallShape(d)
  BY <1>4 DEF NoCall, CallShape
<1>11. TaskShape(u)
  BY <1>5, <1>9 DEF TaskShape, RRSetShape
<1>12. ASSUME SoloOK(t, call[p], records) PROVE SoloOK(u, d, Without(records, r))
  <2>1. SetIn(Without(records, r), u) \subseteq u.drops
    <3>1. SetIn(records, t) \subseteq t.drops
      BY <1>5, <1>12 DEF SoloOK, SetKnown
    <3> QED
      BY <1>9, <3>1 DEF SetIn, LookupIn, Without
  <2>2. t.op = "UpsertRRSet" =>
            Fits(Without(records, r), t.zone, t.name, t.type, t.target)
    BY <1>5, <1>12, FitsSubset DEF SoloOK, SetFits, Without
  <2> QED
    BY <1>9, <1>10, <2>1, <2>2
    DEF SoloOK, CallOfTask, ListingExact, SetKnown, SetFits, Adding
<1> QED
  BY <1>1, <1>8, <1>9, <1>10, <1>11, <1>12, TaskAndCall

\* deleteRecords is over: the old set is gone.
LEMMA DroppedAdvances ==
    ASSUME ManagerInv, NEW p \in Writers, Dropped(p)
    PROVE  Advances(p)
<1>1. PICK t : t = task[p]
  OBVIOUS
<1>2. PICK pc : pc = IF t.op = "UpsertRRSet" THEN "add" ELSE "return"
  OBVIOUS
<1>3. PICK u : u = [t EXCEPT !.pc = pc]
  OBVIOUS
<1>4. t \in Tasks /\ TaskShape(t) /\ t.pc = "drop" /\ t.drops = {} /\ call[p].record = {}
      /\ call[p].pc = "idle"
  BY <1>1 DEF ManagerInv, Dropped, CallShape
<1>5. task' = [task EXCEPT ![p] = u] /\ UNCHANGED storeVars
  BY <1>1, <1>2, <1>3 DEF Dropped, Go
<1>6. /\ u \in Tasks
      /\ u.op = t.op /\ u.pc = pc /\ u.zone = t.zone /\ u.name = t.name /\ u.type = t.type
      /\ u.target = t.target /\ u.todo = t.todo /\ u.current = t.current
  BY <1>2, <1>3, <1>4 DEF Tasks
<1>7. TaskShape(u)
  BY <1>2, <1>4, <1>6 DEF TaskShape, RRSetShape
<1>8. ASSUME SoloOK(t, call[p], records) PROVE SoloOK(u, call[p], records)
  <2>1. SetIn(records, u) = {}
    BY <1>4, <1>6, <1>8 DEF SoloOK, SetKnown, SetIn
  <2>2. u.op = "UpsertRRSet" => u.todo = u.target /\ u.current = {}
    BY <1>4, <1>6 DEF TaskShape, RRSetShape
  <2>3. CallOfTask(u, call[p]) /\ ListingExact(u, records)
    BY <1>2, <1>4, <1>6 DEF CallOfTask, ListingExact
  <2>4. SetKnown(u, call[p], records)
    BY <1>2, <1>4, <1>6, <2>1, <2>2 DEF SetKnown, Adding
  <2>5. SetFits(u, records)
    BY <1>2, <1>4, <1>6, <1>8 DEF SoloOK, SetFits, Adding
  <2> QED
    BY <2>3, <2>4, <2>5 DEF SoloOK
<1> QED
  BY <1>1, <1>5, <1>6, <1>7, <1>8, TaskOnly

\* UpsertRRSet takes up its next record.
LEMMA NextRecordAdvances ==
    ASSUME ManagerInv, NEW p \in Writers, NextRecord(p)
    PROVE  Advances(p)
<1>1. PICK t : t = task[p]
  OBVIOUS
<1>2. PICK r \in t.todo : Go(p, [t EXCEPT !.pc = "list", !.todo = @ \ {r}, !.current = {r}])
  BY <1>1 DEF NextRecord
<1>3. PICK u : u = [t EXCEPT !.pc = "list", !.todo = @ \ {r}, !.current = {r}]
  OBVIOUS
<1>4. t \in Tasks /\ TaskShape(t) /\ t.pc = "add" /\ call[p].record = {} /\ call[p].pc = "idle"
  BY <1>1 DEF ManagerInv, NextRecord, CallShape
<1>5. task' = [task EXCEPT ![p] = u] /\ UNCHANGED storeVars
  BY <1>2, <1>3 DEF Go
<1>6. /\ u \in Tasks
      /\ u.op = t.op /\ u.pc = "list" /\ u.zone = t.zone /\ u.name = t.name /\ u.type = t.type
      /\ u.target = t.target /\ u.todo = t.todo \ {r} /\ u.current = {r}
  BY <1>3, <1>4 DEF Tasks
<1>7. t.op = "UpsertRRSet" /\ t.todo \subseteq t.target /\ t.current = {}
  BY <1>4 DEF TaskShape, RRSetShape
<1>8. TaskShape(u)
  BY <1>4, <1>6, <1>7 DEF TaskShape, RRSetShape
<1>9. ASSUME SoloOK(t, call[p], records) PROVE SoloOK(u, call[p], records)
  <2>1. SetIn(records, u) = t.target \ t.todo
    BY <1>4, <1>6, <1>7, <1>9 DEF SoloOK, SetKnown, SetIn, Adding
  <2>2. (u.target \ u.todo) \ (u.current \cup call[p].record) = t.target \ t.todo
    BY <1>4, <1>6, <1>7
  <2>3. CallOfTask(u, call[p]) /\ ListingExact(u, records)
    BY <1>4, <1>6 DEF CallOfTask, ListingExact
  <2>4. SetKnown(u, call[p], records)
    BY <1>4, <1>6, <1>7, <2>1, <2>2 DEF SetKnown, Adding
  <2>5. SetFits(u, records)
    BY <1>4, <1>6, <1>7, <1>9 DEF SoloOK, SetFits, Adding
  <2> QED
    BY <2>3, <2>4, <2>5 DEF SoloOK
<1> QED
  BY <1>1, <1>5, <1>6, <1>8, <1>9, TaskOnly

\* While UpsertRRSet adds the records of a set that fits, the preview of each of them holds
\* nothing but what fits, and passes.
LEMMA AddingPasses ==
    ASSUME NEW t \in Tasks, NEW c, NEW stored, TaskShape(t), SoloOK(t, c, stored), Adding(t),
           t.pc = "read", t.rows = {}, NEW r \in t.current
    PROVE  validateZoneRecords(t.zone, upsertRecords(t.listed, {r}), FALSE)
<1> DEFINE others == {x \in InZone(stored, t.zone) : ~(x.name = t.name /\ x.type = t.type)}
<1>1. t.listed \subseteq InZone(stored, t.zone)
  BY DEF SoloOK, ListingExact, Adding
<1>2. SetIn(stored, t) \subseteq t.target /\ r \in t.target
  BY DEF SoloOK, SetKnown, TaskShape, RRSetShape, Adding
<1>3. \A x \in InZone(stored, t.zone) : x.name = t.name /\ x.type = t.type => x \in SetIn(stored, t)
  BY DEF InZone, SetIn, LookupIn, RowKey
<1>4. upsertRecords(t.listed, {r}) \subseteq others \cup t.target
  BY <1>1, <1>2, <1>3 DEF upsertRecords
<1>5. validateZoneRecords(t.zone, others \cup t.target, FALSE)
  BY DEF SoloOK, SetFits, Fits
<1> QED
  BY <1>4, <1>5, ValidSubset

\* validateRecordUpsert, which lets every record of a set that fits through.
LEMMA ValidateRecordAdvances ==
    ASSUME ManagerInv, NEW p \in Writers, ValidateRecord(p)
    PROVE  Advances(p)
<1>1. PICK t : t = task[p]
  OBVIOUS
<1>2. PICK pc : pc = IF t.op = "UpsertRRSet" THEN "add" ELSE "return"
  OBVIOUS
<1>3. PICK r \in t.current :
          \/ /\ validateZoneRecords(t.zone, upsertRecords(t.listed, {r}), FALSE)
             /\ SaveRecord(p, r)
             /\ task' = [task EXCEPT ![p] = [t EXCEPT !.pc = pc, !.listed = {}, !.current = {}]]
          \/ /\ ~validateZoneRecords(t.zone, upsertRecords(t.listed, {r}), FALSE)
             /\ Abort(p)
  BY <1>1, <1>2 DEF ValidateRecord
<1>4. t \in Tasks /\ TaskShape(t) /\ t.pc = "read" /\ t.rows = {}
  BY <1>1 DEF ManagerInv, ValidateRecord
<1>5. r \in Records /\ NormalizeRecord(r) = r /\ t.current = {r}
      /\ t.op \in {"UpsertRecord", "UpsertRRSet"}
  BY <1>3, <1>4, StoredNormal DEF Tasks, TaskShape
<1>6. CASE validateZoneRecords(t.zone, upsertRecords(t.listed, {r}), FALSE)
  <2>1. PICK u : u = [t EXCEPT !.pc = pc, !.listed = {}, !.current = {}]
    OBVIOUS
  <2>2. PICK d : d = [NoCall EXCEPT !.pc = "put", !.zone = r.zone, !.record = {r}]
    OBVIOUS
  <2>3. SaveRecord(p, r) /\ task' = [task EXCEPT ![p] = u]
    BY <1>3, <1>6, <2>1
  <2>4. call' = [call EXCEPT ![p] = d] /\ records' = records
    BY <1>5, <2>2, <2>3 DEF SaveRecord
  <2>5. /\ u \in Tasks
        /\ u.op = t.op /\ u.pc = pc /\ u.zone = t.zone /\ u.name = t.name /\ u.type = t.type
        /\ u.target = t.target /\ u.todo = t.todo /\ u.current = {}
    BY <1>2, <1>4, <2>1 DEF Tasks
  <2>6. d.pc = "put" /\ d.record = {r} /\ CallShape(d)
    BY <2>2 DEF NoCall, CallShape
  <2>7. TaskShape(u)
    BY <1>2, <1>4, <2>5 DEF TaskShape, RRSetShape
  <2>8. ASSUME SoloOK(t, call[p], records) PROVE SoloOK(u, d, records)
    <3>1. Adding(u) => Adding(t)
      BY <1>4, <1>5, <2>5 DEF Adding
    <3>2. t.op = "UpsertRRSet" => Adding(u)
      BY <1>2, <2>5 DEF Adding
    <3>3. call[p].record = {}
      BY <1>1, <1>4, <2>8 DEF SoloOK, CallOfTask, ManagerInv, CallShape
    <3>4. CallOfTask(u, d) /\ ListingExact(u, records)
      BY <1>2, <1>5, <2>5, <2>6, <3>2 DEF CallOfTask, ListingExact
    <3>5. SetKnown(u, d, records)
      <4>1. Adding(u) => r \in u.target \ u.todo
        BY <1>4, <1>5, <2>5 DEF TaskShape, RRSetShape, Adding
      <4>2. Adding(t) => SetIn(records, t) = (t.target \ t.todo) \ ({r} \cup {})
        BY <1>5, <2>8, <3>3 DEF SoloOK, SetKnown
      <4>3. SetIn(records, u) = SetIn(records, t)
        BY <2>5 DEF SetIn
      <4>4. u.pc # "drop" /\ u.op \notin {"DeleteRRSet", "DeleteName"}
        BY <1>2, <1>5, <2>5
      <4> QED
        BY <2>5, <2>6, <3>1, <4>1, <4>2, <4>3, <4>4 DEF SetKnown
    <3>6. SetFits(u, records)
      BY <1>2, <2>5, <2>8, <3>1 DEF SoloOK, SetFits
    <3> QED
      BY <3>4, <3>5, <3>6 DEF SoloOK
  <2> QED
    BY <1>1, <2>3, <2>4, <2>5, <2>6, <2>7, <2>8, TaskAndCall
<1>7. CASE ~validateZoneRecords(t.zone, upsertRecords(t.listed, {r}), FALSE)
  <2>1. PICK u : u = [t EXCEPT !.pc = "failed"]
    OBVIOUS
  <2>2. task' = [task EXCEPT ![p] = u] /\ UNCHANGED storeVars
    BY <1>1, <1>3, <1>7, <2>1 DEF Abort, Go
  <2>3. /\ u \in Tasks
        /\ u.op = t.op /\ u.pc = "failed" /\ u.zone = t.zone /\ u.name = t.name /\ u.type = t.type
        /\ u.target = t.target /\ u.todo = t.todo /\ u.current = t.current
    BY <1>4, <2>1 DEF Tasks
  <2>4. TaskShape(u)
    BY <1>4, <1>5, <2>3 DEF TaskShape, RRSetShape
  <2>5. ASSUME SoloOK(t, call[p], records) PROVE SoloOK(u, call[p], records)
    <3>1. ~Adding(t)
      BY <1>3, <1>4, <1>7, <2>5, AddingPasses
    <3>2. t.op # "UpsertRRSet"
      BY <1>4, <1>5, <3>1 DEF Adding
    <3> QED
      BY <1>4, <1>5, <2>3, <2>5, <3>2
      DEF SoloOK, CallOfTask, ListingExact, SetKnown, SetFits, Adding
  <2> QED
    BY <1>1, <2>2, <2>3, <2>4, <2>5, TaskOnly
<1> QED
  BY <1>6, <1>7

\* saveSeedZones saves one zone.
LEMMA SaveSeedZoneAdvances ==
    ASSUME ManagerInv, NEW p \in Writers, SaveSeedZone(p)
    PROVE  Advances(p)
<1>1. PICK t : t = task[p]
  OBVIOUS
<1>2. PICK z \in t.seedZones : SaveZone(p, z) /\ task' = [task EXCEPT ![p].seedZones = @ \ {z}]
  BY <1>1 DEF SaveSeedZone
<1>3. PICK u : u = [t EXCEPT !.seedZones = @ \ {z}]
  OBVIOUS
<1>4. PICK d : d = [NoCall EXCEPT !.pc = "bump", !.zone = NormalizeZoneName(z)]
  OBVIOUS
<1>5. t \in Tasks /\ TaskShape(t) /\ t.pc = "seed"
  BY <1>1 DEF ManagerInv, SaveSeedZone
<1>6. /\ task' = [task EXCEPT ![p] = u]
      /\ call' = [call EXCEPT ![p] = d]
      /\ records' = records
  BY <1>1, <1>2, <1>3, <1>4 DEF SaveZone, ManagerInv
<1>7. /\ u \in Tasks
      /\ u.op = t.op /\ u.pc = t.pc /\ u.zone = t.zone /\ u.name = t.name /\ u.type = t.type
      /\ u.target = t.target /\ u.todo = t.todo /\ u.current = t.current
  BY <1>3, <1>5 DEF Tasks
<1>8. d.pc = "bump" /\ CallShape(d)
  BY <1>4 DEF NoCall, CallShape
<1>9. TaskShape(u)
  BY <1>5, <1>7 DEF TaskShape, RRSetShape
<1>10. SoloOK(u, d, records)
  BY <1>5, <1>7, <1>8, <1>9
  DEF TaskShape, SoloOK, CallOfTask, ListingExact, SetKnown, SetFits, Adding
<1> QED
  BY <1>1, <1>6, <1>7, <1>8, <1>9, <1>10, TaskAndCall

\* saveSeedRecords saves one record.
LEMMA SaveSeedRecordAdvances ==
    ASSUME ManagerInv, NEW p \in Writers, SaveSeedRecord(p)
    PROVE  Advances(p)
<1>1. PICK t : t = task[p]
  OBVIOUS
<1>2. PICK r \in t.todo : SaveRecord(p, r) /\ task' = [task EXCEPT ![p].todo = @ \ {r}]
  BY <1>1 DEF SaveSeedRecord
<1>3. PICK u : u = [t EXCEPT !.todo = @ \ {r}]
  OBVIOUS
<1>4. PICK d : d = [NoCall EXCEPT !.pc = "put", !.zone = r.zone, !.record = {r}]
  OBVIOUS
<1>5. t \in Tasks /\ TaskShape(t) /\ t.pc = "seed"
  BY <1>1 DEF ManagerInv, SaveSeedRecord
<1>6. NormalizeRecord(r) = r
  BY <1>2, <1>5, StoredNormal DEF Tasks
<1>7. /\ task' = [task EXCEPT ![p] = u]
      /\ call' = [call EXCEPT ![p] = d]
      /\ records' = records
  BY <1>1, <1>2, <1>3, <1>4, <1>6 DEF SaveRecord, ManagerInv
<1>8. /\ u \in Tasks
      /\ u.op = t.op /\ u.pc = t.pc /\ u.zone = t.zone /\ u.name = t.name /\ u.type = t.type
      /\ u.target = t.target /\ u.current = t.current
  BY <1>3, <1>5 DEF Tasks
<1>9. d.pc = "put" /\ CallShape(d)
  BY <1>4 DEF NoCall, CallShape
<1>10. TaskShape(u)
  BY <1>5, <1>8 DEF TaskShape, RRSetShape
<1>11. SoloOK(u, d, records)
  BY <1>5, <1>8, <1>9, <1>10
  DEF TaskShape, SoloOK, CallOfTask, ListingExact, SetKnown, SetFits, Adding
<1> QED
  BY <1>1, <1>7, <1>8, <1>9, <1>10, <1>11, TaskAndCall

\* A method, or a listing of the preview, ends.
LEMMA ReturnAdvances ==
    ASSUME ManagerInv, NEW p \in Writers, Go(p, NoTask),
           call[p].pc = "idle" \/ task[p].pc = "read"
    PROVE  Advances(p)
<1>1. TaskShape(NoTask)
  BY NoTaskFacts DEF TaskShape, RRSetShape
<1>2. ASSUME SoloOK(task[p], call[p], records) PROVE SoloOK(NoTask, call[p], records)
  <2>1. call[p].pc = "idle"
    BY <1>2 DEF SoloOK, CallOfTask
  <2> QED
    BY <2>1, NoTaskFacts DEF SoloOK, CallOfTask, ListingExact, SetKnown, SetFits, Adding
<1> QED
  BY <1>1, <1>2, NoTaskFacts, TaskOnly DEF Go

\* A step of the goroutine's store call.
LEMMA CallOnly ==
    ASSUME ManagerInv, NEW p \in Writers, NEW c, CallShape(c),
           UNCHANGED task, call' = [call EXCEPT ![p] = c],
           NEW stored, records' = stored,
           SoloOK(task[p], call[p], records) => SoloOK(task[p], c, stored)
    PROVE  Advances(p)
<1>1. call'[p] = c /\ \A q \in Writers : q # p => call'[q] = call[q]
  BY DEF ManagerInv, StoreInv, StoreTypeOK
<1> QED
  BY <1>1 DEF Advances, ManagerInv

\* SaveRecord puts the record into its row.
LEMMA PutRecordAdvances ==
    ASSUME ManagerInv, NEW p \in Writers, PutRecord(p), UNCHANGED task
    PROVE  Advances(p)
<1>1. PICK t : t = task[p]
  OBVIOUS
<1>2. PICK c : c = call[p]
  OBVIOUS
<1>3. PICK r \in c.record : records' = Put(records, r)
  BY <1>2 DEF PutRecord
<1>4. PICK d : d = [c EXCEPT !.pc = "bump", !.record = {}]
  OBVIOUS
<1>5. t \in Tasks /\ TaskShape(t) /\ c \in Calls /\ c.pc = "put" /\ c.record = {r}
  BY <1>1, <1>2, <1>3 DEF ManagerInv, CallShape, StoreInv, StoreTypeOK, PutRecord
<1>6. call' = [call EXCEPT ![p] = d]
  BY <1>2, <1>4 DEF PutRecord, ManagerInv, StoreInv, StoreTypeOK
<1>7. d.pc = "bump" /\ d.record = {} /\ CallShape(d)
  BY <1>4, <1>5 DEF Calls, CallShape
<1>8. ASSUME SoloOK(t, c, records) PROVE SoloOK(t, d, Put(records, r))
  <2>1. t.pc \notin {"list", "read", "find"}
    BY <1>5, <1>8 DEF SoloOK, CallOfTask
  <2>2. CASE ~Adding(t)
    <3>1. t.op \in {"UpsertRecord", "ImportSeedData"} /\ t.pc \in {"return", "seed"}
      BY <1>5, <1>8, <2>2 DEF SoloOK, CallOfTask
    <3> QED
      BY <1>7, <2>2, <3>1 DEF SoloOK, CallOfTask, ListingExact, SetKnown, SetFits
  <2>3. CASE Adding(t)
    <3>1. /\ t.op = "UpsertRRSet" /\ t.pc = "add" /\ t.current = {}
          /\ r \in t.target \ t.todo
          /\ SetIn(records, t) = (t.target \ t.todo) \ {r}
      BY <1>5, <1>8, <2>1, <2>3 DEF SoloOK, SetKnown, Adding, TaskShape, RRSetShape
    <3>2. r.zone = t.zone /\ r.name = t.name /\ r.type = t.type /\ UniqueKeys(t.target)
      BY <1>5, <3>1 DEF TaskShape, RRSetShape
    <3>3. SetIn(Put(records, r), t) = t.target \ t.todo
      <4>1. r \in SetIn(Put(records, r), t)
        BY <3>2 DEF SetIn, LookupIn, Put, RowKey
      <4>2. \A x \in SetIn(records, t) : Key(x) # Key(r)
        BY <3>1, <3>2 DEF UniqueKeys
      <4>3. SetIn(records, t) \subseteq SetIn(Put(records, r), t)
        BY <4>2 DEF SetIn, LookupIn, Put
      <4>4. SetIn(Put(records, r), t) \subseteq SetIn(records, t) \cup {r}
        BY DEF SetIn, LookupIn, Put
      <4> QED
        BY <3>1, <4>1, <4>3, <4>4
    <3>4. Fits(Put(records, r), t.zone, t.name, t.type, t.target)
      <4> DEFINE Others(S) == {x \in InZone(S, t.zone) : ~(x.name = t.name /\ x.type = t.type)}
      <4>1. Others(Put(records, r)) \cup t.target \subseteq Others(records) \cup t.target
        BY <3>2 DEF InZone, Put
      <4>2. validateZoneRecords(t.zone, Others(records) \cup t.target, FALSE)
        BY <1>8, <2>3 DEF SoloOK, SetFits, Fits
      <4> QED
        BY <4>1, <4>2, ValidSubset DEF Fits
    <3> QED
      BY <1>7, <2>3, <3>1, <3>3, <3>4 DEF SoloOK, CallOfTask, ListingExact, SetKnown, SetFits
  <2> QED
    BY <2>2, <2>3
<1> QED
  BY <1>1, <1>2, <1>3, <1>6, <1>7, <1>8, CallOnly

\* DeleteZone's own steps: no other method is between its lookups and its calls then.
LEMMA DeletingZone ==
    ASSUME NEW t, NEW c, NEW d, NEW stored, NEW fewer \in SUBSET stored, SoloOK(t, c, stored),
           c.pc \in {"rows", "drop"}, d.pc \in {"drop", "bump"}
    PROVE  SoloOK(t, d, fewer)
<1>1. t.op = "DeleteZone" /\ t.pc \notin {"list", "read", "find"}
  BY DEF SoloOK, CallOfTask
<1>2. SetIn(fewer, t) \subseteq SetIn(stored, t)
  BY DEF SetIn, LookupIn
<1> QED
  BY <1>1, <1>2 DEF SoloOK, CallOfTask, ListingExact, SetKnown, SetFits, Adding

\* deleteRecordRowsByZone takes the row keys.
LEMMA ListRowsAdvances ==
    ASSUME ManagerInv, NEW p \in Writers, ListRows(p), UNCHANGED task
    PROVE  Advances(p)
<1>1. PICK c : c = call[p]
  OBVIOUS
<1>2. PICK rows : rows = {RowKey(r) : r \in InZone(records, c.zone)}
  OBVIOUS
<1>3. PICK d : d = [c EXCEPT !.rows = rows, !.pc = "drop"]
  OBVIOUS
<1>4. c \in Calls /\ c.pc = "rows" /\ CallShape(c)
  BY <1>1 DEF ManagerInv, StoreInv, StoreTypeOK, ListRows
<1>5. call' = [call EXCEPT ![p] = d] /\ records' = records
  BY <1>1, <1>2, <1>3 DEF ListRows, ManagerInv, StoreInv, StoreTypeOK
<1>6. d.pc = "drop" /\ CallShape(d)
  BY <1>3, <1>4 DEF Calls, CallShape
<1> QED
  BY <1>1, <1>4, <1>5, <1>6, DeletingZone, CallOnly

\* deleteRecordRowsByZone deletes one row.
LEMMA DropRowAdvances ==
    ASSUME ManagerInv, NEW p \in Writers, DropRow(p), UNCHANGED task
    PROVE  Advances(p)
<1>1. PICK c : c = call[p]
  OBVIOUS
<1>2. PICK row \in c.rows : /\ records' = {r \in records : RowKey(r) # row}
                            /\ call' = [call EXCEPT ![p].rows = @ \ {row}]
  BY <1>1 DEF DropRow
<1>3. PICK d : d = [c EXCEPT !.rows = @ \ {row}]
  OBVIOUS
<1>4. c \in Calls /\ c.pc = "drop" /\ CallShape(c)
  BY <1>1 DEF ManagerInv, StoreInv, StoreTypeOK, DropRow
<1>5. call' = [call EXCEPT ![p] = d]
  BY <1>1, <1>2, <1>3 DEF ManagerInv, StoreInv, StoreTypeOK
<1>6. d.pc = "drop" /\ CallShape(d)
  BY <1>3, <1>4 DEF Calls, CallShape
<1>7. PICK fewer \in SUBSET records : records' = fewer
  BY <1>2
<1> QED
  BY <1>1, <1>4, <1>5, <1>6, <1>7, DeletingZone, CallOnly

\* A store call increments the revision and returns.
LEMMA BumpAdvances ==
    ASSUME ManagerInv, NEW p \in Writers, Bump(p), UNCHANGED task
    PROVE  Advances(p)
<1>1. PICK t : t = task[p]
  OBVIOUS
<1>2. PICK c : c = call[p]
  OBVIOUS
<1>3. c.record = {} /\ NoCall.record = {} /\ NoCall.pc = "idle" /\ CallShape(NoCall)
  BY <1>2 DEF ManagerInv, CallShape, Bump, NoCall
<1>4. call' = [call EXCEPT ![p] = NoCall] /\ records' = records
  BY DEF Bump
<1>5. ASSUME SoloOK(t, c, records) PROVE SoloOK(t, NoCall, records)
  BY <1>3, <1>5 DEF SoloOK, CallOfTask, SetKnown
<1> QED
  BY <1>1, <1>2, <1>3, <1>4, <1>5, CallOnly

-----------------------------------------------------------------------------
(* The calls. *)

\* UpsertZone, DeleteZone and DeleteRecord make one store call and return after it.
LEMMA SingleCallAdvances ==
    ASSUME ManagerInv, NEW p \in Writers,
           NEW op \in Operations \cap {"UpsertZone", "DeleteZone", "DeleteRecord"},
           task' = [task EXCEPT ![p] = [NoTask EXCEPT !.op = op, !.pc = "return"]],
           NEW c, call' = [call EXCEPT ![p] = c], CallShape(c),
           c.pc = "bump" \/ (c.pc = "rows" /\ op = "DeleteZone"),
           NEW stored, records' = stored
    PROVE  Advances(p)
<1>1. PICK u : u = [NoTask EXCEPT !.op = op, !.pc = "return"]
  OBVIOUS
<1>2. /\ u \in Tasks
      /\ u.op = op /\ u.pc = "return" /\ u.target = {} /\ u.current = {}
  BY <1>1, NoTaskFacts DEF Tasks
<1>3. TaskShape(u)
  BY <1>2 DEF TaskShape, RRSetShape
<1>4. SoloOK(u, c, stored)
  BY <1>2 DEF SoloOK, CallOfTask, ListingExact, SetKnown, SetFits, Adding
<1> QED
  BY <1>1, <1>2, <1>3, <1>4, TaskAndCall

\* UpsertZone is one store call.
LEMMA UpsertZoneAdvances ==
    ASSUME ManagerInv, NEW p \in Writers, NEW raw, UpsertZone(p, raw)
    PROVE  Advances(p)
<1>1. PICK d : d = [NoCall EXCEPT !.pc = "bump", !.zone = NormalizeZoneName(raw)]
  OBVIOUS
<1>2. call' = [call EXCEPT ![p] = d] /\ records' = records /\ "UpsertZone" \in Operations
  BY <1>1 DEF UpsertZone, SaveZone, Begin
<1>3. d.pc = "bump" /\ CallShape(d)
  BY <1>1 DEF NoCall, CallShape
<1> QED
  BY <1>2, <1>3, SingleCallAdvances DEF UpsertZone

\* DeleteZone is one store call.
LEMMA DeleteZoneAdvances ==
    ASSUME ManagerInv, NEW p \in Writers, NEW raw, ManagerDeleteZone(p, raw)
    PROVE  Advances(p)
<1>1. PICK d : d = [NoCall EXCEPT !.pc = "rows", !.zone = NormalizeZoneName(raw)]
  OBVIOUS
<1>2. call' = [call EXCEPT ![p] = d] /\ records' = records /\ "DeleteZone" \in Operations
  BY <1>1 DEF ManagerDeleteZone, DeleteZone, Begin
<1>3. d.pc = "rows" /\ CallShape(d)
  BY <1>1 DEF NoCall, CallShape
<1> QED
  BY <1>2, <1>3, SingleCallAdvances DEF ManagerDeleteZone

\* DeleteRecord is one store call.
LEMMA DeleteRecordAdvances ==
    ASSUME ManagerInv, NEW p \in Writers, NEW raw, ManagerDeleteRecord(p, raw)
    PROVE  Advances(p)
<1>1. PICK d : d = [NoCall EXCEPT !.pc = "bump", !.zone = NormalizeRecord(raw).zone]
  OBVIOUS
<1>2. call' = [call EXCEPT ![p] = d] /\ "DeleteRecord" \in Operations
  BY <1>1 DEF ManagerDeleteRecord, DeleteRecord, Begin
<1>3. d.pc = "bump" /\ CallShape(d)
  BY <1>1 DEF NoCall, CallShape
<1>4. PICK stored : records' = stored
  OBVIOUS
<1> QED
  BY <1>2, <1>3, <1>4, SingleCallAdvances DEF ManagerDeleteRecord

\* UpsertRecord normalizes its record.
LEMMA UpsertRecordAdvances ==
    ASSUME ManagerInv, NEW p \in Writers, NEW raw, NormalizeRecord(raw) \in Records,
           UpsertRecord(p, raw)
    PROVE  Advances(p)
<1>1. PICK r \in Records : r = NormalizeRecord(raw)
  OBVIOUS
<1>2. PICK u : u = [NoTask EXCEPT !.op = "UpsertRecord", !.pc = "list", !.zone = r.zone,
                                  !.target = {r}, !.current = {r}]
  OBVIOUS
<1>3. /\ task' = [task EXCEPT ![p] = u] /\ UNCHANGED storeVars
      /\ call[p].pc = "idle" /\ "UpsertRecord" \in Operations
  BY <1>1, <1>2 DEF UpsertRecord, Begin
<1>4. r.zone \in Zones
  BY CallFacts
<1>5. /\ u \in Tasks
      /\ u.op = "UpsertRecord" /\ u.pc = "list" /\ u.zone = r.zone
      /\ u.target = {r} /\ u.current = {r}
  BY <1>2, <1>3, <1>4, NoTaskFacts DEF Tasks
<1>6. TaskShape(u)
  BY <1>5 DEF TaskShape, RRSetShape
<1>7. SoloOK(u, call[p], records)
  BY <1>3, <1>5 DEF SoloOK, CallOfTask, ListingExact, SetKnown, SetFits, Adding
<1> QED
  BY <1>3, <1>5, <1>6, <1>7, TaskOnly

\* The records that UpsertRRSet keeps are in the universe, and are those of the set.
LEMMA RRSetRecords ==
    ASSUME NEW set, RRSetInUniverse(set), RRSetAccepted(set),
           NEW kept \in Deduped({normalizeRRSetRecord(set, r) : r \in set.records})
    PROVE  /\ kept \subseteq Records
           /\ UniqueKeys(kept)
           /\ \A r \in kept : r.zone = Fold(set.zone) /\ r.name = Fold(set.name) /\ r.type = set.type
<1>1. kept \subseteq {normalizeRRSetRecord(set, r) : r \in set.records} /\ UniqueKeys(kept)
  BY DEF Deduped, UniqueKeys
<1>2. ASSUME NEW x \in kept
      PROVE  x \in Records /\ x.zone = Fold(set.zone) /\ x.name = Fold(set.name)
             /\ x.type = set.type
  <2>1. PICK r \in set.records : x = normalizeRRSetRecord(set, r)
    BY <1>1
  <2>2. /\ RecordAccepted(Candidate(set, r))
        /\ x.zone = Fold(set.zone) /\ x.name = Fold(set.name) /\ x.type = set.type
    BY <2>1 DEF RRSetAccepted
  <2>3. x \in Records
    BY <2>1, <2>2 DEF RRSetInUniverse, normalizeRRSetRecord
  <2> QED
    BY <2>2, <2>3
<1> QED
  BY <1>1, <1>2

\* UpsertRRSet normalizes its records and keeps the first of each key.
LEMMA UpsertRRSetAdvances ==
    ASSUME ManagerInv, NEW p \in Writers, NEW set, RRSetInUniverse(set), UpsertRRSet(p, set)
    PROVE  Advances(p)
<1>1. PICK kept \in Deduped({normalizeRRSetRecord(set, r) : r \in set.records}) :
          task' = [task EXCEPT ![p] =
                      [NoTask EXCEPT !.op = "UpsertRRSet", !.pc = "list",
                                     !.zone = Fold(set.zone), !.name = Fold(set.name),
                                     !.type = set.type, !.target = kept, !.todo = kept]]
  BY DEF UpsertRRSet
<1>2. PICK u : u = [NoTask EXCEPT !.op = "UpsertRRSet", !.pc = "list",
                                  !.zone = Fold(set.zone), !.name = Fold(set.name),
                                  !.type = set.type, !.target = kept, !.todo = kept]
  OBVIOUS
<1>3. /\ task' = [task EXCEPT ![p] = u] /\ UNCHANGED storeVars /\ RRSetAccepted(set)
      /\ call[p].pc = "idle" /\ "UpsertRRSet" \in Operations
  BY <1>1, <1>2 DEF UpsertRRSet, Begin
<1>4. Fold(set.zone) \in Zones /\ Fold(set.name) \in Texts /\ set.type \in Types
  BY <1>3, FoldText DEF RRSetInUniverse, RRSetAccepted
<1>5. /\ kept \subseteq Records
      /\ UniqueKeys(kept)
      /\ \A r \in kept : r.zone = Fold(set.zone) /\ r.name = Fold(set.name) /\ r.type = set.type
  BY <1>3, RRSetRecords
<1>6. /\ u \in Tasks
      /\ u.op = "UpsertRRSet" /\ u.pc = "list" /\ u.zone = Fold(set.zone)
      /\ u.name = Fold(set.name) /\ u.type = set.type
      /\ u.target = kept /\ u.todo = kept /\ u.current = {}
  BY <1>2, <1>3, <1>4, <1>5, NoTaskFacts DEF Tasks
<1>7. TaskShape(u)
  BY <1>5, <1>6 DEF TaskShape, RRSetShape
<1>8. SoloOK(u, call[p], records)
  BY <1>3, <1>6 DEF SoloOK, CallOfTask, ListingExact, SetKnown, SetFits, Adding
<1> QED
  BY <1>3, <1>6, <1>7, <1>8, TaskOnly

\* DeleteRRSet and DeleteName look up what they delete first.
LEMMA LookupAdvances ==
    ASSUME ManagerInv, NEW p \in Writers, NEW set, RRSetInUniverse(set),
           DeleteRRSet(p, set) \/ DeleteName(p, set)
    PROVE  Advances(p)
<1>1. PICK op \in Operations \cap {"DeleteRRSet", "DeleteName"}, type \in {set.type, "ANY"} :
          task' = [task EXCEPT ![p] = [NoTask EXCEPT !.op = op, !.pc = "find",
                                          !.zone = Fold(set.zone), !.name = Fold(set.name),
                                          !.type = type]]
  BY DEF DeleteRRSet, DeleteName, Begin
<1>2. PICK u : u = [NoTask EXCEPT !.op = op, !.pc = "find", !.zone = Fold(set.zone),
                                  !.name = Fold(set.name), !.type = type]
  OBVIOUS
<1>3. /\ task' = [task EXCEPT ![p] = u] /\ UNCHANGED storeVars
      /\ call[p].pc = "idle" /\ LookupAccepted(set)
  BY <1>1, <1>2 DEF DeleteRRSet, DeleteName, Begin
<1>4. Fold(set.zone) \in Zones /\ Fold(set.name) \in Texts /\ type \in Types
  BY <1>1, <1>3, FoldText DEF RRSetInUniverse, Types
<1>5. /\ u \in Tasks
      /\ u.op = op /\ u.pc = "find" /\ u.target = {} /\ u.current = {}
  BY <1>2, <1>4, NoTaskFacts DEF Tasks
<1>6. TaskShape(u)
  BY <1>5 DEF TaskShape, RRSetShape
<1>7. SoloOK(u, call[p], records)
  BY <1>3, <1>5 DEF SoloOK, CallOfTask, ListingExact, SetKnown, SetFits, Adding
<1> QED
  BY <1>3, <1>5, <1>6, <1>7, TaskOnly

\* ImportSeedData normalizes and validates its seed.
LEMMA ImportAdvances ==
    ASSUME ManagerInv, NEW p \in Writers, NEW seed, SeedInUniverse(seed), ImportSeedData(p, seed)
    PROVE  Advances(p)
<1>1. PICK kept \in Deduped({NormalizeRecord(r) : r \in seed.records}) :
          task' = [task EXCEPT ![p] =
                      [NoTask EXCEPT !.op = "ImportSeedData", !.pc = "seed", !.target = kept,
                                     !.todo = kept, !.seedZones = SeedZones(seed)]]
  BY DEF ImportSeedData
<1>2. PICK u : u = [NoTask EXCEPT !.op = "ImportSeedData", !.pc = "seed", !.target = kept,
                                  !.todo = kept, !.seedZones = SeedZones(seed)]
  OBVIOUS
<1>3. /\ task' = [task EXCEPT ![p] = u] /\ UNCHANGED storeVars
      /\ call[p].pc = "idle" /\ "ImportSeedData" \in Operations /\ SeedAccepted(seed)
  BY <1>1, <1>2 DEF ImportSeedData, Begin
<1>4. \A r \in seed.records : NormalizeRecord(r) \in Records
  BY <1>3 DEF SeedAccepted, SeedInUniverse
<1>5. kept \subseteq Records /\ SeedZones(seed) \subseteq Zones
  BY <1>3, <1>4, CallFacts DEF Deduped, SeedZones, SeedAccepted, SeedInUniverse
<1>6. /\ u \in Tasks
      /\ u.op = "ImportSeedData" /\ u.pc = "seed" /\ u.current = {}
  BY <1>2, <1>3, <1>5, NoTaskFacts DEF Tasks
<1>7. TaskShape(u)
  BY <1>6 DEF TaskShape, RRSetShape
<1>8. SoloOK(u, call[p], records)
  BY <1>3, <1>6 DEF SoloOK, CallOfTask, ListingExact, SetKnown, SetFits, Adding
<1> QED
  BY <1>3, <1>6, <1>7, <1>8, TaskOnly

\* The preview of a batch lists a zone.
PreviewTask(z) == [NoTask EXCEPT !.op = "PreviewChanges", !.pc = "list", !.zone = z]

\* loadPreviewZoneState begins a listing for a preview.
LEMMA PreviewAdvances ==
    ASSUME ManagerInv, NEW p \in Writers, NEW z \in Zones, Go(p, PreviewTask(z)),
           task[p].pc = "idle"
    PROVE  Advances(p)
<1>1. PICK u : u = PreviewTask(z)
  OBVIOUS
<1>2. u \in Tasks /\ u.op = "PreviewChanges" /\ u.pc = "list" /\ u.target = {} /\ u.current = {}
  BY <1>1, NoTaskFacts DEF Tasks, PreviewTask
<1>3. TaskShape(u)
  BY <1>2 DEF TaskShape, RRSetShape
<1>4. ASSUME SoloOK(task[p], call[p], records) PROVE SoloOK(u, call[p], records)
  BY <1>2, <1>4 DEF SoloOK, CallOfTask, ListingExact, SetKnown, SetFits, Adding
<1> QED
  BY <1>1, <1>2, <1>3, <1>4, TaskOnly DEF Go

\* handleGetRecords lists the rows of a filter.
ListTask(rows) == [NoTask EXCEPT !.op = "ListRecords", !.pc = "read", !.rows = rows]

\* ListRecords of a filter begins.
LEMMA ListingAdvances ==
    ASSUME ManagerInv, NEW p \in Writers, NEW rows \in SUBSET (Zones \X {r.name : r \in Records}),
           Go(p, ListTask(rows)), task[p].pc = "idle"
    PROVE  Advances(p)
<1>1. PICK u : u = ListTask(rows)
  OBVIOUS
<1>2. u \in Tasks /\ u.op = "ListRecords" /\ u.pc = "read" /\ u.target = {} /\ u.current = {}
  BY <1>1, NoTaskFacts DEF Tasks, ListTask
<1>3. TaskShape(u)
  BY <1>2 DEF TaskShape, RRSetShape
<1>4. ASSUME SoloOK(task[p], call[p], records) PROVE SoloOK(u, call[p], records)
  BY <1>2, <1>4 DEF SoloOK, CallOfTask, ListingExact, SetKnown, SetFits, Adding
<1> QED
  BY <1>1, <1>2, <1>3, <1>4, TaskOnly DEF Go

-----------------------------------------------------------------------------
(* All of them. *)

\* A goroutine calls a method with an argument of the universe.
StartsCall(p) ==
    \/ \E raw : /\ ZoneAccepted(raw) => NormalizeZoneName(raw) \in Zones
                /\ UpsertZone(p, raw) \/ ManagerDeleteZone(p, raw)
    \/ \E raw : /\ RecordAccepted(raw) => NormalizeRecord(raw) \in Records
                /\ UpsertRecord(p, raw) \/ ManagerDeleteRecord(p, raw)
    \/ \E set : /\ RRSetInUniverse(set)
                /\ UpsertRRSet(p, set) \/ DeleteRRSet(p, set) \/ DeleteName(p, set)
    \/ \E seed : SeedInUniverse(seed) /\ ImportSeedData(p, seed)

\* A step of a goroutine, in the Manager, in the preview of a batch or in a listing.
ManagerStep(p) ==
    \/ StartsCall(p)
    \/ WorkStep(p)
    \/ Go(p, NoTask) /\ (call[p].pc = "idle" \/ task[p].pc = "read")
    \/ \E z \in Zones : Go(p, PreviewTask(z)) /\ task[p].pc = "idle"
    \/ \E rows \in SUBSET (Zones \X {r.name : r \in Records}) :
          Go(p, ListTask(rows)) /\ task[p].pc = "idle"

\* Every step of a goroutine is one of these.
LEMMA ManagerStepAdvances ==
    ASSUME ManagerInv, NEW p \in Writers, ManagerStep(p)
    PROVE  Advances(p)
<1>1. CASE StartsCall(p)
  <2>1. ASSUME NEW raw, RecordAccepted(raw) => NormalizeRecord(raw) \in Records,
               UpsertRecord(p, raw)
        PROVE  Advances(p)
    BY <2>1, UpsertRecordAdvances DEF UpsertRecord
  <2> QED
    BY <1>1, <2>1, UpsertZoneAdvances, DeleteZoneAdvances, DeleteRecordAdvances,
       UpsertRRSetAdvances, LookupAdvances, ImportAdvances DEF StartsCall
<1>2. CASE WorkStep(p)
  BY <1>2, ListKeysAdvances, ReadRowAdvances, ValidateRRSetAdvances, FindRRSetAdvances,
     DropRecordAdvances, DroppedAdvances, NextRecordAdvances, ValidateRecordAdvances,
     SaveSeedZoneAdvances, SaveSeedRecordAdvances, PutRecordAdvances, ListRowsAdvances,
     DropRowAdvances, BumpAdvances DEF WorkStep, StoreStep
<1> QED
  BY <1>1, <1>2, ReturnAdvances, PreviewAdvances, ListingAdvances DEF ManagerStep

\* What the step is to the store: a store call that starts or goes on, or nothing.
StoreMove(p) ==
    \/ UNCHANGED storeVars
    \/ \E raw : NormalizeZoneName(raw) \in Zones /\ (SaveZone(p, raw) \/ DeleteZone(p, raw))
    \/ \E raw : NormalizeRecord(raw) \in Records /\ (SaveRecord(p, raw) \/ DeleteRecord(p, raw))
    \/ StoreStep(p)

\* A zone of the universe is in normal form.
LEMMA ZoneNormal ==
    ASSUME NEW z \in Zones
    PROVE  NormalizeZoneName(z) = z
<1>1. CASE \E raw \in RawZones : z = NormalizeZoneName(raw)
  BY <1>1, RawAssumption, FoldText DEF NormalizeZoneName
<1>2. CASE \E r \in Records : z = r.zone
  <2>1. PICK r \in Records : z = r.zone
    BY <1>2
  <2>2. r \in RecordType /\ NormalizeRecord(r) = r
    BY StoredNormal
  <2>3. NormalizeRecord(r).zone = NormalizeZoneName(r.zone)
    BY <2>2 DEF NormalizeRecord, RecordType
  <2> QED
    BY <2>1, <2>2, <2>3
<1> QED
  BY <1>1, <1>2 DEF Zones

\* The store sees a store call that starts or goes on, or nothing.
LEMMA ManagerStepMoves ==
    ASSUME ManagerInv, NEW p \in Writers, ManagerStep(p)
    PROVE  StoreMove(p) /\ started' \in 0 .. MaxOperations
<1>1. task[p] \in Tasks /\ started \in 0 .. MaxOperations
  BY DEF ManagerInv
<1>2. \A t : Go(p, t) => StoreMove(p) /\ started' \in 0 .. MaxOperations
  BY <1>1 DEF Go, StoreMove
<1>3. \A op : Begin(p, op) => started' \in 0 .. MaxOperations
  BY <1>1, ManagerAssumption DEF Begin
<1>4. CASE StartsCall(p)
  <2>1. ASSUME NEW raw, ZoneAccepted(raw) => NormalizeZoneName(raw) \in Zones,
               UpsertZone(p, raw) \/ ManagerDeleteZone(p, raw)
        PROVE  StoreMove(p) /\ started' \in 0 .. MaxOperations
    <3>1. NormalizeZoneName(raw) \in Zones /\ (SaveZone(p, raw) \/ DeleteZone(p, raw))
      BY <2>1 DEF UpsertZone, ManagerDeleteZone, SaveZone, DeleteZone
    <3> QED
      BY <1>3, <2>1, <3>1 DEF UpsertZone, ManagerDeleteZone, StoreMove
  <2>2. ASSUME NEW raw, RecordAccepted(raw) => NormalizeRecord(raw) \in Records,
               ManagerDeleteRecord(p, raw)
        PROVE  StoreMove(p) /\ started' \in 0 .. MaxOperations
    <3>1. NormalizeRecord(raw) \in Records /\ DeleteRecord(p, raw)
      BY <2>2 DEF ManagerDeleteRecord, DeleteRecord
    <3> QED
      BY <1>3, <2>2, <3>1 DEF ManagerDeleteRecord, StoreMove
  <2>3. \A raw : UpsertRecord(p, raw) => UNCHANGED storeVars /\ started' \in 0 .. MaxOperations
    BY <1>3 DEF UpsertRecord
  <2>4. \A set : UpsertRRSet(p, set) \/ DeleteRRSet(p, set) \/ DeleteName(p, set) =>
            UNCHANGED storeVars /\ started' \in 0 .. MaxOperations
    BY <1>3 DEF UpsertRRSet, DeleteRRSet, DeleteName
  <2>5. \A seed : ImportSeedData(p, seed) => UNCHANGED storeVars /\ started' \in 0 .. MaxOperations
    BY <1>3 DEF ImportSeedData
  <2>6. UNCHANGED storeVars => StoreMove(p)
    BY DEF StoreMove
  <2> QED
    BY <1>4, <2>1, <2>2, <2>3, <2>4, <2>5, <2>6 DEF StartsCall
<1>5. CASE WorkStep(p)
  <2>1. ListKeys(p) \/ ReadRow(p) \/ ValidateRRSet(p) \/ FindRRSet(p) \/ Dropped(p) \/ NextRecord(p)
            => StoreMove(p) /\ started' \in 0 .. MaxOperations
    BY <1>2 DEF ListKeys, ReadRow, ValidateRRSet, Abort, FindRRSet, Dropped, NextRecord
  <2>2. CASE DropRecord(p)
    <3>1. PICK r \in task[p].drops : DeleteRecord(p, r)
      BY <2>2 DEF DropRecord
    <3>2. r \in Records /\ NormalizeRecord(r) = r
      BY <1>1, StoredNormal DEF Tasks
    <3> QED
      BY <1>1, <2>2, <3>1, <3>2 DEF DropRecord, StoreMove
  <2>3. CASE ValidateRecord(p)
    <3>1. PICK r \in task[p].current : (SaveRecord(p, r) /\ UNCHANGED started) \/ Abort(p)
      BY <2>3 DEF ValidateRecord
    <3>2. r \in Records /\ NormalizeRecord(r) = r
      BY <1>1, StoredNormal DEF Tasks
    <3>3. CASE SaveRecord(p, r) /\ UNCHANGED started
      BY <1>1, <3>2, <3>3 DEF StoreMove
    <3> QED
      BY <1>2, <3>1, <3>3 DEF Abort
  <2>4. CASE SaveSeedZone(p)
    <3>1. PICK z \in task[p].seedZones : SaveZone(p, z)
      BY <2>4 DEF SaveSeedZone
    <3>2. z \in Zones /\ NormalizeZoneName(z) = z
      BY <1>1, ZoneNormal DEF Tasks
    <3> QED
      BY <1>1, <2>4, <3>1, <3>2 DEF SaveSeedZone, StoreMove
  <2>5. CASE SaveSeedRecord(p)
    <3>1. PICK r \in task[p].todo : SaveRecord(p, r)
      BY <2>5 DEF SaveSeedRecord
    <3>2. r \in Records /\ NormalizeRecord(r) = r
      BY <1>1, StoredNormal DEF Tasks
    <3> QED
      BY <1>1, <2>5, <3>1, <3>2 DEF SaveSeedRecord, StoreMove
  <2>6. CASE StoreStep(p) /\ UNCHANGED <<task, started>>
    BY <1>1, <2>6 DEF StoreMove
  <2> QED
    BY <1>5, <2>1, <2>2, <2>3, <2>4, <2>5, <2>6 DEF WorkStep
<1> QED
  BY <1>2, <1>4, <1>5 DEF ManagerStep

\* A move of the store keeps its invariant, and never two records of one key.
LEMMA StoreMoveInv ==
    ASSUME StoreInv, UniqueKeys(records), NEW p \in Writers, StoreMove(p)
    PROVE  StoreInv' /\ UniqueKeys(records')
<1>1. CASE UNCHANGED storeVars
  BY <1>1 DEF storeVars, StoreInv, StoreTypeOK, CallsInOneZone, BusyInZones
<1>2. StoreMove(p) /\ ~UNCHANGED storeVars => StoreInv'
  BY SaveZoneStep, DeleteZoneStep, SaveRecordStep, DeleteRecordStep, PutRecordStep,
     ListRowsStep, DropRowStep, BumpStep DEF StoreMove, StoreStep
<1>3. records' \subseteq records \/ \E r : records' = Put(records, r)
  BY DEF StoreMove, StoreStep, storeVars, SaveZone, DeleteZone, SaveRecord, DeleteRecord,
         Without, PutRecord, ListRows, DropRow, Bump
<1>4. UniqueKeys(records')
  BY <1>3, PutFacts DEF UniqueKeys
<1> QED
  BY <1>1, <1>2, <1>4

\* Every step of a goroutine keeps the invariant.
LEMMA ManagerStepInv ==
    ASSUME ManagerInv, NEW p \in Writers, ManagerStep(p)
    PROVE  ManagerInv'
<1>1. StoreInv' /\ UniqueKeys(records') /\ started' \in 0 .. MaxOperations
  BY ManagerStepMoves, StoreMoveInv DEF ManagerInv
<1>2. Advances(p)
  BY ManagerStepAdvances
<1>3. \A q \in Writers : TaskShape(task'[q]) /\ CallShape(call'[q])
  BY <1>2 DEF Advances, ManagerInv
<1> QED
  BY <1>1, <1>2, <1>3 DEF Advances, ManagerInv

-----------------------------------------------------------------------------
(* The specifications. *)

\* The steps that a Manager takes under its own callers and under batches of changes.
StepsSpec == ManagerInit /\ [][\E p \in Writers : ManagerStep(p)]_managerVars

\* Nobody has called the Manager, and the store holds the cells of earlier calls.
LEMMA ManagerInitInv == ManagerInit => ManagerInv
<1> SUFFICES ASSUME ManagerInit PROVE ManagerInv
  OBVIOUS
<1>1. StoreInv
  BY StoreInitInv DEF ManagerInit
<1>2. UniqueKeys(records)
  BY InitAssumption DEF ManagerInit, StoreInit, UniqueKeys
<1>3. task \in [Writers -> Tasks] /\ started \in 0 .. MaxOperations
  BY NoTaskFacts, ManagerAssumption DEF ManagerInit
<1>4. TaskShape(NoTask) /\ CallShape(NoCall)
  BY NoTaskFacts DEF TaskShape, RRSetShape, CallShape, NoCall
<1>5. \A p \in Writers : TaskShape(task[p]) /\ CallShape(call[p])
  BY <1>4 DEF ManagerInit, StoreInit
<1> QED
  BY <1>1, <1>2, <1>3, <1>5 DEF ManagerInv

\* The callers of the Manager's methods take these steps.
LEMMA ManagerNextSteps ==
    [ManagerNext]_managerVars => [\E p \in Writers : ManagerStep(p)]_managerVars
<1>1. ASSUME NEW p \in Writers, NEW raw \in RawZones,
             UpsertZone(p, raw) \/ ManagerDeleteZone(p, raw)
      PROVE  ManagerStep(p)
  BY <1>1, CallFacts DEF ManagerStep, StartsCall
<1>2. ASSUME NEW p \in Writers, NEW raw \in RawRecords,
             UpsertRecord(p, raw) \/ ManagerDeleteRecord(p, raw)
      PROVE  ManagerStep(p)
  BY <1>2, CallFacts DEF ManagerStep, StartsCall
<1>3. ASSUME NEW p \in Writers, NEW set \in RawRRSets,
             UpsertRRSet(p, set) \/ DeleteRRSet(p, set) \/ DeleteName(p, set)
      PROVE  ManagerStep(p)
  BY <1>3, ArgumentsAssumption DEF ManagerStep, StartsCall
<1>4. ASSUME NEW p \in Writers, NEW seed \in RawSeeds, ImportSeedData(p, seed)
      PROVE  ManagerStep(p)
  BY <1>4, ArgumentsAssumption DEF ManagerStep, StartsCall
<1>5. ASSUME NEW p \in Writers, TaskStep(p) PROVE ManagerStep(p)
  BY <1>5 DEF TaskStep, Return, ManagerStep
<1> QED
  BY <1>1, <1>2, <1>3, <1>4, <1>5 DEF ManagerNext, Rest

\* The steps keep the invariant, with any number of goroutines.
LEMMA StepsInv ==
    ManagerInv /\ [\E p \in Writers : ManagerStep(p)]_managerVars => ManagerInv'
<1> SUFFICES ASSUME ManagerInv, [\E p \in Writers : ManagerStep(p)]_managerVars
             PROVE  ManagerInv'
  OBVIOUS
<1>1. CASE UNCHANGED managerVars
  BY <1>1 DEF managerVars, ManagerInv, StoreInv, StoreTypeOK, CallsInOneZone, BusyInZones
<1> QED
  BY <1>1, ManagerStepInv

\* Of a batch: its goroutine is in the Manager only while the preview lists a zone and while
\* a change is applied.
BatchShape(b) ==
    /\ DOMAIN b = DOMAIN NoBatch
    /\ b.pc # "idle" => b.changes \in Batches
    /\ b.next \in Nat \ {0}

InManager(b) == b.pc = "load" \/ (b.pc = "apply" /\ b.next <= Len(b.changes))

BatchInv ==
    /\ DOMAIN batch = Writers
    /\ \A p \in Writers :
          BatchShape(batch[p]) /\ (task[p].pc # "idle" => InManager(batch[p]))

\* A batch that moves replaces its own entry.
LEMMA BatchUpdate ==
    ASSUME BatchInv, NEW p \in Writers, NEW b, BatchShape(b), batch' = [batch EXCEPT ![p] = b],
           task'[p].pc # "idle" => InManager(b),
           \A q \in Writers : q # p => task'[q] = task[q]
    PROVE  BatchInv'
BY DEF BatchInv

\* The fields of a batch are those of an idle one.
LEMMA BatchFields ==
    DOMAIN NoBatch = {"pc", "changes", "next", "zone", "exists", "states", "base", "trail"}
BY DEF NoBatch

\* The steps of the Manager leave a goroutine outside of it where it is.
LEMMA WorkStepInside ==
    ASSUME ManagerInv, NEW p \in Writers, WorkStep(p), task[p].pc = "idle"
    PROVE  UNCHANGED task
BY DEF WorkStep, ListKeys, ReadRow, ValidateRRSet, FindRRSet, DropRecord, Dropped, NextRecord,
       ValidateRecord, SaveSeedZone, SaveSeedRecord

\* The change at hand is one of the universe.
LEMMA CurrentChange ==
    ASSUME BatchInv, NEW p \in Writers, batch[p].pc # "idle",
           batch[p].next <= Len(batch[p].changes)
    PROVE  ChangeInUniverse(Current(p))
<1>1. batch[p].changes \in Batches /\ batch[p].next \in Nat \ {0}
  BY DEF BatchInv, BatchShape
<1>2. PICK changes \in Batches : changes = batch[p].changes
  BY <1>1
<1>3. PICK i \in Nat \ {0} : i = batch[p].next
  BY <1>1
<1>4. Len(changes) \in Nat /\ i \in 1 .. Len(changes)
  BY <1>2, <1>3, BatchesAssumption
<1> QED
  BY <1>2, <1>3, <1>4, BatchesAssumption DEF Current

\* A step of the batch on its own variables is none of the Manager.
LEMMA AheadStep ==
    ASSUME ManagerInv, BatchInv, NEW p \in Writers, NEW b, Ahead(p, b), BatchShape(b),
           task[p].pc = "idle"
    PROVE  UNCHANGED managerVars /\ BatchInv'
<1>1. UNCHANGED managerVars /\ task' = task /\ batch' = [batch EXCEPT ![p] = b]
  BY DEF Ahead, managerVars, storeVars
<1>2. BatchInv'
  BY <1>1, BatchUpdate
<1> QED
  BY <1>1, <1>2

\* loadPreviewZoneState, unless the zone has its copy, lists the zone.
LEMMA PickZoneStep ==
    ASSUME ManagerInv, BatchInv, NEW p \in Writers, PickZone(p)
    PROVE  (UNCHANGED managerVars \/ ManagerStep(p)) /\ BatchInv'
<1>1. batch[p].pc = "preview" /\ batch[p].next <= Len(batch[p].changes)
  BY DEF PickZone, Previewing
<1>2. task[p].pc = "idle" /\ BatchShape(batch[p])
  BY <1>1 DEF BatchInv, InManager
<1>3. PICK z \in ChangeZones(Current(p)) \ {NoZone} :
        /\ batch' = [batch EXCEPT ![p].zone = z, ![p].exists = z \in zones,
                                  ![p].pc = IF z \in DOMAIN batch[p].states THEN "change" ELSE "load"]
        /\ task' = IF z \in DOMAIN batch[p].states THEN task
                   ELSE [task EXCEPT ![p] = PreviewTask(z)]
  BY DEF PickZone, PreviewTask
<1>4. z \in Zones
  BY <1>1, <1>3, CurrentChange DEF ChangeInUniverse
<1>5. PICK pc : pc = IF z \in DOMAIN batch[p].states THEN "change" ELSE "load"
  OBVIOUS
<1>6. PICK b : b = [batch[p] EXCEPT !.zone = z, !.exists = z \in zones, !.pc = pc]
  OBVIOUS
<1>7. batch' = [batch EXCEPT ![p] = b]
  BY <1>3, <1>5, <1>6 DEF BatchInv
<1>8. DOMAIN b = DOMAIN NoBatch /\ b.pc = pc /\ b.changes = batch[p].changes
      /\ b.next = batch[p].next
  BY <1>2, <1>6, BatchFields DEF BatchShape
<1>9. BatchShape(b)
  BY <1>1, <1>2, <1>8 DEF BatchShape
<1>10. UNCHANGED storeVars /\ UNCHANGED started
  BY DEF PickZone
<1>11. CASE pc = "change"
  <2>1. UNCHANGED managerVars /\ task' = task
    BY <1>3, <1>5, <1>10, <1>11 DEF managerVars, storeVars
  <2> QED
    BY <1>2, <1>7, <1>9, <2>1, BatchUpdate
<1>12. CASE pc = "load"
  <2>1. Go(p, PreviewTask(z))
    BY <1>3, <1>5, <1>10, <1>12 DEF Go
  <2>2. \A q \in Writers : q # p => task'[q] = task[q]
    BY <2>1 DEF Go, ManagerInv
  <2> QED
    BY <1>2, <1>4, <1>7, <1>8, <1>9, <1>12, <2>1, <2>2, BatchUpdate DEF ManagerStep, InManager
<1> QED
  BY <1>5, <1>11, <1>12

\* The listing of a preview ends without a store call.
LEMMA ZoneLoadedStep ==
    ASSUME ManagerInv, BatchInv, NEW p \in Writers, ZoneLoaded(p)
    PROVE  ManagerStep(p) /\ BatchInv'
<1>1. PICK states, base :
          batch' = [batch EXCEPT ![p] = [batch[p] EXCEPT !.pc = "change", !.states = states,
                                                         !.base = base]]
  BY DEF ZoneLoaded
<1>2. PICK b : b = [batch[p] EXCEPT !.pc = "change", !.states = states, !.base = base]
  OBVIOUS
<1>3. BatchShape(batch[p]) /\ batch[p].pc = "load"
  BY DEF BatchInv, ZoneLoaded
<1>4. DOMAIN b = DOMAIN NoBatch /\ b.pc = "change" /\ b.changes = batch[p].changes
      /\ b.next = batch[p].next
  BY <1>2, <1>3, BatchFields DEF BatchShape
<1>5. BatchShape(b)
  BY <1>3, <1>4 DEF BatchShape
<1>6. Go(p, NoTask) /\ task[p].pc = "read"
  BY DEF ZoneLoaded, Go
<1>7. task'[p].pc = "idle" /\ \A q \in Writers : q # p => task'[q] = task[q]
  BY <1>6, NoTaskFacts DEF Go, ManagerInv
<1> QED
  BY <1>1, <1>2, <1>5, <1>6, <1>7, BatchUpdate DEF ManagerStep

\* applyChange calls a method with an argument of the universe.
LEMMA ApplyChangeStep ==
    ASSUME ManagerInv, BatchInv, NEW p \in Writers, ApplyChange(p)
    PROVE  ManagerStep(p) /\ BatchInv'
<1>1. batch[p].pc = "apply" /\ batch[p].next <= Len(batch[p].changes) /\ batch' = batch
  BY DEF ApplyChange, Applying
<1>2. PICK change : change = Current(p)
  OBVIOUS
<1>3. ChangeInUniverse(change)
  BY <1>1, <1>2, CurrentChange
<1>4. \/ UpsertZone(p, change.zone) \/ ManagerDeleteZone(p, change.zone)
      \/ UpsertRecord(p, change.record) \/ ManagerDeleteRecord(p, change.record)
      \/ UpsertRRSet(p, SetOf(change.zone, change)) \/ DeleteRRSet(p, SetOf(change.zone, change))
      \/ DeleteName(p, SetOf(change.zone, change))
  BY <1>2 DEF ApplyChange
<1>5. StartsCall(p)
  BY <1>3, <1>4 DEF StartsCall, ChangeInUniverse
<1>6. ManagerStep(p)
  BY <1>5 DEF ManagerStep
<1>7. \A q \in Writers : q # p => task'[q] = task[q]
  BY <1>6, ManagerStepAdvances DEF Advances
<1>8. BatchInv'
  BY <1>1, <1>7 DEF BatchInv, InManager
<1> QED
  BY <1>6, <1>8

\* The call of a change returns.
LEMMA ChangeReturnedStep ==
    ASSUME ManagerInv, BatchInv, NEW p \in Writers, ChangeReturned(p)
    PROVE  ManagerStep(p) /\ BatchInv'
<1> DEFINE over == [batch[p] EXCEPT !.pc = "failed"]
           next == [batch[p] EXCEPT !.next = @ + 1]
<1>1. batch' = [batch EXCEPT ![p] = IF task[p].pc = "failed" THEN over ELSE next]
  BY DEF ChangeReturned
<1>2. PICK b \in {over, next} : batch' = [batch EXCEPT ![p] = b]
  <2> HIDE DEF over, next
  <2> QED
    BY <1>1
<1>3. BatchShape(batch[p]) /\ batch[p].pc = "apply"
  BY DEF BatchInv, ChangeReturned
<1>4. DOMAIN b = DOMAIN NoBatch /\ b.changes = batch[p].changes /\ b.next \in Nat \ {0}
  BY <1>2, <1>3, BatchFields DEF BatchShape
<1>5. BatchShape(b)
  BY <1>3, <1>4 DEF BatchShape
<1>6. Go(p, NoTask) /\ call[p].pc = "idle"
  BY DEF ChangeReturned, Return
<1>7. task'[p].pc = "idle" /\ \A q \in Writers : q # p => task'[q] = task[q]
  BY <1>6, NoTaskFacts DEF Go, ManagerInv
<1> QED
  BY <1>2, <1>5, <1>6, <1>7, BatchUpdate DEF ManagerStep

\* The steps of a batch that make no call of the Manager.
LEMMA BatchOnlyStep ==
    ASSUME ManagerInv, BatchInv, NEW p \in Writers,
           \/ \E changes \in Batches : ApplyChanges(p, changes)
           \/ ZoneMissing(p) \/ PreviewChange(p) \/ ValidatePreview(p)
           \/ ChangeRefused(p) \/ BatchReturn(p)
    PROVE  UNCHANGED managerVars /\ BatchInv'
<1>1. BatchShape(batch[p]) /\ (task[p].pc # "idle" => InManager(batch[p]))
  BY DEF BatchInv
<1>2. ASSUME NEW b, DOMAIN b = DOMAIN NoBatch, b.changes = batch[p].changes,
             b.next \in Nat \ {0}, batch[p].pc # "idle", task[p].pc = "idle", Ahead(p, b)
      PROVE  UNCHANGED managerVars /\ BatchInv'
  BY <1>1, <1>2, AheadStep DEF BatchShape
<1>3. CASE \E changes \in Batches : ApplyChanges(p, changes)
  <2>1. PICK changes \in Batches : ApplyChanges(p, changes)
    BY <1>3
  <2>2. PICK b : b = [NoBatch EXCEPT !.pc = "preview", !.changes = changes]
    OBVIOUS
  <2>3. BatchShape(b)
    BY <2>2 DEF BatchShape, NoBatch
  <2>4. task[p].pc = "idle" /\ batch' = [batch EXCEPT ![p] = b] /\ UNCHANGED managerVars
        /\ task' = task
    BY <1>1, <2>1, <2>2 DEF ApplyChanges, InManager, managerVars, storeVars
  <2> QED
    BY <2>3, <2>4, BatchUpdate
<1>4. CASE ZoneMissing(p)
  <2>1. PICK b : b = [batch[p] EXCEPT !.pc = "failed", !.next = 1]
    OBVIOUS
  <2>2. DOMAIN b = DOMAIN NoBatch /\ b.changes = batch[p].changes /\ b.next = 1
    BY <1>1, <2>1, BatchFields DEF BatchShape
  <2>3. Ahead(p, b) /\ batch[p].pc = "preview"
    BY <1>4, <2>1 DEF ZoneMissing, Previewing
  <2> QED
    BY <1>1, <1>2, <2>2, <2>3 DEF InManager
<1>5. CASE PreviewChange(p)
  <2>1. batch[p].pc = "change"
    BY <1>5 DEF PreviewChange
  <2>2. CASE Ahead(p, [batch[p] EXCEPT !.pc = "failed", !.next = 1])
    <3>1. PICK b : b = [batch[p] EXCEPT !.pc = "failed", !.next = 1]
      OBVIOUS
    <3>2. DOMAIN b = DOMAIN NoBatch /\ b.changes = batch[p].changes /\ b.next = 1
      BY <1>1, <3>1, BatchFields DEF BatchShape
    <3>3. Ahead(p, b)
      BY <2>2, <3>1
    <3> QED
      BY <1>1, <1>2, <2>1, <3>2, <3>3 DEF InManager
  <2>3. CASE \E states : Ahead(p, [batch[p] EXCEPT !.pc = "preview", !.next = @ + 1,
                                        !.states = states, !.trail = Append(@, states)])
    <3>1. PICK states : Ahead(p, [batch[p] EXCEPT !.pc = "preview", !.next = @ + 1,
                                      !.states = states, !.trail = Append(@, states)])
      BY <2>3
    <3>2. PICK b : b = [batch[p] EXCEPT !.pc = "preview", !.next = @ + 1,
                                        !.states = states, !.trail = Append(@, states)]
      OBVIOUS
    <3>3. DOMAIN b = DOMAIN NoBatch /\ b.changes = batch[p].changes /\ b.next = batch[p].next + 1
      BY <1>1, <3>2, BatchFields DEF BatchShape
    <3>4. b.next \in Nat \ {0}
      BY <1>1, <3>3 DEF BatchShape
    <3> QED
      BY <1>1, <1>2, <2>1, <3>1, <3>2, <3>3, <3>4 DEF InManager
  <2> QED
    BY <1>5, <2>2, <2>3 DEF PreviewChange
<1>6. CASE ValidatePreview(p)
  <2>1. PICK pc : Ahead(p, [batch[p] EXCEPT !.next = 1, !.pc = pc])
    BY <1>6 DEF ValidatePreview
  <2>2. PICK b : b = [batch[p] EXCEPT !.next = 1, !.pc = pc]
    OBVIOUS
  <2>3. DOMAIN b = DOMAIN NoBatch /\ b.changes = batch[p].changes /\ b.next = 1
    BY <1>1, <2>2, BatchFields DEF BatchShape
  <2>4. batch[p].pc = "preview"
    BY <1>6 DEF ValidatePreview
  <2>5. Ahead(p, b)
    BY <2>1, <2>2
  <2> QED
    BY <1>1, <1>2, <2>3, <2>4, <2>5 DEF InManager
<1>7. CASE ChangeRefused(p)
  <2>1. PICK b : b = [batch[p] EXCEPT !.pc = "failed"]
    OBVIOUS
  <2>2. DOMAIN b = DOMAIN NoBatch /\ b.changes = batch[p].changes /\ b.next = batch[p].next
    BY <1>1, <2>1, BatchFields DEF BatchShape
  <2>3. Ahead(p, b) /\ batch[p].pc = "apply" /\ task[p].pc = "idle"
    BY <1>7, <2>1 DEF ChangeRefused, Applying
  <2> QED
    BY <1>1, <1>2, <2>2, <2>3 DEF BatchShape
<1>8. CASE BatchReturn(p)
  <2>1. task[p].pc = "idle"
    <3>1. CASE Applied(p)
      <4>1. batch[p].changes \in Batches /\ batch[p].next \in Nat
        BY <1>1, <3>1 DEF BatchShape, Applied
      <4>2. Len(batch[p].changes) \in Nat /\ batch[p].next > Len(batch[p].changes)
        BY <3>1, <4>1, BatchesAssumption DEF Applied
      <4> QED
        BY <1>1, <3>1, <4>1, <4>2 DEF InManager, Applied
    <3> QED
      BY <1>1, <1>8, <3>1 DEF BatchReturn, InManager
  <2>2. BatchShape(NoBatch)
    BY DEF BatchShape, NoBatch
  <2> QED
    BY <1>8, <2>1, <2>2, AheadStep DEF BatchReturn
<1> QED
  BY <1>3, <1>4, <1>5, <1>6, <1>7, <1>8

\* To the Manager, a step of a batch is a step of a goroutine or none.
LEMMA ChangesNextSteps ==
    ManagerInv /\ BatchInv /\ [ChangesNext]_changesVars =>
        BatchInv' /\ [\E p \in Writers : ManagerStep(p)]_managerVars
<1> SUFFICES ASSUME ManagerInv, BatchInv, [ChangesNext]_changesVars
             PROVE  BatchInv' /\ [\E p \in Writers : ManagerStep(p)]_managerVars
  OBVIOUS
<1>1. CASE UNCHANGED changesVars
  BY <1>1 DEF changesVars, managerVars, BatchInv
<1>2. CASE BatchesRest
  BY <1>2 DEF BatchesRest, changesVars, managerVars, BatchInv
<1>3. ASSUME NEW p \in Writers, WorkStep(p), UNCHANGED <<batch, batches>>
      PROVE  ManagerStep(p) /\ BatchInv'
  <2>1. ManagerStep(p)
    BY <1>3 DEF ManagerStep
  <2>2. \A q \in Writers : q # p => task'[q] = task[q]
    BY <2>1, ManagerStepAdvances DEF Advances
  <2>3. task'[p].pc # "idle" => task[p].pc # "idle"
    BY <1>3, WorkStepInside
  <2>4. batch' = batch
    BY <1>3
  <2> QED
    BY <2>1, <2>2, <2>3, <2>4 DEF BatchInv
<1> QED
  BY <1>1, <1>2, <1>3, BatchOnlyStep, PickZoneStep, ZoneLoadedStep, ApplyChangeStep,
     ChangeReturnedStep DEF ChangesNext

\* No goroutine is in ApplyChanges.
LEMMA ChangesInitInv == ChangesInit => BatchInv
<1> SUFFICES ASSUME ChangesInit PROVE BatchInv
  OBVIOUS
<1>1. BatchShape(NoBatch)
  BY DEF BatchShape, NoBatch
<1>2. \A p \in Writers : batch[p] = NoBatch /\ task[p] = NoTask
  BY DEF ChangesInit, ManagerInit
<1> QED
  BY <1>1, <1>2, NoTaskFacts DEF ChangesInit, BatchInv

\* Both specifications take these steps only.
LEMMA ManagerTakesSteps == ManagerSpec => StepsSpec
BY ManagerNextSteps, PTL DEF ManagerSpec, StepsSpec

\* So do the calls that batches of changes make.
LEMMA ChangesTakesSteps == ChangesSpec => StepsSpec
<1>1. ManagerInv /\ BatchInv /\ [ChangesNext]_changesVars => ManagerInv' /\ BatchInv'
  BY ChangesNextSteps, StepsInv
<1>2. ChangesInit => ManagerInit /\ ManagerInv /\ BatchInv
  BY ManagerInitInv, ChangesInitInv DEF ChangesInit
<1> QED
  BY <1>1, <1>2, ChangesNextSteps, PTL DEF ChangesSpec, StepsSpec

\* The invariant holds in every state that these steps reach.
LEMMA ManagerInvHolds == StepsSpec => []ManagerInv
BY ManagerInitInv, StepsInv, PTL DEF StepsSpec

\* The store, and what every goroutine holds in a call of the Manager, have their types, for
\* any number of goroutines, under calls of the methods and under batches.
THEOREM ManagerTypeCorrect == ManagerSpec \/ ChangesSpec => []ManagerTypeOK
<1>1. ManagerInv => ManagerTypeOK
  BY DEF ManagerInv, ManagerTypeOK, StoreInv
<1> QED
  BY <1>1, ManagerTakesSteps, ChangesTakesSteps, ManagerInvHolds, PTL

-----------------------------------------------------------------------------
(* What a step writes. *)

\* The record that validateRecordUpsert has passed, on a listing that may be torn.
Passes(t, r) ==
    /\ t.pc = "read" /\ t.rows = {} /\ r \in t.current
    /\ validateZoneRecords(t.zone, upsertRecords(t.listed, {r}), FALSE)

Writes(p) ==
    \/ call' = call /\ records' = records
    \/ call'[p].record = {} /\ records' \subseteq records
    \/ call'[p].record = {} /\ \E r \in call[p].record : records' = Put(records, r)
    \/ records' = records /\ \E r : Passes(task[p], r) /\ call'[p].record = {r}
    \/ /\ records' = records /\ task[p].op = "ImportSeedData"
       /\ \E r \in task[p].todo : call'[p].record = {r}

\* The records of a seed were validated when its import began.
SeedKept(t, u) ==
    u.op = "ImportSeedData" =>
        \/ t.op = "ImportSeedData" /\ u.todo \subseteq t.todo
        \/ validateRecordsByZone(u.todo, TRUE) /\ "ImportSeedData" \in Operations

\* The first step of every store call: what it has yet to put and what it removes.
LEMMA CallsWrite ==
    ASSUME ManagerInv, NEW p \in Writers, NEW raw
    PROVE  /\ SaveZone(p, raw) \/ DeleteZone(p, raw) => call'[p].record = {} /\ records' = records
           /\ DeleteRecord(p, raw) => call'[p].record = {} /\ records' \subseteq records
           /\ SaveRecord(p, raw) => call'[p].record = {NormalizeRecord(raw)} /\ records' = records
<1>1. p \in DOMAIN call
  BY DEF ManagerInv, StoreInv, StoreTypeOK
<1>2. SaveZone(p, raw) \/ DeleteZone(p, raw) => call'[p].record = {} /\ records' = records
  BY <1>1 DEF SaveZone, DeleteZone, NoCall
<1>3. DeleteRecord(p, raw) => call'[p].record = {} /\ records' \subseteq records
  BY <1>1 DEF DeleteRecord, NoCall, Without
<1>4. SaveRecord(p, raw) => call'[p].record = {NormalizeRecord(raw)} /\ records' = records
  BY <1>1 DEF SaveRecord, NoCall
<1> QED
  BY <1>2, <1>3, <1>4

\* The later steps of a store call put the record that the call holds, or remove some.
LEMMA StoreStepWrites ==
    ASSUME ManagerInv, NEW p \in Writers, StoreStep(p)
    PROVE  Writes(p)
<1>1. call[p] \in Calls /\ p \in DOMAIN call /\ CallShape(call[p])
  BY DEF ManagerInv, StoreInv, StoreTypeOK
<1>2. CASE PutRecord(p)
  <2>1. call'[p].record = {}
    BY <1>1, <1>2 DEF PutRecord, Calls
  <2> QED
    BY <1>2, <2>1 DEF PutRecord, Writes
<1>3. CASE ListRows(p)
  <2>1. call'[p].record = call[p].record /\ call[p].record = {} /\ records' = records
    BY <1>1, <1>3 DEF ListRows, Calls, CallShape
  <2> QED
    BY <2>1 DEF Writes
<1>4. CASE DropRow(p)
  <2>1. PICK row : records' = {r \in records : RowKey(r) # row} /\ call' = [call EXCEPT ![p].rows = @ \ {row}]
    BY <1>4 DEF DropRow
  <2>2. call'[p].record = call[p].record /\ call[p].record = {}
    BY <1>1, <1>4, <2>1 DEF DropRow, Calls, CallShape
  <2> QED
    BY <2>1, <2>2 DEF Writes
<1>5. CASE Bump(p)
  BY <1>1, <1>5 DEF Bump, NoCall, Writes
<1> QED
  BY <1>2, <1>3, <1>4, <1>5 DEF StoreStep

\* A step of a goroutine puts only what has passed validateRecordUpsert or came in a seed.
LEMMA StepWrites ==
    ASSUME ManagerInv, NEW p \in Writers, ManagerStep(p)
    PROVE  Writes(p)
<1>1. task[p] \in Tasks /\ TaskShape(task[p])
  BY DEF ManagerInv
<1>2. UNCHANGED storeVars => Writes(p)
  BY DEF storeVars, Writes
<1>3. \A t : Go(p, t) => Writes(p)
  BY <1>2 DEF Go
<1>4. \A raw : SaveZone(p, raw) \/ DeleteZone(p, raw) \/ DeleteRecord(p, raw) => Writes(p)
  BY CallsWrite DEF Writes
<1>5. CASE StartsCall(p)
  BY <1>2, <1>4, <1>5
  DEF StartsCall, UpsertZone, ManagerDeleteZone, ManagerDeleteRecord, UpsertRecord, UpsertRRSet,
      DeleteRRSet, DeleteName, ImportSeedData
<1>6. CASE WorkStep(p)
  <2>1. ListKeys(p) \/ ReadRow(p) \/ ValidateRRSet(p) \/ FindRRSet(p) \/ Dropped(p) \/ NextRecord(p)
            => Writes(p)
    BY <1>3 DEF ListKeys, ReadRow, ValidateRRSet, Abort, FindRRSet, Dropped, NextRecord
  <2>2. DropRecord(p) \/ SaveSeedZone(p) => Writes(p)
    BY <1>4 DEF DropRecord, SaveSeedZone
  <2>3. CASE ValidateRecord(p)
    <3>1. PICK r \in task[p].current :
              \/ SaveRecord(p, r) /\ Passes(task[p], r)
              \/ Abort(p)
      BY <2>3 DEF ValidateRecord, Passes
    <3>2. NormalizeRecord(r) = r
      BY <1>1, StoredNormal DEF Tasks
    <3>3. CASE SaveRecord(p, r) /\ Passes(task[p], r)
      BY <3>2, <3>3, CallsWrite DEF Writes
    <3> QED
      BY <1>3, <3>1, <3>3 DEF Abort
  <2>4. CASE SaveSeedRecord(p)
    <3>1. PICK r \in task[p].todo : SaveRecord(p, r)
      BY <2>4 DEF SaveSeedRecord
    <3>2. NormalizeRecord(r) = r /\ task[p].op = "ImportSeedData"
      BY <1>1, <2>4, StoredNormal DEF Tasks, TaskShape, SaveSeedRecord
    <3> QED
      BY <3>1, <3>2, CallsWrite DEF Writes
  <2> QED
    BY <1>6, <2>1, <2>2, <2>3, <2>4, StoreStepWrites DEF WorkStep
<1> QED
  BY <1>3, <1>5, <1>6 DEF ManagerStep

\* ImportSeedData keeps to the records that validateRecordsByZone has passed.
LEMMA StepSeeds ==
    ASSUME ManagerInv, NEW p \in Writers, ManagerStep(p)
    PROVE  SeedKept(task[p], task'[p])
<1>1. task[p] \in Tasks /\ TaskShape(task[p]) /\ p \in DOMAIN task
  BY DEF ManagerInv
<1>2. ASSUME NEW seed, ImportSeedData(p, seed)
      PROVE  SeedKept(task[p], task'[p])
  <2>1. PICK kept : /\ validateRecordsByZone(kept, TRUE)
                    /\ task' = [task EXCEPT ![p] =
                           [NoTask EXCEPT !.op = "ImportSeedData", !.pc = "seed",
                                          !.target = kept, !.todo = kept,
                                          !.seedZones = SeedZones(seed)]]
    BY <1>2 DEF ImportSeedData
  <2>2. task'[p].todo = kept
    BY <1>1, <2>1, NoTaskFacts
  <2> QED
    BY <1>2, <2>1, <2>2 DEF SeedKept, ImportSeedData, Begin
<1>3. ASSUME StartsCall(p), ~\E seed : ImportSeedData(p, seed)
      PROVE  task'[p].op # "ImportSeedData"
  BY <1>1, <1>3, NoTaskFacts
  DEF StartsCall, UpsertZone, ManagerDeleteZone, ManagerDeleteRecord, UpsertRecord, UpsertRRSet,
      DeleteRRSet, DeleteName
<1>4. CASE WorkStep(p)
  <2>1. CASE SaveSeedZone(p)
    <3>1. PICK z : task' = [task EXCEPT ![p].seedZones = @ \ {z}]
      BY <2>1 DEF SaveSeedZone
    <3>2. task'[p].op = task[p].op /\ task'[p].todo = task[p].todo
      BY <1>1, <3>1 DEF Tasks
    <3> QED
      BY <3>2 DEF SeedKept
  <2>2. CASE SaveSeedRecord(p)
    <3>1. PICK r : task' = [task EXCEPT ![p].todo = @ \ {r}]
      BY <2>2 DEF SaveSeedRecord
    <3>2. task'[p].op = task[p].op /\ task'[p].todo = task[p].todo \ {r}
      BY <1>1, <3>1 DEF Tasks
    <3> QED
      BY <3>2 DEF SeedKept
  <2>3. CASE StoreStep(p) /\ UNCHANGED <<task, started>>
    BY <2>3 DEF SeedKept
  <2>4. CASE ~(SaveSeedZone(p) \/ SaveSeedRecord(p) \/ (StoreStep(p) /\ UNCHANGED <<task, started>>))
    <3>1. task[p].pc # "seed"
      BY <1>4, <2>4 DEF WorkStep, ListKeys, ReadRow, ValidateRRSet, FindRRSet, DropRecord, Dropped,
                        NextRecord, ValidateRecord
    <3>2. task[p].op # "ImportSeedData"
      BY <1>1, <3>1 DEF TaskShape
    <3>3. task'[p].pc # "seed"
      <4>1. ListKeys(p) \/ ReadRow(p) \/ FindRRSet(p) \/ Dropped(p) \/ NextRecord(p)
                => task'[p].pc # "seed"
        BY <1>1, <3>1 DEF ListKeys, ReadRow, Go, FindRRSet, Dropped, NextRecord, Tasks
      <4>2. Abort(p) => task'[p].pc # "seed"
        BY <1>1 DEF Abort, Go, Tasks
      <4>3. ValidateRRSet(p) => task'[p].pc # "seed"
        <5>1. ValidateRRSet(p) => Go(p, [task[p] EXCEPT !.pc = "find", !.listed = {}]) \/ Abort(p)
          BY Zenon DEF ValidateRRSet
        <5>2. Go(p, [task[p] EXCEPT !.pc = "find", !.listed = {}]) => task'[p].pc # "seed"
          BY <1>1 DEF Go, Tasks
        <5> QED
          BY <4>2, <5>1, <5>2
      <4>4. DropRecord(p) => task'[p].pc # "seed"
        BY <1>1, <3>1 DEF DropRecord, Tasks
      <4>5. ValidateRecord(p) => task'[p].pc # "seed"
        <5>1. ValidateRecord(p) =>
                  \/ Abort(p)
                  \/ \E next \in {"add", "return"} :
                        task' = [task EXCEPT ![p] = [task[p] EXCEPT !.pc = next, !.listed = {},
                                                                    !.current = {}]]
          BY Zenon DEF ValidateRecord
        <5>2. ASSUME NEW next \in {"add", "return"},
                     task' = [task EXCEPT ![p] = [task[p] EXCEPT !.pc = next, !.listed = {},
                                                                 !.current = {}]]
              PROVE  task'[p].pc # "seed"
          BY <1>1, <5>2 DEF Tasks
        <5> QED
          BY <4>2, <5>1, <5>2
      <4> QED
        BY <1>4, <2>4, <4>1, <4>3, <4>4, <4>5 DEF WorkStep
    <3>4. TaskShape(task'[p])
      BY ManagerStepAdvances DEF Advances
    <3> QED
      BY <3>3, <3>4 DEF TaskShape, SeedKept
  <2> QED
    BY <2>1, <2>2, <2>3, <2>4
<1>5. CASE Go(p, NoTask)
  BY <1>1, <1>5, NoTaskFacts DEF Go, SeedKept
<1>6. CASE \E z \in Zones : Go(p, PreviewTask(z))
  <2>1. PICK z \in Zones : Go(p, PreviewTask(z))
    BY <1>6
  <2>2. task'[p].op = "PreviewChanges"
    BY <1>1, <2>1, NoTaskFacts DEF Go, PreviewTask
  <2> QED
    BY <2>2 DEF SeedKept
<1>7. ASSUME NEW rows, Go(p, ListTask(rows)) PROVE SeedKept(task[p], task'[p])
  <2>1. task'[p].op = "ListRecords"
    BY <1>1, <1>7, NoTaskFacts DEF Go, ListTask
  <2> QED
    BY <2>1 DEF SeedKept
<1> QED
  BY <1>2, <1>3, <1>4, <1>5, <1>6, <1>7 DEF ManagerStep, SeedKept

-----------------------------------------------------------------------------
(* ErrSOAMustBeAtZoneApex, for any number of goroutines. *)

Placed(r) == r.type = "SOA" => r.name = r.zone

\* The listing of a validation may be torn, but the record at hand, or the stored record
\* of its key, is in every preview, and the rule looks at one record at a time.
SOAInv ==
    /\ \A r \in records : Placed(r)
    /\ \A p \in Writers :
          /\ \A r \in call[p].record : Placed(r)
          /\ task[p].op = "ImportSeedData" => \A r \in task[p].todo : Placed(r)

\* A record that validateRecordUpsert has passed is placed.
LEMMA PassesPlaced ==
    ASSUME NEW t \in Tasks, TaskShape(t), NEW r, Passes(t, r)
    PROVE  Placed(r)
<1>1. r.zone = t.zone
  BY DEF Passes, TaskShape
<1>2. \E s \in upsertRecords(t.listed, {r}) : Key(s) = Key(r)
  BY DEF upsertRecords
<1>3. PICK s \in upsertRecords(t.listed, {r}) : Key(s) = Key(r)
  BY <1>2
<1>4. s.type = "SOA" => s.name = t.zone
  BY DEF Passes, validateZoneRecords, SOAAtApexOnly
<1> QED
  BY <1>1, <1>3, <1>4, KeyParts DEF Placed

\* The records of a seed that validateRecordsByZone has passed are placed.
LEMMA SeedPlaced ==
    ASSUME NEW stored, validateRecordsByZone(stored, TRUE), NEW r \in stored
    PROVE  Placed(r)
<1>1. validateZoneRecords(r.zone, InZone(stored, r.zone), TRUE)
  BY DEF validateRecordsByZone
<1>2. r \in InZone(stored, r.zone)
  BY DEF InZone
<1> QED
  BY <1>1, <1>2 DEF validateZoneRecords, SOAAtApexOnly, Placed

\* Every step of a goroutine stores placed records only.
LEMMA StepPlaced ==
    ASSUME ManagerInv, SOAInv, NEW p \in Writers, ManagerStep(p)
    PROVE  SOAInv'
<1>1. task[p] \in Tasks /\ TaskShape(task[p])
  BY DEF ManagerInv
<1>2. Advances(p) /\ Writes(p) /\ SeedKept(task[p], task'[p])
  BY ManagerStepAdvances, StepWrites, StepSeeds
<1>3. \A r : Passes(task[p], r) => Placed(r)
  BY <1>1, PassesPlaced
<1>4. (\A r \in records' : Placed(r)) /\ \A r \in call'[p].record : Placed(r)
  <2>1. CASE call' = call /\ records' = records
    BY <2>1 DEF SOAInv
  <2>2. CASE call'[p].record = {} /\ records' \subseteq records
    BY <2>2 DEF SOAInv
  <2>3. CASE call'[p].record = {} /\ \E r \in call[p].record : records' = Put(records, r)
    BY <2>3 DEF SOAInv, Put
  <2>4. CASE records' = records /\ \E r : Passes(task[p], r) /\ call'[p].record = {r}
    BY <1>3, <2>4 DEF SOAInv
  <2>5. CASE /\ records' = records /\ task[p].op = "ImportSeedData"
             /\ \E r \in task[p].todo : call'[p].record = {r}
    BY <2>5 DEF SOAInv
  <2> QED
    BY <1>2, <2>1, <2>2, <2>3, <2>4, <2>5 DEF Writes
<1>5. task'[p].op = "ImportSeedData" => \A r \in task'[p].todo : Placed(r)
  BY <1>2, SeedPlaced DEF SeedKept, SOAInv
<1>6. \A q \in Writers : q # p => task'[q] = task[q] /\ call'[q] = call[q]
  BY <1>2 DEF Advances
<1> QED
  BY <1>4, <1>5, <1>6 DEF SOAInv

\* Every initial store has its SOA records at the apex.
InitPlaced == \A stored \in InitStores : \A r \in stored : Placed(r)

\* Whatever goroutines race with whatever calls and batches, an SOA record is stored at its
\* zone's apex only: validateRecordUpsert on a torn listing cannot let another one in.
THEOREM SOAIsPlaced ==
    ASSUME InitPlaced
    PROVE  ManagerSpec \/ ChangesSpec => []SOAPlaced
<1>1. ManagerInit => SOAInv
  <2> SUFFICES ASSUME ManagerInit PROVE SOAInv
    OBVIOUS
  <2>1. \A p \in Writers : call[p].record = {} /\ task[p].op = "none"
    BY NoTaskFacts DEF ManagerInit, StoreInit, NoCall
  <2> QED
    BY <2>1 DEF ManagerInit, StoreInit, SOAInv, InitPlaced
<1>2. SOAInv /\ UNCHANGED managerVars => SOAInv'
  BY DEF SOAInv, managerVars
<1>3. ManagerInv /\ SOAInv /\ [\E p \in Writers : ManagerStep(p)]_managerVars => SOAInv'
  BY <1>2, StepPlaced
<1>4. SOAInv => SOAPlaced
  BY DEF SOAInv, SOAPlaced, SOAAtApexOnly, InZone, Placed
<1> QED
  BY <1>1, <1>3, <1>4, ManagerTakesSteps, ChangesTakesSteps, ManagerInvHolds, PTL DEF StepsSpec

-----------------------------------------------------------------------------
(* One goroutine. *)

\* The application calls the Manager from one goroutine at a time: no lock of the Manager
\* spans a call, so what follows is lost with two.
OneGoroutine == \A p, q \in Writers : p = q

SoloInv == \A p \in Writers : SoloOK(task[p], call[p], records)

\* A goroutine outside the Manager knows nothing.
LEMMA SoloInit == ManagerInit => SoloInv
<1> SUFFICES ASSUME ManagerInit, NEW p \in Writers
             PROVE  SoloOK(task[p], call[p], records)
  BY DEF SoloInv
<1>1. task[p] = NoTask /\ call[p] = NoCall
  BY DEF ManagerInit, StoreInit
<1> QED
  BY <1>1, NoTaskFacts
  DEF SoloOK, CallOfTask, ListingExact, SetKnown, SetFits, Adding, NoCall

\* Alone, a goroutine's steps keep what it knows of the store.
LEMMA SoloHolds ==
    ASSUME OneGoroutine
    PROVE  StepsSpec => [](ManagerInv /\ SoloInv)
<1>1. ASSUME ManagerInv, SoloInv, NEW p \in Writers, ManagerStep(p)
      PROVE  SoloInv'
  <2>1. Advances(p)
    BY <1>1, ManagerStepAdvances
  <2>2. SoloOK(task'[p], call'[p], records')
    BY <1>1, <2>1 DEF SoloInv, Advances
  <2> QED
    BY <1>1, <2>2 DEF SoloInv, OneGoroutine
<1>2. SoloInv /\ UNCHANGED managerVars => SoloInv'
  BY DEF SoloInv, managerVars
<1>3. ManagerInv /\ SoloInv /\ [\E p \in Writers : ManagerStep(p)]_managerVars => SoloInv'
  BY <1>1, <1>2
<1> QED
  BY <1>3, SoloInit, ManagerInvHolds, PTL DEF StepsSpec

\* UpsertRRSet validates the set as a whole before it deletes anything; alone, none of the
\* validations it repeats for each record, after the old set is gone, can fail.
THEOREM RRSetIsAllOrNothing ==
    ASSUME OneGoroutine
    PROVE  ManagerSpec \/ ChangesSpec => []RRSetAllOrNothing
<1>1. SoloInv => RRSetAllOrNothing
  BY DEF SoloInv, SoloOK, SetFits, RRSetAllOrNothing
<1> QED
  BY <1>1, SoloHolds, ManagerTakesSteps, ChangesTakesSteps, PTL

\* UpsertRRSet, DeleteRRSet and DeleteName, called by one goroutine, replace the set: when
\* one of them returns without an error the store holds exactly its records, of every class.
THEOREM RRSetIsReplaced ==
    ASSUME OneGoroutine
    PROVE  ManagerSpec \/ ChangesSpec => []RRSetReplaced
<1>1. ASSUME ManagerInv, SoloInv, NEW p \in Writers,
             Finished(p), task[p].pc # "failed", call[p].pc = "idle",
             task[p].op \in {"UpsertRRSet", "DeleteRRSet", "DeleteName"}
      PROVE  LookupIn(records, task[p].zone, task[p].name, task[p].type, "ANY") = task[p].target
  <2>1. /\ TaskShape(task[p]) /\ CallShape(call[p])
        /\ SetKnown(task[p], call[p], records)
    BY <1>1 DEF ManagerInv, SoloInv, SoloOK
  <2>2. task[p].pc # "seed"
    BY <1>1, <2>1 DEF TaskShape
  <2>3. CASE task[p].op = "UpsertRRSet"
    <3>1. /\ task[p].pc = "add" /\ task[p].todo = {} /\ task[p].current = {}
          /\ Adding(task[p]) /\ call[p].record = {}
      BY <1>1, <2>1, <2>2, <2>3 DEF Finished, TaskShape, RRSetShape, Adding, CallShape
    <3> QED
      BY <2>1, <3>1 DEF SetKnown, SetIn
  <2>4. CASE task[p].op \in {"DeleteRRSet", "DeleteName"}
    <3>1. task[p].pc = "return" /\ task[p].target = {}
      BY <1>1, <2>1, <2>2, <2>4 DEF Finished, TaskShape
    <3> QED
      BY <2>1, <2>4, <3>1 DEF SetKnown, SetIn
  <2> QED
    BY <1>1, <2>3, <2>4
<1>2. ManagerInv /\ SoloInv => RRSetReplaced
  BY <1>1 DEF RRSetReplaced
<1> QED
  BY <1>2, SoloHolds, ManagerTakesSteps, ChangesTakesSteps, PTL

\* What one goroutine has yet to put, it has validated against the zone as it is.
ValidInv ==
    /\ ZonesValid
    /\ \A p \in Writers : \A r \in call[p].record :
          validateZoneRecords(r.zone, Put(InZone(records, r.zone), r), FALSE)

\* A record that passes on the listing of one goroutine may be put.
LEMMA PassesValid ==
    ASSUME UniqueKeys(records), NEW t \in Tasks, TaskShape(t), ListingExact(t, records),
           NEW r, Passes(t, r)
    PROVE  validateZoneRecords(r.zone, Put(InZone(records, r.zone), r), FALSE)
<1>1. r.zone = t.zone
  BY DEF Passes, TaskShape
<1>2. t.listed = InZone(records, t.zone)
  BY DEF Passes, ListingExact, TaskShape
<1>3. UniqueKeys(InZone(records, t.zone))
  BY DEF UniqueKeys, InZone
<1> QED
  BY <1>1, <1>2, <1>3, PutIsPreviewed DEF Passes

\* Alone, every step of a goroutine leaves every zone valid.
LEMMA StepValid ==
    ASSUME OneGoroutine, "ImportSeedData" \notin Operations,
           ManagerInv, SoloInv, ValidInv, NEW p \in Writers, ManagerStep(p)
    PROVE  ValidInv'
<1>1. /\ task[p] \in Tasks /\ TaskShape(task[p]) /\ UniqueKeys(records)
      /\ ListingExact(task[p], records)
  BY DEF ManagerInv, SoloInv, SoloOK
<1>2. task[p].op # "ImportSeedData"
  BY <1>1 DEF Tasks
<1>3. Writes(p)
  BY StepWrites
<1> SUFFICES /\ \A z \in Zones : validateZoneRecords(z, InZone(records', z), FALSE)
             /\ \A r \in call'[p].record :
                   validateZoneRecords(r.zone, Put(InZone(records', r.zone), r), FALSE)
  BY DEF ValidInv, ZonesValid, OneGoroutine
<1>4. CASE call' = call /\ records' = records
  BY <1>4 DEF ValidInv, ZonesValid
<1>5. CASE call'[p].record = {} /\ records' \subseteq records
  <2>1. \A z : InZone(records', z) \subseteq InZone(records, z)
    BY <1>5 DEF InZone
  <2> QED
    BY <1>5, <2>1, ValidSubset DEF ValidInv, ZonesValid
<1>6. CASE call'[p].record = {} /\ \E r \in call[p].record : records' = Put(records, r)
  <2>1. PICK r \in call[p].record : records' = Put(records, r)
    BY <1>6
  <2>2. /\ \A z : z # r.zone => InZone(records', z) = InZone(records, z)
        /\ InZone(records', r.zone) = Put(InZone(records, r.zone), r)
    BY <1>1, <2>1, PutFacts
  <2> QED
    BY <1>6, <2>2 DEF ValidInv, ZonesValid
<1>7. CASE records' = records /\ \E r : Passes(task[p], r) /\ call'[p].record = {r}
  <2>1. PICK r : Passes(task[p], r) /\ call'[p].record = {r}
    BY <1>7
  <2>2. validateZoneRecords(r.zone, Put(InZone(records, r.zone), r), FALSE)
    BY <1>1, <2>1, PassesValid
  <2> QED
    BY <1>7, <2>1, <2>2 DEF ValidInv, ZonesValid
<1> QED
  BY <1>2, <1>3, <1>4, <1>5, <1>6, <1>7 DEF Writes

\* Every initial store passes the rules of an upsert.
InitValid ==
    \A stored \in InitStores : \A z \in Zones : validateZoneRecords(z, InZone(stored, z), FALSE)

\* From a valid store, one goroutine that upserts and deletes records, sets, names and zones,
\* alone or in batches, never leaves a zone that breaks the rules, not even between two steps
\* of a call.  ImportSeedData is excluded: it validates a seed without the store.
THEOREM ZonesAreValid ==
    ASSUME OneGoroutine, "ImportSeedData" \notin Operations, InitValid
    PROVE  ManagerSpec \/ ChangesSpec => []ZonesValid
<1>1. ManagerInit => ValidInv
  <2> SUFFICES ASSUME ManagerInit PROVE ValidInv
    OBVIOUS
  <2>1. \A p \in Writers : call[p].record = {}
    BY DEF ManagerInit, StoreInit, NoCall
  <2> QED
    BY <2>1 DEF ManagerInit, StoreInit, ValidInv, ZonesValid, InitValid
<1>2. ValidInv /\ UNCHANGED managerVars => ValidInv'
  BY DEF ValidInv, ZonesValid, managerVars
<1>3. ManagerInv /\ SoloInv /\ ValidInv /\ [\E p \in Writers : ManagerStep(p)]_managerVars
          => ValidInv'
  BY <1>2, StepValid
<1>4. ValidInv => ZonesValid
  BY DEF ValidInv
<1> QED
  BY <1>1, <1>3, <1>4, SoloHolds, ManagerTakesSteps, ChangesTakesSteps, PTL DEF StepsSpec

\* A record whose zone is not listed is one that DeleteZone has yet to drop.
HomedInv ==
    /\ \A r \in records :
          \/ r.zone \in zones
          \/ \E p \in Writers : \/ call[p].pc = "rows" /\ r.zone = call[p].zone
                                \/ call[p].pc = "drop" /\ RowKey(r) \in call[p].rows
    /\ \A p \in Writers : \A r \in call[p].record : r.zone \in zones

\* Alone, every store call of a goroutine, at each of its steps, leaves the records so.
LEMMA MoveHomed ==
    ASSUME OneGoroutine, ManagerInv, HomedInv, NEW p \in Writers, StoreMove(p)
    PROVE  HomedInv'
<1>1. call \in [Writers -> Calls] /\ call[p] \in Calls /\ CallShape(call[p])
  BY DEF ManagerInv, StoreInv, StoreTypeOK
<1>2. call[p].pc \notin {"rows", "drop"} => \A r \in records : r.zone \in zones
  BY DEF HomedInv, OneGoroutine
<1>3. \A r \in call[p].record : r.zone \in zones
  BY DEF HomedInv
<1> SUFFICES /\ \A r \in records' :
                   \/ r.zone \in zones'
                   \/ call'[p].pc = "rows" /\ r.zone = call'[p].zone
                   \/ call'[p].pc = "drop" /\ RowKey(r) \in call'[p].rows
             /\ \A r \in call'[p].record : r.zone \in zones'
  BY DEF HomedInv, OneGoroutine
<1>4. CASE UNCHANGED storeVars
  BY <1>4 DEF storeVars, HomedInv, OneGoroutine
<1>5. CASE \E raw : SaveZone(p, raw)
  <2>1. PICK raw : SaveZone(p, raw)
    BY <1>5
  <2>2. call'[p].record = {} /\ zones \subseteq zones' /\ records' = records /\ call[p].pc = "idle"
    BY <1>1, <2>1 DEF SaveZone, CanCall, NoCall
  <2> QED
    BY <1>2, <2>2
<1>6. CASE \E raw : DeleteZone(p, raw)
  <2>1. PICK raw : DeleteZone(p, raw)
    BY <1>6
  <2>2. /\ call'[p].record = {} /\ call'[p].pc = "rows" /\ zones' = zones \ {call'[p].zone}
        /\ records' = records /\ call[p].pc = "idle"
    BY <1>1, <2>1 DEF DeleteZone, CanCall, NoCall
  <2> QED
    BY <1>2, <2>2
<1>7. CASE \E raw : SaveRecord(p, raw)
  <2>1. PICK raw : SaveRecord(p, raw)
    BY <1>7
  <2>2. /\ zones' = zones \cup {NormalizeRecord(raw).zone} /\ records' = records
        /\ call'[p].record = {NormalizeRecord(raw)} /\ call[p].pc = "idle"
    BY <1>1, <2>1 DEF SaveRecord, CanCall, NoCall
  <2> QED
    BY <1>2, <2>2
<1>8. CASE \E raw : DeleteRecord(p, raw)
  <2>1. PICK raw : DeleteRecord(p, raw)
    BY <1>8
  <2>2. call'[p].record = {} /\ zones' = zones /\ records' \subseteq records /\ call[p].pc = "idle"
    BY <1>1, <2>1 DEF DeleteRecord, CanCall, NoCall, Without
  <2> QED
    BY <1>2, <2>2
<1>9. CASE PutRecord(p)
  <2>1. PICK r \in call[p].record : records' = Put(records, r)
    BY <1>9 DEF PutRecord
  <2>2. call'[p].record = {} /\ zones' = zones /\ call[p].pc = "put"
    BY <1>1, <1>9 DEF PutRecord, Calls
  <2> QED
    BY <1>2, <1>3, <2>1, <2>2 DEF Put
<1>10. CASE ListRows(p)
  <2>1. /\ call'[p].record = {} /\ zones' = zones /\ records' = records /\ call'[p].pc = "drop"
        /\ call'[p].rows = {RowKey(r) : r \in InZone(records, call[p].zone)}
    BY <1>1, <1>10 DEF ListRows, Calls, CallShape
  <2>2. \A r \in records : r.zone \in zones \/ r.zone = call[p].zone
    BY <1>10 DEF HomedInv, OneGoroutine, ListRows
  <2> QED
    BY <2>1, <2>2 DEF InZone
<1>11. CASE DropRow(p)
  <2>1. PICK row : /\ records' = {r \in records : RowKey(r) # row}
                   /\ call' = [call EXCEPT ![p].rows = @ \ {row}]
    BY <1>11 DEF DropRow
  <2>2. /\ call'[p].record = {} /\ zones' = zones /\ call'[p].pc = "drop"
        /\ call'[p].rows = call[p].rows \ {row}
    BY <1>1, <1>11, <2>1 DEF DropRow, Calls, CallShape
  <2>3. \A r \in records : r.zone \in zones \/ RowKey(r) \in call[p].rows
    BY <1>11 DEF HomedInv, OneGoroutine, DropRow
  <2> QED
    BY <2>1, <2>2, <2>3
<1>12. CASE Bump(p)
  <2>1. call'[p].record = {} /\ zones' = zones /\ records' = records
    BY <1>1, <1>12 DEF Bump, NoCall
  <2>2. \A r \in records : r.zone \in zones
    BY <1>12 DEF HomedInv, OneGoroutine, Bump
  <2> QED
    BY <2>1, <2>2
<1> QED
  BY <1>4, <1>5, <1>6, <1>7, <1>8, <1>9, <1>10, <1>11, <1>12 DEF StoreMove, StoreStep

\* DeleteZone forgets the zone first and drops its rows afterwards, SaveRecord saves the zone
\* first and puts the record afterwards: alone, a goroutine leaves no record without a zone.
THEOREM RecordsAreHomed ==
    ASSUME OneGoroutine
    PROVE  ManagerSpec \/ ChangesSpec => []RecordsHaveZone
<1>1. ManagerInit => HomedInv
  <2> SUFFICES ASSUME ManagerInit PROVE HomedInv
    OBVIOUS
  <2>1. \A p \in Writers : call[p].record = {}
    BY DEF ManagerInit, StoreInit, NoCall
  <2> QED
    BY <2>1 DEF ManagerInit, StoreInit, HomedInv
<1>2. HomedInv /\ UNCHANGED managerVars => HomedInv'
  BY DEF HomedInv, managerVars
<1>3. ManagerInv /\ HomedInv /\ [\E p \in Writers : ManagerStep(p)]_managerVars => HomedInv'
  BY <1>2, ManagerStepMoves, MoveHomed
<1>4. HomedInv => RecordsHaveZone
  BY DEF HomedInv, RecordsHaveZone, Quiet
<1> QED
  BY <1>1, <1>3, <1>4, ManagerInvHolds, ManagerTakesSteps, ChangesTakesSteps, PTL DEF StepsSpec
=============================================================================

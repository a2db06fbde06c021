---------------------------- MODULE EffectProofs ----------------------------
(***************************************************************************)
(* Proofs of what calls of the Manager make of the store, and with them of *)
(* the HTTP handler, the update handler, the batches of changes and the    *)
(* client of the update handler.                                           *)
(*                                                                         *)
(* The argument.  At every step of a call it is determined what the store  *)
(* will be when the call is over (RecordsDue, ZonesDue).  No step of the   *)
(* call changes that, its first step makes it the change asked for, and at *)
(* the end it is the store; a call that fails has written nothing          *)
(* (Untouched), unless a transaction of the store fails, when a part of    *)
(* the change is left, made in the order of the call (StoreFailsAt).       *)
(* The handlers and the batches make calls one after the other, and their  *)
(* invariants say what the store is bound to be within a call, and is      *)
(* between calls: the effect of the RRs so far, the HTTP request as a      *)
(* whole, the copies of the preview after the changes so far.              *)
(*                                                                         *)
(* All that is about one goroutine.  The messages of the client are each   *)
(* about one row of the store, and what a call does is determined row by   *)
(* row: the client's invariant follows, in every row that no lost exchange *)
(* is about, the one message that may still be under way there, and what   *)
(* the other handlers do leaves that row alone.                            *)
(***************************************************************************)
EXTENDS FrontEnds, Client, ManagerProofs, WellFoundedInduction, FiniteSetTheorems

-----------------------------------------------------------------------------
(* Store calls. *)

\* The records when the store call at hand is over.
Landing(c, stored) ==
    {r \in stored : /\ ~(c.pc \in {"rows", "drop"} /\ r.zone = c.zone)
                    /\ \A n \in c.record : Key(r) # Key(n)} \cup c.record

\* Alone, DeleteZone has the rows of all the records it has left to delete.
RowsKnown(c, stored) ==
    c.pc = "drop" => \A r \in InZone(stored, c.zone) : RowKey(r) \in c.rows

\* Between store calls the records are what they are.
LEMMA Landed ==
    ASSUME NEW c, NEW stored, CallShape(c), c.pc \in {"idle", "bump"}
    PROVE  Landing(c, stored) = stored /\ RowsKnown(c, stored)
BY DEF Landing, CallShape, RowsKnown

\* The steps of a store call after its first lead where it was bound for.
LEMMA StoreStepLands ==
    ASSUME ManagerInv, NEW p \in Writers, StoreStep(p), RowsKnown(call[p], records)
    PROVE  /\ RowsKnown(call'[p], records')
           /\ zones' = zones
           /\ Landing(call'[p], records') = Landing(call[p], records)
<1>1. PICK c : c = call[p]
  OBVIOUS
<1>2. PICK d : d = call'[p]
  OBVIOUS
<1>3. /\ call \in [Writers -> Calls] /\ c \in Calls /\ CallShape(c)
      /\ \A row \in c.rows : row[1] = c.zone
  BY <1>1 DEF ManagerInv, StoreInv, StoreTypeOK, CallsInOneZone
<1>4. CASE PutRecord(p)
  <2>1. PICK r \in c.record : records' = Put(records, r)
    BY <1>1, <1>4 DEF PutRecord
  <2>2. c.pc = "put" /\ c.record = {r} /\ d.pc = "bump" /\ d.record = {} /\ zones' = zones
    BY <1>1, <1>2, <1>3, <1>4, <2>1 DEF PutRecord, Calls, CallShape
  <2>3. Landing(d, Put(records, r)) = Landing(c, records)
    BY <2>2 DEF Landing, Put
  <2> QED
    BY <1>1, <1>2, <2>1, <2>2, <2>3 DEF RowsKnown
<1>5. CASE ListRows(p)
  <2>1. /\ c.pc = "rows" /\ d.pc = "drop" /\ d.zone = c.zone /\ d.record = c.record
        /\ d.rows = {RowKey(r) : r \in InZone(records, c.zone)}
        /\ zones' = zones /\ records' = records
    BY <1>1, <1>2, <1>3, <1>5 DEF ListRows, Calls
  <2>2. Landing(d, records) = Landing(c, records) /\ RowsKnown(d, records)
    BY <2>1 DEF Landing, RowsKnown
  <2> QED
    BY <1>1, <1>2, <2>1, <2>2
<1>6. CASE DropRow(p)
  <2>1. PICK row \in c.rows : /\ records' = {r \in records : RowKey(r) # row}
                              /\ call' = [call EXCEPT ![p].rows = @ \ {row}]
    BY <1>1, <1>6 DEF DropRow
  <2>2. /\ c.pc = "drop" /\ d.pc = "drop" /\ d.zone = c.zone /\ d.record = c.record
        /\ d.rows = c.rows \ {row} /\ zones' = zones
    BY <1>1, <1>2, <1>3, <1>6, <2>1 DEF DropRow, Calls
  <2>3. PICK left : left = {r \in records : RowKey(r) # row}
    OBVIOUS
  <2>4. RowsKnown(d, left)
    BY <1>1, <2>2, <2>3 DEF RowsKnown, InZone
  <2>5. \A r \in records : RowKey(r) = row => r.zone = c.zone
    BY <1>3, <2>1 DEF RowKey
  <2>6. Landing(d, left) = Landing(c, records)
    BY <2>2, <2>3, <2>5 DEF Landing
  <2> QED
    BY <1>1, <1>2, <2>1, <2>2, <2>3, <2>4, <2>6
<1>7. CASE Bump(p)
  <2>1. d = NoCall /\ zones' = zones /\ records' = records
    BY <1>2, <1>3, <1>7 DEF Bump
  <2>2. Landing(d, records) = records /\ RowsKnown(d, records)
    BY <2>1 DEF NoCall, Landing, RowsKnown
  <2>3. c.record = {} /\ (c.pc = "bump" \/ (c.pc = "drop" /\ c.rows = {}))
    BY <1>1, <1>3, <1>7 DEF Bump, CallShape
  <2>4. c.pc = "drop" => \A r \in records : r.zone # c.zone
    BY <1>1, <2>3 DEF RowsKnown, InZone
  <2>5. Landing(c, records) = records
    BY <2>3, <2>4 DEF Landing
  <2> QED
    BY <1>1, <1>2, <2>1, <2>2, <2>5
<1> QED
  BY <1>4, <1>5, <1>6, <1>7 DEF StoreStep

\* The first step of a store call, made while no other is at hand.
LEMMA CallLands ==
    ASSUME ManagerInv, NEW p \in Writers, NEW raw
    PROVE  /\ SaveZone(p, raw) =>
                /\ zones' = zones \cup {NormalizeZoneName(raw)}
                /\ Landing(call'[p], records') = records /\ RowsKnown(call'[p], records')
           /\ DeleteZone(p, raw) =>
                /\ zones' = zones \ {NormalizeZoneName(raw)}
                /\ Landing(call'[p], records') =
                       {r \in records : r.zone # NormalizeZoneName(raw)}
                /\ RowsKnown(call'[p], records')
           /\ SaveRecord(p, raw) =>
                /\ zones' = zones \cup {NormalizeRecord(raw).zone}
                /\ Landing(call'[p], records') = Put(records, NormalizeRecord(raw))
                /\ RowsKnown(call'[p], records')
           /\ DeleteRecord(p, raw) =>
                /\ zones' = zones
                /\ Landing(call'[p], records') = Without(records, NormalizeRecord(raw))
                /\ RowsKnown(call'[p], records')
<1>1. PICK d : d = call'[p]
  OBVIOUS
<1>2. call \in [Writers -> Calls]
  BY DEF ManagerInv, StoreInv, StoreTypeOK
<1>3. PICK z : z = NormalizeZoneName(raw)
  OBVIOUS
<1>4. PICK n : n = NormalizeRecord(raw)
  OBVIOUS
<1>5. ASSUME SaveZone(p, raw)
      PROVE  zones' = zones \cup {z} /\ Landing(d, records') = records /\ RowsKnown(d, records')
  <2>1. d.pc = "bump" /\ d.record = {} /\ records' = records /\ zones' = zones \cup {z}
    BY <1>1, <1>2, <1>3, <1>5 DEF SaveZone, NoCall
  <2>2. Landing(d, records) = records /\ RowsKnown(d, records)
    BY <2>1 DEF Landing, RowsKnown
  <2> QED
    BY <2>1, <2>2
<1>6. ASSUME DeleteZone(p, raw)
      PROVE  /\ zones' = zones \ {z} /\ Landing(d, records') = {r \in records : r.zone # z}
             /\ RowsKnown(d, records')
  <2>1. /\ d.pc = "rows" /\ d.zone = z /\ d.record = {} /\ records' = records
        /\ zones' = zones \ {z}
    BY <1>1, <1>2, <1>3, <1>6 DEF DeleteZone, NoCall
  <2>2. Landing(d, records) = {r \in records : r.zone # z} /\ RowsKnown(d, records)
    BY <2>1 DEF Landing, RowsKnown
  <2> QED
    BY <2>1, <2>2
<1>7. ASSUME SaveRecord(p, raw)
      PROVE  /\ zones' = zones \cup {n.zone} /\ Landing(d, records') = Put(records, n)
             /\ RowsKnown(d, records')
  <2>1. d.pc = "put" /\ d.record = {n} /\ records' = records /\ zones' = zones \cup {n.zone}
    BY <1>1, <1>2, <1>4, <1>7 DEF SaveRecord, NoCall
  <2>2. Landing(d, records) = Put(records, n) /\ RowsKnown(d, records)
    BY <2>1 DEF Landing, RowsKnown, Put
  <2> QED
    BY <2>1, <2>2
<1>8. ASSUME DeleteRecord(p, raw)
      PROVE  /\ zones' = zones /\ Landing(d, records') = Without(records, n)
             /\ RowsKnown(d, records')
  <2>1. PICK left : left = Without(records, n)
    OBVIOUS
  <2>2. d.pc = "bump" /\ d.record = {} /\ records' = left /\ zones' = zones
    BY <1>1, <1>2, <1>4, <1>8, <2>1 DEF DeleteRecord, NoCall
  <2>3. Landing(d, left) = left /\ RowsKnown(d, left)
    BY <2>2 DEF Landing, RowsKnown
  <2> QED
    BY <2>1, <2>2, <2>3
<1> QED
  BY <1>1, <1>3, <1>4, <1>5, <1>6, <1>7, <1>8

-----------------------------------------------------------------------------
(* What a method is bound to make of the store. *)

Overlay(stored, new) == {r \in stored : \A n \in new : Key(r) # Key(n)} \cup new

InSet(r, t) == r.zone = t.zone /\ r.name = t.name /\ (t.type = "ANY" \/ r.type = t.type)

RRSetCalls == {"UpsertRRSet", "DeleteRRSet", "DeleteName"}

\* The records and the zones when the method returns without error, from those that the
\* store call at hand leaves.  No step of the method changes them.
RecordsDue(t, stored) ==
    IF t.op \in RRSetCalls THEN {r \in stored : ~InSet(r, t)} \cup t.target
    ELSE Overlay(stored, t.todo \cup t.current)

ZonesDue(t, known) == known \cup t.seedZones \cup {r.zone : r \in t.todo \cup t.current}

\* The method has not made a store call yet.
Untouched(t) ==
    /\ t.pc \in {"list", "read", "find", "failed"}
    /\ t.op = "UpsertRRSet" => t.current = {}

KeysOf(stored) == {Key(r) : r \in stored}

\* Of the records that the method found (old): before its first store call, and between the
\* two transactions of a SaveRecord or DeleteZone that is its only call, they are the
\* store's, and while it deletes a set no others are.
Kept(t, c, old, stored) ==
    /\ Untouched(t) => stored = old
    /\ t.pc = "return" /\ c.pc \in {"put", "rows"} => stored = old
    /\ t.pc = "drop" => stored \subseteq old

\* An import deletes nothing, and writes no record before its zones are there.
Seeded(t, c, known0, old, known, stored) ==
    t.pc = "seed" =>
        /\ known0 \subseteq known
        /\ KeysOf(old) \subseteq KeysOf(stored)
        /\ {r.zone : r \in t.todo} \subseteq known \cup t.seedZones
        /\ t.seedZones # {} => c.pc # "put" /\ stored = old

\* What a method holds at each of its steps, beyond TaskShape.
Course(t) ==
    /\ \A r \in t.drops : InSet(r, t)
    /\ UniqueKeys(t.todo)
    /\ t.pc = "return" => t.todo \cup t.current = {}
    /\ t.seedZones # {} => t.op = "ImportSeedData"
    /\ t.todo # {} => t.op \in {"UpsertRRSet", "ImportSeedData"}
    /\ t.pc \in {"find", "drop", "add"} => t.op \in RRSetCalls
    /\ t.pc \in {"list", "read"} =>
          \/ t.op = "UpsertRecord" /\ t.current # {}
          \/ t.op = "UpsertRRSet"
          \/ t.op \in {"PreviewChanges", "ListRecords"} /\ t.target = {}
    /\ t.op = "ListRecords" => t.pc = "read"
    /\ t.op = "none" => t.pc = "idle"
    /\ t.pc = "failed" => t.op \in {"UpsertRecord", "UpsertRRSet"}

\* A step of the method keeps it on its course.
Leads(p) ==
    /\ task'[p].op = task[p].op
    /\ Course(task'[p]) /\ RowsKnown(call'[p], records')
    /\ RecordsDue(task'[p], Landing(call'[p], records')) =
           RecordsDue(task[p], Landing(call[p], records))
    /\ ZonesDue(task'[p], zones') = ZonesDue(task[p], zones)
    /\ Untouched(task'[p]) => Untouched(task[p]) /\ zones' = zones /\ records' = records

\* A task that moves on has the same records and zones due.
LEMMA SameDue ==
    ASSUME NEW t, NEW u, u.op = t.op, u.zone = t.zone, u.name = t.name, u.type = t.type,
           u.target = t.target, u.seedZones = t.seedZones,
           u.todo \cup u.current = t.todo \cup t.current
    PROVE  /\ \A stored : RecordsDue(u, stored) = RecordsDue(t, stored)
           /\ \A known : ZonesDue(u, known) = ZonesDue(t, known)
BY DEF RecordsDue, ZonesDue, InSet

\* A step that makes no store call.
LEMMA TaskLeads ==
    ASSUME ManagerInv, NEW p \in Writers, RowsKnown(call[p], records),
           NEW t, t = task[p], NEW u, Course(u),
           task' = [task EXCEPT ![p] = u], UNCHANGED storeVars,
           u.op = t.op, u.zone = t.zone, u.name = t.name, u.type = t.type,
           u.target = t.target, u.seedZones = t.seedZones,
           u.todo \cup u.current = t.todo \cup t.current,
           Untouched(u) => Untouched(t)
    PROVE  Leads(p)
<1>1. task'[p] = u /\ call' = call /\ zones' = zones /\ records' = records
  BY DEF storeVars, ManagerInv
<1>2. /\ \A stored : RecordsDue(u, stored) = RecordsDue(t, stored)
      /\ \A known : ZonesDue(u, known) = ZonesDue(t, known)
  BY SameDue
<1> QED
  BY <1>1, <1>2 DEF Leads

\* A step that makes a store call: what it leads to is due.
LEMMA CallLeads ==
    ASSUME NEW p \in Writers, NEW t, t = task[p], NEW u, u = task'[p], u.op = t.op,
           Course(u), ~Untouched(u),
           NEW before, Landing(call[p], records) = before,
           NEW after, Landing(call'[p], records') = after, RowsKnown(call'[p], records'),
           RecordsDue(u, after) = RecordsDue(t, before),
           ZonesDue(u, zones') = ZonesDue(t, zones)
    PROVE  Leads(p)
BY DEF Leads

\* ListRecords begins its listing, and reads a row.
LEMMA ListingLeads ==
    ASSUME ManagerInv, NEW p \in Writers, RowsKnown(call[p], records), Course(task[p]),
           ListKeys(p) \/ ReadRow(p)
    PROVE  Leads(p)
<1>1. PICK t : t = task[p]
  OBVIOUS
<1>2. t \in Tasks /\ Course(t) /\ t.pc \in {"list", "read"}
  BY <1>1 DEF ManagerInv, ListKeys, ReadRow
<1>3. PICK rows, listed : Go(p, [t EXCEPT !.pc = "read", !.rows = rows, !.listed = listed])
  <2>1. CASE ListKeys(p)
    <3>1. [t EXCEPT !.pc = "read", !.listed = {},
                    !.rows = {RowKey(r) : r \in InZone(records, t.zone)}]
           = [t EXCEPT !.pc = "read", !.rows = {RowKey(r) : r \in InZone(records, t.zone)},
                       !.listed = {}]
      BY <1>2 DEF Tasks
    <3> QED
      BY <1>1, <2>1, <3>1 DEF ListKeys
  <2>2. CASE ReadRow(p)
    <3>1. PICK row \in t.rows :
              Go(p, [t EXCEPT !.rows = @ \ {row},
                              !.listed = @ \cup {r \in records : RowKey(r) = row}])
      BY <1>1, <2>2 DEF ReadRow
    <3>2. PICK found : found = {r \in records : RowKey(r) = row}
      OBVIOUS
    <3>3. [t EXCEPT !.rows = @ \ {row}, !.listed = @ \cup found]
           = [t EXCEPT !.pc = "read", !.rows = t.rows \ {row}, !.listed = t.listed \cup found]
      BY <1>1, <1>2, <2>2 DEF Tasks, ReadRow
    <3> QED
      BY <3>1, <3>2, <3>3
  <2> QED
    BY <2>1, <2>2
<1>4. PICK u : u = [t EXCEPT !.pc = "read", !.rows = rows, !.listed = listed]
  OBVIOUS
<1>5. /\ u.op = t.op /\ u.pc = "read" /\ u.zone = t.zone /\ u.name = t.name /\ u.type = t.type
      /\ u.target = t.target /\ u.todo = t.todo /\ u.current = t.current
      /\ u.drops = t.drops /\ u.seedZones = t.seedZones
  BY <1>2, <1>4 DEF Tasks
<1>6. Course(u) /\ (Untouched(u) => Untouched(t))
  BY <1>2, <1>5 DEF Course, InSet, Untouched
<1> QED
  BY <1>1, <1>3, <1>4, <1>5, <1>6, TaskLeads DEF Go

\* validateRRSetUpsert passes or fails, before the first store call.
LEMMA ValidateRRSetLeads ==
    ASSUME ManagerInv, NEW p \in Writers, RowsKnown(call[p], records), Course(task[p]),
           ValidateRRSet(p)
    PROVE  Leads(p)
<1>1. PICK t : t = task[p]
  OBVIOUS
<1>2. /\ t.pc = "read" /\ t.rows = {} /\ t.current = {}
      /\ \E first \in t.target : TRUE
      /\ Go(p, [t EXCEPT !.pc = "find", !.listed = {}]) \/ Abort(p)
  BY <1>1, Zenon DEF ValidateRRSet
<1>3. t \in Tasks /\ Course(t)
  BY <1>1 DEF ManagerInv
<1>4. t.op = "UpsertRRSet"
  BY <1>2, <1>3 DEF Course
<1>5. PICK u : /\ task' = [task EXCEPT ![p] = u] /\ UNCHANGED storeVars
               /\ u = [t EXCEPT !.pc = "find", !.listed = {}] \/ u = [t EXCEPT !.pc = "failed"]
  BY <1>1, <1>2 DEF Go, Abort
<1>6. /\ u.op = t.op /\ u.pc \in {"find", "failed"} /\ u.zone = t.zone /\ u.name = t.name
      /\ u.type = t.type /\ u.target = t.target /\ u.todo = t.todo /\ u.current = t.current
      /\ u.drops = t.drops /\ u.seedZones = t.seedZones
  BY <1>3, <1>5 DEF Tasks
<1>7. Course(u)
  BY <1>3, <1>4, <1>6 DEF Course, InSet, RRSetCalls
<1>8. Untouched(t)
  BY <1>2 DEF Untouched
<1> QED
  BY <1>1, <1>5, <1>6, <1>7, <1>8, TaskLeads

\* Lookup of the records to delete.
LEMMA FindLeads ==
    ASSUME ManagerInv, NEW p \in Writers, RowsKnown(call[p], records), Course(task[p]),
           FindRRSet(p)
    PROVE  Leads(p)
<1>1. PICK t : t = task[p]
  OBVIOUS
<1>2. PICK drops : drops = LookupIn(records, t.zone, t.name, t.type, "ANY")
  OBVIOUS
<1>3. PICK u : u = [t EXCEPT !.pc = "drop", !.drops = drops]
  OBVIOUS
<1>4. t \in Tasks /\ Course(t) /\ t.pc = "find"
  BY <1>1 DEF ManagerInv, FindRRSet
<1>5. task' = [task EXCEPT ![p] = u] /\ UNCHANGED storeVars
  BY <1>1, <1>2, <1>3 DEF FindRRSet, Go
<1>6. /\ u.op = t.op /\ u.pc = "drop" /\ u.zone = t.zone /\ u.name = t.name
      /\ u.type = t.type /\ u.target = t.target /\ u.todo = t.todo /\ u.current = t.current
      /\ u.drops = drops /\ u.seedZones = t.seedZones
  BY <1>3, <1>4 DEF Tasks
<1>7. \A r \in drops : InSet(r, u)
  BY <1>2, <1>6 DEF LookupIn, InSet, RowKey
<1>8. Course(u) /\ ~Untouched(u)
  BY <1>4, <1>6, <1>7 DEF Course, RRSetCalls, Untouched
<1> QED
  BY <1>1, <1>5, <1>6, <1>8, TaskLeads

\* deleteRecords is over, and UpsertRRSet takes up its next record.
LEMMA DroppedLeads ==
    ASSUME ManagerInv, NEW p \in Writers, RowsKnown(call[p], records), Course(task[p]),
           Dropped(p) \/ NextRecord(p)
    PROVE  Leads(p)
<1>1. PICK t : t = task[p]
  OBVIOUS
<1>2. t \in Tasks /\ Course(t) /\ TaskShape(t) /\ t.pc \in {"drop", "add"}
  BY <1>1 DEF ManagerInv, Dropped, NextRecord
<1>3. CASE Dropped(p)
  <2>1. PICK pc : pc = IF t.op = "UpsertRRSet" THEN "add" ELSE "return"
    OBVIOUS
  <2>2. PICK u : u = [t EXCEPT !.pc = pc]
    OBVIOUS
  <2>3. task' = [task EXCEPT ![p] = u] /\ UNCHANGED storeVars
    BY <1>1, <1>3, <2>1, <2>2 DEF Dropped, Go
  <2>4. /\ u.op = t.op /\ u.pc = pc /\ u.zone = t.zone /\ u.name = t.name
        /\ u.type = t.type /\ u.target = t.target /\ u.todo = t.todo /\ u.current = t.current
        /\ u.drops = t.drops /\ u.seedZones = t.seedZones
    BY <1>2, <2>2 DEF Tasks
  <2>5. pc = "return" => t.todo \cup t.current = {}
    BY <1>2, <2>1 DEF Course, RRSetCalls, TaskShape
  <2>6. Course(u) /\ ~Untouched(u)
    BY <1>2, <2>1, <2>4, <2>5 DEF Course, InSet, RRSetCalls, Untouched
  <2> QED
    BY <1>1, <2>3, <2>4, <2>6, TaskLeads
<1>4. CASE NextRecord(p)
  <2>1. PICK r \in t.todo : Go(p, [t EXCEPT !.pc = "list", !.todo = @ \ {r}, !.current = {r}])
    BY <1>1, <1>4 DEF NextRecord
  <2>2. PICK u : u = [t EXCEPT !.pc = "list", !.todo = @ \ {r}, !.current = {r}]
    OBVIOUS
  <2>3. task' = [task EXCEPT ![p] = u] /\ UNCHANGED storeVars /\ t.pc = "add"
    BY <1>1, <1>4, <2>1, <2>2 DEF Go, NextRecord
  <2>4. /\ u.op = t.op /\ u.pc = "list" /\ u.zone = t.zone /\ u.name = t.name
        /\ u.type = t.type /\ u.target = t.target /\ u.todo = t.todo \ {r} /\ u.current = {r}
        /\ u.drops = t.drops /\ u.seedZones = t.seedZones
    BY <1>2, <2>2 DEF Tasks
  <2>5. t.op = "UpsertRRSet" /\ t.current = {}
    BY <1>2, <2>3 DEF TaskShape, RRSetShape
  <2>6. Course(u) /\ ~Untouched(u) /\ u.todo \cup u.current = t.todo \cup t.current
    BY <1>2, <2>1, <2>4, <2>5 DEF Course, InSet, UniqueKeys, Untouched
  <2> QED
    BY <1>1, <2>3, <2>4, <2>6, TaskLeads
<1> QED
  BY <1>3, <1>4

\* DeleteRecord of a record of the set.
LEMMA DropRecordLeads ==
    ASSUME ManagerInv, NEW p \in Writers, Course(task[p]), DropRecord(p)
    PROVE  Leads(p)
<1>1. PICK t : t = task[p]
  OBVIOUS
<1>2. PICK r \in t.drops : DeleteRecord(p, r) /\ task' = [task EXCEPT ![p].drops = @ \ {r}]
  BY <1>1 DEF DropRecord
<1>3. PICK u : u = [t EXCEPT !.drops = @ \ {r}]
  OBVIOUS
<1>4. t \in Tasks /\ Course(t) /\ t.pc = "drop"
  BY <1>1 DEF ManagerInv, DropRecord
<1>5. task'[p] = u
  BY <1>1, <1>2, <1>3 DEF ManagerInv
<1>6. /\ u.op = t.op /\ u.pc = "drop" /\ u.zone = t.zone /\ u.name = t.name
      /\ u.type = t.type /\ u.target = t.target /\ u.todo = t.todo /\ u.current = t.current
      /\ u.drops = t.drops \ {r} /\ u.seedZones = t.seedZones
  BY <1>3, <1>4 DEF Tasks
<1>7. NormalizeRecord(r) = r
  BY <1>2, <1>4, StoredNormal DEF Tasks
<1>8. zones' = zones /\ Landing(call'[p], records') = Without(records, r)
      /\ RowsKnown(call'[p], records')
  BY <1>2, <1>7, CallLands
<1>9. Landing(call[p], records) = records
  BY <1>2, Landed DEF DeleteRecord, CanCall, ManagerInv
<1>10. \A x : Key(x) = Key(r) => InSet(x, t)
  BY <1>2, <1>4, KeyParts DEF Course, InSet
<1>11. RecordsDue(t, Without(records, r)) = RecordsDue(t, records)
  BY <1>4, <1>10 DEF RecordsDue, Without, Course
<1>12. /\ RecordsDue(u, Without(records, r)) = RecordsDue(t, records)
       /\ ZonesDue(u, zones) = ZonesDue(t, zones)
  BY <1>6, <1>11, SameDue
<1>13. Course(u) /\ ~Untouched(u)
  BY <1>4, <1>6 DEF Course, InSet, RRSetCalls, Untouched
<1> QED
  BY <1>1, <1>5, <1>6, <1>8, <1>9, <1>12, <1>13, CallLeads

\* validateRecordUpsert: the record is saved, or the first validation fails.
LEMMA ValidateRecordLeads ==
    ASSUME ManagerInv, NEW p \in Writers, RowsKnown(call[p], records), Course(task[p]),
           task[p].op = "UpsertRRSet" => SoloOK(task[p], call[p], records), ValidateRecord(p)
    PROVE  Leads(p)
<1>1. PICK t : t = task[p]
  OBVIOUS
<1>2. PICK pc : pc = IF t.op = "UpsertRRSet" THEN "add" ELSE "return"
  OBVIOUS
<1>3. PICK r \in t.current :
          \/ /\ SaveRecord(p, r)
             /\ task' = [task EXCEPT ![p] = [t EXCEPT !.pc = pc, !.listed = {}, !.current = {}]]
          \/ /\ ~validateZoneRecords(t.zone, upsertRecords(t.listed, {r}), FALSE)
             /\ Abort(p)
  BY <1>1, <1>2 DEF ValidateRecord
<1>4. /\ t \in Tasks /\ TaskShape(t) /\ Course(t)
      /\ t.op = "UpsertRRSet" => SoloOK(t, call[p], records)
      /\ t.pc = "read" /\ t.rows = {}
  BY <1>1 DEF ManagerInv, ValidateRecord
<1>5. r \in Records /\ NormalizeRecord(r) = r /\ t.current = {r}
      /\ t.op \in {"UpsertRecord", "UpsertRRSet"}
  BY <1>3, <1>4, StoredNormal DEF Tasks, TaskShape
<1>6. CASE SaveRecord(p, r)
           /\ task' = [task EXCEPT ![p] = [t EXCEPT !.pc = pc, !.listed = {}, !.current = {}]]
  <2>1. PICK u : u = [t EXCEPT !.pc = pc, !.listed = {}, !.current = {}]
    OBVIOUS
  <2>2. task'[p] = u
    BY <1>6, <2>1 DEF ManagerInv
  <2>3. /\ u.op = t.op /\ u.pc = pc /\ u.zone = t.zone /\ u.name = t.name
        /\ u.type = t.type /\ u.target = t.target /\ u.todo = t.todo /\ u.current = {}
        /\ u.drops = t.drops /\ u.seedZones = t.seedZones
    BY <1>4, <2>1 DEF Tasks
  <2>4. zones' = zones \cup {r.zone} /\ Landing(call'[p], records') = Put(records, r)
        /\ RowsKnown(call'[p], records')
    BY <1>5, <1>6, CallLands
  <2>5. Landing(call[p], records) = records
    BY <1>6, Landed DEF SaveRecord, CanCall, ManagerInv
  <2>6. pc = "return" => t.todo = {} /\ t.op = "UpsertRecord"
    BY <1>2, <1>4, <1>5 DEF Course
  <2>7. Course(u) /\ ~Untouched(u)
    BY <1>2, <1>4, <2>3, <2>6 DEF Course, InSet, RRSetCalls, Untouched
  <2>8. ZonesDue(u, zones') = ZonesDue(t, zones)
    BY <1>5, <2>3, <2>4 DEF ZonesDue
  <2>9. RecordsDue(u, Put(records, r)) = RecordsDue(t, records)
    <3>1. CASE t.op = "UpsertRRSet"
      <4>1. r \in t.target /\ InSet(r, t)
        BY <1>4, <1>5, <3>1 DEF TaskShape, RRSetShape, InSet
      <4>2. \A x : Key(x) = Key(r) => InSet(x, t)
        BY <4>1, KeyParts DEF InSet
      <4>3. \A x : InSet(x, u) <=> InSet(x, t)
        BY <2>3 DEF InSet
      <4>4. {x \in Put(records, r) : ~InSet(x, u)} \cup u.target
              = {x \in records : ~InSet(x, t)} \cup t.target
        BY <2>3, <4>1, <4>2, <4>3 DEF Put
      <4> QED
        BY <2>3, <3>1, <4>4 DEF RecordsDue, RRSetCalls
    <3>2. CASE t.op = "UpsertRecord"
      <4>1. u.todo \cup u.current = {} /\ t.todo \cup t.current = {r}
        BY <1>4, <1>5, <2>3, <3>2 DEF Course
      <4>2. Overlay(Put(records, r), {}) = Overlay(records, {r})
        BY DEF Overlay, Put
      <4> QED
        BY <2>3, <3>2, <4>1, <4>2 DEF RecordsDue, RRSetCalls
    <3> QED
      BY <1>5, <3>1, <3>2
  <2> QED
    BY <1>1, <2>2, <2>3, <2>4, <2>5, <2>7, <2>8, <2>9, CallLeads
<1>7. CASE ~validateZoneRecords(t.zone, upsertRecords(t.listed, {r}), FALSE) /\ Abort(p)
  <2>1. PICK u : u = [t EXCEPT !.pc = "failed"]
    OBVIOUS
  <2>2. task' = [task EXCEPT ![p] = u] /\ UNCHANGED storeVars
    BY <1>1, <1>7, <2>1 DEF Abort, Go
  <2>3. /\ u.op = t.op /\ u.pc = "failed" /\ u.zone = t.zone /\ u.name = t.name
        /\ u.type = t.type /\ u.target = t.target /\ u.todo = t.todo /\ u.current = t.current
        /\ u.drops = t.drops /\ u.seedZones = t.seedZones
    BY <1>4, <2>1 DEF Tasks
  <2>4. t.op = "UpsertRecord"
    BY <1>3, <1>4, <1>5, <1>7, AddingPasses DEF Adding
  <2>5. Course(u) /\ Untouched(t)
    BY <1>4, <2>3, <2>4 DEF Course, InSet, Untouched
  <2> QED
    BY <1>1, <2>2, <2>3, <2>5, TaskLeads
<1> QED
  BY <1>3, <1>6, <1>7

\* saveSeedZones and saveSeedRecords.
LEMMA SaveSeedLeads ==
    ASSUME ManagerInv, NEW p \in Writers, Course(task[p]), SaveSeedZone(p) \/ SaveSeedRecord(p)
    PROVE  Leads(p)
<1>1. PICK t : t = task[p]
  OBVIOUS
<1>2. t \in Tasks /\ TaskShape(t) /\ Course(t) /\ t.pc = "seed"
  BY <1>1 DEF ManagerInv, SaveSeedZone, SaveSeedRecord
<1>3. t.op = "ImportSeedData" /\ t.current = {}
  BY <1>2 DEF TaskShape
<1>4. CASE SaveSeedZone(p)
  <2>1. PICK z \in t.seedZones : SaveZone(p, z) /\ task' = [task EXCEPT ![p].seedZones = @ \ {z}]
    BY <1>1, <1>4 DEF SaveSeedZone
  <2>2. PICK u : u = [t EXCEPT !.seedZones = @ \ {z}]
    OBVIOUS
  <2>3. task'[p] = u
    BY <1>1, <2>1, <2>2 DEF ManagerInv
  <2>4. /\ u.op = t.op /\ u.pc = t.pc /\ u.zone = t.zone /\ u.name = t.name
        /\ u.type = t.type /\ u.target = t.target /\ u.todo = t.todo /\ u.current = t.current
        /\ u.drops = t.drops /\ u.seedZones = t.seedZones \ {z}
    BY <1>2, <2>2 DEF Tasks
  <2>5. NormalizeZoneName(z) = z
    BY <1>2, <2>1, ZoneNormal DEF Tasks
  <2>6. zones' = zones \cup {z} /\ Landing(call'[p], records') = records
        /\ RowsKnown(call'[p], records')
    BY <2>1, <2>5, CallLands
  <2>7. Landing(call[p], records) = records
    BY <2>1, Landed DEF SaveZone, CanCall, ManagerInv
  <2>8. RecordsDue(u, records) = RecordsDue(t, records)
    BY <1>3, <2>4 DEF RecordsDue, RRSetCalls
  <2>9. ZonesDue(u, zones') = ZonesDue(t, zones)
    BY <2>1, <2>4, <2>6 DEF ZonesDue
  <2>10. Course(u) /\ ~Untouched(u)
    BY <1>2, <1>3, <2>4 DEF Course, InSet, Untouched
  <2> QED
    BY <1>1, <2>3, <2>4, <2>6, <2>7, <2>8, <2>9, <2>10, CallLeads
<1>5. CASE SaveSeedRecord(p)
  <2>1. PICK r \in t.todo : SaveRecord(p, r) /\ task' = [task EXCEPT ![p].todo = @ \ {r}]
    BY <1>1, <1>5 DEF SaveSeedRecord
  <2>2. PICK u : u = [t EXCEPT !.todo = @ \ {r}]
    OBVIOUS
  <2>3. task'[p] = u
    BY <1>1, <2>1, <2>2 DEF ManagerInv
  <2>4. /\ u.op = t.op /\ u.pc = t.pc /\ u.zone = t.zone /\ u.name = t.name
        /\ u.type = t.type /\ u.target = t.target /\ u.todo = t.todo \ {r}
        /\ u.current = t.current /\ u.drops = t.drops /\ u.seedZones = t.seedZones
    BY <1>2, <2>2 DEF Tasks
  <2>5. NormalizeRecord(r) = r
    BY <1>2, <2>1, StoredNormal DEF Tasks
  <2>6. zones' = zones \cup {r.zone} /\ Landing(call'[p], records') = Put(records, r)
        /\ RowsKnown(call'[p], records')
    BY <2>1, <2>5, CallLands
  <2>7. Landing(call[p], records) = records
    BY <2>1, Landed DEF SaveRecord, CanCall, ManagerInv
  <2>8. RecordsDue(u, Put(records, r)) = RecordsDue(t, records)
    <3>1. u.todo \cup u.current = t.todo \ {r} /\ t.todo \cup t.current = t.todo
      BY <1>3, <2>4
    <3>2. \A n \in t.todo : n # r => Key(n) # Key(r)
      BY <1>2, <2>1 DEF Course, UniqueKeys
    <3>3. Overlay(Put(records, r), t.todo \ {r}) = Overlay(records, t.todo)
      BY <2>1, <3>2 DEF Overlay, Put
    <3> QED
      BY <1>3, <2>4, <3>1, <3>3 DEF RecordsDue, RRSetCalls
  <2>9. ZonesDue(u, zones') = ZonesDue(t, zones)
    BY <1>3, <2>1, <2>4, <2>6 DEF ZonesDue
  <2>10. Course(u) /\ ~Untouched(u)
    BY <1>2, <1>3, <2>4 DEF Course, InSet, UniqueKeys, Untouched
  <2> QED
    BY <1>1, <2>3, <2>4, <2>6, <2>7, <2>8, <2>9, <2>10, CallLeads
<1> QED
  BY <1>4, <1>5

\* Every step of a method leads where the method was bound for, and of UpsertRRSet alone.
LEMMA WorkLeads ==
    ASSUME ManagerInv, NEW p \in Writers, RowsKnown(call[p], records), Course(task[p]),
           CallOfTask(task[p], call[p]),
           task[p].op = "UpsertRRSet" => SoloOK(task[p], call[p], records), WorkStep(p)
    PROVE  Leads(p)
<1>1. CASE StoreStep(p) /\ UNCHANGED <<task, started>>
  <2>1. ~Untouched(task[p]) \/ records' = records
    <3>1. call[p].pc # "idle" /\ call[p] \in Calls
      BY <1>1 DEF StoreStep, PutRecord, ListRows, DropRow, Bump, ManagerInv, StoreInv, StoreTypeOK
    <3>2. task[p].pc \notin {"list", "read", "find"}
      BY <3>1 DEF CallOfTask
    <3>3. task[p].pc = "failed" => call[p].pc = "bump"
      BY <3>1 DEF CallOfTask, Calls, Adding, Course
    <3>4. call[p].pc = "bump" => records' = records
      BY <1>1 DEF StoreStep, PutRecord, ListRows, DropRow, Bump
    <3> QED
      BY <3>2, <3>3, <3>4 DEF Untouched
  <2> QED
    BY <1>1, <2>1, StoreStepLands DEF Leads
<1> QED
  BY <1>1, ListingLeads, ValidateRRSetLeads, FindLeads, DroppedLeads, DropRecordLeads,
     ValidateRecordLeads, SaveSeedLeads DEF WorkStep

\* What is kept of the records stays so.
LEMMA WorkKeeps ==
    ASSUME ManagerInv, NEW p \in Writers, Course(task[p]), CallOfTask(task[p], call[p]), WorkStep(p),
           Leads(p), NEW old, Kept(task[p], call[p], old, records)
    PROVE  Kept(task'[p], call'[p], old, records')
<1>1. PICK t, c, u, d : t = task[p] /\ c = call[p] /\ u = task'[p] /\ d = call'[p]
  OBVIOUS
<1>2. /\ t \in Tasks /\ c \in Calls /\ TaskShape(t) /\ Course(t) /\ CallOfTask(t, c)
      /\ Kept(t, c, old, records) /\ u.op = t.op
      /\ task \in [Writers -> Tasks] /\ call \in [Writers -> Calls]
  BY <1>1 DEF ManagerInv, StoreInv, StoreTypeOK, Leads
<1>3. Untouched(u) => records' = old
  BY <1>1, <1>2 DEF Leads, Kept
<1>4. ASSUME u.pc = "return", d.pc \in {"put", "rows"} PROVE records' = old
  <2>1. CASE StoreStep(p) /\ UNCHANGED <<task, started>>
    BY <1>1, <1>2, <1>4, <2>1 DEF StoreStep, PutRecord, ListRows, DropRow, Bump, NoCall, Calls
  <2>2. CASE ListKeys(p) \/ ReadRow(p) \/ ValidateRRSet(p) \/ FindRRSet(p) \/ NextRecord(p)
    <3>1. d = c /\ t.pc \in {"list", "read", "find", "add"}
      BY <1>1, <2>2 DEF ListKeys, ReadRow, ValidateRRSet, FindRRSet, NextRecord, Go, Abort, storeVars
    <3>2. t.pc = "add"
      BY <1>2, <1>4, <3>1 DEF CallOfTask
    <3> QED
      BY <1>1, <1>2, <1>4, <2>2, <3>1, <3>2
         DEF ListKeys, ReadRow, ValidateRRSet, FindRRSet, NextRecord
  <2>3. CASE Dropped(p)
    BY <1>1, <1>4, <2>3 DEF Dropped, Go, storeVars
  <2>4. CASE DropRecord(p)
    <3>1. PICK r : task' = [task EXCEPT ![p].drops = @ \ {r}]
      BY <2>4 DEF DropRecord
    <3> QED
      BY <1>1, <1>2, <1>4, <2>4, <3>1 DEF DropRecord, Tasks
  <2>5. CASE ValidateRecord(p)
    <3>1. t.pc = "read" /\ t.current # {}
      BY <1>1, <2>5 DEF ValidateRecord
    <3>2. t.op \in {"UpsertRecord", "UpsertRRSet"} /\ records' = records
      BY <1>2, <2>5, <3>1 DEF TaskShape, ValidateRecord, SaveRecord, Abort, Go, storeVars
    <3>3. TaskShape(u)
      BY <1>1, ManagerStepAdvances DEF ManagerStep, Advances
    <3>4. t.op = "UpsertRecord"
      BY <1>2, <1>4, <3>2, <3>3 DEF TaskShape, RRSetShape
    <3> QED
      BY <1>2, <3>1, <3>2, <3>4 DEF Kept, Untouched
  <2>6. CASE SaveSeedZone(p) \/ SaveSeedRecord(p)
    <3>1. TaskShape(u) /\ t.pc = "seed"
      BY <1>1, <2>6, ManagerStepAdvances DEF ManagerStep, Advances, SaveSeedZone, SaveSeedRecord
    <3> QED
      BY <1>2, <1>4, <3>1 DEF TaskShape
  <2> QED
    BY <2>1, <2>2, <2>3, <2>4, <2>5, <2>6 DEF WorkStep
<1>5. ASSUME u.pc = "drop" PROVE records' \subseteq old
  <2>1. CASE StoreStep(p) /\ UNCHANGED <<task, started>>
    <3>1. t.pc = "drop" /\ c.pc # "put"
      BY <1>1, <1>2, <1>5, <2>1 DEF CallOfTask, Adding
    <3>2. records' \subseteq records
      BY <1>1, <2>1, <3>1 DEF StoreStep, PutRecord, ListRows, DropRow, Bump
    <3> QED
      BY <1>2, <3>1, <3>2 DEF Kept
  <2>2. CASE FindRRSet(p)
    <3>1. t.pc = "find" /\ records' = records
      BY <1>1, <2>2 DEF FindRRSet, Go, storeVars
    <3>2. Untouched(t)
      BY <1>2, <3>1 DEF Untouched, TaskShape, RRSetShape
    <3> QED
      BY <1>2, <3>1, <3>2 DEF Kept
  <2>3. CASE DropRecord(p)
    <3>1. t.pc = "drop" /\ records' \subseteq records
      BY <1>1, <2>3 DEF DropRecord, DeleteRecord, Without
    <3> QED
      BY <1>2, <3>1 DEF Kept
  <2>4. ASSUME ~(StoreStep(p) /\ UNCHANGED <<task, started>>), ~FindRRSet(p), ~DropRecord(p)
        PROVE  u.pc # "drop"
    <3>1. CASE ListKeys(p)
      BY <1>1, <1>2, <3>1 DEF ListKeys, Go, Tasks
    <3>2. CASE ReadRow(p)
      <4>1. PICK rows, listed : Go(p, [t EXCEPT !.rows = rows, !.listed = listed])
        BY <1>1, <3>2, Zenon DEF ReadRow
      <4> QED
        BY <1>1, <1>2, <3>2, <4>1 DEF ReadRow, Go, Tasks
    <3>3. CASE ValidateRRSet(p)
      <4>1. Go(p, [t EXCEPT !.pc = "find", !.listed = {}]) \/ Abort(p)
        BY <1>1, <3>3, Zenon DEF ValidateRRSet
      <4>2. PICK v : /\ task' = [task EXCEPT ![p] = v]
                     /\ v = [t EXCEPT !.pc = "find", !.listed = {}] \/ v = [t EXCEPT !.pc = "failed"]
        BY <1>1, <4>1 DEF Go, Abort
      <4>3. v.pc # "drop"
        BY <1>2, <4>2 DEF Tasks
      <4> QED
        BY <1>1, <1>2, <4>2, <4>3
    <3>4. CASE NextRecord(p)
      BY <1>1, <1>2, <3>4 DEF NextRecord, Go, Tasks
    <3>5. CASE Dropped(p)
      BY <1>1, <1>2, <3>5 DEF Dropped, Go, Tasks
    <3>6. CASE ValidateRecord(p)
      <4>1. PICK pc : pc = IF t.op = "UpsertRRSet" THEN "add" ELSE "return"
        OBVIOUS
      <4>2. \/ task' = [task EXCEPT ![p] = [t EXCEPT !.pc = pc, !.listed = {}, !.current = {}]]
            \/ Abort(p)
        BY <1>1, <3>6, <4>1 DEF ValidateRecord
      <4>3. PICK v : /\ task' = [task EXCEPT ![p] = v]
                     /\ \/ v = [t EXCEPT !.pc = pc, !.listed = {}, !.current = {}]
                        \/ v = [t EXCEPT !.pc = "failed"]
        BY <1>1, <4>2 DEF Go, Abort
      <4>4. v.pc # "drop"
        BY <1>2, <4>1, <4>3 DEF Tasks
      <4> QED
        BY <1>1, <1>2, <4>3, <4>4
    <3>7. CASE SaveSeedZone(p)
      BY <1>1, <1>2, <3>7 DEF SaveSeedZone, Tasks
    <3>8. CASE SaveSeedRecord(p)
      BY <1>1, <1>2, <3>8 DEF SaveSeedRecord, Tasks
    <3> QED
      BY <2>4, <3>1, <3>2, <3>3, <3>4, <3>5, <3>6, <3>7, <3>8 DEF WorkStep
  <2> QED
    BY <1>5, <2>1, <2>2, <2>3, <2>4
<1> QED
  BY <1>1, <1>3, <1>4, <1>5 DEF Kept

\* And an import goes on zones first.
LEMMA WorkSeeds ==
    ASSUME ManagerInv, NEW p \in Writers, Course(task[p]), CallOfTask(task[p], call[p]), WorkStep(p),
           Leads(p), NEW known0, NEW old, Seeded(task[p], call[p], known0, old, zones, records)
    PROVE  Seeded(task'[p], call'[p], known0, old, zones', records')
<1>1. PICK t, c, u, d : t = task[p] /\ c = call[p] /\ u = task'[p] /\ d = call'[p]
  OBVIOUS
<1>2. /\ t \in Tasks /\ c \in Calls /\ TaskShape(t) /\ CallOfTask(t, c)
      /\ Seeded(t, c, known0, old, zones, records) /\ u.op = t.op /\ TaskShape(u)
      /\ task \in [Writers -> Tasks] /\ call \in [Writers -> Calls]
  BY <1>1, ManagerStepAdvances DEF ManagerInv, StoreInv, StoreTypeOK, Leads, ManagerStep, Advances
<1>3. SUFFICES ASSUME u.pc = "seed" PROVE Seeded(u, d, known0, old, zones', records')
  BY <1>1 DEF Seeded
<1>4. /\ t.pc = "seed" /\ t.op = "ImportSeedData" /\ known0 \subseteq zones
      /\ KeysOf(old) \subseteq KeysOf(records)
      /\ {r.zone : r \in t.todo} \subseteq zones \cup t.seedZones
      /\ t.seedZones # {} => c.pc # "put" /\ records = old
  BY <1>2, <1>3 DEF TaskShape, Seeded
<1>5. CASE StoreStep(p) /\ UNCHANGED <<task, started>>
  <2>1. u = t /\ zones' = zones
    BY <1>1, <1>5 DEF StoreStep, PutRecord, ListRows, DropRow, Bump
  <2>2. c.pc \notin {"rows", "drop"}
    BY <1>2, <1>4 DEF CallOfTask
  <2>3. d.pc # "put"
    BY <1>1, <1>2, <1>5 DEF StoreStep, PutRecord, ListRows, DropRow, Bump, NoCall, Calls
  <2>4. \/ PutRecord(p) /\ c.pc = "put"
        \/ records' = records
    BY <1>1, <1>5, <2>2 DEF StoreStep, PutRecord, ListRows, DropRow, Bump
  <2>5. KeysOf(records) \subseteq KeysOf(records')
    <3>1. CASE PutRecord(p)
      <4>1. PICK r : records' = Put(records, r)
        BY <3>1 DEF PutRecord
      <4> QED
        BY <4>1 DEF KeysOf, Put
    <3> QED
      BY <2>4, <3>1
  <2> QED
    BY <1>4, <2>1, <2>3, <2>4, <2>5 DEF Seeded
<1>6. CASE SaveSeedZone(p)
  <2>1. PICK z \in t.seedZones : SaveZone(p, z) /\ task' = [task EXCEPT ![p].seedZones = @ \ {z}]
    BY <1>1, <1>6 DEF SaveSeedZone
  <2>2. u.todo = t.todo /\ u.seedZones = t.seedZones \ {z}
    BY <1>1, <1>2, <2>1 DEF Tasks
  <2>3. NormalizeZoneName(z) = z
    BY <1>2, <2>1, ZoneNormal DEF Tasks
  <2>4. zones' = zones \cup {z} /\ records' = records /\ d.pc # "put"
    BY <1>1, <1>2, <2>1, <2>3 DEF SaveZone, NoCall
  <2> QED
    BY <1>4, <2>1, <2>2, <2>4 DEF Seeded
<1>7. CASE SaveSeedRecord(p)
  <2>1. PICK r \in t.todo : SaveRecord(p, r) /\ task' = [task EXCEPT ![p].todo = @ \ {r}]
    BY <1>1, <1>7 DEF SaveSeedRecord
  <2>2. u.todo \subseteq t.todo /\ u.seedZones = {} /\ t.seedZones = {}
    BY <1>1, <1>2, <1>7, <2>1 DEF Tasks, SaveSeedRecord
  <2>3. zones \subseteq zones' /\ records' = records
    BY <2>1 DEF SaveRecord
  <2> QED
    BY <1>4, <2>2, <2>3 DEF Seeded
<1> QED
  BY <1>1, <1>4, <1>5, <1>6, <1>7 DEF WorkStep, ListKeys, ReadRow, ValidateRRSet, FindRRSet,
     DropRecord, Dropped, NextRecord, ValidateRecord

\* A failing transaction ends the method: the goroutine holds nothing, and the store is
\* what it was.
LEMMA StoreFailsLeaves ==
    ASSUME ManagerInv, NEW p \in Writers, StoreFails(p)
    PROVE  /\ ManagerInv' /\ SoloOK(task'[p], call'[p], records')
           /\ task'[p] = NoTask /\ call'[p] = NoCall /\ zones' = zones /\ records' = records
<1>1. /\ task' = [task EXCEPT ![p] = NoTask] /\ call' = [call EXCEPT ![p] = NoCall]
      /\ zones' = zones /\ records' = records /\ revision' = revision /\ started' = started
  BY DEF StoreFails
<1>2. task \in [Writers -> Tasks] /\ call \in [Writers -> Calls]
  BY DEF ManagerInv, StoreInv, StoreTypeOK
<1>3. /\ NoCall \in Calls /\ NoCall.pc = "idle" /\ NoCall.record = {} /\ NoCall.rows = {}
      /\ TaskShape(NoTask) /\ CallShape(NoCall) /\ SoloOK(NoTask, NoCall, records)
  BY NoTaskFacts, CallFacts DEF TaskShape, RRSetShape, CallShape, NoCall, Calls, SoloOK, CallOfTask,
     ListingExact, SetKnown, SetFits, Adding
<1>4. task'[p] = NoTask /\ call'[p] = NoCall
  BY <1>1, <1>2
<1>5. task' \in [Writers -> Tasks] /\ call' \in [Writers -> Calls]
  BY <1>1, <1>2, <1>3, NoTaskFacts
<1>6. \A q \in Writers : q # p => task'[q] = task[q] /\ call'[q] = call[q]
  BY <1>1, <1>2
<1>7. StoreInv'
  BY <1>1, <1>3, <1>4, <1>5, <1>6 DEF ManagerInv, StoreInv, StoreTypeOK, CallsInOneZone, BusyInZones
<1>8. ManagerInv'
  BY <1>1, <1>3, <1>4, <1>5, <1>6, <1>7 DEF ManagerInv
<1> QED
  BY <1>1, <1>3, <1>4, <1>8

\* What a method was doing when a transaction failed: nothing yet, the second transaction of
\* its only call, the deletion of a set, or an import; an UpsertRRSet apart.
LEMMA StoreFailsAt ==
    ASSUME ManagerInv, NEW p \in Writers, Course(task[p]), CallOfTask(task[p], call[p]),
           StoreFails(p), task[p].op # "UpsertRRSet"
    PROVE  \/ Untouched(task[p])
           \/ task[p].pc = "return" /\ call[p].pc \in {"put", "rows"}
           \/ /\ task[p].pc = "drop" /\ task[p].op \in {"DeleteRRSet", "DeleteName"}
              /\ call[p].pc = "idle"
           \/ task[p].pc = "seed" /\ call[p].pc \in {"idle", "put"}
<1>1. PICK t, c : t = task[p] /\ c = call[p]
  OBVIOUS
<1>2. /\ t \in Tasks /\ TaskShape(t) /\ Course(t) /\ CallOfTask(t, c) /\ t.op # "UpsertRRSet"
  BY <1>1 DEF ManagerInv
<1>3. \/ c.pc = "idle" /\ t.pc \in {"list", "read", "find"}
      \/ c.pc = "idle" /\ t.pc \in {"drop", "seed"}
      \/ c.pc \in {"put", "rows"}
  BY <1>1 DEF StoreFails
<1>4. CASE c.pc = "idle" /\ t.pc \in {"list", "read", "find"}
  BY <1>1, <1>2, <1>4 DEF Untouched
<1>5. CASE c.pc = "idle" /\ t.pc \in {"drop", "seed"}
  BY <1>1, <1>2, <1>5 DEF Course, RRSetCalls
<1>6. CASE c.pc = "put"
  <2>1. t.op \in {"UpsertRecord", "ImportSeedData"} /\ t.pc \in {"return", "seed"}
    BY <1>2, <1>6 DEF CallOfTask, Adding
  <2> QED
    BY <1>1, <1>6, <2>1
<1>7. CASE c.pc = "rows"
  <2>1. t.op = "DeleteZone"
    BY <1>2, <1>7 DEF CallOfTask
  <2>2. t.pc = "return"
    <3>1. t.pc \in {"idle", "list", "read", "find", "drop", "add", "seed", "return", "failed"}
      BY <1>2 DEF Tasks
    <3> QED
      BY <1>2, <2>1, <3>1 DEF TaskShape, Course, RRSetCalls
  <2> QED
    BY <1>1, <1>7, <2>2
<1> QED
  BY <1>3, <1>4, <1>5, <1>6, <1>7

\* What a method that knows the rest of its set has left is what was due.
LEMMA SettledDue ==
    ASSUME ManagerInv, NEW p \in Writers, Course(task[p]), SetKnown(task[p], call[p], records),
           Finished(p), call[p].pc = "idle", task[p].pc # "failed"
    PROVE  /\ RecordsDue(task[p], Landing(call[p], records)) = records
           /\ ZonesDue(task[p], zones) = zones
<1>1. PICK t : t = task[p]
  OBVIOUS
<1>2. PICK c : c = call[p]
  OBVIOUS
<1>3. /\ t \in Tasks /\ TaskShape(t) /\ Course(t) /\ SetKnown(t, c, records)
      /\ c.pc = "idle" /\ CallShape(c) /\ c.record = {} /\ t.pc # "failed"
  BY <1>1, <1>2 DEF ManagerInv, CallShape
<1>4. Landing(c, records) = records
  BY <1>3, Landed
<1>5. \/ t.pc = "return"
      \/ t.pc = "add" /\ t.todo = {}
      \/ t.pc = "seed" /\ t.seedZones = {} /\ t.todo = {}
  BY <1>1, <1>3 DEF Finished
<1>6. t.todo \cup t.current = {} /\ t.seedZones = {}
  BY <1>3, <1>5 DEF Course, TaskShape, RRSetShape
<1>7. ZonesDue(t, zones) = zones
  BY <1>6 DEF ZonesDue
<1>8. CASE t.op \in RRSetCalls
  <2>1. SetIn(records, t) = t.target
    BY <1>3, <1>5, <1>6, <1>8 DEF RRSetCalls, SetKnown, Adding, TaskShape, RRSetShape
  <2>2. \A r : r \in SetIn(records, t) <=> r \in records /\ InSet(r, t)
    BY DEF SetIn, LookupIn, RowKey, InSet
  <2>3. {r \in records : ~InSet(r, t)} \cup t.target = records
    BY <2>1, <2>2
  <2> QED
    BY <1>1, <1>2, <1>4, <1>7, <1>8, <2>3 DEF RecordsDue
<1>9. CASE t.op \notin RRSetCalls
  <2>1. Overlay(records, {}) = records
    BY DEF Overlay
  <2> QED
    BY <1>1, <1>2, <1>4, <1>6, <1>7, <1>9, <2>1 DEF RecordsDue
<1> QED
  BY <1>8, <1>9

\* A method that returns an error has made no store call, any other has left what was due.
LEMMA FinishedDue ==
    ASSUME ManagerInv, NEW p \in Writers, Course(task[p]), SoloOK(task[p], call[p], records),
           Finished(p), call[p].pc = "idle"
    PROVE  /\ task[p].pc = "failed" => Untouched(task[p])
           /\ task[p].pc # "failed" =>
                 /\ RecordsDue(task[p], Landing(call[p], records)) = records
                 /\ ZonesDue(task[p], zones) = zones
<1>1. task[p].pc = "failed" => Untouched(task[p])
  BY DEF Untouched, SoloOK, SetFits, ManagerInv, TaskShape, RRSetShape
<1> QED
  BY <1>1, SettledDue DEF SoloOK

-----------------------------------------------------------------------------
(* Methods that begin. *)

\* The method op begins, and makes the store these zones and records.
Bound(p, op, known, stored) ==
    /\ task'[p].op = op /\ task'[p].pc # "idle"
    /\ Course(task'[p]) /\ RowsKnown(call'[p], records')
    /\ RecordsDue(task'[p], Landing(call'[p], records')) = stored
    /\ ZonesDue(task'[p], zones') = known
    /\ Untouched(task'[p]) => zones' = zones /\ records' = records
    /\ Kept(task'[p], call'[p], records, records')
    /\ Seeded(task'[p], call'[p], zones, records, zones', records')

\* UpsertZone, DeleteZone and DeleteRecord are their store call.
LEMMA SingleBound ==
    ASSUME ManagerInv, NEW p \in Writers, NEW op \in {"UpsertZone", "DeleteZone", "DeleteRecord"},
           task' = [task EXCEPT ![p] = [NoTask EXCEPT !.op = op, !.pc = "return"]],
           NEW known, zones' = known, RowsKnown(call'[p], records'),
           NEW stored, Landing(call'[p], records') = stored,
           call'[p].pc \in {"put", "rows"} => records' = records
    PROVE  Bound(p, op, known, stored)
<1>1. PICK u : u = [NoTask EXCEPT !.op = op, !.pc = "return"]
  OBVIOUS
<1>2. /\ u.op = op /\ u.pc = "return" /\ u.todo = {} /\ u.current = {} /\ u.seedZones = {}
      /\ u.drops = {} /\ task'[p] = u
  BY <1>1, NoTaskFacts DEF Tasks, ManagerInv
<1>3. Course(u) /\ ~Untouched(u)
  BY <1>2 DEF Course, Untouched, UniqueKeys
<1>4. RecordsDue(u, stored) = stored /\ ZonesDue(u, known) = known
  BY <1>2 DEF RecordsDue, RRSetCalls, Overlay, ZonesDue
<1>5. /\ Kept(u, call'[p], records, records')
      /\ Seeded(u, call'[p], zones, records, zones', records')
  BY <1>2, <1>3 DEF Kept, Seeded
<1> QED
  BY <1>2, <1>3, <1>4, <1>5 DEF Bound

\* The first transaction of these calls writes its record only when it is the only one.
LEMMA FirstTransaction ==
    ASSUME ManagerInv, NEW p \in Writers, NEW raw,
           SaveZone(p, raw) \/ DeleteZone(p, raw) \/ DeleteRecord(p, raw)
    PROVE  call'[p].pc \in {"put", "rows"} => records' = records
<1>1. call \in [Writers -> Calls]
  BY DEF ManagerInv, StoreInv, StoreTypeOK
<1>2. SaveZone(p, raw) \/ DeleteZone(p, raw) => records' = records
  BY DEF SaveZone, DeleteZone
<1>3. DeleteRecord(p, raw) => call'[p].pc = "bump"
  BY <1>1 DEF DeleteRecord, NoCall
<1> QED
  BY <1>2, <1>3

\* UpsertZone adds its zone.
LEMMA UpsertZoneBound ==
    ASSUME ManagerInv, NEW p \in Writers, NEW raw, UpsertZone(p, raw)
    PROVE  Bound(p, "UpsertZone", zones \cup {NormalizeZoneName(raw)}, records)
BY SingleBound, CallLands, FirstTransaction DEF UpsertZone

\* DeleteZone removes its zone and the records in it.
LEMMA DeleteZoneBound ==
    ASSUME ManagerInv, NEW p \in Writers, NEW raw, ManagerDeleteZone(p, raw)
    PROVE  Bound(p, "DeleteZone", zones \ {NormalizeZoneName(raw)},
                 {r \in records : r.zone # NormalizeZoneName(raw)})
BY SingleBound, CallLands, FirstTransaction DEF ManagerDeleteZone

\* DeleteRecord removes the record of its key.
LEMMA DeleteRecordBound ==
    ASSUME ManagerInv, NEW p \in Writers, NEW raw, ManagerDeleteRecord(p, raw)
    PROVE  Bound(p, "DeleteRecord", zones, Without(records, NormalizeRecord(raw)))
BY SingleBound, CallLands, FirstTransaction DEF ManagerDeleteRecord

\* A method that begins with no store call.
LEMMA TaskBound ==
    ASSUME ManagerInv, NEW p \in Writers, call[p].pc = "idle",
           NEW u, Course(u), u.pc # "idle", NEW op, u.op = op,
           task' = [task EXCEPT ![p] = u], UNCHANGED storeVars,
           NEW known, ZonesDue(u, zones) = known, NEW stored, RecordsDue(u, records) = stored,
           u.pc = "seed" => {r.zone : r \in u.todo} \subseteq u.seedZones
    PROVE  Bound(p, op, known, stored)
<1>1. task'[p] = u /\ call' = call /\ zones' = zones /\ records' = records
  BY DEF storeVars, ManagerInv
<1>2. Landing(call[p], records) = records /\ RowsKnown(call[p], records)
  BY Landed DEF ManagerInv
<1>3. Kept(u, call[p], records, records) /\ Seeded(u, call[p], zones, records, zones, records)
  BY DEF Kept, Seeded
<1> QED
  BY <1>1, <1>2, <1>3 DEF Bound

\* UpsertRecord puts its record.
LEMMA UpsertRecordBound ==
    ASSUME ManagerInv, NEW p \in Writers, NEW raw, UpsertRecord(p, raw)
    PROVE  Bound(p, "UpsertRecord", zones \cup {NormalizeRecord(raw).zone},
                 Put(records, NormalizeRecord(raw)))
<1>1. PICK r : r = NormalizeRecord(raw)
  OBVIOUS
<1>2. PICK u : u = [NoTask EXCEPT !.op = "UpsertRecord", !.pc = "list", !.zone = r.zone,
                                  !.target = {r}, !.current = {r}]
  OBVIOUS
<1>3. task' = [task EXCEPT ![p] = u] /\ UNCHANGED storeVars /\ call[p].pc = "idle"
  BY <1>1, <1>2 DEF UpsertRecord, Begin
<1>4. /\ u.op = "UpsertRecord" /\ u.pc = "list" /\ u.todo = {} /\ u.current = {r}
      /\ u.drops = {} /\ u.seedZones = {}
  BY <1>2, NoTaskFacts DEF Tasks
<1>5. Course(u)
  BY <1>4 DEF Course, UniqueKeys
<1>6. RecordsDue(u, records) = Put(records, r) /\ ZonesDue(u, zones) = zones \cup {r.zone}
  BY <1>4 DEF RecordsDue, RRSetCalls, Overlay, Put, ZonesDue
<1> QED
  BY <1>1, <1>3, <1>4, <1>5, <1>6, TaskBound

\* DeleteRRSet and DeleteName leave the records outside the set.
LEMMA LookupBound ==
    ASSUME ManagerInv, NEW p \in Writers, NEW set
    PROVE  /\ DeleteRRSet(p, set) =>
                Bound(p, "DeleteRRSet", zones,
                      records \ LookupIn(records, Fold(set.zone), Fold(set.name), set.type, "ANY"))
           /\ DeleteName(p, set) =>
                Bound(p, "DeleteName", zones,
                      records \ LookupIn(records, Fold(set.zone), Fold(set.name), "ANY", "ANY"))
<1>1. ASSUME NEW op \in {"DeleteRRSet", "DeleteName"}, NEW type, NEW u,
             u = [NoTask EXCEPT !.op = op, !.pc = "find", !.zone = Fold(set.zone),
                                !.name = Fold(set.name), !.type = type],
             task' = [task EXCEPT ![p] = u], UNCHANGED storeVars, call[p].pc = "idle"
      PROVE  Bound(p, op, zones,
                   records \ LookupIn(records, Fold(set.zone), Fold(set.name), type, "ANY"))
  <2>1. /\ u.op = op /\ u.pc = "find" /\ u.zone = Fold(set.zone) /\ u.name = Fold(set.name)
        /\ u.type = type /\ u.target = {} /\ u.todo = {} /\ u.current = {} /\ u.drops = {}
        /\ u.seedZones = {}
    BY <1>1, NoTaskFacts DEF Tasks
  <2>2. Course(u)
    BY <2>1 DEF Course, UniqueKeys, RRSetCalls
  <2>3. \A r : InSet(r, u) <=> /\ RowKey(r) = <<Fold(set.zone), Fold(set.name)>>
                               /\ type = "ANY" \/ r.type = type
    BY <2>1 DEF InSet, RowKey
  <2>4. {r \in records : ~InSet(r, u)}
          = records \ LookupIn(records, Fold(set.zone), Fold(set.name), type, "ANY")
    BY <2>3 DEF LookupIn
  <2>5. /\ RecordsDue(u, records)
             = records \ LookupIn(records, Fold(set.zone), Fold(set.name), type, "ANY")
        /\ ZonesDue(u, zones) = zones
    BY <2>1, <2>4 DEF RecordsDue, RRSetCalls, ZonesDue
  <2> QED
    BY <1>1, <2>1, <2>2, <2>5, TaskBound
<1> QED
  BY <1>1 DEF DeleteRRSet, DeleteName, Begin

\* UpsertRRSet replaces the set by the records it keeps.
LEMMA UpsertRRSetBound ==
    ASSUME ManagerInv, NEW p \in Writers, NEW set, RRSetInUniverse(set), UpsertRRSet(p, set)
    PROVE  \E kept \in Deduped({normalizeRRSetRecord(set, r) : r \in set.records}) :
               /\ task'[p].target = kept
               /\ Bound(p, "UpsertRRSet", zones \cup {r.zone : r \in kept},
                        (records \ LookupIn(records, Fold(set.zone), Fold(set.name), set.type, "ANY"))
                            \cup kept)
<1>1. PICK kept \in Deduped({normalizeRRSetRecord(set, r) : r \in set.records}) :
          task' = [task EXCEPT ![p] =
                      [NoTask EXCEPT !.op = "UpsertRRSet", !.pc = "list",
                                     !.zone = Fold(set.zone), !.name = Fold(set.name),
                                     !.type = set.type, !.target = kept, !.todo = kept]]
  BY DEF UpsertRRSet
<1>2. PICK u : u = [NoTask EXCEPT !.op = "UpsertRRSet", !.pc = "list",
                                  !.zone = Fold(set.zone), !.name = Fold(set.name),
                                  !.type = set.type, !.target = kept, !.todo = kept]
  OBVIOUS
<1>3. /\ task' = [task EXCEPT ![p] = u] /\ UNCHANGED storeVars /\ RRSetAccepted(set)
      /\ call[p].pc = "idle"
  BY <1>1, <1>2 DEF UpsertRRSet, Begin
<1>4. UniqueKeys(kept)
  BY <1>3, RRSetRecords
<1>5. /\ u.op = "UpsertRRSet" /\ u.pc = "list" /\ u.zone = Fold(set.zone)
      /\ u.name = Fold(set.name) /\ u.type = set.type
      /\ u.target = kept /\ u.todo = kept /\ u.current = {} /\ u.drops = {} /\ u.seedZones = {}
  BY <1>2, NoTaskFacts DEF Tasks
<1>6. Course(u)
  BY <1>4, <1>5 DEF Course
<1>7. \A r : InSet(r, u) <=> /\ RowKey(r) = <<Fold(set.zone), Fold(set.name)>>
                             /\ set.type = "ANY" \/ r.type = set.type
  BY <1>5 DEF InSet, RowKey
<1>8. {r \in records : ~InSet(r, u)}
        = records \ LookupIn(records, Fold(set.zone), Fold(set.name), set.type, "ANY")
  BY <1>7 DEF LookupIn
<1>9. /\ RecordsDue(u, records)
           = (records \ LookupIn(records, Fold(set.zone), Fold(set.name), set.type, "ANY")) \cup kept
      /\ ZonesDue(u, zones) = zones \cup {r.zone : r \in kept}
  BY <1>5, <1>8 DEF RecordsDue, RRSetCalls, ZonesDue
<1>10. task'[p].target = kept
  BY <1>3, <1>5 DEF ManagerInv
<1> QED
  BY <1>3, <1>5, <1>6, <1>9, <1>10, TaskBound

\* ImportSeedData adds the zones of its seed and puts the records it keeps.
LEMMA ImportBound ==
    ASSUME ManagerInv, NEW p \in Writers, NEW seed, ImportSeedData(p, seed)
    PROVE  \E kept \in Deduped({NormalizeRecord(r) : r \in seed.records}) :
               Bound(p, "ImportSeedData", zones \cup SeedZones(seed), Overlay(records, kept))
<1>1. PICK kept \in Deduped({NormalizeRecord(r) : r \in seed.records}) :
          task' = [task EXCEPT ![p] =
                      [NoTask EXCEPT !.op = "ImportSeedData", !.pc = "seed", !.target = kept,
                                     !.todo = kept, !.seedZones = SeedZones(seed)]]
  BY DEF ImportSeedData
<1>2. PICK u : u = [NoTask EXCEPT !.op = "ImportSeedData", !.pc = "seed", !.target = kept,
                                  !.todo = kept, !.seedZones = SeedZones(seed)]
  OBVIOUS
<1>3. task' = [task EXCEPT ![p] = u] /\ UNCHANGED storeVars /\ call[p].pc = "idle"
  BY <1>1, <1>2 DEF ImportSeedData, Begin
<1>4. /\ u.op = "ImportSeedData" /\ u.pc = "seed" /\ u.todo = kept /\ u.current = {}
      /\ u.drops = {} /\ u.seedZones = SeedZones(seed)
  BY <1>2, NoTaskFacts DEF Tasks
<1>5. Course(u)
  BY <1>1, <1>4 DEF Course, UniqueKeys, Deduped
<1>6. {r.zone : r \in kept} \subseteq SeedZones(seed)
  BY <1>1 DEF Deduped, SeedZones
<1>7. RecordsDue(u, records) = Overlay(records, kept) /\ ZonesDue(u, zones) = zones \cup SeedZones(seed)
  BY <1>4, <1>6 DEF RecordsDue, RRSetCalls, ZonesDue
<1>8. {r.zone : r \in u.todo} \subseteq u.seedZones
  BY <1>4, <1>6
<1> QED
  BY <1>1, <1>3, <1>4, <1>5, <1>7, <1>8, TaskBound

-----------------------------------------------------------------------------
(* The handlers. *)

\* Messages and requests in hand are ones that arrived.
UpdateShape(u) ==
    /\ DOMAIN u = DOMAIN NoUpdate
    /\ u.pc \in {"idle", "apply", "reply"}
    /\ u.next \in Nat \ {0}
    /\ u.pc # "idle" => u.message \in Messages

After(u, k) == AfterRRs(u.before, u.message)[k]

\* The methods that an RR may call.
RRCall(op, rr) ==
    \/ op \in {"DeleteName", "DeleteRRSet"} /\ rr.class = "ANY"
    \/ op \in {"DeleteRecord", "UpsertRecord"}

\* Of the set or name that an RR deletes, a part is gone.
Torn(u, stored) ==
    /\ u.pc = "reply" /\ u.broken /\ u.message.rrs[u.next].class = "ANY"
    /\ After(u, u.next) \subseteq stored /\ stored \subseteq After(u, u.next - 1)

\* Between its RRs an update has made the store what its RRs so far make of it, and within
\* one, that is what the method at work is bound for.
UpdateOK(u, t, c, stored) ==
    /\ UpdateShape(u)
    /\ u.pc # "idle" /\ t.pc = "idle" => stored = After(u, u.next - 1) \/ Torn(u, stored)
    /\ u.pc # "idle" /\ t.pc # "idle" =>
          /\ u.pc = "apply" /\ u.next <= Len(u.message.rrs)
          /\ RRCall(t.op, u.message.rrs[u.next])
          /\ RecordsDue(t, Landing(c, stored)) = After(u, u.next)
          /\ Kept(t, c, After(u, u.next - 1), stored)

AdminShape(a) ==
    /\ DOMAIN a = DOMAIN NoExchange
    /\ a.pc \in {"idle", "call", "wait", "respond"}
    /\ a.pc \in {"call", "wait"} =>
          a.status = 200 /\ ~a.broken /\ RequestInUniverse(a.request)

KeysOutside(keys, zone) == {k \in keys : k[1] # zone}
RecordsOutside(stored, zone) == {r \in stored : r.zone # zone}

\* Without its type and class a filter is one of zone and name.
Wide(filter) == [filter EXCEPT !.type = "ANY", !.class = "ANY"]

\* Every record in the rows of the filter has been read, or its row has yet to be.
Listing(t, stored, filter) ==
    /\ t.listed \subseteq stored
    /\ \A r \in stored :
          RecordMatchesFilter(r, Wide(filter)) => r \in t.listed \/ RowKey(r) \in t.rows

\* What StatusTruthful says of a response.
Truthful(a, known, stored) ==
    LET now == <<known, KeysOf(stored)>>
    IN  CASE a.request.method # "GET" /\ a.status = 200 -> now = Written(a)
          [] a.request.method # "GET" /\ a.status # 200 /\ a.broken -> Interrupted(a, now)
          [] OTHER ->
                /\ now = <<a.zonesBefore, KeysOf(a.recordsBefore)>>
                /\ a.status = 200 /\ a.request.path = "/zones" => a.listing = known
                /\ a.status = 200 /\ a.request.path = "/records" =>
                      a.listing = {r \in stored : RecordMatchesFilter(r, a.request.arg)}

\* The methods that a writing request may call.
WriteCall(op, request) ==
    /\ op \notin RRSetCalls
    /\ op = "ImportSeedData" => request.path = "/seed/import"

\* Until the Manager is called the store is as the request found it; the call is bound to
\* leave what the request asks for.
AdminOK(a, t, c, known, stored) ==
    /\ AdminShape(a)
    /\ a.pc = "call" => known = a.zonesBefore /\ stored = a.recordsBefore
    /\ a.pc = "wait" =>
          /\ t.pc # "idle"
          /\ IF t.op = "ListRecords"
             THEN /\ a.request.method = "GET" /\ a.request.path = "/records"
                  /\ Listing(t, stored, a.request.arg)
             ELSE /\ a.request.method # "GET" /\ WriteCall(t.op, a.request)
                  /\ <<ZonesDue(t, known), KeysOf(RecordsDue(t, Landing(c, stored)))>> = Written(a)
                  /\ Kept(t, c, a.recordsBefore, stored)
                  /\ Seeded(t, c, a.zonesBefore, a.recordsBefore, known, stored)
          /\ Untouched(t) => known = a.zonesBefore /\ stored = a.recordsBefore
    /\ a.pc = "respond" => Truthful(a, known, stored)

FrontOK(u, a, t, c, known, stored) ==
    /\ Course(t) /\ RowsKnown(c, stored)
    /\ u.pc = "idle" \/ a.pc = "idle"
    /\ t.pc # "idle" => a.pc = "wait" \/ u.pc = "apply"
    /\ UpdateOK(u, t, c, stored)
    /\ AdminOK(a, t, c, known, stored)

FrontInv ==
    /\ DOMAIN update = Writers /\ DOMAIN admin = Writers
    /\ \A p \in Writers : FrontOK(update[p], admin[p], task[p], call[p], zones, records)

\* Every nonempty set of naturals has a least element.
LEMMA SmallestNat ==
    ASSUME NEW T \in SUBSET Nat, T # {}
    PROVE  \E n \in T : \A m \in T : n <= m
<1>1. PICK n \in T : \A m \in T : ~(<<m, n>> \in OpToRel(<, Nat))
  BY NatLessThanWellFounded, WFMin
<1>2. \A m \in T : ~(m < n)
  BY <1>1 DEF OpToRel
<1> QED
  BY <1>2

\* The records after each of the first n RRs.
IsTrail(f, stored, zone, rrs, n) ==
    f = [k \in 0 .. n |-> IF k = 0 THEN stored ELSE Effect(f[k - 1], zone, rrs[k])]

\* They are defined up to the last RR.
LEMMA TrailExists ==
    ASSUME NEW stored, NEW zone, NEW rrs, Len(rrs) \in Nat
    PROVE  \A n \in 0 .. Len(rrs) : \E f : IsTrail(f, stored, zone, rrs, n)
<1> DEFINE bad == {n \in 0 .. Len(rrs) : ~ \E f : IsTrail(f, stored, zone, rrs, n)}
<1>1. ASSUME bad # {} PROVE FALSE
  <2>1. bad \in SUBSET Nat
    OBVIOUS
  <2>2. PICK n \in bad : \A m \in bad : n <= m
    <3> HIDE DEF bad
    <3> QED
      BY <1>1, <2>1, SmallestNat
  <2>3. n \in Nat /\ n <= Len(rrs)
    BY <2>2
  <2>4. CASE n = 0
    <3> DEFINE f == [k \in 0 .. 0 |-> stored]
    <3>1. f = [k \in 0 .. 0 |-> IF k = 0 THEN stored ELSE Effect(f[k - 1], zone, rrs[k])]
      OBVIOUS
    <3> QED
      BY <2>2, <2>4, <3>1 DEF IsTrail
  <2>5. CASE n > 0
    <3>1. PICK g : IsTrail(g, stored, zone, rrs, n - 1)
      <4>1. n - 1 \in 0 .. Len(rrs) /\ ~(n <= n - 1)
        BY <2>3, <2>5
      <4>2. n - 1 \notin bad
        <5> HIDE DEF bad
        <5> QED
          BY <2>2, <4>1
      <4> QED
        BY <4>1, <4>2
    <3> DEFINE f == [k \in 0 .. n |-> IF k = n THEN Effect(g[n - 1], zone, rrs[n]) ELSE g[k]]
    <3>2. IsTrail(f, stored, zone, rrs, n)
      BY <2>3, <2>5, <3>1 DEF IsTrail
    <3> QED
      BY <2>2, <3>2
  <2> QED
    BY <2>3, <2>4, <2>5
<1> QED
  BY <1>1

\* Each RR has its effect on what the RRs before it have left.
LEMMA AfterFacts ==
    ASSUME NEW stored, NEW m, Len(m.rrs) \in Nat
    PROVE  /\ AfterRRs(stored, m)[0] = stored
           /\ \A k \in 1 .. Len(m.rrs) : AfterRRs(stored, m)[k] =
                 Effect(AfterRRs(stored, m)[k - 1], Fold(m.zone), m.rrs[k])
<1>1. PICK n : n = Len(m.rrs)
  OBVIOUS
<1> DEFINE trail == CHOOSE f : IsTrail(f, stored, Fold(m.zone), m.rrs, n)
<1>2. \E f : IsTrail(f, stored, Fold(m.zone), m.rrs, n)
  <2>1. n \in 0 .. Len(m.rrs)
    BY <1>1
  <2> HIDE DEF trail
  <2> QED
    BY <2>1, TrailExists
<1>3. IsTrail(trail, stored, Fold(m.zone), m.rrs, n)
  BY <1>2
<1>4. AfterRRs(stored, m) = trail
  BY <1>1 DEF AfterRRs, IsTrail
<1> HIDE DEF trail
<1> QED
  BY <1>1, <1>3, <1>4 DEF IsTrail

\* A zone that is folded twice makes no other record.
LEMMA RecordOfFolded ==
    ASSUME NEW zone \in Texts, NEW rr
    PROVE  NormalizeRecord(RecordOf(Fold(zone), rr)) = NormalizeRecord(RecordOf(zone, rr))
<1>1. Fold(Fold(zone)) = Fold(zone)
  BY FoldText
<1>2. PICK class : class = IF rr.class = "NONE" THEN "IN" ELSE rr.class
  OBVIOUS
<1>3. PICK r, s : r = RecordOf(zone, rr) /\ s = RecordOf(Fold(zone), rr)
  OBVIOUS
<1>4. /\ DOMAIN r = {"zone", "name", "ttl", "type", "data", "class"}
      /\ r.zone = zone /\ s.zone = Fold(zone) /\ r.name = s.name /\ r.class = s.class
      /\ s = [r EXCEPT !.zone = Fold(zone)]
  BY <1>2, <1>3 DEF RecordOf
<1>5. PICK normal : normal = IF r.class = "none" THEN "IN" ELSE r.class
  OBVIOUS
<1>6. /\ NormalizeRecord(r) = [r EXCEPT !.zone = Fold(r.zone), !.name = Fold(r.name), !.class = normal]
      /\ NormalizeRecord(s) = [s EXCEPT !.zone = Fold(s.zone), !.name = Fold(s.name), !.class = normal]
  <2>1. NormalizeRecord(r) = [r EXCEPT !.zone = Fold(r.zone), !.name = Fold(r.name), !.class = normal]
    BY <1>5, Zenon DEF NormalizeRecord, NormalizeZoneName
  <2>2. normal = IF s.class = "none" THEN "IN" ELSE s.class
    BY <1>4, <1>5
  <2>3. NormalizeRecord(s) = [s EXCEPT !.zone = Fold(s.zone), !.name = Fold(s.name), !.class = normal]
    BY <2>2, Zenon DEF NormalizeRecord, NormalizeZoneName
  <2> QED
    BY <2>1, <2>3
<1>7. ASSUME NEW z, NEW n
      PROVE  [s EXCEPT !.zone = z, !.name = n, !.class = normal]
               = [r EXCEPT !.zone = z, !.name = n, !.class = normal]
  BY <1>4
<1>8. PICK z, n : z = Fold(r.zone) /\ n = Fold(r.name)
  OBVIOUS
<1>9. Fold(s.zone) = z /\ Fold(s.name) = n
  BY <1>1, <1>4, <1>8
<1>10. /\ NormalizeRecord(r) = [r EXCEPT !.zone = z, !.name = n, !.class = normal]
       /\ NormalizeRecord(s) = [s EXCEPT !.zone = z, !.name = n, !.class = normal]
  BY <1>6, <1>8, <1>9, Zenon
<1>11. NormalizeRecord(r) = NormalizeRecord(s)
  BY <1>7, <1>10
<1> QED
  BY <1>3, <1>11

\* The method that is called for an RR is bound to have its effect.
LEMMA RRBound ==
    ASSUME ManagerInv, NEW p \in Writers, NEW zone \in Texts, NEW rr, RRInUniverse(zone, rr),
           \/ rr.class = "ANY" /\ rr.type = "ANY" /\ DeleteName(p, RRSetOf(zone, rr))
           \/ rr.class = "ANY" /\ rr.type # "ANY" /\ DeleteRRSet(p, RRSetOf(zone, rr))
           \/ rr.class = "NONE" /\ ManagerDeleteRecord(p, RecordOf(zone, rr))
           \/ rr.class \notin {"ANY", "NONE"} /\ UpsertRecord(p, RecordOf(zone, rr))
    PROVE  /\ \E op, known : /\ Bound(p, op, known, Effect(records, Fold(zone), rr))
                              /\ RRCall(op, rr)
           /\ ManagerStep(p)
<1>1. PICK n : n = NormalizeRecord(RecordOf(zone, rr))
  OBVIOUS
<1>2. Effect(records, Fold(zone), rr) =
          IF rr.class = "ANY"
          THEN records \ LookupIn(records, Fold(zone), Fold(rr.name), rr.type, "ANY")
          ELSE IF rr.class = "NONE" THEN Without(records, n) ELSE Put(records, n)
  <2>1. NormalizeRecord(RecordOf(Fold(zone), rr)) = n
    BY <1>1, RecordOfFolded
  <2> QED
    BY <2>1 DEF Effect
<1>3. PICK stored : stored = Effect(records, Fold(zone), rr)
  OBVIOUS
<1>4. PICK set : set = RRSetOf(zone, rr)
  OBVIOUS
<1>5. set.zone = zone /\ set.name = rr.name /\ set.type = rr.type
  BY <1>4 DEF RRSetOf
<1>6. CASE rr.class = "ANY" /\ rr.type = "ANY" /\ DeleteName(p, set)
  <2>1. Bound(p, "DeleteName", zones, stored)
    BY <1>2, <1>3, <1>5, <1>6, LookupBound
  <2>2. RRSetInUniverse(set)
    BY <1>4, <1>6 DEF RRInUniverse
  <2> QED
    BY <1>3, <1>6, <2>1, <2>2 DEF ManagerStep, StartsCall, RRCall
<1>7. CASE rr.class = "ANY" /\ DeleteRRSet(p, set)
  <2>1. Bound(p, "DeleteRRSet", zones, stored)
    BY <1>2, <1>3, <1>5, <1>7, LookupBound
  <2>2. RRSetInUniverse(set)
    BY <1>4, <1>7 DEF RRInUniverse
  <2> QED
    BY <1>3, <1>7, <2>1, <2>2 DEF ManagerStep, StartsCall, RRCall
<1>8. CASE rr.class = "NONE" /\ ManagerDeleteRecord(p, RecordOf(zone, rr))
  <2>1. Bound(p, "DeleteRecord", zones, stored)
    BY <1>1, <1>2, <1>3, <1>8, DeleteRecordBound
  <2>2. RecordAccepted(RecordOf(zone, rr)) => NormalizeRecord(RecordOf(zone, rr)) \in Records
    BY <1>8 DEF RRInUniverse
  <2> QED
    BY <1>3, <1>8, <2>1, <2>2 DEF ManagerStep, StartsCall, RRCall
<1>9. CASE rr.class \notin {"ANY", "NONE"} /\ UpsertRecord(p, RecordOf(zone, rr))
  <2>1. Bound(p, "UpsertRecord", zones \cup {n.zone}, stored)
    BY <1>1, <1>2, <1>3, <1>9, UpsertRecordBound
  <2>2. RecordAccepted(RecordOf(zone, rr)) => NormalizeRecord(RecordOf(zone, rr)) \in Records
    BY <1>9 DEF RRInUniverse
  <2> QED
    BY <1>3, <1>9, <2>1, <2>2 DEF ManagerStep, StartsCall, RRCall
<1> QED
  BY <1>4, <1>6, <1>7, <1>8, <1>9

\* A goroutine that handles no message or no request.
LEMMA IdleHandlers ==
    ASSUME NEW x, NEW t, NEW c, NEW known, NEW stored, x.pc = "idle"
    PROVE  /\ UpdateShape(x) => UpdateOK(x, t, c, stored)
           /\ AdminShape(x) => AdminOK(x, t, c, known, stored)
BY DEF UpdateOK, AdminOK

\* No method is at work outside a call.
LEMMA NoWork ==
    ASSUME ManagerInv, SoloInv, NEW p \in Writers, task[p].pc = "idle"
    PROVE  ~WorkStep(p)
<1>1. call[p].pc = "idle" /\ task[p] \in Tasks
  BY DEF SoloInv, SoloOK, CallOfTask, ManagerInv
<1>2. ~StoreStep(p)
  BY <1>1 DEF StoreStep, PutRecord, ListRows, DropRow, Bump
<1> QED
  BY <1>2 DEF WorkStep, ListKeys, ReadRow, ValidateRRSet, FindRRSet, DropRecord, Dropped,
              NextRecord, ValidateRecord, SaveSeedZone, SaveSeedRecord

\* A method at work does not return by itself.
LEMMA WorkStays ==
    ASSUME ManagerInv, NEW p \in Writers, task[p].pc # "idle", Course(task[p]),
           WorkStep(p), Leads(p)
    PROVE  task'[p].pc # "idle"
<1>1. TaskShape(task'[p])
  BY ManagerStepAdvances DEF ManagerStep, Advances
<1> QED
  BY <1>1 DEF Leads, Course, TaskShape

\* The goroutine p and its handlers, before and after a step.
FrontHere(p) == FrontOK(update[p], admin[p], task[p], call[p], zones, records)
FrontNow(p) == FrontOK(update'[p], admin'[p], task'[p], call'[p], zones', records')

\* A step of the handlers is one of the Manager, a failure of the store or neither.
FrontMoves(p) ==
    /\ ManagerStep(p) \/ StoreFails(p) \/ UNCHANGED managerVars
    /\ DOMAIN update' = Writers /\ DOMAIN admin' = Writers
    /\ FrontNow(p)

\* What the handler knows before a step, and the fields of its update.
LEMMA FrontFacts ==
    ASSUME ManagerInv, SoloInv, FrontInv, NEW p \in Writers
    PROVE  /\ FrontHere(p)
           /\ DOMAIN update = Writers /\ DOMAIN admin = Writers
           /\ update[p].pc = "idle" /\ admin[p].pc # "wait" => task[p].pc = "idle"
           /\ DOMAIN NoUpdate = {"pc", "message", "next", "rcode", "broken", "before"}
           /\ DOMAIN NoExchange = {"pc", "request", "status", "listing", "broken",
                                   "zonesBefore", "recordsBefore"}
<1>1. FrontHere(p)
  BY DEF FrontInv, FrontHere
<1>2. update[p].pc = "idle" /\ admin[p].pc # "wait" => task[p].pc = "idle"
  BY <1>1 DEF FrontHere, FrontOK
<1> QED
  BY <1>1, <1>2 DEF FrontInv, NoUpdate, NoExchange

\* A message arrives.
LEMMA ServeUpdateMoves ==
    ASSUME ManagerInv, SoloInv, FrontInv, NEW p \in Writers, admin[p].pc = "idle",
           UNCHANGED <<admin, requests>>, NEW m \in Messages, ServeUpdate(p, m)
    PROVE  FrontMoves(p)
<1>1. PICK a, t, c : a = admin[p] /\ t = task[p] /\ c = call[p]
  OBVIOUS
<1>2. /\ FrontOK(update[p], a, t, c, zones, records) /\ t.pc = "idle" /\ a.pc = "idle"
      /\ DOMAIN update = Writers /\ DOMAIN admin = Writers
      /\ DOMAIN NoUpdate = {"pc", "message", "next", "rcode", "broken", "before"}
  BY <1>1, FrontFacts DEF FrontHere, ServeUpdate, HandleMessage
<1>3. PICK pc : pc = IF Verdict(m) = "SUCCESS" THEN "apply" ELSE "reply"
  OBVIOUS
<1>4. PICK rcode : rcode = Verdict(m)
  OBVIOUS
<1>5. update' = [update EXCEPT ![p] = [NoUpdate EXCEPT !.pc = pc, !.message = m, !.rcode = rcode,
                                                     !.before = records]]
  BY <1>3, <1>4, Zenon DEF ServeUpdate, HandleMessage
<1>6. PICK u : u = [NoUpdate EXCEPT !.pc = pc, !.message = m, !.rcode = rcode, !.before = records]
  OBVIOUS
<1>7. /\ u.pc = pc /\ u.message = m /\ u.next = 1 /\ u.before = records
      /\ DOMAIN u = DOMAIN NoUpdate
  BY <1>6 DEF NoUpdate
<1>8. Len(m.rrs) \in Nat
  BY MessagesAssumption
<1>9. UpdateOK(u, t, c, records)
  <2>1. After(u, u.next - 1) = records
    BY <1>7, <1>8, AfterFacts DEF After
  <2>2. UpdateShape(u)
    BY <1>3, <1>7 DEF UpdateShape
  <2> QED
    BY <1>2, <2>1, <2>2 DEF UpdateOK
<1>10. FrontOK(u, a, t, c, zones, records)
  BY <1>2, <1>9 DEF FrontOK
<1>11. update'[p] = u /\ DOMAIN update' = Writers /\ admin' = admin /\ UNCHANGED managerVars
  BY <1>2, <1>5, <1>6 DEF ServeUpdate, HandleMessage
<1>12. task' = task /\ call' = call /\ zones' = zones /\ records' = records
  BY <1>11 DEF managerVars
<1> QED
  BY <1>1, <1>2, <1>10, <1>11, <1>12 DEF FrontMoves, FrontNow

\* The Manager's method for an RR begins.
LEMMA ApplyRRMoves ==
    ASSUME ManagerInv, SoloInv, FrontInv, NEW p \in Writers, admin[p].pc = "idle",
           UNCHANGED <<admin, requests>>, ApplyRR(p)
    PROVE  FrontMoves(p)
<1>1. PICK u, a : u = update[p] /\ a = admin[p]
  OBVIOUS
<1>2. /\ FrontOK(u, a, task[p], call[p], zones, records)
      /\ DOMAIN update = Writers /\ DOMAIN admin = Writers
  BY <1>1, FrontFacts DEF FrontHere
<1>3. PICK m \in Messages : m = u.message
  BY <1>1, <1>2 DEF FrontOK, UpdateOK, UpdateShape, ApplyRR, AtRR
<1>4. PICK k \in 1 .. Len(m.rrs) : k = u.next
  BY <1>1, <1>2, <1>3, MessagesAssumption DEF FrontOK, UpdateOK, UpdateShape, ApplyRR, AtRR
<1>5. PICK rr : rr = m.rrs[k]
  OBVIOUS
<1>6. m.zone \in Texts /\ Len(m.rrs) \in Nat /\ RRInUniverse(m.zone, rr)
  BY <1>4, <1>5, MessagesAssumption
<1>7. /\ u.pc = "apply" /\ task[p].pc = "idle" /\ update' = update /\ admin' = admin
      /\ \/ rr.class = "ANY" /\ rr.type = "ANY" /\ DeleteName(p, RRSetOf(m.zone, rr))
         \/ rr.class = "ANY" /\ rr.type # "ANY" /\ DeleteRRSet(p, RRSetOf(m.zone, rr))
         \/ rr.class = "NONE" /\ ManagerDeleteRecord(p, RecordOf(m.zone, rr))
         \/ rr.class \notin {"ANY", "NONE"} /\ UpsertRecord(p, RecordOf(m.zone, rr))
  BY <1>1, <1>3, <1>4, <1>5 DEF ApplyRR, AtRR, CurrentRR
<1>8. records = After(u, k - 1)
  BY <1>2, <1>4, <1>7 DEF FrontOK, UpdateOK, Torn
<1>9. PICK stored : stored = Effect(records, Fold(m.zone), rr)
  OBVIOUS
<1>10. stored = After(u, k)
  BY <1>3, <1>4, <1>5, <1>6, <1>8, <1>9, AfterFacts DEF After
<1>11. (\E op, known : Bound(p, op, known, stored) /\ RRCall(op, rr)) /\ ManagerStep(p)
  BY <1>6, <1>7, <1>9, RRBound
<1>12. PICK t, c : t = task'[p] /\ c = call'[p]
  OBVIOUS
<1>13. /\ Course(t) /\ RowsKnown(c, records') /\ t.pc # "idle"
       /\ RecordsDue(t, Landing(c, records')) = After(u, u.next)
       /\ Kept(t, c, After(u, u.next - 1), records')
       /\ RRCall(t.op, u.message.rrs[u.next])
  BY <1>3, <1>4, <1>5, <1>8, <1>10, <1>11, <1>12 DEF Bound
<1>14. UpdateOK(u, t, c, records') /\ AdminOK(a, t, c, zones', records')
  BY <1>1, <1>2, <1>3, <1>4, <1>7, <1>13, IdleHandlers DEF FrontOK, UpdateOK, AdminOK
<1>15. FrontOK(u, a, t, c, zones', records')
  BY <1>1, <1>7, <1>13, <1>14 DEF FrontOK
<1> QED
  BY <1>1, <1>2, <1>7, <1>11, <1>12, <1>15 DEF FrontMoves, FrontNow

\* The method for an RR returns, and with an error the update ends.
LEMMA RRReturnedMoves ==
    ASSUME ManagerInv, SoloInv, FrontInv, NEW p \in Writers, admin[p].pc = "idle",
           UNCHANGED <<admin, requests>>, RRReturned(p)
    PROVE  FrontMoves(p)
<1>1. PICK u, a, t, c : u = update[p] /\ a = admin[p] /\ t = task[p] /\ c = call[p]
  OBVIOUS
<1>2. /\ FrontOK(u, a, t, c, zones, records)
      /\ DOMAIN update = Writers /\ DOMAIN admin = Writers
      /\ DOMAIN NoUpdate = {"pc", "message", "next", "rcode", "broken", "before"}
  BY <1>1, FrontFacts DEF FrontHere
<1>3. PICK v : v = IF t.pc = "failed" THEN [u EXCEPT !.pc = "reply", !.rcode = "SERVFAIL"]
                                      ELSE [u EXCEPT !.next = u.next + 1]
  OBVIOUS
<1>4. update' = [update EXCEPT ![p] = v]
  BY <1>1, <1>2, <1>3 DEF RRReturned
<1>5. /\ Finished(p) /\ c.pc = "idle" /\ u.pc = "apply" /\ a.pc = "idle"
      /\ admin' = admin /\ Go(p, NoTask) /\ t \in Tasks /\ TaskShape(t)
      /\ SoloOK(t, c, records) /\ CallShape(c)
  BY <1>1 DEF RRReturned, Return, ManagerInv, SoloInv
<1>6. t.pc # "idle"
  BY <1>1, <1>5 DEF Finished
<1>7. /\ u.next \in Nat \ {0} /\ DOMAIN u = DOMAIN NoUpdate /\ u.message \in Messages
      /\ u.next <= Len(u.message.rrs)
      /\ RecordsDue(t, Landing(c, records)) = After(u, u.next)
      /\ Untouched(t) => records = After(u, u.next - 1)
      /\ Course(t)
  BY <1>2, <1>5, <1>6 DEF FrontOK, UpdateOK, UpdateShape, Kept
<1>8. /\ t.pc = "failed" => records = After(u, u.next - 1)
      /\ t.pc # "failed" => records = After(u, u.next)
  BY <1>1, <1>5, <1>7, FinishedDue
<1>9. /\ v.before = u.before /\ v.message = u.message /\ v.pc \in {"apply", "reply"}
      /\ DOMAIN v = DOMAIN NoUpdate
      /\ v.next = IF t.pc = "failed" THEN u.next ELSE u.next + 1
  BY <1>2, <1>3, <1>5, <1>7
<1>10. records = After(v, v.next - 1)
  BY <1>7, <1>8, <1>9 DEF After
<1>11. UpdateOK(v, NoTask, c, records)
  BY <1>7, <1>9, <1>10, NoTaskFacts DEF UpdateOK, UpdateShape
<1>12. Course(NoTask) /\ RowsKnown(c, records) /\ AdminOK(a, NoTask, c, zones, records)
  BY <1>2, <1>5, NoTaskFacts, Landed, IdleHandlers DEF Course, UniqueKeys, FrontOK, AdminOK
<1>13. FrontOK(v, a, NoTask, c, zones, records)
  BY <1>5, <1>9, <1>11, <1>12, NoTaskFacts DEF FrontOK
<1>14. /\ task'[p] = NoTask /\ call' = call /\ zones' = zones /\ records' = records
       /\ update'[p] = v /\ DOMAIN update' = Writers
  BY <1>2, <1>4, <1>5 DEF Go, storeVars, ManagerInv
<1> QED
  BY <1>1, <1>2, <1>5, <1>13, <1>14 DEF FrontMoves, FrontNow, ManagerStep

\* An RR is refused, or the reply is written.
LEMMA ReplyMoves ==
    ASSUME ManagerInv, SoloInv, FrontInv, NEW p \in Writers, admin[p].pc = "idle",
           UNCHANGED <<admin, requests>>, RRRefused(p) \/ WriteReply(p)
    PROVE  FrontMoves(p)
<1>1. PICK u, a, t, c : u = update[p] /\ a = admin[p] /\ t = task[p] /\ c = call[p]
  OBVIOUS
<1>2. /\ FrontOK(u, a, t, c, zones, records)
      /\ DOMAIN update = Writers /\ DOMAIN admin = Writers
      /\ DOMAIN NoUpdate = {"pc", "message", "next", "rcode", "broken", "before"}
  BY <1>1, FrontFacts DEF FrontHere
<1>3. UNCHANGED managerVars /\ admin' = admin
  BY DEF RRRefused, WriteReply
<1>4. task' = task /\ call' = call /\ zones' = zones /\ records' = records
  BY <1>3 DEF managerVars
<1>5. PICK v : v = update'[p]
  OBVIOUS
<1>6. DOMAIN update' = Writers /\ t.pc = "idle" /\ UpdateOK(v, t, c, records)
  <2>1. CASE RRRefused(p)
    <3>1. /\ v = [u EXCEPT !.pc = "reply", !.rcode = "SERVFAIL"] /\ DOMAIN update' = Writers
          /\ t.pc = "idle" /\ u.pc = "apply"
      BY <1>1, <1>2, <1>5, <2>1 DEF RRRefused, AtRR
    <3>2. UpdateShape(u) /\ records = After(u, u.next - 1)
      BY <1>2, <3>1 DEF FrontOK, UpdateOK, Torn
    <3>3. /\ v.before = u.before /\ v.message = u.message /\ v.next = u.next
          /\ v.pc = "reply" /\ DOMAIN v = DOMAIN NoUpdate
      BY <1>2, <3>1, <3>2 DEF UpdateShape
    <3>4. UpdateOK(v, t, c, records)
      BY <3>1, <3>2, <3>3 DEF UpdateOK, UpdateShape, After
    <3> QED
      BY <3>1, <3>4
  <2>2. CASE WriteReply(p)
    <3>1. v = NoUpdate /\ DOMAIN update' = Writers
      BY <1>2, <1>5, <2>2 DEF WriteReply
    <3>2. t.pc = "idle"
      <4>1. u.pc = "reply" \/ (u.pc = "apply" /\ u.next > Len(u.message.rrs))
        BY <1>1, <2>2 DEF WriteReply, Answered
      <4>2. u.next \in Nat /\ u.message \in Messages
        BY <1>2, <4>1 DEF FrontOK, UpdateOK, UpdateShape
      <4>3. Len(u.message.rrs) \in Nat
        BY <4>2, MessagesAssumption
      <4> QED
        BY <1>2, <4>1, <4>2, <4>3 DEF FrontOK, UpdateOK
    <3>3. UpdateShape(v) /\ v.pc = "idle"
      BY <3>1 DEF NoUpdate, UpdateShape
    <3> QED
      BY <3>1, <3>2, <3>3, IdleHandlers
  <2> QED
    BY <2>1, <2>2
<1>7. FrontOK(v, a, t, c, zones, records)
  BY <1>1, <1>2, <1>6 DEF FrontOK
<1> QED
  BY <1>1, <1>2, <1>3, <1>4, <1>5, <1>6, <1>7 DEF FrontMoves, FrontNow

\* A step of the method that an RR has called.
LEMMA UpdateWorkMoves ==
    ASSUME ManagerInv, SoloInv, FrontInv, NEW p \in Writers, admin[p].pc = "idle",
           UNCHANGED <<admin, requests>>, WorkStep(p), UNCHANGED <<update, messages>>
    PROVE  FrontMoves(p)
<1>1. PICK u, a, t, c : u = update[p] /\ a = admin[p] /\ t = task[p] /\ c = call[p]
  OBVIOUS
<1>2. /\ FrontOK(u, a, t, c, zones, records)
      /\ DOMAIN update = Writers /\ DOMAIN admin = Writers
  BY <1>1, FrontFacts DEF FrontHere
<1>3. t.pc # "idle"
  BY <1>1, NoWork
<1>4. u.pc = "apply" /\ a.pc = "idle"
  BY <1>1, <1>2, <1>3 DEF FrontOK
<1>5. Leads(p)
  BY <1>1, <1>2, WorkLeads DEF FrontOK, SoloInv, SoloOK
<1>6. PICK t1, c1 : t1 = task'[p] /\ c1 = call'[p]
  OBVIOUS
<1>7. t1.pc # "idle"
  BY <1>1, <1>2, <1>3, <1>5, <1>6, WorkStays DEF FrontOK
<1>8. /\ Course(t1) /\ RowsKnown(c1, records')
      /\ RecordsDue(t1, Landing(c1, records')) = RecordsDue(t, Landing(c, records))
      /\ t1.op = t.op
  BY <1>1, <1>5, <1>6 DEF Leads
<1>9. UpdateOK(u, t1, c1, records')
  <2>1. Kept(t, c, After(u, u.next - 1), records)
    BY <1>2, <1>3, <1>4 DEF FrontOK, UpdateOK
  <2>2. Kept(t1, c1, After(u, u.next - 1), records')
    BY <1>1, <1>2, <1>5, <1>6, <2>1, WorkKeeps DEF FrontOK, SoloInv, SoloOK
  <2> QED
    BY <1>2, <1>3, <1>4, <1>7, <1>8, <2>2 DEF FrontOK, UpdateOK
<1>10. FrontOK(u, a, t1, c1, zones', records')
  BY <1>2, <1>4, <1>8, <1>9, IdleHandlers DEF FrontOK, AdminOK
<1> QED
  BY <1>1, <1>2, <1>6, <1>10 DEF FrontMoves, FrontNow, ManagerStep

\* The store fails under an RR: nothing of it is done, or a part of its set is deleted.
LEMMA HandlerFailsMoves ==
    ASSUME ManagerInv, SoloInv, FrontInv, NEW p \in Writers, admin[p].pc = "idle",
           UNCHANGED <<admin, requests>>, HandlerFails(p)
    PROVE  FrontMoves(p)
<1>1. PICK u, a, t, c : u = update[p] /\ a = admin[p] /\ t = task[p] /\ c = call[p]
  OBVIOUS
<1>2. /\ FrontOK(u, a, t, c, zones, records)
      /\ DOMAIN update = Writers /\ DOMAIN admin = Writers
      /\ DOMAIN NoUpdate = {"pc", "message", "next", "rcode", "broken", "before"}
  BY <1>1, FrontFacts DEF FrontHere
<1>3. u.pc = "apply" /\ a.pc = "idle" /\ admin' = admin
  BY <1>1 DEF HandlerFails
<1>4. UpdateShape(u) /\ Course(t) /\ CallOfTask(t, c)
  BY <1>1, <1>2 DEF FrontOK, UpdateOK, SoloInv, SoloOK
<1>5. PICK v : v = [u EXCEPT !.pc = "reply", !.rcode = "SERVFAIL", !.broken = TRUE]
  OBVIOUS
<1>6. update'[p] = v /\ DOMAIN update' = Writers
  BY <1>1, <1>2, <1>4, <1>5 DEF HandlerFails, UpdateShape
<1>7. /\ v.before = u.before /\ v.message = u.message /\ v.next = u.next /\ v.broken
      /\ v.pc = "reply" /\ DOMAIN v = DOMAIN NoUpdate /\ UpdateShape(v)
  BY <1>2, <1>3, <1>4, <1>5 DEF UpdateShape
<1>8. CASE UNCHANGED managerVars /\ t.pc = "idle"
  <2>1. records = After(v, v.next - 1)
    BY <1>2, <1>3, <1>7, <1>8 DEF FrontOK, UpdateOK, Torn, After
  <2>2. FrontOK(v, a, t, c, zones, records)
    BY <1>2, <1>3, <1>7, <1>8, <2>1 DEF FrontOK, UpdateOK
  <2>3. task' = task /\ call' = call /\ zones' = zones /\ records' = records
    BY <1>8 DEF managerVars
  <2> QED
    BY <1>1, <1>2, <1>3, <1>6, <1>8, <2>2, <2>3 DEF FrontMoves, FrontNow
<1>9. CASE StoreFails(p)
  <2>1. /\ task'[p] = NoTask /\ call'[p] = NoCall /\ zones' = zones /\ records' = records
    BY <1>9, StoreFailsLeaves
  <2>2. t.pc # "idle"
    BY <1>1, <1>4, <1>9 DEF StoreFails, CallOfTask
  <2>3. /\ RRCall(t.op, u.message.rrs[u.next])
        /\ RecordsDue(t, Landing(c, records)) = After(u, u.next)
        /\ Kept(t, c, After(u, u.next - 1), records)
    BY <1>2, <1>3, <2>2 DEF FrontOK, UpdateOK
  <2>4. t \in Tasks /\ TaskShape(t) /\ CallShape(c)
    BY <1>1 DEF ManagerInv
  <2>5. records = After(u, u.next - 1) \/ Torn(v, records)
    <3>1. \/ Untouched(t)
          \/ t.pc = "return" /\ c.pc \in {"put", "rows"}
          \/ t.pc = "drop" /\ t.op \in {"DeleteRRSet", "DeleteName"} /\ c.pc = "idle"
          \/ t.pc = "seed" /\ c.pc \in {"idle", "put"}
      BY <1>1, <1>4, <1>9, <2>3, StoreFailsAt DEF RRCall
    <3>2. t.pc # "seed"
      BY <2>3, <2>4 DEF RRCall, TaskShape
    <3>3. CASE t.pc = "drop" /\ t.op \in {"DeleteRRSet", "DeleteName"} /\ c.pc = "idle"
      <4>1. Landing(c, records) = records /\ t.target = {}
        BY <2>4, <3>3, Landed DEF TaskShape
      <4>2. After(u, u.next) \subseteq records
        BY <2>3, <3>3, <4>1 DEF RecordsDue, RRSetCalls
      <4>3. records \subseteq After(u, u.next - 1)
        BY <2>3, <3>3 DEF Kept
      <4>4. u.message.rrs[u.next].class = "ANY"
        BY <2>3, <3>3 DEF RRCall
      <4> QED
        BY <1>7, <4>2, <4>3, <4>4 DEF Torn, After
    <3> QED
      BY <2>3, <3>1, <3>2, <3>3 DEF Kept
  <2>6. UpdateOK(v, NoTask, NoCall, records)
    BY <1>7, <2>5, NoTaskFacts DEF UpdateOK, After
  <2>7. Course(NoTask) /\ RowsKnown(NoCall, records) /\ AdminOK(a, NoTask, NoCall, zones, records)
    BY <1>2, <1>3, NoTaskFacts, IdleHandlers DEF Course, UniqueKeys, RowsKnown, NoCall, FrontOK, AdminOK
  <2>8. FrontOK(v, a, NoTask, NoCall, zones, records)
    BY <1>3, <2>6, <2>7, NoTaskFacts DEF FrontOK
  <2> QED
    BY <1>1, <1>2, <1>3, <1>6, <1>9, <2>1, <2>8 DEF FrontMoves, FrontNow
<1> QED
  BY <1>1, <1>8, <1>9 DEF HandlerFails, AtRR

\* A request that is not refused early names zones and records of the universe, and a
\* request for the server's health is a GET.
LEMMA EarlyFacts ==
    ASSUME NEW request \in HTTPRequests, EarlyStatus(request) = 200
    PROVE  /\ request.path # "/healthz" => RequestInUniverse(request)
           /\ request.path = "/healthz" => request.method = "GET"
<1>1. request.method \in Methods(request.path) /\ request.decodes
  BY DEF EarlyStatus
<1>2. request.path = "/healthz" => Methods(request.path) = {"GET"}
  BY DEF Methods
<1> QED
  BY <1>1, <1>2, RequestsAssumption

\* A request arrives.
LEMMA ServeHTTPMoves ==
    ASSUME ManagerInv, SoloInv, FrontInv, NEW p \in Writers, update[p].pc = "idle",
           UNCHANGED <<update, messages>>, NEW request \in HTTPRequests, ServeHTTP(p, request)
    PROVE  FrontMoves(p)
<1>1. PICK u, t, c : u = update[p] /\ t = task[p] /\ c = call[p]
  OBVIOUS
<1>2. /\ FrontOK(u, admin[p], t, c, zones, records) /\ t.pc = "idle" /\ u.pc = "idle"
      /\ DOMAIN update = Writers /\ DOMAIN admin = Writers
  BY <1>1, FrontFacts DEF FrontHere, ServeHTTP
<1>3. PICK status : status = EarlyStatus(request)
  OBVIOUS
<1>4. PICK pc : pc = IF status # 200 \/ request.path = "/healthz" THEN "respond" ELSE "call"
  OBVIOUS
<1>5. PICK a : a = [NoExchange EXCEPT !.request = request, !.status = status, !.pc = pc,
                                      !.zonesBefore = zones, !.recordsBefore = records]
  OBVIOUS
<1>6. admin' = [admin EXCEPT ![p] = a] /\ UNCHANGED managerVars
  BY <1>3, <1>4, <1>5, Zenon DEF ServeHTTP
<1>7. /\ a.request = request /\ a.status = status /\ a.pc = pc /\ a.zonesBefore = zones
      /\ a.recordsBefore = records /\ DOMAIN a = DOMAIN NoExchange /\ a.broken = FALSE
  BY <1>5 DEF NoExchange
<1>8. AdminShape(a)
  BY <1>3, <1>4, <1>7, EarlyFacts DEF AdminShape
<1>9. pc = "respond" => Truthful(a, zones, records)
  <2>1. ASSUME pc = "respond" PROVE ~(a.status = 200 /\ a.request.method # "GET")
    BY <1>3, <1>4, <1>7, <2>1, EarlyFacts
  <2>2. pc = "respond" /\ a.status = 200 => a.request.path = "/healthz"
    BY <1>4, <1>7
  <2> QED
    BY <1>7, <2>1, <2>2 DEF Truthful
<1>10. AdminOK(a, t, c, zones, records)
  BY <1>4, <1>7, <1>8, <1>9 DEF AdminOK
<1>11. FrontOK(u, a, t, c, zones, records)
  BY <1>2, <1>10 DEF FrontOK
<1>12. /\ admin'[p] = a /\ DOMAIN admin' = Writers /\ update' = update
       /\ task' = task /\ call' = call /\ zones' = zones /\ records' = records
  BY <1>2, <1>6 DEF managerVars
<1> QED
  BY <1>1, <1>2, <1>6, <1>11, <1>12 DEF FrontMoves, FrontNow

\* What the writes of the handlers come to, for the keys of the records.
LEMMA WrittenFacts ==
    ASSUME NEW a
    PROVE  /\ a.request.method = "PUT" /\ a.request.path = "/zones/" =>
                Written(a) = <<a.zonesBefore \cup {Fold(a.request.arg)}, KeysOf(a.recordsBefore)>>
           /\ a.request.method = "DELETE" /\ a.request.path = "/zones/" =>
                Written(a) = <<a.zonesBefore \ {Fold(a.request.arg)},
                               KeysOutside(KeysOf(a.recordsBefore), Fold(a.request.arg))>>
           /\ a.request.method = "PUT" /\ a.request.path = "/records" =>
                Written(a) = <<a.zonesBefore \cup {NormalizeRecord(a.request.arg).zone},
                               KeysOf(a.recordsBefore) \cup {Key(NormalizeRecord(a.request.arg))}>>
           /\ a.request.method = "DELETE" /\ a.request.path = "/records" =>
                Written(a) = <<a.zonesBefore,
                               KeysOf(a.recordsBefore) \ {Key(NormalizeRecord(a.request.arg))}>>
           /\ a.request.method = "POST" /\ a.request.path = "/seed/import" =>
                Written(a) = <<a.zonesBefore \cup SeedZones(a.request.arg),
                               KeysOf(a.recordsBefore)
                                   \cup KeysOf({NormalizeRecord(r) : r \in a.request.arg.records})>>
<1>1. CASE a.request.method = "PUT" /\ a.request.path = "/zones/"
  BY <1>1 DEF Written, KeysOf
<1>2. CASE a.request.method = "DELETE" /\ a.request.path = "/zones/"
  BY <1>2 DEF Written, KeysOf, KeysOutside
<1>3. CASE a.request.method = "PUT" /\ a.request.path = "/records"
  BY <1>3 DEF Written, KeysOf
<1>4. CASE a.request.method = "DELETE" /\ a.request.path = "/records"
  BY <1>4 DEF Written, KeysOf
<1>5. CASE a.request.method = "POST" /\ a.request.path = "/seed/import"
  BY <1>5 DEF Written, KeysOf
<1> QED
  BY <1>1, <1>2, <1>3, <1>4, <1>5

\* The keys of what the methods leave.
LEMMA KeysAfter ==
    ASSUME NEW stored
    PROVE  /\ \A z : KeysOf(RecordsOutside(stored, z)) = KeysOutside(KeysOf(stored), z)
           /\ \A n : KeysOf(Put(stored, n)) = KeysOf(stored) \cup {Key(n)}
           /\ \A n : KeysOf(Without(stored, n)) = KeysOf(stored) \ {Key(n)}
           /\ \A all : \A kept \in Deduped(all) :
                 KeysOf(Overlay(stored, kept)) = KeysOf(stored) \cup KeysOf(all)
<1>1. ASSUME NEW z
      PROVE  KeysOf(RecordsOutside(stored, z)) = KeysOutside(KeysOf(stored), z)
  <2>1. \A r : Key(r)[1] = r.zone
    BY DEF Key
  <2> QED
    BY <2>1 DEF KeysOf, KeysOutside, RecordsOutside
<1>2. ASSUME NEW n PROVE KeysOf(Put(stored, n)) = KeysOf(stored) \cup {Key(n)}
  BY DEF KeysOf, Put
<1>3. ASSUME NEW n PROVE KeysOf(Without(stored, n)) = KeysOf(stored) \ {Key(n)}
  BY DEF KeysOf, Without
<1>4. ASSUME NEW all, NEW kept \in Deduped(all)
      PROVE  KeysOf(Overlay(stored, kept)) = KeysOf(stored) \cup KeysOf(all)
  <2>1. KeysOf(kept) = KeysOf(all)
    BY DEF Deduped, KeysOf
  <2>2. KeysOf(Overlay(stored, kept)) = KeysOf(stored) \cup KeysOf(kept)
    BY DEF KeysOf, Overlay
  <2> QED
    BY <2>1, <2>2
<1> QED
  BY <1>1, <1>2, <1>3, <1>4

\* The Manager's method for a request begins.
LEMMA HandleWriteMoves ==
    ASSUME ManagerInv, SoloInv, FrontInv, NEW p \in Writers, update[p].pc = "idle",
           UNCHANGED <<update, messages>>, HandleWrite(p)
    PROVE  FrontMoves(p)
<1>1. PICK u, a : u = update[p] /\ a = admin[p]
  OBVIOUS
<1>2. /\ FrontOK(u, a, task[p], call[p], zones, records) /\ u.pc = "idle" /\ a.pc = "call"
      /\ DOMAIN update = Writers /\ DOMAIN admin = Writers
      /\ DOMAIN NoExchange = {"pc", "request", "status", "listing", "broken", "zonesBefore",
                              "recordsBefore"}
  BY <1>1, FrontFacts DEF FrontHere, HandleWrite, Calling
<1>3. PICK arg, method, path : arg = a.request.arg /\ method = a.request.method
                               /\ path = a.request.path
  OBVIOUS
<1>4. \/ method = "PUT" /\ path = "/zones/" /\ UpsertZone(p, arg)
      \/ method = "DELETE" /\ path = "/zones/" /\ ManagerDeleteZone(p, arg)
      \/ method = "PUT" /\ path = "/records" /\ UpsertRecord(p, arg)
      \/ method = "DELETE" /\ path = "/records" /\ ManagerDeleteRecord(p, arg)
      \/ method = "POST" /\ path = "/seed/import" /\ ImportSeedData(p, arg)
  BY <1>1, <1>3 DEF HandleWrite, Calling
<1>5. PICK b : b = [a EXCEPT !.pc = "wait"]
  OBVIOUS
<1>6. admin'[p] = b /\ DOMAIN admin' = Writers /\ update' = update
  BY <1>1, <1>2, <1>5 DEF HandleWrite, Entered
<1>7. AdminShape(a) /\ zones = a.zonesBefore /\ records = a.recordsBefore
  BY <1>2 DEF FrontOK, AdminOK
<1>8. /\ b.pc = "wait" /\ b.request = a.request /\ b.status = a.status /\ b.broken = a.broken
      /\ b.zonesBefore = zones /\ b.recordsBefore = records /\ DOMAIN b = DOMAIN NoExchange
  BY <1>2, <1>5, <1>7 DEF AdminShape
<1>9. AdminShape(b) /\ RequestInUniverse(a.request)
  BY <1>2, <1>7, <1>8 DEF AdminShape
<1>10. PICK n : n = NormalizeRecord(arg)
  OBVIOUS
<1>11. /\ ManagerStep(p) /\ method # "GET"
       /\ \E op, known, stored :
             /\ Bound(p, op, known, stored) /\ op # "ListRecords" /\ WriteCall(op, a.request)
             /\ <<known, KeysOf(stored)>> = Written(b)
  <2>1. CASE method = "PUT" /\ path = "/zones/" /\ UpsertZone(p, arg)
    <3>1. Bound(p, "UpsertZone", zones \cup {NormalizeZoneName(arg)}, records)
      BY <2>1, UpsertZoneBound
    <3>2. <<zones \cup {NormalizeZoneName(arg)}, KeysOf(records)>> = Written(b)
      BY <1>3, <1>8, <2>1, WrittenFacts DEF NormalizeZoneName
    <3>3. ZoneAccepted(arg) => NormalizeZoneName(arg) \in Zones
      BY <1>3, <1>9, <2>1 DEF RequestInUniverse
    <3> QED
      BY <2>1, <3>1, <3>2, <3>3 DEF ManagerStep, StartsCall, WriteCall, RRSetCalls
  <2>2. CASE method = "DELETE" /\ path = "/zones/" /\ ManagerDeleteZone(p, arg)
    <3>1. Bound(p, "DeleteZone", zones \ {NormalizeZoneName(arg)},
                RecordsOutside(records, NormalizeZoneName(arg)))
      BY <2>2, DeleteZoneBound DEF RecordsOutside
    <3>2. <<zones \ {NormalizeZoneName(arg)},
            KeysOf(RecordsOutside(records, NormalizeZoneName(arg)))>> = Written(b)
      <4>1. PICK z : z = NormalizeZoneName(arg)
        OBVIOUS
      <4>2. KeysOf(RecordsOutside(records, z)) = KeysOutside(KeysOf(records), z)
        BY KeysAfter
      <4>3. Written(b) = <<zones \ {z}, KeysOutside(KeysOf(records), z)>>
        BY <1>3, <1>8, <2>2, <4>1, WrittenFacts DEF NormalizeZoneName
      <4> QED
        BY <4>1, <4>2, <4>3
    <3>3. ZoneAccepted(arg) => NormalizeZoneName(arg) \in Zones
      BY <1>3, <1>9, <2>2 DEF RequestInUniverse
    <3> QED
      BY <2>2, <3>1, <3>2, <3>3 DEF ManagerStep, StartsCall, WriteCall, RRSetCalls
  <2>3. CASE method = "PUT" /\ path = "/records" /\ UpsertRecord(p, arg)
    <3>1. Bound(p, "UpsertRecord", zones \cup {n.zone}, Put(records, n))
      BY <1>10, <2>3, UpsertRecordBound
    <3>2. <<zones \cup {n.zone}, KeysOf(Put(records, n))>> = Written(b)
      <4>1. KeysOf(Put(records, n)) = KeysOf(records) \cup {Key(n)}
        BY KeysAfter
      <4>2. Written(b) = <<zones \cup {n.zone}, KeysOf(records) \cup {Key(n)}>>
        BY <1>3, <1>8, <1>10, <2>3, WrittenFacts
      <4> QED
        BY <4>1, <4>2
    <3>3. RecordAccepted(arg) => NormalizeRecord(arg) \in Records
      BY <1>3, <1>9, <2>3 DEF RequestInUniverse
    <3> QED
      BY <2>3, <3>1, <3>2, <3>3 DEF ManagerStep, StartsCall, WriteCall, RRSetCalls
  <2>4. CASE method = "DELETE" /\ path = "/records" /\ ManagerDeleteRecord(p, arg)
    <3>1. Bound(p, "DeleteRecord", zones, Without(records, n))
      BY <1>10, <2>4, DeleteRecordBound
    <3>2. <<zones, KeysOf(Without(records, n))>> = Written(b)
      <4>1. KeysOf(Without(records, n)) = KeysOf(records) \ {Key(n)}
        BY KeysAfter
      <4>2. Written(b) = <<zones, KeysOf(records) \ {Key(n)}>>
        BY <1>3, <1>8, <1>10, <2>4, WrittenFacts
      <4> QED
        BY <4>1, <4>2
    <3>3. RecordAccepted(arg) => NormalizeRecord(arg) \in Records
      BY <1>3, <1>9, <2>4 DEF RequestInUniverse
    <3> QED
      BY <2>4, <3>1, <3>2, <3>3 DEF ManagerStep, StartsCall, WriteCall, RRSetCalls
  <2>5. CASE method = "POST" /\ path = "/seed/import" /\ ImportSeedData(p, arg)
    <3>1. PICK all : all = {NormalizeRecord(r) : r \in arg.records}
      OBVIOUS
    <3>2. PICK kept \in Deduped(all) :
              Bound(p, "ImportSeedData", zones \cup SeedZones(arg), Overlay(records, kept))
      BY <2>5, <3>1, ImportBound
    <3>3. <<zones \cup SeedZones(arg), KeysOf(Overlay(records, kept))>> = Written(b)
      <4>1. KeysOf(Overlay(records, kept)) = KeysOf(records) \cup KeysOf(all)
        BY KeysAfter
      <4>2. Written(b) = <<zones \cup SeedZones(arg), KeysOf(records) \cup KeysOf(all)>>
        BY <1>3, <1>8, <2>5, <3>1, WrittenFacts
      <4> QED
        BY <4>1, <4>2
    <3>4. SeedInUniverse(arg)
      BY <1>3, <1>9, <2>5 DEF RequestInUniverse
    <3> QED
      BY <1>3, <2>5, <3>2, <3>3, <3>4 DEF ManagerStep, StartsCall, WriteCall, RRSetCalls
  <2> QED
    BY <1>4, <2>1, <2>2, <2>3, <2>4, <2>5
<1>12. PICK t, c : t = task'[p] /\ c = call'[p]
  OBVIOUS
<1>13. /\ Course(t) /\ RowsKnown(c, records') /\ t.pc # "idle" /\ t.op # "ListRecords"
       /\ <<ZonesDue(t, zones'), KeysOf(RecordsDue(t, Landing(c, records')))>> = Written(b)
       /\ Untouched(t) => zones' = b.zonesBefore /\ records' = b.recordsBefore
       /\ Kept(t, c, b.recordsBefore, records') /\ WriteCall(t.op, b.request)
       /\ Seeded(t, c, b.zonesBefore, b.recordsBefore, zones', records')
  BY <1>8, <1>11, <1>12 DEF Bound
<1>14. AdminOK(b, t, c, zones', records') /\ UpdateOK(u, t, c, records')
  BY <1>2, <1>3, <1>8, <1>9, <1>11, <1>13, IdleHandlers DEF AdminOK, FrontOK, UpdateOK
<1>15. FrontOK(u, b, t, c, zones', records')
  BY <1>2, <1>8, <1>13, <1>14 DEF FrontOK
<1> QED
  BY <1>1, <1>2, <1>6, <1>11, <1>12, <1>15 DEF FrontMoves, FrontNow

\* A record that matches a filter is in one of the rows it lists.
LEMMA WideFilter ==
    ASSUME NEW filter, NEW r,
           filter = [zone |-> filter.zone, name |-> filter.name, type |-> filter.type,
                     class |-> filter.class]
    PROVE  RecordMatchesFilter(r, filter) => RecordMatchesFilter(r, Wide(filter))
<1>1. PICK wide : wide = Wide(filter)
  OBVIOUS
<1>2. wide.zone = filter.zone /\ wide.name = filter.name /\ wide.type = "ANY" /\ wide.class = "ANY"
  BY <1>1 DEF Wide
<1> QED
  BY <1>1, <1>2 DEF RecordMatchesFilter

\* A request that is answered without a call of the Manager's methods.
LEMMA AnswerMoves ==
    ASSUME ManagerInv, SoloInv, FrontInv, NEW p \in Writers, update[p].pc = "idle",
           UNCHANGED <<update, messages>>,
           SeedRefused(p) \/ HandleListZones(p) \/ RespondHTTP(p)
    PROVE  FrontMoves(p)
<1>1. PICK u, a, t, c : u = update[p] /\ a = admin[p] /\ t = task[p] /\ c = call[p]
  OBVIOUS
<1>2. /\ FrontOK(u, a, t, c, zones, records) /\ u.pc = "idle" /\ a.pc \in {"call", "respond"}
      /\ DOMAIN update = Writers /\ DOMAIN admin = Writers
      /\ DOMAIN NoExchange = {"pc", "request", "status", "listing", "broken", "zonesBefore",
                              "recordsBefore"}
  BY <1>1, FrontFacts DEF FrontHere, SeedRefused, HandleListZones, RespondHTTP, Calling
<1>3. UNCHANGED managerVars /\ update' = update
  BY DEF SeedRefused, HandleListZones, RespondHTTP
<1>4. task' = task /\ call' = call /\ zones' = zones /\ records' = records
  BY <1>3 DEF managerVars
<1>5. AdminShape(a) /\ (a.pc = "call" => zones = a.zonesBefore /\ records = a.recordsBefore)
  BY <1>2 DEF FrontOK, AdminOK
<1>6. PICK b : b = admin'[p]
  OBVIOUS
<1>7. DOMAIN admin' = Writers /\ AdminOK(b, t, c, zones, records) /\ b.pc # "wait"
  <2>1. CASE SeedRefused(p)
    <3>1. /\ b = [a EXCEPT !.pc = "respond", !.status = 400] /\ DOMAIN admin' = Writers
          /\ a.pc = "call"
      BY <1>1, <1>2, <1>6, <2>1 DEF SeedRefused, Calling
    <3>2. /\ b.pc = "respond" /\ b.status = 400 /\ ~b.broken /\ DOMAIN b = DOMAIN NoExchange
          /\ b.zonesBefore = zones /\ b.recordsBefore = records
      BY <1>2, <1>5, <3>1 DEF AdminShape
    <3>3. AdminShape(b) /\ Truthful(b, zones, records)
      BY <3>2 DEF AdminShape, Truthful
    <3> QED
      BY <3>1, <3>2, <3>3 DEF AdminOK
  <2>2. CASE HandleListZones(p)
    <3>1. /\ b = [a EXCEPT !.pc = "respond", !.listing = zones] /\ DOMAIN admin' = Writers
          /\ a.pc = "call" /\ a.request.method = "GET" /\ a.request.path = "/zones"
      BY <1>1, <1>2, <1>6, <2>2 DEF HandleListZones, Calling
    <3>2. /\ b.pc = "respond" /\ b.listing = zones /\ DOMAIN b = DOMAIN NoExchange
          /\ b.request = a.request /\ b.zonesBefore = zones /\ b.recordsBefore = records
      BY <1>2, <1>5, <3>1 DEF AdminShape
    <3>3. AdminShape(b) /\ Truthful(b, zones, records)
      BY <3>1, <3>2 DEF AdminShape, Truthful
    <3> QED
      BY <3>1, <3>2, <3>3 DEF AdminOK
  <2>3. CASE RespondHTTP(p)
    <3>1. b = NoExchange /\ DOMAIN admin' = Writers
      BY <1>2, <1>6, <2>3 DEF RespondHTTP
    <3>2. b.pc = "idle" /\ AdminShape(b)
      BY <3>1 DEF NoExchange, AdminShape
    <3> QED
      BY <3>1, <3>2 DEF AdminOK
  <2> QED
    BY <2>1, <2>2, <2>3
<1>8. t.pc = "idle"
  BY <1>2 DEF FrontOK
<1>9. FrontOK(u, b, t, c, zones, records)
  BY <1>2, <1>7, <1>8 DEF FrontOK
<1> QED
  BY <1>1, <1>2, <1>3, <1>4, <1>6, <1>7, <1>9 DEF FrontMoves, FrontNow

\* The method that a request has called returns.
LEMMA ManagerReturnedMoves ==
    ASSUME ManagerInv, SoloInv, FrontInv, NEW p \in Writers, update[p].pc = "idle",
           UNCHANGED <<update, messages>>, ManagerReturned(p)
    PROVE  FrontMoves(p)
<1>1. PICK u, a, t, c : u = update[p] /\ a = admin[p] /\ t = task[p] /\ c = call[p]
  OBVIOUS
<1>2. /\ FrontOK(u, a, t, c, zones, records) /\ u.pc = "idle"
      /\ DOMAIN update = Writers /\ DOMAIN admin = Writers
      /\ DOMAIN NoExchange = {"pc", "request", "status", "listing", "broken", "zonesBefore",
                              "recordsBefore"}
  BY <1>1, FrontFacts DEF FrontHere
<1>3. /\ Finished(p) /\ c.pc = "idle" /\ a.pc = "wait" /\ update' = update
      /\ Go(p, NoTask) /\ t \in Tasks /\ SoloOK(t, c, records) /\ CallShape(c)
  BY <1>1 DEF ManagerReturned, Return, ManagerInv, SoloInv
<1>4. Course(t) /\ AdminShape(a) /\ a.status = 200 /\ ~a.broken
  BY <1>2, <1>3 DEF FrontOK, AdminOK, AdminShape
<1>5. t.op # "ListRecords"
  BY <1>1, <1>3, <1>4 DEF Course, Finished
<1>6. /\ a.request.method # "GET"
      /\ <<ZonesDue(t, zones), KeysOf(RecordsDue(t, Landing(c, records)))>> = Written(a)
      /\ Untouched(t) => zones = a.zonesBefore /\ records = a.recordsBefore
  BY <1>2, <1>3, <1>5 DEF FrontOK, AdminOK
<1>7. PICK status : status = IF t.pc = "failed" THEN 400 ELSE a.status
  OBVIOUS
<1>8. PICK b : b = [a EXCEPT !.pc = "respond", !.status = status]
  OBVIOUS
<1>9. admin'[p] = b /\ DOMAIN admin' = Writers
  BY <1>1, <1>2, <1>7, <1>8 DEF ManagerReturned
<1>10. /\ b.pc = "respond" /\ b.status = status /\ b.request = a.request /\ ~b.broken
       /\ b.zonesBefore = a.zonesBefore /\ b.recordsBefore = a.recordsBefore
       /\ DOMAIN b = DOMAIN NoExchange
  BY <1>2, <1>4, <1>8 DEF AdminShape
<1>11. Written(b) = Written(a)
  BY <1>10 DEF Written
<1>12. Truthful(b, zones, records)
  <2>1. CASE t.pc = "failed"
    <3>1. zones = b.zonesBefore /\ records = b.recordsBefore /\ b.status = 400 /\ ~b.broken
      BY <1>1, <1>3, <1>4, <1>6, <1>7, <1>10, <2>1, FinishedDue
    <3> QED
      BY <3>1 DEF Truthful
  <2>2. CASE t.pc # "failed"
    <3>1. RecordsDue(t, Landing(c, records)) = records /\ ZonesDue(t, zones) = zones
      BY <1>1, <1>3, <1>4, <2>2, FinishedDue
    <3>2. <<zones, KeysOf(records)>> = Written(b)
      BY <1>6, <1>11, <3>1
    <3>3. b.status = 200 /\ b.request.method # "GET"
      BY <1>4, <1>6, <1>7, <1>10, <2>2
    <3> QED
      BY <3>2, <3>3 DEF Truthful
  <2> QED
    BY <2>1, <2>2
<1>13. AdminOK(b, NoTask, c, zones, records)
  BY <1>10, <1>12 DEF AdminOK, AdminShape
<1>14. Course(NoTask) /\ RowsKnown(c, records) /\ UpdateOK(u, NoTask, c, records)
  BY <1>2, <1>3, NoTaskFacts, Landed, IdleHandlers DEF Course, UniqueKeys, FrontOK, UpdateOK
<1>15. FrontOK(u, b, NoTask, c, zones, records)
  BY <1>2, <1>13, <1>14, NoTaskFacts DEF FrontOK
<1>16. task'[p] = NoTask /\ call' = call /\ zones' = zones /\ records' = records
  BY <1>3 DEF Go, storeVars, ManagerInv
<1> QED
  BY <1>1, <1>2, <1>3, <1>9, <1>15, <1>16 DEF FrontMoves, FrontNow, ManagerStep

\* The listing of the records of a filter begins.
LEMMA HandleListRecordsMoves ==
    ASSUME ManagerInv, SoloInv, FrontInv, NEW p \in Writers, update[p].pc = "idle",
           UNCHANGED <<update, messages>>, HandleListRecords(p)
    PROVE  FrontMoves(p)
<1>1. PICK u, a, c : u = update[p] /\ a = admin[p] /\ c = call[p]
  OBVIOUS
<1>2. /\ FrontOK(u, a, task[p], c, zones, records) /\ u.pc = "idle" /\ a.pc = "call"
      /\ a.request.method = "GET" /\ a.request.path = "/records" /\ task[p].pc = "idle"
      /\ DOMAIN update = Writers /\ DOMAIN admin = Writers
      /\ DOMAIN NoExchange = {"pc", "request", "status", "listing", "broken", "zonesBefore",
                              "recordsBefore"}
  BY <1>1, FrontFacts DEF FrontHere, HandleListRecords, Calling
<1>3. PICK filter : filter = a.request.arg
  OBVIOUS
<1>4. PICK rows : rows = {RowKey(r) : r \in {x \in records : RecordMatchesFilter(x, Wide(filter))}}
  OBVIOUS
<1>5. Go(p, ListTask(rows)) /\ admin' = [admin EXCEPT ![p].pc = "wait"] /\ update' = update
  BY <1>1, <1>3, <1>4 DEF HandleListRecords, ListTask, Wide, Entered
<1>6. rows \in SUBSET (Zones \X {r.name : r \in Records})
  BY <1>4, CallFacts DEF RowKey, ManagerInv, StoreInv, StoreTypeOK
<1>7. PICK t : t = ListTask(rows)
  OBVIOUS
<1>8. /\ t.op = "ListRecords" /\ t.pc = "read" /\ t.rows = rows /\ t.listed = {} /\ t.target = {}
      /\ t.todo = {} /\ t.current = {} /\ t.drops = {} /\ t.seedZones = {}
  BY <1>7, NoTaskFacts DEF ListTask
<1>9. Course(t)
  BY <1>8 DEF Course, UniqueKeys
<1>10. Listing(t, records, filter)
  BY <1>4, <1>8 DEF Listing
<1>11. PICK b : b = [a EXCEPT !.pc = "wait"]
  OBVIOUS
<1>12. AdminShape(a) /\ zones = a.zonesBefore /\ records = a.recordsBefore
  BY <1>2 DEF FrontOK, AdminOK
<1>13. /\ b.pc = "wait" /\ b.request = a.request /\ b.status = a.status /\ b.broken = a.broken
       /\ b.zonesBefore = zones /\ b.recordsBefore = records /\ DOMAIN b = DOMAIN NoExchange
  BY <1>2, <1>11, <1>12 DEF AdminShape
<1>14. AdminShape(b)
  BY <1>2, <1>12, <1>13 DEF AdminShape
<1>15. AdminOK(b, t, c, zones, records)
  BY <1>2, <1>3, <1>8, <1>10, <1>13, <1>14 DEF AdminOK
<1>16. UpdateOK(u, t, c, records) /\ RowsKnown(c, records)
  BY <1>2, IdleHandlers DEF FrontOK, UpdateOK
<1>17. FrontOK(u, b, t, c, zones, records)
  BY <1>2, <1>9, <1>13, <1>15, <1>16 DEF FrontOK
<1>18. /\ task'[p] = t /\ call' = call /\ zones' = zones /\ records' = records
       /\ admin'[p] = b /\ DOMAIN admin' = Writers
  BY <1>1, <1>2, <1>5, <1>7, <1>11 DEF Go, storeVars, ManagerInv
<1>19. ManagerStep(p)
  BY <1>2, <1>5, <1>6 DEF ManagerStep
<1> QED
  BY <1>1, <1>2, <1>5, <1>17, <1>18, <1>19 DEF FrontMoves, FrontNow

\* The listing is over: what was read, filtered, is what the store holds, filtered.
LEMMA RecordsListedMoves ==
    ASSUME ManagerInv, SoloInv, FrontInv, NEW p \in Writers, update[p].pc = "idle",
           UNCHANGED <<update, messages>>, RecordsListed(p)
    PROVE  FrontMoves(p)
<1>1. PICK u, a, t, c : u = update[p] /\ a = admin[p] /\ t = task[p] /\ c = call[p]
  OBVIOUS
<1>2. /\ FrontOK(u, a, t, c, zones, records) /\ u.pc = "idle"
      /\ DOMAIN update = Writers /\ DOMAIN admin = Writers
      /\ DOMAIN NoExchange = {"pc", "request", "status", "listing", "broken", "zonesBefore",
                              "recordsBefore"}
  BY <1>1, FrontFacts DEF FrontHere
<1>3. /\ a.pc = "wait" /\ t.op = "ListRecords" /\ t.rows = {} /\ Go(p, NoTask)
      /\ update' = update
  BY <1>1 DEF RecordsListed
<1>4. PICK filter : filter = a.request.arg
  OBVIOUS
<1>5. PICK matching : matching = {r \in t.listed : RecordMatchesFilter(r, filter)}
  OBVIOUS
<1>6. PICK b : b = [a EXCEPT !.pc = "respond", !.listing = matching]
  OBVIOUS
<1>7. admin'[p] = b /\ DOMAIN admin' = Writers
  BY <1>1, <1>2, <1>4, <1>5, <1>6 DEF RecordsListed
<1>8. /\ AdminShape(a) /\ a.request.method = "GET" /\ a.request.path = "/records"
      /\ Listing(t, records, filter) /\ Course(t)
      /\ Untouched(t) => zones = a.zonesBefore /\ records = a.recordsBefore
  BY <1>2, <1>3, <1>4 DEF FrontOK, AdminOK
<1>9. t.pc = "read" /\ zones = a.zonesBefore /\ records = a.recordsBefore
  BY <1>3, <1>8 DEF Course, Untouched
<1>10. RequestInUniverse(a.request)
  BY <1>3, <1>8 DEF AdminShape
<1>11. filter = [zone |-> filter.zone, name |-> filter.name, type |-> filter.type,
                 class |-> filter.class]
  BY <1>4, <1>8, <1>10 DEF RequestInUniverse
<1>12. \A r : RecordMatchesFilter(r, filter) => RecordMatchesFilter(r, Wide(filter))
  BY <1>11, WideFilter
<1>13. matching = {r \in records : RecordMatchesFilter(r, filter)}
  BY <1>3, <1>5, <1>8, <1>12 DEF Listing
<1>14. /\ b.pc = "respond" /\ b.listing = matching /\ b.request = a.request
       /\ b.zonesBefore = zones /\ b.recordsBefore = records /\ DOMAIN b = DOMAIN NoExchange
  BY <1>2, <1>6, <1>8, <1>9 DEF AdminShape
<1>15. AdminShape(b) /\ Truthful(b, zones, records)
  BY <1>4, <1>8, <1>13, <1>14 DEF AdminShape, Truthful
<1>16. AdminOK(b, NoTask, c, zones, records)
  BY <1>14, <1>15 DEF AdminOK
<1>17. Course(NoTask) /\ RowsKnown(c, records) /\ UpdateOK(u, NoTask, c, records)
  BY <1>2, NoTaskFacts, IdleHandlers DEF Course, UniqueKeys, FrontOK, UpdateOK
<1>18. FrontOK(u, b, NoTask, c, zones, records)
  BY <1>2, <1>16, <1>17, NoTaskFacts DEF FrontOK
<1>19. task'[p] = NoTask /\ call' = call /\ zones' = zones /\ records' = records
  BY <1>3 DEF Go, storeVars, ManagerInv
<1>20. ManagerStep(p)
  BY <1>1, <1>3, <1>9 DEF ManagerStep
<1> QED
  BY <1>1, <1>2, <1>3, <1>7, <1>18, <1>19, <1>20 DEF FrontMoves, FrontNow

\* A listing only reads rows, and what it has read stays with it.
LEMMA ListingReads ==
    ASSUME ManagerInv, SoloInv, NEW p \in Writers, Course(task[p]), WorkStep(p),
           task[p].op = "ListRecords", NEW filter, Listing(task[p], records, filter)
    PROVE  zones' = zones /\ records' = records /\ Listing(task'[p], records', filter)
<1>1. PICK t : t = task[p]
  OBVIOUS
<1>2. /\ t \in Tasks /\ TaskShape(t) /\ Course(t) /\ t.op = "ListRecords"
      /\ SoloOK(t, call[p], records) /\ task \in [Writers -> Tasks]
  BY <1>1 DEF ManagerInv, SoloInv
<1>3. t.pc = "read" /\ t.target = {} /\ t.current = {} /\ call[p].pc = "idle"
  BY <1>2 DEF Course, TaskShape, SoloOK, CallOfTask
<1>4. ~StoreStep(p)
  BY <1>3 DEF StoreStep, PutRecord, ListRows, DropRow, Bump
<1>5. ReadRow(p)
  BY <1>1, <1>3, <1>4 DEF WorkStep, ListKeys, ValidateRRSet, FindRRSet, DropRecord, Dropped,
                          NextRecord, ValidateRecord, SaveSeedZone, SaveSeedRecord
<1>6. PICK row \in t.rows :
          Go(p, [t EXCEPT !.rows = @ \ {row},
                          !.listed = @ \cup {r \in records : RowKey(r) = row}])
  BY <1>1, <1>5 DEF ReadRow
<1>7. PICK found : found = {r \in records : RowKey(r) = row}
  OBVIOUS
<1>8. PICK v : v = [t EXCEPT !.rows = @ \ {row}, !.listed = @ \cup found]
  OBVIOUS
<1>9. v.rows = t.rows \ {row} /\ v.listed = t.listed \cup found
  BY <1>2, <1>8 DEF Tasks
<1>10. Listing(v, records, filter)
  BY <1>1, <1>7, <1>9 DEF Listing
<1>11. task'[p] = v /\ zones' = zones /\ records' = records
  BY <1>2, <1>6, <1>7, <1>8 DEF Go, storeVars
<1> QED
  BY <1>10, <1>11

\* A step of the method that a request has called.
LEMMA AdminWorkMoves ==
    ASSUME ManagerInv, SoloInv, FrontInv, NEW p \in Writers, update[p].pc = "idle",
           UNCHANGED <<update, messages>>, WorkStep(p), UNCHANGED <<admin, requests>>
    PROVE  FrontMoves(p)
<1>1. PICK u, a, t, c : u = update[p] /\ a = admin[p] /\ t = task[p] /\ c = call[p]
  OBVIOUS
<1>2. /\ FrontOK(u, a, t, c, zones, records)
      /\ DOMAIN update = Writers /\ DOMAIN admin = Writers
  BY <1>1, FrontFacts DEF FrontHere
<1>3. t.pc # "idle"
  BY <1>1, NoWork
<1>4. a.pc = "wait" /\ u.pc = "idle" /\ Course(t)
  BY <1>1, <1>2, <1>3 DEF FrontOK
<1>5. Leads(p)
  BY <1>1, <1>2, WorkLeads DEF FrontOK, SoloInv, SoloOK
<1>6. PICK t1, c1 : t1 = task'[p] /\ c1 = call'[p]
  OBVIOUS
<1>7. t1.pc # "idle"
  BY <1>1, <1>2, <1>3, <1>5, <1>6, WorkStays DEF FrontOK
<1>8. /\ t1.op = t.op /\ Course(t1) /\ RowsKnown(c1, records')
      /\ RecordsDue(t1, Landing(c1, records')) = RecordsDue(t, Landing(c, records))
      /\ ZonesDue(t1, zones') = ZonesDue(t, zones)
      /\ Untouched(t1) => Untouched(t) /\ zones' = zones /\ records' = records
  BY <1>1, <1>5, <1>6 DEF Leads
<1>9. AdminShape(a) /\ (Untouched(t1) => zones' = a.zonesBefore /\ records' = a.recordsBefore)
  BY <1>2, <1>4, <1>8 DEF FrontOK, AdminOK
<1>10. AdminOK(a, t1, c1, zones', records')
  <2>1. CASE t.op = "ListRecords"
    <3>1. /\ a.request.method = "GET" /\ a.request.path = "/records"
          /\ Listing(t, records, a.request.arg)
      BY <1>2, <1>4, <2>1 DEF FrontOK, AdminOK
    <3>2. Listing(t1, records', a.request.arg)
      BY <1>1, <1>4, <1>6, <2>1, <3>1, ListingReads
    <3> QED
      BY <1>4, <1>7, <1>8, <1>9, <2>1, <3>1, <3>2 DEF AdminOK
  <2>2. CASE t.op # "ListRecords"
    <3>1. /\ a.request.method # "GET" /\ WriteCall(t.op, a.request)
          /\ <<ZonesDue(t, zones), KeysOf(RecordsDue(t, Landing(c, records)))>> = Written(a)
          /\ Kept(t, c, a.recordsBefore, records)
          /\ Seeded(t, c, a.zonesBefore, a.recordsBefore, zones, records)
      BY <1>2, <1>4, <2>2 DEF FrontOK, AdminOK
    <3>2. CallOfTask(t, c)
      BY <1>1 DEF SoloInv, SoloOK
    <3>3. Kept(t1, c1, a.recordsBefore, records')
      BY <1>1, <1>4, <1>5, <1>6, <3>1, <3>2, WorkKeeps
    <3>4. Seeded(t1, c1, a.zonesBefore, a.recordsBefore, zones', records')
      BY <1>1, <1>4, <1>5, <1>6, <3>1, <3>2, WorkSeeds
    <3> QED
      BY <1>4, <1>7, <1>8, <1>9, <2>2, <3>1, <3>3, <3>4 DEF AdminOK
  <2> QED
    BY <2>1, <2>2
<1>11. UpdateOK(u, t1, c1, records')
  BY <1>2, <1>4, IdleHandlers DEF FrontOK, UpdateOK
<1>12. FrontOK(u, a, t1, c1, zones', records')
  BY <1>4, <1>8, <1>10, <1>11 DEF FrontOK
<1> QED
  BY <1>1, <1>2, <1>6, <1>12 DEF FrontMoves, FrontNow, ManagerStep

\* A write that is made in part, on its way from one pair of zones and keys to another.
LEMMA InterruptedWrite ==
    ASSUME NEW a, NEW known, NEW keys, NEW zonesDue, NEW keysDue,
           Written(a) = <<zonesDue, keysDue>>,
           a.zonesBefore \cap zonesDue \subseteq known,
           known \subseteq a.zonesBefore \cup zonesDue,
           KeysOf(a.recordsBefore) \cap keysDue \subseteq keys,
           keys \subseteq KeysOf(a.recordsBefore) \cup keysDue,
           keys # KeysOf(a.recordsBefore) => a.request.path = "/seed/import" /\ known = zonesDue
    PROVE  Interrupted(a, <<known, keys>>)
BY DEF Interrupted, KeysOf

\* A write of which nothing is made is one.
LEMMA InterruptedAtOnce ==
    ASSUME NEW a
    PROVE  Interrupted(a, <<a.zonesBefore, KeysOf(a.recordsBefore)>>)
BY DEF Interrupted, KeysOf

\* The store fails before the method of a request has written anything ...
LEMMA FirstFailsMoves ==
    ASSUME ManagerInv, SoloInv, FrontInv, NEW p \in Writers, update[p].pc = "idle",
           UNCHANGED <<update, messages>>, FirstTransactionFails(p)
    PROVE  FrontMoves(p)
<1>1. PICK u, a, t, c : u = update[p] /\ a = admin[p] /\ t = task[p] /\ c = call[p]
  OBVIOUS
<1>2. /\ FrontOK(u, a, t, c, zones, records) /\ u.pc = "idle" /\ a.pc = "call" /\ t.pc = "idle"
      /\ DOMAIN update = Writers /\ DOMAIN admin = Writers
      /\ DOMAIN NoExchange = {"pc", "request", "status", "listing", "broken", "zonesBefore",
                              "recordsBefore"}
  BY <1>1, FrontFacts DEF FrontHere, FirstTransactionFails, Calling
<1>3. UNCHANGED managerVars /\ update' = update
  BY DEF FirstTransactionFails
<1>4. task' = task /\ call' = call /\ zones' = zones /\ records' = records
  BY <1>3 DEF managerVars
<1>5. AdminShape(a) /\ zones = a.zonesBefore /\ records = a.recordsBefore
  BY <1>2 DEF FrontOK, AdminOK
<1>6. PICK status : status = IF a.request.path = "/zones" THEN 500 ELSE 400
  OBVIOUS
<1>7. PICK b : b = [a EXCEPT !.pc = "respond", !.broken = TRUE, !.status = status]
  OBVIOUS
<1>8. admin'[p] = b /\ DOMAIN admin' = Writers
  BY <1>1, <1>2, <1>6, <1>7 DEF FirstTransactionFails
<1>9. /\ b.pc = "respond" /\ b.broken /\ b.status # 200 /\ b.request = a.request
      /\ b.zonesBefore = zones /\ b.recordsBefore = records /\ DOMAIN b = DOMAIN NoExchange
  BY <1>2, <1>5, <1>6, <1>7 DEF AdminShape
<1>10. AdminOK(b, t, c, zones, records)
  BY <1>9, InterruptedAtOnce DEF AdminOK, AdminShape, Truthful
<1>11. FrontOK(u, b, t, c, zones, records)
  BY <1>2, <1>10 DEF FrontOK
<1> QED
  BY <1>1, <1>2, <1>3, <1>4, <1>8, <1>11 DEF FrontMoves, FrontNow

\* ... or after it has: it leaves a part of the write, and of the records of no write but a
\* seed's.
LEMMA ManagerFailsMoves ==
    ASSUME ManagerInv, SoloInv, FrontInv, NEW p \in Writers, update[p].pc = "idle",
           UNCHANGED <<update, messages>>, ManagerFails(p)
    PROVE  FrontMoves(p)
<1>1. PICK u, a, t, c : u = update[p] /\ a = admin[p] /\ t = task[p] /\ c = call[p]
  OBVIOUS
<1>2. /\ FrontOK(u, a, t, c, zones, records) /\ u.pc = "idle"
      /\ DOMAIN update = Writers /\ DOMAIN admin = Writers
      /\ DOMAIN NoExchange = {"pc", "request", "status", "listing", "broken", "zonesBefore",
                              "recordsBefore"}
  BY <1>1, FrontFacts DEF FrontHere
<1>3. a.pc = "wait" /\ StoreFails(p) /\ update' = update
  BY <1>1 DEF ManagerFails
<1>4. /\ Course(t) /\ CallOfTask(t, c) /\ AdminShape(a)
      /\ t \in Tasks /\ TaskShape(t) /\ CallShape(c) /\ c \in Calls
      /\ Untouched(t) => zones = a.zonesBefore /\ records = a.recordsBefore
  BY <1>1, <1>2, <1>3 DEF FrontOK, AdminOK, SoloInv, SoloOK, ManagerInv, StoreInv, StoreTypeOK
<1>5. PICK b : b = [a EXCEPT !.pc = "respond", !.status = 400, !.broken = TRUE]
  OBVIOUS
<1>6. admin'[p] = b /\ DOMAIN admin' = Writers
  BY <1>1, <1>2, <1>5 DEF ManagerFails
<1>7. /\ b.pc = "respond" /\ b.broken /\ b.status = 400 /\ b.request = a.request
      /\ b.zonesBefore = a.zonesBefore /\ b.recordsBefore = a.recordsBefore
      /\ DOMAIN b = DOMAIN NoExchange
  BY <1>2, <1>4, <1>5 DEF AdminShape
<1>8. ASSUME t.op = "ListRecords" PROVE Truthful(b, zones, records)
  <2>1. a.request.method = "GET" /\ t.pc = "read"
    BY <1>2, <1>3, <1>4, <1>8 DEF FrontOK, AdminOK, Course
  <2>2. zones = a.zonesBefore /\ records = a.recordsBefore
    BY <1>4, <1>8, <2>1 DEF Untouched
  <2> QED
    BY <1>7, <2>1, <2>2 DEF Truthful
<1>9. ASSUME t.op # "ListRecords" PROVE Truthful(b, zones, records)
  <2>1. PICK zonesDue, keysDue : /\ zonesDue = ZonesDue(t, zones)
                                 /\ keysDue = KeysOf(RecordsDue(t, Landing(c, records)))
    OBVIOUS
  <2>2. /\ a.request.method # "GET" /\ WriteCall(t.op, a.request)
        /\ <<zonesDue, keysDue>> = Written(a)
        /\ Kept(t, c, a.recordsBefore, records)
        /\ Seeded(t, c, a.zonesBefore, a.recordsBefore, zones, records)
    BY <1>2, <1>3, <1>9, <2>1 DEF FrontOK, AdminOK
  <2>3. Written(b) = <<zonesDue, keysDue>>
    <3>1. Written(b) = Written(a)
      BY <1>7 DEF Written
    <3> QED
      BY <2>2, <3>1
  <2>4. zones \subseteq zonesDue
    BY <2>1 DEF ZonesDue
  <2>5. \/ Untouched(t)
        \/ t.pc = "return" /\ c.pc \in {"put", "rows"}
        \/ t.pc = "seed" /\ c.pc \in {"idle", "put"}
    BY <1>1, <1>3, <1>4, <2>2, StoreFailsAt DEF WriteCall, RRSetCalls
  <2>6. Interrupted(b, <<zones, KeysOf(records)>>)
    <3>1. CASE Untouched(t)
      BY <1>4, <1>7, <3>1, InterruptedAtOnce
    <3>2. CASE t.pc = "return" /\ c.pc \in {"put", "rows"}
      <4>1. records = b.recordsBefore
        BY <1>7, <2>2, <3>2 DEF Kept
      <4>2. zonesDue = zones
        BY <1>4, <2>1, <3>2 DEF ZonesDue, Course, TaskShape
      <4> QED
        BY <2>3, <4>1, <4>2, InterruptedWrite
    <3>3. CASE t.pc = "seed" /\ c.pc \in {"idle", "put"}
      <4>1. t.op = "ImportSeedData" /\ t.current = {} /\ b.request.path = "/seed/import"
        BY <1>4, <1>7, <2>2, <3>3 DEF TaskShape, WriteCall
      <4>2. /\ b.zonesBefore \subseteq zones
            /\ KeysOf(b.recordsBefore) \subseteq KeysOf(records)
            /\ {r.zone : r \in t.todo} \subseteq zones \cup t.seedZones
            /\ t.seedZones # {} => records = b.recordsBefore
        BY <1>7, <2>2, <3>3 DEF Seeded
      <4>3. KeysOf(records) \subseteq keysDue
        <5>1. KeysOf(records) \subseteq KeysOf(Landing(c, records))
          BY <1>4, <3>3 DEF KeysOf, Landing, CallShape
        <5>2. \A stored, new : KeysOf(stored) \subseteq KeysOf(Overlay(stored, new))
          BY DEF KeysOf, Overlay
        <5>3. keysDue = KeysOf(Overlay(Landing(c, records), t.todo \cup t.current))
          BY <2>1, <4>1 DEF RecordsDue, RRSetCalls
        <5> QED
          BY <5>1, <5>2, <5>3
      <4>4. KeysOf(records) # KeysOf(b.recordsBefore) => zones = zonesDue
        BY <2>1, <4>1, <4>2 DEF ZonesDue
      <4> QED
        BY <2>3, <2>4, <4>1, <4>2, <4>3, <4>4, InterruptedWrite
    <3> QED
      BY <2>5, <3>1, <3>2, <3>3
  <2> QED
    BY <1>7, <2>2, <2>6 DEF Truthful
<1>10. /\ task'[p] = NoTask /\ call'[p] = NoCall /\ zones' = zones /\ records' = records
  BY <1>3, StoreFailsLeaves
<1>11. AdminOK(b, NoTask, NoCall, zones, records)
  BY <1>7, <1>8, <1>9 DEF AdminOK, AdminShape
<1>12. Course(NoTask) /\ RowsKnown(NoCall, records) /\ UpdateOK(u, NoTask, NoCall, records)
  BY <1>2, NoTaskFacts, IdleHandlers DEF Course, UniqueKeys, RowsKnown, NoCall, FrontOK, UpdateOK
<1>13. FrontOK(u, b, NoTask, NoCall, zones, records)
  BY <1>2, <1>11, <1>12, NoTaskFacts DEF FrontOK
<1> QED
  BY <1>1, <1>2, <1>3, <1>6, <1>10, <1>13 DEF FrontMoves, FrontNow

-----------------------------------------------------------------------------
(* The specification. *)

\* Every step of a goroutine, for a request or for a message.
LEMMA FrontStepMoves ==
    ASSUME ManagerInv, SoloInv, FrontInv, NEW p \in Writers, HTTP(p) \/ DNS(p)
    PROVE  FrontMoves(p)
<1>1. CASE HTTP(p)
  <2>1. /\ update[p].pc = "idle" /\ UNCHANGED <<update, messages>>
        /\ (\E request \in HTTPRequests : ServeHTTP(p, request)) \/ AdminStep(p)
    BY <1>1 DEF HTTP
  <2>2. CASE \E request \in HTTPRequests : ServeHTTP(p, request)
    BY <2>1, <2>2, ServeHTTPMoves
  <2>3. CASE AdminStep(p)
    BY <2>1, <2>3, HandleWriteMoves, AnswerMoves, ManagerReturnedMoves, HandleListRecordsMoves,
       RecordsListedMoves, AdminWorkMoves, ManagerFailsMoves, FirstFailsMoves DEF AdminStep
  <2> QED
    BY <2>1, <2>2, <2>3
<1>2. CASE DNS(p)
  <2>1. /\ admin[p].pc = "idle" /\ UNCHANGED <<admin, requests>>
        /\ (\E m \in Messages : ServeUpdate(p, m)) \/ HandlerStep(p) \/ HandlerFails(p) \/ WriteReply(p)
    BY <1>2 DEF DNS
  <2>2. CASE \E m \in Messages : ServeUpdate(p, m)
    BY <2>1, <2>2, ServeUpdateMoves
  <2>3. CASE HandlerStep(p) \/ HandlerFails(p) \/ WriteReply(p)
    BY <2>1, <2>3, ApplyRRMoves, RRReturnedMoves, ReplyMoves, UpdateWorkMoves, HandlerFailsMoves
       DEF HandlerStep
  <2> QED
    BY <2>1, <2>2, <2>3
<1> QED
  BY <1>1, <1>2

\* Nothing has arrived.
LEMMA FrontInitInv == FrontInit => ManagerInv /\ SoloInv /\ FrontInv
<1> SUFFICES ASSUME FrontInit PROVE ManagerInv /\ SoloInv /\ FrontInv
  OBVIOUS
<1>1. ManagerInv /\ SoloInv
  BY ManagerInitInv, SoloInit DEF FrontInit, AdminInit
<1>2. /\ update = [p \in Writers |-> NoUpdate] /\ admin = [p \in Writers |-> NoExchange]
      /\ task = [p \in Writers |-> NoTask] /\ call = [p \in Writers |-> NoCall]
  BY DEF FrontInit, AdminInit, UpdateInit, ManagerInit, StoreInit
<1>3. NoUpdate.pc = "idle" /\ UpdateShape(NoUpdate)
  BY DEF NoUpdate, UpdateShape
<1>4. NoExchange.pc = "idle" /\ AdminShape(NoExchange)
  BY DEF NoExchange, AdminShape
<1>5. /\ UpdateOK(NoUpdate, NoTask, NoCall, records)
      /\ AdminOK(NoExchange, NoTask, NoCall, zones, records)
  BY <1>3, <1>4, IdleHandlers
<1>6. Course(NoTask) /\ RowsKnown(NoCall, records)
  BY NoTaskFacts DEF Course, UniqueKeys, RowsKnown, NoCall
<1>7. FrontOK(NoUpdate, NoExchange, NoTask, NoCall, zones, records)
  BY <1>3, <1>4, <1>5, <1>6, NoTaskFacts DEF FrontOK
<1> QED
  BY <1>1, <1>2, <1>7 DEF FrontInv

\* Whatever arrives, in whichever order: the steps of the one goroutine that is at work.
LEMMA FrontNextInv ==
    ASSUME OneGoroutine, ManagerInv, SoloInv, FrontInv, [FrontNext]_frontVars
    PROVE  ManagerInv' /\ SoloInv' /\ FrontInv'
<1>1. CASE UNCHANGED frontVars
  <2>1. UNCHANGED managerVars /\ update' = update /\ admin' = admin
    BY <1>1 DEF frontVars
  <2>2. ManagerInv'
    BY <2>1, StepsInv
  <2>3. task' = task /\ call' = call /\ zones' = zones /\ records' = records
    BY <2>1 DEF managerVars
  <2> QED
    BY <2>1, <2>2, <2>3 DEF SoloInv, FrontInv
<1>2. ASSUME NEW p \in Writers, HTTP(p) \/ DNS(p)
      PROVE  ManagerInv' /\ SoloInv' /\ FrontInv'
  <2>1. FrontMoves(p)
    BY <1>2, FrontStepMoves
  <2>2. ManagerInv' /\ SoloOK(task'[p], call'[p], records')
    <3>1. CASE ManagerStep(p)
      BY <3>1, ManagerStepInv, ManagerStepAdvances DEF Advances, SoloInv
    <3>2. CASE UNCHANGED managerVars
      <4>1. task' = task /\ call' = call /\ records' = records
        BY <3>2 DEF managerVars
      <4> QED
        BY <3>2, <4>1, StepsInv DEF SoloInv
    <3>3. CASE StoreFails(p)
      BY <3>3, StoreFailsLeaves
    <3> QED
      BY <2>1, <3>1, <3>2, <3>3 DEF FrontMoves
  <2>3. \A q \in Writers : q = p
    BY DEF OneGoroutine
  <2>4. SoloInv'
    BY <2>2, <2>3 DEF SoloInv
  <2>5. FrontInv'
    BY <2>1, <2>3 DEF FrontMoves, FrontNow, FrontInv
  <2> QED
    BY <2>2, <2>4, <2>5
<1> QED
  BY <1>1, <1>2 DEF FrontNext, FrontRests

\* The invariant of the two handlers.
LEMMA FrontHolds ==
    ASSUME OneGoroutine
    PROVE  FrontSpec => [](ManagerInv /\ FrontInv)
<1>1. ManagerInv /\ SoloInv /\ FrontInv /\ [FrontNext]_frontVars
        => ManagerInv' /\ SoloInv' /\ FrontInv'
  BY FrontNextInv
<1> QED
  BY <1>1, FrontInitInv, PTL DEF FrontSpec

\* An update message handled alone, whatever messages and HTTP requests went before it:
\* between two calls of the Manager the records are what RFC 2136 makes of those that the
\* message found, for the RRs that applyUpdate has applied, all of them when it succeeds and
\* exactly those before the failing one otherwise.  A call that fails has written nothing,
\* unless a transaction of the store failed while DeleteRRSet or DeleteName was deleting:
\* then a part of their set is gone, and nothing else.
THEOREM UpdateIsPrefix ==
    ASSUME OneGoroutine
    PROVE  FrontSpec => []UpdatePrefix
<1>1. FrontInv => UpdatePrefix
  BY DEF FrontInv, FrontOK, UpdateOK, Torn, CurrentRR, After, UpdatePrefix
<1> QED
  BY <1>1, FrontHolds, PTL

\* An HTTP request handled alone over a store that may fail, whatever went before it: when
\* the handler answers a write with 200 the whole of it is in the store, when it answers
\* another status and no transaction failed nothing of it, and when one failed a part of it
\* in the order of the Manager's calls: zones before records, of the records a part only if
\* a seed is imported, and nothing that the write does not ask for.  A listing is the
\* store's, although handleGetRecords reads it row by row.
THEOREM StatusIsTruthful ==
    ASSUME OneGoroutine
    PROVE  FrontSpec => []StatusTruthful
<1>1. ASSUME FrontInv, NEW p \in Writers, admin[p].pc = "respond"
      PROVE  Truthful(admin[p], zones, records)
  BY <1>1 DEF FrontInv, FrontOK, AdminOK
<1>2. FrontInv => StatusTruthful
  BY <1>1 DEF StatusTruthful, Truthful, KeysOf
<1> QED
  BY <1>2, FrontHolds, PTL

-----------------------------------------------------------------------------
(* Batches of changes. *)

\* The preview and the calls agree on the zone of a change and on what it deletes: a
\* record change names no other zone than its record's, no set is of the type ANY, and
\* no records differ in class.
PlainChange(change) ==
    /\ change.kind \in {"upsert_record", "delete_record"} =>
          change.zone = Root \/ Fold(change.zone) = Fold(change.record.zone)
    /\ change.kind \in {"upsert_rrset", "delete_rrset"} => change.type # "ANY"

PlainBatches ==
    /\ \A r, s \in Records : r.class = s.class
    /\ \A changes \in Batches : \A i \in 1 .. Len(changes) : PlainChange(changes[i])

\* The copy of a zone after the first k changes of the preview.
Seen(b, k, z) ==
    IF k > 0 /\ z \in DOMAIN b.trail[k] THEN b.trail[k][z] ELSE b.base[z]

\* A copy shows the zone as these zones and records have it.
Shows(state, z, known, stored) ==
    /\ DOMAIN state = {"exists", "records"}
    /\ state.exists <=> z \in known
    /\ KeysOf(state.records) = KeysOf(InZone(stored, z))

\* Every copy after k changes shows its zone.
AllShown(b, k, known, stored) ==
    \A z \in DOMAIN b.base : Shows(Seen(b, k, z), z, known, stored)

\* Change i of the preview has made one copy from the one before, and no other.
PreviewStep(b, i) ==
    \E z \in ChangeZones(b.changes[i]) \ {NoZone} :
        /\ z \in DOMAIN b.base
        /\ Accepted(z, b.changes[i])
        /\ Seen(b, i, z) \in Previews(Seen(b, i - 1, z), z, b.changes[i])
        /\ \A y \in DOMAIN b.base : y # z => Seen(b, i, y) = Seen(b, i - 1, y)

\* The copies at hand are the last ones, and each change has led to the next ones.
PreviewOK(b) ==
    /\ \E S : b.trail \in Seq(S)
    /\ Len(b.trail) <= Len(b.changes)
    /\ DOMAIN b.states = DOMAIN b.base
    /\ \A z \in DOMAIN b.base : b.states[z] = Seen(b, Len(b.trail), z)
    /\ \A i \in 1 .. Len(b.trail) : PreviewStep(b, i) /\ DOMAIN b.trail[i] \subseteq DOMAIN b.base

\* The copies pass validatePreviewZoneStates.
StatesValid(b) ==
    \A z \in DOMAIN b.states : \/ ~b.states[z].exists
                               \/ b.states[z].records = {}
                               \/ validateZoneRecords(z, b.states[z].records, TRUE)

\* Until the preview is over its copies are those of the store; then the store follows the
\* copies, change by change, and within a change it is bound for the next ones.
BatchOK(b, t, c, known, stored) ==
    /\ b.pc \in {"idle", "preview", "load", "change", "apply", "failed"}
    /\ b.pc # "idle" => PreviewOK(b)
    /\ b.pc \in {"preview", "load", "change"} =>
          b.next = Len(b.trail) + 1 /\ AllShown(b, 0, known, stored)
    /\ b.pc \in {"load", "change"} =>
          b.next <= Len(b.changes) /\ b.zone \in ChangeZones(b.changes[b.next]) \ {NoZone}
    /\ b.pc = "load" =>
          /\ t.op = "PreviewChanges" /\ t.pc \in {"list", "read"} /\ t.zone = b.zone
          /\ b.zone \notin DOMAIN b.base
          /\ b.exists <=> b.zone \in known
    /\ b.pc = "change" => b.zone \in DOMAIN b.base
    /\ b.pc = "apply" => Len(b.trail) = Len(b.changes) /\ StatesValid(b)
    /\ b.pc \in {"apply", "failed"} => b.next <= Len(b.trail) + 1
    /\ b.pc \in {"apply", "failed"} /\ t.pc = "idle" => AllShown(b, b.next - 1, known, stored)
    /\ b.pc = "apply" /\ t.pc # "idle" =>
          /\ b.next <= Len(b.changes)
          /\ AllShown(b, b.next, ZonesDue(t, known), RecordsDue(t, Landing(c, stored)))
          /\ Untouched(t) => AllShown(b, b.next - 1, known, stored)

CopiesInv ==
    \A p \in Writers : /\ Course(task[p]) /\ RowsKnown(call[p], records)
                       /\ BatchOK(batch[p], task[p], call[p], zones, records)

\* The same of one goroutine after a step.
CopiesNow(p) ==
    /\ Course(task'[p]) /\ RowsKnown(call'[p], records')
    /\ BatchOK(batch'[p], task'[p], call'[p], zones', records')

-----------------------------------------------------------------------------
(* One change. *)

\* The keys of a zone.
KeysIn(keys, zone) == {k \in keys : k[1] = zone}

\* The call of a change makes these zones and records of the store's.
Made(change, known, stored, known1, stored1) ==
    LET zone == Fold(change.zone)
        n    == NormalizeRecord(change.record)
        set  == SetOf(change.zone, change)
    IN  \/ /\ change.kind = "upsert_zone" /\ change.zone # Root
           /\ known1 = known \cup {zone} /\ stored1 = stored
        \/ /\ change.kind = "delete_zone" /\ change.zone # Root
           /\ known1 = known \ {zone} /\ stored1 = {r \in stored : r.zone # zone}
        \/ /\ change.kind = "upsert_record"
           /\ known1 = known \cup {n.zone} /\ stored1 = Put(stored, n)
        \/ /\ change.kind = "delete_record"
           /\ known1 = known /\ stored1 = Without(stored, n)
        \/ /\ change.kind = "upsert_rrset" /\ RRSetAccepted(set)
           /\ \E kept \in Deduped({normalizeRRSetRecord(set, r) : r \in set.records}) :
                 /\ known1 = known \cup {r.zone : r \in kept}
                 /\ stored1 = (stored \ LookupIn(stored, zone, Fold(change.name), change.type, "ANY"))
                                 \cup kept
        \/ /\ change.kind = "delete_rrset" /\ change.zone # Root /\ known1 = known
           /\ stored1 = stored \ LookupIn(stored, zone, Fold(change.name), change.type, "ANY")
        \/ /\ change.kind = "delete_name" /\ change.zone # Root /\ known1 = known
           /\ stored1 = stored \ LookupIn(stored, zone, Fold(change.name), "ANY", "ANY")

\* The zone that the preview finds is the one the call works on.
LEMMA OneZone ==
    ASSUME NEW change, PlainChange(change), ChangeInUniverse(change),
           NEW z \in ChangeZones(change), Accepted(z, change)
    PROVE  /\ change.kind \in {"upsert_record", "delete_record"} =>
                 z = NormalizeRecord(change.record).zone
           /\ change.zone # Root => z = Fold(change.zone)
<1>1. change.zone # Root => z = Fold(change.zone)
  BY DEF ChangeZones, NormalizeZoneName
<1>2. ASSUME change.kind \in {"upsert_record", "delete_record"}
      PROVE  z = NormalizeRecord(change.record).zone
  <2>1. PICK raw : raw = change.record
    OBVIOUS
  <2>2. RecordAccepted(raw) /\ raw.zone # Root
    BY <1>2, <2>1 DEF Accepted, RecordAccepted, ZoneAccepted
  <2>3. z = Fold(raw.zone)
    BY <1>1, <1>2, <2>1, <2>2 DEF ChangeZones, NormalizeZoneName, PlainChange
  <2>4. NormalizeRecord(raw) \in Records
    BY <2>1, <2>2 DEF ChangeInUniverse
  <2>5. PICK r \in RawRecords : NormalizeRecord(raw) = NormalizeRecord(r)
    BY <2>4 DEF Records
  <2>6. "zone" \in DOMAIN r
    BY <2>5, RawAssumption DEF RecordType
  <2>7. DOMAIN NormalizeRecord(raw) = DOMAIN raw /\ DOMAIN NormalizeRecord(r) = DOMAIN r
    BY DEF NormalizeRecord
  <2>8. NormalizeRecord(raw).zone = Fold(raw.zone)
    BY <2>5, <2>6, <2>7 DEF NormalizeRecord, NormalizeZoneName
  <2> QED
    BY <2>1, <2>3, <2>8
<1> QED
  BY <1>1, <1>2

\* Changes of the records and of their keys.
LEMMA KeysMoved ==
    ASSUME NEW stored
    PROVE  /\ \A z : KeysOf(InZone(stored, z)) = KeysIn(KeysOf(stored), z)
           /\ \A new : KeysOf(stored \cup new) = KeysOf(stored) \cup KeysOf(new)
           /\ \A new : KeysOf(upsertRecords(stored, new)) = KeysOf(stored) \cup KeysOf(new)
           /\ \A z, name, type : type # "ANY" =>
                 KeysOf(stored \ LookupIn(stored, z, name, type, "ANY")) =
                     {k \in KeysOf(stored) : ~(k[1] = z /\ k[2] = name /\ k[3] = type)}
           /\ \A z, name :
                 KeysOf(stored \ LookupIn(stored, z, name, "ANY", "ANY")) =
                     {k \in KeysOf(stored) : ~(k[1] = z /\ k[2] = name)}
<1>1. \A r : Key(r)[1] = r.zone /\ Key(r)[2] = r.name /\ Key(r)[3] = r.type
  BY DEF Key
<1>2. \A z : KeysOf(InZone(stored, z)) = KeysIn(KeysOf(stored), z)
  BY <1>1 DEF KeysOf, KeysIn, InZone
<1>3. \A new : KeysOf(stored \cup new) = KeysOf(stored) \cup KeysOf(new)
  BY DEF KeysOf
<1>4. ASSUME NEW new
      PROVE  KeysOf(upsertRecords(stored, new)) = KeysOf(stored) \cup KeysOf(new)
  BY DEF KeysOf, upsertRecords
<1>5. ASSUME NEW z, NEW name, NEW type, type # "ANY"
      PROVE  KeysOf(stored \ LookupIn(stored, z, name, type, "ANY")) =
                 {k \in KeysOf(stored) : ~(k[1] = z /\ k[2] = name /\ k[3] = type)}
  <2>1. \A r : r \in LookupIn(stored, z, name, type, "ANY") <=>
                  r \in stored /\ r.zone = z /\ r.name = name /\ r.type = type
    BY <1>5 DEF LookupIn, RowKey
  <2> QED
    BY <1>1, <2>1 DEF KeysOf
<1>6. ASSUME NEW z, NEW name
      PROVE  KeysOf(stored \ LookupIn(stored, z, name, "ANY", "ANY")) =
                 {k \in KeysOf(stored) : ~(k[1] = z /\ k[2] = name)}
  <2>1. \A r : r \in LookupIn(stored, z, name, "ANY", "ANY") <=>
                  r \in stored /\ r.zone = z /\ r.name = name
    BY DEF LookupIn, RowKey
  <2> QED
    BY <1>1, <2>1 DEF KeysOf
<1> QED
  BY <1>2, <1>3, <1>4, <1>5, <1>6

\* A change of a zone alone.
LEMMA ZoneMade ==
    ASSUME NEW change, NEW z, change.zone # Root => z = Fold(change.zone),
           change.kind \in {"upsert_zone", "delete_zone"},
           NEW known, NEW stored, NEW known1, NEW stored1,
           Made(change, known, stored, known1, stored1)
    PROVE  /\ \A y : y # z => (y \in known1 <=> y \in known)
                                /\ KeysIn(KeysOf(stored1), y) = KeysIn(KeysOf(stored), y)
           /\ \A state, new : new \in Previews(state, z, change) /\ Shows(state, z, known, stored)
                                => Shows(new, z, known1, stored1)
<1>1. CASE change.kind = "upsert_zone"
  <2>1. known1 = known \cup {z} /\ stored1 = stored
    BY <1>1 DEF Made
  <2>2. ASSUME NEW state, NEW new, new \in Previews(state, z, change),
               Shows(state, z, known, stored)
        PROVE  Shows(new, z, known1, stored1)
    <3>1. new = [state EXCEPT !.exists = TRUE] /\ DOMAIN state = {"exists", "records"}
      BY <1>1, <2>2 DEF Previews, Shows
    <3>2. new.exists = TRUE /\ new.records = state.records /\ DOMAIN new = {"exists", "records"}
      BY <3>1
    <3> QED
      BY <2>1, <2>2, <3>2 DEF Shows
  <2> QED
    BY <2>1, <2>2
<1>2. CASE change.kind = "delete_zone"
  <2>1. known1 = known \ {z} /\ stored1 = RecordsOutside(stored, z)
    BY <1>2 DEF Made, RecordsOutside
  <2>2. KeysOf(stored1) = KeysOutside(KeysOf(stored), z)
    BY <2>1, KeysAfter
  <2>3. KeysIn(KeysOf(stored1), z) = {}
    BY <2>2 DEF KeysIn, KeysOutside
  <2>4. \A y : y # z => KeysIn(KeysOf(stored1), y) = KeysIn(KeysOf(stored), y)
    BY <2>2 DEF KeysIn, KeysOutside
  <2>5. ASSUME NEW state, NEW new, new \in Previews(state, z, change)
        PROVE  Shows(new, z, known1, stored1)
    <3>1. new = [exists |-> FALSE, records |-> {}]
      BY <1>2, <2>5 DEF Previews
    <3>2. ~new.exists /\ new.records = {} /\ DOMAIN new = {"exists", "records"}
      BY <3>1
    <3>3. KeysOf(new.records) = {}
      BY <3>2 DEF KeysOf
    <3> QED
      BY <2>1, <2>3, <3>2, <3>3, KeysMoved DEF Shows
  <2> QED
    BY <2>1, <2>4, <2>5
<1> QED
  BY <1>1, <1>2

\* A change of one record.
LEMMA RecordMade ==
    ASSUME NEW change, NEW z, z = NormalizeRecord(change.record).zone,
           change.kind \in {"upsert_record", "delete_record"},
           NEW known, NEW stored, NEW known1, NEW stored1,
           Made(change, known, stored, known1, stored1)
    PROVE  /\ \A y : y # z => (y \in known1 <=> y \in known)
                                /\ KeysIn(KeysOf(stored1), y) = KeysIn(KeysOf(stored), y)
           /\ \A state, new : new \in Previews(state, z, change) /\ Shows(state, z, known, stored)
                                => Shows(new, z, known1, stored1)
<1>1. PICK n : n = NormalizeRecord(change.record)
  OBVIOUS
<1>2. z = n.zone /\ Key(n)[1] = z
  BY <1>1 DEF Key
<1>3. /\ KeysOf(InZone(stored, z)) = KeysIn(KeysOf(stored), z)
      /\ KeysOf(InZone(stored1, z)) = KeysIn(KeysOf(stored1), z)
  BY KeysMoved
<1>4. CASE change.kind = "upsert_record"
  <2>1. known1 = known \cup {z} /\ stored1 = Put(stored, n)
    BY <1>1, <1>2, <1>4 DEF Made
  <2>2. KeysOf(stored1) = KeysOf(stored) \cup {Key(n)}
    BY <2>1, KeysAfter
  <2>3. /\ KeysIn(KeysOf(stored1), z) = KeysIn(KeysOf(stored), z) \cup {Key(n)}
        /\ \A y : y # z => KeysIn(KeysOf(stored1), y) = KeysIn(KeysOf(stored), y)
    BY <1>2, <2>2 DEF KeysIn
  <2>4. ASSUME NEW state, NEW new, new \in Previews(state, z, change),
               Shows(state, z, known, stored)
        PROVE  Shows(new, z, known1, stored1)
    <3>1. new = [exists |-> TRUE, records |-> upsertRecords(state.records, {n})]
      BY <1>1, <1>4, <2>4 DEF Previews
    <3>2. /\ new.exists /\ new.records = upsertRecords(state.records, {n})
          /\ DOMAIN new = {"exists", "records"}
      BY <3>1
    <3>3. KeysOf({n}) = {Key(n)}
      BY DEF KeysOf
    <3>4. KeysOf(new.records) = KeysOf(state.records) \cup {Key(n)}
      BY <3>2, <3>3, KeysMoved
    <3> QED
      BY <1>3, <2>1, <2>3, <2>4, <3>2, <3>4 DEF Shows
  <2> QED
    BY <2>1, <2>3, <2>4
<1>5. CASE change.kind = "delete_record"
  <2>1. known1 = known /\ stored1 = Without(stored, n)
    BY <1>1, <1>5 DEF Made
  <2>2. KeysOf(stored1) = KeysOf(stored) \ {Key(n)}
    BY <2>1, KeysAfter
  <2>3. /\ KeysIn(KeysOf(stored1), z) = KeysIn(KeysOf(stored), z) \ {Key(n)}
        /\ \A y : y # z => KeysIn(KeysOf(stored1), y) = KeysIn(KeysOf(stored), y)
    BY <1>2, <2>2 DEF KeysIn
  <2>4. ASSUME NEW state, NEW new, new \in Previews(state, z, change),
               Shows(state, z, known, stored)
        PROVE  Shows(new, z, known1, stored1)
    <3>1. new = [state EXCEPT !.records = Without(state.records, n)]
          /\ DOMAIN state = {"exists", "records"}
      BY <1>1, <1>5, <2>4 DEF Previews, Shows
    <3>2. /\ new.exists = state.exists /\ new.records = Without(state.records, n)
          /\ DOMAIN new = {"exists", "records"}
      BY <3>1
    <3>3. KeysOf(new.records) = KeysOf(state.records) \ {Key(n)}
      BY <3>2, KeysAfter
    <3> QED
      BY <1>3, <2>1, <2>3, <2>4, <3>2, <3>3 DEF Shows
  <2> QED
    BY <2>1, <2>3, <2>4
<1> QED
  BY <1>4, <1>5

\* The set that the preview normalizes is the one the call normalizes.
LEMMA OneSet ==
    ASSUME NEW change, change.zone \in Texts, NEW z, z = Fold(change.zone), NEW r
    PROVE  normalizeRRSetRecord(SetOf(z, change), r) =
               normalizeRRSetRecord(SetOf(change.zone, change), r)
<1>1. PICK a : a = SetOf(z, change)
  OBVIOUS
<1>2. PICK b : b = SetOf(change.zone, change)
  OBVIOUS
<1>3. /\ a.zone = z /\ a.name = change.name /\ a.type = change.type
      /\ b.zone = change.zone /\ b.name = change.name /\ b.type = change.type
  BY <1>1, <1>2 DEF SetOf
<1>4. Fold(a.zone) = Fold(b.zone)
  BY <1>3, FoldText
<1>5. Candidate(a, r) = Candidate(b, r)
  BY <1>3, <1>4 DEF Candidate
<1> QED
  BY <1>1, <1>2, <1>5 DEF normalizeRRSetRecord

\* upsert_rrset replaces the set of one class in the copy, of every class in the store.
LEMMA SetPutMade ==
    ASSUME \A r, s \in Records : r.class = s.class,
           NEW change, NEW z, change.zone # Root => z = Fold(change.zone),
           RRSetInUniverse(SetOf(change.zone, change)),
           change.kind = "upsert_rrset", change.type # "ANY",
           NEW known, NEW stored \in SUBSET Records, NEW known1, NEW stored1,
           Made(change, known, stored, known1, stored1)
    PROVE  /\ \A y : y # z => (y \in known1 <=> y \in known)
                                /\ KeysIn(KeysOf(stored1), y) = KeysIn(KeysOf(stored), y)
           /\ \A state, new : new \in Previews(state, z, change) /\ Shows(state, z, known, stored)
                                => Shows(new, z, known1, stored1)
<1>1. PICK set : set = SetOf(change.zone, change)
  OBVIOUS
<1>2. /\ set.zone = change.zone /\ set.name = change.name /\ set.type = change.type
      /\ set.records = change.records
  BY <1>1 DEF SetOf
<1>3. PICK all : all = {normalizeRRSetRecord(set, r) : r \in set.records}
  OBVIOUS
<1>4. PICK kept \in Deduped(all) :
        /\ RRSetAccepted(set)
        /\ known1 = known \cup {r.zone : r \in kept}
        /\ stored1 = (stored \ LookupIn(stored, Fold(change.zone), Fold(change.name), change.type, "ANY"))
                       \cup kept
  BY <1>1, <1>3 DEF Made
<1>5. change.zone # Root /\ z = Fold(change.zone) /\ change.zone \in Texts
  BY <1>1, <1>2, <1>4 DEF RRSetAccepted, LookupAccepted, ZoneAccepted, RRSetInUniverse
<1>6. PICK name : name = Fold(change.name)
  OBVIOUS
<1>7. PICK type : type = change.type /\ type # "ANY"
  OBVIOUS
<1>8. ASSUME NEW some \in Deduped(all)
      PROVE  /\ some \subseteq Records /\ some # {} /\ KeysOf(some) = KeysOf(all)
             /\ \A r \in some : r.zone = z /\ r.name = name /\ r.type = type
  <2>1. some \subseteq Records /\ \A r \in some : r.zone = z /\ r.name = name /\ r.type = type
    BY <1>1, <1>2, <1>3, <1>4, <1>5, <1>6, <1>7, RRSetRecords
  <2>2. KeysOf(some) = KeysOf(all)
    BY DEF Deduped, KeysOf
  <2>3. set.records # {}
    BY <1>4 DEF RRSetAccepted
  <2>4. some # {}
    BY <1>3, <2>3 DEF Deduped
  <2> QED
    BY <2>1, <2>2, <2>4
<1>9. PICK others : others = {k \in KeysOf(stored) : ~(k[1] = z /\ k[2] = name /\ k[3] = type)}
  OBVIOUS
<1>10. KeysOf(stored1) = others \cup KeysOf(all)
  <2>1. PICK left : left = stored \ LookupIn(stored, z, name, type, "ANY")
    OBVIOUS
  <2>2. KeysOf(left) = others
    BY <1>7, <1>9, <2>1, KeysMoved
  <2>3. stored1 = left \cup kept
    BY <1>4, <1>5, <1>6, <1>7, <2>1
  <2> QED
    BY <1>4, <1>8, <2>2, <2>3, KeysMoved
<1>11. \A k \in KeysOf(all) : k[1] = z
  BY <1>8 DEF KeysOf, Key
<1>12. known1 = known \cup {z}
  BY <1>4, <1>8
<1>13. \A y : y # z => KeysIn(KeysOf(stored1), y) = KeysIn(KeysOf(stored), y)
  BY <1>9, <1>10, <1>11 DEF KeysIn
<1>14. /\ KeysOf(InZone(stored, z)) = KeysIn(KeysOf(stored), z)
       /\ KeysOf(InZone(stored1, z)) = KeysIn(KeysOf(stored1), z)
  BY KeysMoved
<1>15. ASSUME NEW state, NEW new, new \in Previews(state, z, change),
              Shows(state, z, known, stored)
       PROVE  Shows(new, z, known1, stored1)
  <2>1. new \in RRSetPreviews(state, SetOf(z, change))
    BY <1>15 DEF Previews
  <2>2. \A r : normalizeRRSetRecord(SetOf(z, change), r) = normalizeRRSetRecord(set, r)
    BY <1>1, <1>5, OneSet
  <2>3. SetOf(z, change).records = set.records
    BY <1>2 DEF SetOf
  <2>4. {normalizeRRSetRecord(SetOf(z, change), r) : r \in SetOf(z, change).records} = all
    BY <1>3, <2>2, <2>3
  <2>5. PICK some \in Deduped(all) : \E first \in some :
            new = [exists  |-> TRUE,
                   records |-> upsertRecords({r \in state.records : ~ /\ r.name = first.name
                                                                      /\ r.type = first.type
                                                                      /\ r.class = first.class},
                                             some)]
    BY <2>1, <2>4 DEF RRSetPreviews
  <2>6. PICK first \in some :
            new = [exists  |-> TRUE,
                   records |-> upsertRecords({r \in state.records : ~ /\ r.name = first.name
                                                                      /\ r.type = first.type
                                                                      /\ r.class = first.class},
                                             some)]
    BY <2>5
  <2>7. PICK left : left = {r \in state.records : ~ /\ r.name = first.name
                                                    /\ r.type = first.type
                                                    /\ r.class = first.class}
    OBVIOUS
  <2>8. /\ new.exists /\ new.records = upsertRecords(left, some)
        /\ DOMAIN new = {"exists", "records"}
    BY <2>6, <2>7
  <2>9. first \in Records /\ first.name = name /\ first.type = type
    BY <1>8, <2>5, <2>6
  <2>10. KeysOf(state.records) = KeysIn(KeysOf(stored), z)
    BY <1>14, <1>15 DEF Shows
  <2>11. ASSUME NEW r \in state.records PROVE r.class = first.class
    <3>1. Key(r) \in KeysOf(stored)
      BY <2>10 DEF KeysOf, KeysIn
    <3>2. PICK s \in stored : Key(r) = Key(s)
      BY <3>1 DEF KeysOf
    <3> QED
      BY <2>9, <3>2 DEF Key
  <2>12. KeysOf(left) = {k \in KeysOf(state.records) : ~(k[2] = name /\ k[3] = type)}
    <3>1. left = {r \in state.records : ~(r.name = name /\ r.type = type)}
      BY <2>7, <2>9, <2>11
    <3>2. \A r : Key(r)[2] = r.name /\ Key(r)[3] = r.type
      BY DEF Key
    <3> QED
      BY <3>1, <3>2 DEF KeysOf
  <2>13. KeysOf(new.records) = KeysOf(left) \cup KeysOf(all)
    <3>1. KeysOf(upsertRecords(left, some)) = KeysOf(left) \cup KeysOf(some)
      BY KeysMoved
    <3>2. KeysOf(some) = KeysOf(all)
      BY <1>8, <2>5
    <3> QED
      BY <2>8, <3>1, <3>2
  <2>14. KeysIn(KeysOf(stored1), z) = KeysOf(new.records)
    BY <1>9, <1>10, <1>11, <2>10, <2>12, <2>13 DEF KeysIn
  <2> QED
    BY <1>12, <1>14, <2>8, <2>14 DEF Shows
<1> QED
  BY <1>12, <1>13, <1>15

\* delete_rrset and delete_name.
LEMMA SetDropMade ==
    ASSUME NEW change, NEW z, change.zone # Root => z = Fold(change.zone),
           \/ change.kind = "delete_rrset" /\ change.type # "ANY"
           \/ change.kind = "delete_name",
           NEW known, NEW stored, NEW known1, NEW stored1,
           Made(change, known, stored, known1, stored1)
    PROVE  /\ \A y : y # z => (y \in known1 <=> y \in known)
                                /\ KeysIn(KeysOf(stored1), y) = KeysIn(KeysOf(stored), y)
           /\ \A state, new : new \in Previews(state, z, change) /\ Shows(state, z, known, stored)
                                => Shows(new, z, known1, stored1)
<1>1. PICK name : name = Fold(change.name)
  OBVIOUS
<1>2. PICK type : type = change.type
  OBVIOUS
<1>3. PICK named : named = {k \in KeysOf(stored) :
                               /\ k[1] = z /\ k[2] = name
                               /\ change.kind = "delete_rrset" => k[3] = type}
  OBVIOUS
<1>4. known1 = known /\ KeysOf(stored1) = KeysOf(stored) \ named
  <2>1. CASE change.kind = "delete_rrset"
    <3>1. known1 = known /\ stored1 = stored \ LookupIn(stored, z, name, type, "ANY")
      BY <1>1, <1>2, <2>1 DEF Made
    <3>2. type # "ANY"
      BY <1>2, <2>1
    <3>3. KeysOf(stored \ LookupIn(stored, z, name, type, "ANY")) =
             {k \in KeysOf(stored) : ~(k[1] = z /\ k[2] = name /\ k[3] = type)}
      BY <3>2, KeysMoved
    <3>4. named = {k \in KeysOf(stored) : k[1] = z /\ k[2] = name /\ k[3] = type}
      BY <1>3, <2>1
    <3> QED
      BY <3>1, <3>3, <3>4
  <2>2. CASE change.kind = "delete_name"
    <3>1. known1 = known /\ stored1 = stored \ LookupIn(stored, z, name, "ANY", "ANY")
      BY <1>1, <2>2 DEF Made
    <3>2. KeysOf(stored \ LookupIn(stored, z, name, "ANY", "ANY")) =
             {k \in KeysOf(stored) : ~(k[1] = z /\ k[2] = name)}
      BY KeysMoved
    <3>3. named = {k \in KeysOf(stored) : k[1] = z /\ k[2] = name}
      BY <1>3, <2>2
    <3> QED
      BY <3>1, <3>2, <3>3
  <2> QED
    BY <2>1, <2>2
<1>5. /\ KeysOf(InZone(stored, z)) = KeysIn(KeysOf(stored), z)
      /\ KeysOf(InZone(stored1, z)) = KeysIn(KeysOf(stored1), z)
  BY KeysMoved
<1>6. \A y : y # z => KeysIn(KeysOf(stored1), y) = KeysIn(KeysOf(stored), y)
  BY <1>3, <1>4 DEF KeysIn
<1>7. ASSUME NEW state, NEW new, new \in Previews(state, z, change),
             Shows(state, z, known, stored)
      PROVE  Shows(new, z, known1, stored1)
  <2>1. DOMAIN state = {"exists", "records"} /\ KeysOf(state.records) = KeysIn(KeysOf(stored), z)
    BY <1>5, <1>7 DEF Shows
  <2>2. PICK left : left = IF change.kind = "delete_rrset"
                           THEN {r \in state.records : ~(RowKey(r) = <<z, name>> /\ r.type = type)}
                           ELSE {r \in state.records : RowKey(r) # <<z, name>>}
    OBVIOUS
  <2>3. new = [state EXCEPT !.records = left]
    <3>1. CASE change.kind = "delete_rrset"
      BY <1>1, <1>2, <1>7, <2>2, <3>1 DEF Previews
    <3>2. CASE change.kind = "delete_name"
      BY <1>1, <1>7, <2>2, <3>2 DEF Previews
    <3> QED
      BY <3>1, <3>2
  <2>4. new.exists = state.exists /\ new.records = left /\ DOMAIN new = {"exists", "records"}
    BY <2>1, <2>3
  <2>5. \A r : /\ Key(r)[1] = r.zone /\ Key(r)[2] = r.name /\ Key(r)[3] = r.type
               /\ RowKey(r) = <<z, name>> <=> r.zone = z /\ r.name = name
    BY DEF Key, RowKey
  <2>6. KeysOf(left) = {k \in KeysOf(state.records) :
                           ~ /\ k[1] = z /\ k[2] = name
                             /\ change.kind = "delete_rrset" => k[3] = type}
    BY <2>2, <2>5 DEF KeysOf
  <2>7. KeysOf(left) = KeysIn(KeysOf(stored1), z)
    BY <1>3, <1>4, <2>1, <2>6 DEF KeysIn
  <2> QED
    BY <1>4, <1>5, <1>7, <2>4, <2>7 DEF Shows
<1> QED
  BY <1>4, <1>6, <1>7

\* The applied change makes every copied zone what the preview has made its copy.
LEMMA MadeShown ==
    ASSUME \A r, s \in Records : r.class = s.class,
           NEW change, PlainChange(change), ChangeInUniverse(change),
           NEW z \in ChangeZones(change), Accepted(z, change),
           NEW known, NEW stored \in SUBSET Records, NEW known1, NEW stored1,
           Made(change, known, stored, known1, stored1)
    PROVE  /\ \A y : y # z => (y \in known1 <=> y \in known)
                                /\ KeysIn(KeysOf(stored1), y) = KeysIn(KeysOf(stored), y)
           /\ \A state, new : new \in Previews(state, z, change) /\ Shows(state, z, known, stored)
                                => Shows(new, z, known1, stored1)
<1>1. /\ change.kind \in {"upsert_record", "delete_record"} => z = NormalizeRecord(change.record).zone
      /\ change.zone # Root => z = Fold(change.zone)
  BY OneZone
<1>2. CASE change.kind \in {"upsert_zone", "delete_zone"}
  BY <1>1, <1>2, ZoneMade
<1>3. CASE change.kind \in {"upsert_record", "delete_record"}
  BY <1>1, <1>3, RecordMade
<1>4. CASE change.kind = "upsert_rrset"
  <2>1. change.type # "ANY" /\ RRSetInUniverse(SetOf(change.zone, change))
    BY <1>4 DEF PlainChange, ChangeInUniverse
  <2> QED
    BY <1>1, <1>4, <2>1, SetPutMade
<1>5. CASE change.kind \in {"delete_rrset", "delete_name"}
  <2>1. change.kind = "delete_rrset" => change.type # "ANY"
    BY DEF PlainChange
  <2> QED
    BY <1>1, <1>5, <2>1, SetDropMade
<1> QED
  BY <1>2, <1>3, <1>4, <1>5 DEF Made

\* The call of a change is bound to make the change.
LEMMA ApplyBound ==
    ASSUME ManagerInv, BatchInv, NEW p \in Writers, ApplyChange(p), ChangeInUniverse(Current(p))
    PROVE  \E op, known, stored : /\ Bound(p, op, known, stored)
                                  /\ Made(Current(p), zones, records, known, stored)
<1>1. PICK change : change = Current(p)
  OBVIOUS
<1>2. PICK set : set = SetOf(change.zone, change)
  OBVIOUS
<1>3. set.zone = change.zone /\ set.name = change.name /\ set.type = change.type
  BY <1>2 DEF SetOf
<1>4. \/ change.kind = "upsert_zone" /\ UpsertZone(p, change.zone)
      \/ change.kind = "delete_zone" /\ ManagerDeleteZone(p, change.zone)
      \/ change.kind = "upsert_record" /\ UpsertRecord(p, change.record)
      \/ change.kind = "delete_record" /\ ManagerDeleteRecord(p, change.record)
      \/ change.kind = "upsert_rrset" /\ UpsertRRSet(p, set)
      \/ change.kind = "delete_rrset" /\ DeleteRRSet(p, set)
      \/ change.kind = "delete_name" /\ DeleteName(p, set)
  BY <1>1, <1>2 DEF ApplyChange
<1>5. PICK z : z = Fold(change.zone)
  OBVIOUS
<1>6. PICK n : n = NormalizeRecord(change.record)
  OBVIOUS
<1>7. CASE change.kind = "upsert_zone" /\ UpsertZone(p, change.zone)
  <2>1. Bound(p, "UpsertZone", zones \cup {z}, records)
    BY <1>5, <1>7, UpsertZoneBound DEF NormalizeZoneName
  <2>2. change.zone # Root
    BY <1>7 DEF UpsertZone, SaveZone, ZoneAccepted
  <2>3. Made(change, zones, records, zones \cup {z}, records)
    BY <1>5, <1>7, <2>2 DEF Made
  <2> QED
    BY <1>1, <2>1, <2>3
<1>8. CASE change.kind = "delete_zone" /\ ManagerDeleteZone(p, change.zone)
  <2>1. Bound(p, "DeleteZone", zones \ {z}, {r \in records : r.zone # z})
    BY <1>5, <1>8, DeleteZoneBound DEF NormalizeZoneName
  <2>2. change.zone # Root
    BY <1>8 DEF ManagerDeleteZone, DeleteZone, ZoneAccepted
  <2>3. Made(change, zones, records, zones \ {z}, {r \in records : r.zone # z})
    BY <1>5, <1>8, <2>2 DEF Made
  <2> QED
    BY <1>1, <2>1, <2>3
<1>9. CASE change.kind = "upsert_record" /\ UpsertRecord(p, change.record)
  <2>1. Bound(p, "UpsertRecord", zones \cup {n.zone}, Put(records, n))
    BY <1>6, <1>9, UpsertRecordBound
  <2>2. Made(change, zones, records, zones \cup {n.zone}, Put(records, n))
    BY <1>6, <1>9 DEF Made
  <2> QED
    BY <1>1, <2>1, <2>2
<1>10. CASE change.kind = "delete_record" /\ ManagerDeleteRecord(p, change.record)
  <2>1. Bound(p, "DeleteRecord", zones, Without(records, n))
    BY <1>6, <1>10, DeleteRecordBound
  <2>2. Made(change, zones, records, zones, Without(records, n))
    BY <1>6, <1>10 DEF Made
  <2> QED
    BY <1>1, <2>1, <2>2
<1>11. CASE change.kind = "upsert_rrset" /\ UpsertRRSet(p, set)
  <2>1. RRSetInUniverse(set) /\ RRSetAccepted(set)
    BY <1>1, <1>2, <1>11 DEF ChangeInUniverse, UpsertRRSet
  <2>2. PICK kept \in Deduped({normalizeRRSetRecord(set, r) : r \in set.records}) :
            Bound(p, "UpsertRRSet", zones \cup {r.zone : r \in kept},
                  (records \ LookupIn(records, z, Fold(change.name), change.type, "ANY")) \cup kept)
    BY <1>3, <1>5, <1>11, <2>1, UpsertRRSetBound
  <2>3. Made(change, zones, records, zones \cup {r.zone : r \in kept},
             (records \ LookupIn(records, z, Fold(change.name), change.type, "ANY")) \cup kept)
    BY <1>2, <1>5, <1>11, <2>1, <2>2 DEF Made
  <2> QED
    BY <1>1, <2>2, <2>3
<1>12. CASE change.kind = "delete_rrset" /\ DeleteRRSet(p, set)
  <2>1. Bound(p, "DeleteRRSet", zones,
              records \ LookupIn(records, z, Fold(change.name), change.type, "ANY"))
    BY <1>3, <1>5, <1>12, LookupBound
  <2>2. change.zone # Root
    BY <1>3, <1>12 DEF DeleteRRSet, LookupAccepted, ZoneAccepted
  <2>3. Made(change, zones, records, zones,
             records \ LookupIn(records, z, Fold(change.name), change.type, "ANY"))
    BY <1>5, <1>12, <2>2 DEF Made
  <2> QED
    BY <1>1, <2>1, <2>3
<1>13. CASE change.kind = "delete_name" /\ DeleteName(p, set)
  <2>1. Bound(p, "DeleteName", zones,
              records \ LookupIn(records, z, Fold(change.name), "ANY", "ANY"))
    BY <1>3, <1>5, <1>13, LookupBound
  <2>2. change.zone # Root
    BY <1>3, <1>13 DEF DeleteName, LookupAccepted, ZoneAccepted
  <2>3. Made(change, zones, records, zones,
             records \ LookupIn(records, z, Fold(change.name), "ANY", "ANY"))
    BY <1>5, <1>13, <2>2 DEF Made
  <2> QED
    BY <1>1, <2>1, <2>3
<1> QED
  BY <1>4, <1>7, <1>8, <1>9, <1>10, <1>11, <1>12, <1>13

-----------------------------------------------------------------------------
(* The preview. *)

\* The copies stay while the batch changes its other fields.
LEMMA CopiesKept ==
    ASSUME NEW b, NEW d,
           d.trail = b.trail, d.changes = b.changes, d.states = b.states, d.base = b.base
    PROVE  /\ PreviewOK(b) => PreviewOK(d)
           /\ StatesValid(b) => StatesValid(d)
           /\ \A k, known, stored : AllShown(b, k, known, stored) => AllShown(d, k, known, stored)
<1>1. \A k, z : Seen(d, k, z) = Seen(b, k, z)
  BY DEF Seen
<1>2. \A i : PreviewStep(b, i) => PreviewStep(d, i)
  BY <1>1 DEF PreviewStep
<1>3. PreviewOK(b) => PreviewOK(d)
  BY <1>1, <1>2 DEF PreviewOK
<1>4. StatesValid(b) => StatesValid(d)
  BY DEF StatesValid
<1>5. \A k, known, stored : AllShown(b, k, known, stored) => AllShown(d, k, known, stored)
  BY <1>1 DEF AllShown
<1> QED
  BY <1>3, <1>4, <1>5

\* A batch is read from its goroutine.
LEMMA CopiesFacts ==
    ASSUME ManagerInv, SoloInv, BatchInv, CopiesInv, NEW p \in Writers
    PROVE  /\ BatchOK(batch[p], task[p], call[p], zones, records)
           /\ Course(task[p]) /\ RowsKnown(call[p], records)
           /\ DOMAIN batch = Writers /\ BatchShape(batch[p])
           /\ task[p].pc # "idle" => InManager(batch[p])
BY DEF CopiesInv, BatchInv

\* The preview fails, or a call is refused: what was copied last is what the store holds.
LEMMA FailedOK ==
    ASSUME NEW b, NEW d, NEW t, NEW c, NEW known, NEW stored, PreviewOK(b),
           d.trail = b.trail, d.changes = b.changes, d.states = b.states, d.base = b.base,
           d.pc = "failed", d.next <= Len(b.trail) + 1, AllShown(b, d.next - 1, known, stored)
    PROVE  BatchOK(d, t, c, known, stored)
BY CopiesKept DEF BatchOK

\* A batch begins.
LEMMA ApplyChangesCopies ==
    ASSUME ManagerInv, SoloInv, BatchInv, CopiesInv, NEW p \in Writers,
           NEW changes \in Batches, ApplyChanges(p, changes)
    PROVE  CopiesNow(p)
<1>1. PICK t, c : t = task[p] /\ c = call[p]
  OBVIOUS
<1>2. PICK b : b = [NoBatch EXCEPT !.pc = "preview", !.changes = changes]
  OBVIOUS
<1>3. /\ b.pc = "preview" /\ b.changes = changes /\ b.next = 1 /\ b.states = <<>> /\ b.base = <<>>
      /\ b.trail = <<>>
  BY <1>2 DEF NoBatch
<1>4. /\ batch'[p] = b /\ task' = task /\ call' = call /\ zones' = zones /\ records' = records
      /\ Course(t) /\ RowsKnown(c, records)
  BY <1>1, <1>2, CopiesFacts DEF ApplyChanges, storeVars
<1>5. Len(changes) \in Nat
  BY BatchesAssumption
<1>6. DOMAIN b.base = {} /\ Len(b.trail) = 0 /\ b.trail \in Seq({})
  BY <1>3
<1>7. PreviewOK(b)
  BY <1>3, <1>5, <1>6 DEF PreviewOK
<1>8. BatchOK(b, t, c, zones, records)
  BY <1>3, <1>6, <1>7 DEF BatchOK, AllShown
<1> QED
  BY <1>1, <1>4, <1>8 DEF CopiesNow

\* The zone of the change is looked up, and listed unless it has its copy.
LEMMA PickZoneCopies ==
    ASSUME ManagerInv, SoloInv, BatchInv, CopiesInv, NEW p \in Writers, PickZone(p)
    PROVE  CopiesNow(p)
<1>1. PICK b, t, c : b = batch[p] /\ t = task[p] /\ c = call[p]
  OBVIOUS
<1>2. /\ BatchOK(b, t, c, zones, records) /\ Course(t) /\ RowsKnown(c, records)
      /\ DOMAIN batch = Writers /\ BatchShape(b) /\ (t.pc # "idle" => InManager(b))
  BY <1>1, CopiesFacts
<1>3. b.pc = "preview" /\ b.next <= Len(b.changes)
  BY <1>1 DEF PickZone, Previewing
<1>4. PICK z \in ChangeZones(b.changes[b.next]) \ {NoZone} :
        /\ batch' = [batch EXCEPT ![p].zone = z, ![p].exists = z \in zones,
                                  ![p].pc = IF z \in DOMAIN b.states THEN "change" ELSE "load"]
        /\ task' = IF z \in DOMAIN b.states THEN task
                   ELSE [task EXCEPT ![p] = PreviewTask(z)]
  BY <1>1 DEF PickZone, PreviewTask, Current
<1>5. PICK pc : pc = IF z \in DOMAIN b.states THEN "change" ELSE "load"
  OBVIOUS
<1>6. PICK d : d = [b EXCEPT !.zone = z, !.exists = z \in zones, !.pc = pc]
  OBVIOUS
<1>7. batch'[p] = d
  BY <1>1, <1>2, <1>4, <1>5, <1>6
<1>8. /\ d.pc = pc /\ d.zone = z /\ d.next = b.next /\ (d.exists <=> z \in zones)
      /\ d.trail = b.trail /\ d.changes = b.changes /\ d.states = b.states /\ d.base = b.base
  BY <1>2, <1>6, BatchFields DEF BatchShape
<1>9. call' = call /\ zones' = zones /\ records' = records
  BY DEF PickZone, storeVars
<1>10. /\ PreviewOK(b) /\ b.next = Len(b.trail) + 1 /\ AllShown(b, 0, zones, records)
       /\ t.pc = "idle"
  BY <1>2, <1>3 DEF BatchOK, InManager
<1>11. PreviewOK(d) /\ AllShown(d, 0, zones, records) /\ DOMAIN d.states = DOMAIN d.base
  <2>1. PreviewOK(d) /\ AllShown(d, 0, zones, records)
    BY <1>8, <1>10, CopiesKept
  <2>2. DOMAIN d.states = DOMAIN d.base
    BY <2>1 DEF PreviewOK
  <2> QED
    BY <2>1, <2>2
<1>12. CASE z \in DOMAIN b.states
  <2>1. BatchOK(d, t, c, zones, records)
    BY <1>3, <1>5, <1>8, <1>10, <1>11, <1>12 DEF BatchOK
  <2>2. task' = task
    BY <1>4, <1>12
  <2> QED
    BY <1>1, <1>2, <1>7, <1>9, <2>1, <2>2 DEF CopiesNow
<1>13. CASE z \notin DOMAIN b.states
  <2>1. PICK u : u = PreviewTask(z)
    OBVIOUS
  <2>2. /\ u.op = "PreviewChanges" /\ u.pc = "list" /\ u.zone = z /\ u.target = {}
        /\ u.todo = {} /\ u.current = {} /\ u.drops = {} /\ u.seedZones = {}
    BY <2>1, NoTaskFacts DEF PreviewTask
  <2>3. Course(u)
    BY <2>2 DEF Course, UniqueKeys
  <2>4. BatchOK(d, u, c, zones, records)
    BY <1>3, <1>4, <1>5, <1>8, <1>10, <1>11, <1>13, <2>2 DEF BatchOK
  <2>5. task'[p] = u
    BY <1>4, <1>13, <2>1 DEF ManagerInv
  <2> QED
    BY <1>1, <1>2, <1>7, <1>9, <2>3, <2>4, <2>5 DEF CopiesNow
<1> QED
  BY <1>12, <1>13

\* The listing of a preview only reads the zone.
LEMMA PreviewReads ==
    ASSUME ManagerInv, SoloInv, NEW p \in Writers, Course(task[p]), WorkStep(p),
           task[p].op = "PreviewChanges", task[p].pc \in {"list", "read"}
    PROVE  /\ zones' = zones /\ records' = records
           /\ task'[p].op = "PreviewChanges" /\ task'[p].pc = "read"
           /\ task'[p].zone = task[p].zone
<1>1. PICK t : t = task[p]
  OBVIOUS
<1>2. /\ t \in Tasks /\ TaskShape(t) /\ Course(t) /\ SoloOK(t, call[p], records)
      /\ t.op = "PreviewChanges" /\ t.pc \in {"list", "read"} /\ task \in [Writers -> Tasks]
  BY <1>1 DEF ManagerInv, SoloInv
<1>3. t.target = {} /\ t.current = {} /\ call[p].pc = "idle"
  BY <1>2 DEF Course, TaskShape, SoloOK, CallOfTask
<1>4. ~StoreStep(p)
  BY <1>3 DEF StoreStep, PutRecord, ListRows, DropRow, Bump
<1>5. ListKeys(p) \/ ReadRow(p)
  BY <1>1, <1>2, <1>3, <1>4 DEF WorkStep, ValidateRRSet, FindRRSet, DropRecord, Dropped,
                                NextRecord, ValidateRecord, SaveSeedZone, SaveSeedRecord
<1>6. CASE ListKeys(p)
  <2>1. PICK rows : Go(p, [t EXCEPT !.pc = "read", !.listed = {}, !.rows = rows])
    BY <1>1, <1>6 DEF ListKeys
  <2>2. PICK u : u = [t EXCEPT !.pc = "read", !.listed = {}, !.rows = rows]
    OBVIOUS
  <2>3. u.op = t.op /\ u.pc = "read" /\ u.zone = t.zone
    BY <1>2, <2>2 DEF Tasks
  <2> QED
    BY <1>1, <1>2, <2>1, <2>2, <2>3 DEF Go, storeVars
<1>7. CASE ReadRow(p)
  <2>1. PICK row \in t.rows :
            Go(p, [t EXCEPT !.rows = @ \ {row},
                            !.listed = @ \cup {r \in records : RowKey(r) = row}])
    BY <1>1, <1>7 DEF ReadRow
  <2>2. PICK u : u = [t EXCEPT !.rows = @ \ {row},
                               !.listed = @ \cup {r \in records : RowKey(r) = row}]
    OBVIOUS
  <2>3. u.op = t.op /\ u.pc = t.pc /\ u.zone = t.zone
    BY <1>2, <2>2 DEF Tasks
  <2>4. t.pc = "read"
    BY <1>1, <1>7 DEF ReadRow
  <2> QED
    BY <1>1, <1>2, <2>1, <2>2, <2>3, <2>4 DEF Go, storeVars
<1> QED
  BY <1>5, <1>6, <1>7

\* A step of the Manager within the preview's listing or within a change.
LEMMA WorkCopies ==
    ASSUME ManagerInv, SoloInv, BatchInv, CopiesInv, NEW p \in Writers, WorkStep(p), batch' = batch
    PROVE  CopiesNow(p)
<1>1. PICK b, t, c : b = batch[p] /\ t = task[p] /\ c = call[p]
  OBVIOUS
<1>2. /\ BatchOK(b, t, c, zones, records) /\ Course(t) /\ RowsKnown(c, records)
      /\ (t.pc # "idle" => InManager(b))
  BY <1>1, CopiesFacts
<1>3. t.pc # "idle"
  BY <1>1, NoWork
<1>4. Leads(p)
  BY <1>1, <1>2, WorkLeads DEF SoloInv, SoloOK
<1>5. PICK t1, c1 : t1 = task'[p] /\ c1 = call'[p]
  OBVIOUS
<1>6. t1.pc # "idle"
  BY <1>1, <1>2, <1>3, <1>4, <1>5, WorkStays
<1>7. /\ Course(t1) /\ RowsKnown(c1, records')
      /\ RecordsDue(t1, Landing(c1, records')) = RecordsDue(t, Landing(c, records))
      /\ ZonesDue(t1, zones') = ZonesDue(t, zones)
      /\ Untouched(t1) => Untouched(t) /\ zones' = zones /\ records' = records
  BY <1>1, <1>4, <1>5 DEF Leads
<1>8. b.pc \in {"load", "apply"}
  BY <1>2, <1>3 DEF InManager
<1>9. CASE b.pc = "load"
  <2>1. /\ t.op = "PreviewChanges" /\ t.pc \in {"list", "read"} /\ t.zone = b.zone
    BY <1>2, <1>9 DEF BatchOK
  <2>2. /\ zones' = zones /\ records' = records
        /\ t1.op = "PreviewChanges" /\ t1.pc = "read" /\ t1.zone = t.zone
    BY <1>1, <1>2, <1>5, <2>1, PreviewReads
  <2>3. BatchOK(b, t1, c1, zones', records')
    BY <1>2, <1>9, <2>1, <2>2 DEF BatchOK
  <2> QED
    BY <1>1, <1>5, <1>7, <2>3 DEF CopiesNow
<1>10. CASE b.pc = "apply"
  <2>1. /\ PreviewOK(b) /\ Len(b.trail) = Len(b.changes) /\ StatesValid(b)
        /\ b.next <= Len(b.trail) + 1 /\ b.next <= Len(b.changes)
        /\ AllShown(b, b.next, ZonesDue(t, zones), RecordsDue(t, Landing(c, records)))
        /\ Untouched(t) => AllShown(b, b.next - 1, zones, records)
    BY <1>2, <1>3, <1>10 DEF BatchOK
  <2>2. BatchOK(b, t1, c1, zones', records')
    BY <1>6, <1>7, <1>10, <2>1 DEF BatchOK
  <2> QED
    BY <1>1, <1>5, <1>7, <2>2 DEF CopiesNow
<1> QED
  BY <1>8, <1>9, <1>10

\* The listing is over: the zone has its copy, which is the zone as the store has it.
LEMMA ZoneLoadedCopies ==
    ASSUME ManagerInv, SoloInv, BatchInv, CopiesInv, NEW p \in Writers, ZoneLoaded(p)
    PROVE  CopiesNow(p)
<1>1. PICK b, t, c : b = batch[p] /\ t = task[p] /\ c = call[p]
  OBVIOUS
<1>2. /\ BatchOK(b, t, c, zones, records) /\ Course(t) /\ RowsKnown(c, records)
      /\ DOMAIN batch = Writers /\ BatchShape(b)
  BY <1>1, CopiesFacts
<1>3. b.pc = "load" /\ t.pc = "read" /\ t.rows = {}
  BY <1>1 DEF ZoneLoaded
<1>4. PICK z : z = b.zone
  OBVIOUS
<1>5. PICK state : state = [exists |-> b.exists, records |-> t.listed]
  OBVIOUS
<1>6. PICK states, base : states = Extended(b.states, z, state) /\ base = Extended(b.base, z, state)
  OBVIOUS
<1>7. PICK d : d = [b EXCEPT !.pc = "change", !.states = states, !.base = base]
  OBVIOUS
<1>8. batch'[p] = d /\ task'[p] = NoTask /\ call' = call /\ zones' = zones /\ records' = records
  <2>1. batch' = [batch EXCEPT ![p] = d]
    BY <1>1, <1>4, <1>5, <1>6, <1>7 DEF ZoneLoaded
  <2>2. task'[p] = NoTask
    BY DEF ZoneLoaded, ManagerInv
  <2>3. call' = call /\ zones' = zones /\ records' = records
    BY DEF ZoneLoaded, storeVars
  <2> QED
    BY <1>2, <2>1, <2>2, <2>3
<1>9. /\ d.pc = "change" /\ d.zone = z /\ d.next = b.next /\ d.trail = b.trail
      /\ d.changes = b.changes /\ d.states = states /\ d.base = base
  BY <1>2, <1>4, <1>7, BatchFields DEF BatchShape
<1>10. /\ PreviewOK(b) /\ b.next = Len(b.trail) + 1 /\ AllShown(b, 0, zones, records)
       /\ b.next <= Len(b.changes) /\ z \in ChangeZones(b.changes[b.next]) \ {NoZone}
       /\ t.op = "PreviewChanges" /\ t.zone = z /\ z \notin DOMAIN b.base
       /\ (b.exists <=> z \in zones)
  BY <1>2, <1>3, <1>4 DEF BatchOK
<1>11. /\ DOMAIN states = DOMAIN b.base \cup {z} /\ DOMAIN base = DOMAIN b.base \cup {z}
       /\ states[z] = state /\ base[z] = state
       /\ \A y \in DOMAIN b.base : states[y] = b.states[y] /\ base[y] = b.base[y]
  BY <1>6, <1>10 DEF Extended, PreviewOK
<1>12. t.listed = InZone(records, z)
  <2>1. ListingExact(t, records)
    BY <1>1 DEF SoloInv, SoloOK
  <2> QED
    BY <1>3, <1>10, <2>1 DEF ListingExact
<1>13. Shows(state, z, zones, records)
  <2>1. /\ DOMAIN state = {"exists", "records"} /\ (state.exists <=> z \in zones)
        /\ state.records = InZone(records, z)
    BY <1>5, <1>10, <1>12
  <2> QED
    BY <2>1 DEF Shows
<1>14. \A k, y : y \in DOMAIN b.base => Seen(d, k, y) = Seen(b, k, y)
  BY <1>9, <1>11 DEF Seen
<1>15. \A k \in 0 .. Len(b.trail) : Seen(d, k, z) = state
  <2>1. \A k \in 1 .. Len(b.trail) : z \notin DOMAIN b.trail[k]
    BY <1>10 DEF PreviewOK
  <2>2. Len(b.trail) \in Nat
    BY <1>10 DEF PreviewOK
  <2> QED
    BY <1>9, <1>11, <2>1, <2>2 DEF Seen
<1>16. PreviewOK(d)
  <2>1. \A k \in 1 .. Len(b.trail) : PreviewStep(d, k)
    <3>1. Len(b.trail) \in Nat
      BY <1>10 DEF PreviewOK
    <3>2. SUFFICES ASSUME NEW k \in 1 .. Len(b.trail) PROVE PreviewStep(d, k)
      OBVIOUS
    <3>3. PICK y \in ChangeZones(b.changes[k]) \ {NoZone} :
            /\ y \in DOMAIN b.base /\ Accepted(y, b.changes[k])
            /\ Seen(b, k, y) \in Previews(Seen(b, k - 1, y), y, b.changes[k])
            /\ \A x \in DOMAIN b.base : x # y => Seen(b, k, x) = Seen(b, k - 1, x)
      BY <1>10 DEF PreviewOK, PreviewStep
    <3>4. k \in 0 .. Len(b.trail) /\ k - 1 \in 0 .. Len(b.trail)
      BY <3>1
    <3>5. \A x \in DOMAIN base : x # y => Seen(d, k, x) = Seen(d, k - 1, x)
      BY <1>11, <1>14, <1>15, <3>3, <3>4
    <3> QED
      BY <1>9, <1>11, <1>14, <3>3, <3>5 DEF PreviewStep
  <2>2. \A y \in DOMAIN base : states[y] = Seen(d, Len(b.trail), y)
    BY <1>10, <1>11, <1>14, <1>15 DEF PreviewOK
  <2>3. \A k \in 1 .. Len(b.trail) : DOMAIN b.trail[k] \subseteq DOMAIN base
    BY <1>10, <1>11 DEF PreviewOK
  <2>4. (\E S : b.trail \in Seq(S)) /\ Len(b.trail) <= Len(b.changes)
    BY <1>10 DEF PreviewOK
  <2> QED
    BY <1>9, <1>11, <2>1, <2>2, <2>3, <2>4 DEF PreviewOK
<1>17. AllShown(d, 0, zones, records)
  <2>1. Len(b.trail) \in Nat
    BY <1>10 DEF PreviewOK
  <2>2. Seen(d, 0, z) = state
    BY <1>15, <2>1
  <2> QED
    BY <1>9, <1>10, <1>11, <1>13, <1>14, <2>2 DEF AllShown
<1>18. BatchOK(d, NoTask, c, zones, records)
  BY <1>9, <1>10, <1>11, <1>16, <1>17, NoTaskFacts DEF BatchOK
<1>19. Course(NoTask)
  BY NoTaskFacts DEF Course, UniqueKeys
<1> QED
  BY <1>1, <1>2, <1>8, <1>18, <1>19 DEF CopiesNow

\* A step of the batch on its own variables.
LEMMA AheadCopies ==
    ASSUME ManagerInv, SoloInv, BatchInv, CopiesInv, NEW p \in Writers, NEW d, Ahead(p, d),
           BatchOK(d, task[p], call[p], zones, records)
    PROVE  CopiesNow(p)
<1>1. batch'[p] = d
  BY CopiesFacts DEF Ahead
<1>2. task' = task /\ call' = call /\ zones' = zones /\ records' = records
  BY DEF Ahead, storeVars
<1>3. Course(task[p]) /\ RowsKnown(call[p], records)
  BY CopiesFacts
<1> QED
  BY <1>1, <1>2, <1>3 DEF CopiesNow

\* The preview fails at the change at hand; nothing has been written.
LEMMA PreviewFails ==
    ASSUME ManagerInv, SoloInv, BatchInv, CopiesInv, NEW p \in Writers,
           batch[p].pc \in {"preview", "change"},
           Ahead(p, [batch[p] EXCEPT !.pc = "failed", !.next = 1])
    PROVE  CopiesNow(p)
<1>1. PICK b, t, c : b = batch[p] /\ t = task[p] /\ c = call[p]
  OBVIOUS
<1>2. BatchOK(b, t, c, zones, records) /\ BatchShape(b)
  BY <1>1, CopiesFacts
<1>3. PreviewOK(b) /\ AllShown(b, 0, zones, records)
  BY <1>1, <1>2 DEF BatchOK
<1>4. PICK d : d = [b EXCEPT !.pc = "failed", !.next = 1]
  OBVIOUS
<1>5. /\ d.pc = "failed" /\ d.next = 1 /\ d.trail = b.trail /\ d.changes = b.changes
      /\ d.states = b.states /\ d.base = b.base
  BY <1>2, <1>4, BatchFields DEF BatchShape
<1>6. d.next <= Len(b.trail) + 1 /\ d.next - 1 = 0
  BY <1>3, <1>5 DEF PreviewOK
<1>7. BatchOK(d, t, c, zones, records)
  BY <1>3, <1>5, <1>6, FailedOK
<1> QED
  BY <1>1, <1>4, <1>7, AheadCopies

\* The change names no zone.
LEMMA ZoneMissingCopies ==
    ASSUME ManagerInv, SoloInv, BatchInv, CopiesInv, NEW p \in Writers, ZoneMissing(p)
    PROVE  CopiesNow(p)
BY PreviewFails DEF ZoneMissing, Previewing

\* The copies are validated, before the first call.
LEMMA ValidatePreviewCopies ==
    ASSUME ManagerInv, SoloInv, BatchInv, CopiesInv, NEW p \in Writers, ValidatePreview(p)
    PROVE  CopiesNow(p)
<1>1. PICK b, t, c : b = batch[p] /\ t = task[p] /\ c = call[p]
  OBVIOUS
<1>2. /\ BatchOK(b, t, c, zones, records) /\ BatchShape(b)
      /\ (t.pc # "idle" => InManager(b))
  BY <1>1, CopiesFacts
<1>3. /\ b.pc = "preview" /\ b.next > Len(b.changes)
      /\ Ahead(p, [b EXCEPT !.next = 1, !.pc = IF StatesValid(b) THEN "apply" ELSE "failed"])
  BY <1>1 DEF ValidatePreview, StatesValid
<1>4. /\ PreviewOK(b) /\ AllShown(b, 0, zones, records) /\ b.next = Len(b.trail) + 1
      /\ t.pc = "idle"
  BY <1>2, <1>3 DEF BatchOK, InManager
<1>5. b.changes \in Batches
  BY <1>2, <1>3 DEF BatchShape
<1>6. Len(b.trail) \in Nat /\ Len(b.changes) \in Nat /\ Len(b.trail) = Len(b.changes)
  <2>1. Len(b.trail) \in Nat /\ Len(b.trail) <= Len(b.changes)
    BY <1>4 DEF PreviewOK
  <2>2. Len(b.changes) \in Nat
    BY <1>5, BatchesAssumption
  <2> QED
    BY <1>3, <1>4, <2>1, <2>2
<1>7. PICK pc : pc = IF StatesValid(b) THEN "apply" ELSE "failed"
  OBVIOUS
<1>8. PICK d : d = [b EXCEPT !.next = 1, !.pc = pc]
  OBVIOUS
<1>9. /\ d.pc = pc /\ d.next = 1 /\ d.trail = b.trail /\ d.changes = b.changes
      /\ d.states = b.states /\ d.base = b.base
  BY <1>2, <1>8, BatchFields DEF BatchShape
<1>10. /\ PreviewOK(d) /\ AllShown(d, 0, zones, records)
       /\ (StatesValid(b) => StatesValid(d))
  BY <1>4, <1>9, CopiesKept
<1>11. d.next <= Len(d.trail) + 1 /\ d.next - 1 = 0 /\ Len(d.trail) = Len(d.changes)
  BY <1>6, <1>9
<1>12. pc \in {"apply", "failed"} /\ (pc = "apply" => StatesValid(b))
  BY <1>7
<1>13. BatchOK(d, t, c, zones, records)
  BY <1>4, <1>9, <1>10, <1>11, <1>12 DEF BatchOK
<1> QED
  BY <1>1, <1>3, <1>7, <1>8, <1>13, AheadCopies

\* A call returns an error at once: the changes before it are in the store.
LEMMA ChangeRefusedCopies ==
    ASSUME ManagerInv, SoloInv, BatchInv, CopiesInv, NEW p \in Writers, ChangeRefused(p)
    PROVE  CopiesNow(p)
<1>1. PICK b, t, c : b = batch[p] /\ t = task[p] /\ c = call[p]
  OBVIOUS
<1>2. BatchOK(b, t, c, zones, records) /\ BatchShape(b)
  BY <1>1, CopiesFacts
<1>3. b.pc = "apply" /\ t.pc = "idle" /\ Ahead(p, [b EXCEPT !.pc = "failed"])
  BY <1>1 DEF ChangeRefused, Applying
<1>4. PreviewOK(b) /\ AllShown(b, b.next - 1, zones, records) /\ b.next <= Len(b.trail) + 1
  BY <1>2, <1>3 DEF BatchOK
<1>5. PICK d : d = [b EXCEPT !.pc = "failed"]
  OBVIOUS
<1>6. /\ d.pc = "failed" /\ d.next = b.next /\ d.trail = b.trail /\ d.changes = b.changes
      /\ d.states = b.states /\ d.base = b.base
  BY <1>2, <1>5, BatchFields DEF BatchShape
<1>7. BatchOK(d, t, c, zones, records)
  BY <1>4, <1>6, FailedOK
<1> QED
  BY <1>1, <1>3, <1>5, <1>7, AheadCopies

\* ApplyChanges returns.
LEMMA BatchReturnCopies ==
    ASSUME ManagerInv, SoloInv, BatchInv, CopiesInv, NEW p \in Writers, BatchReturn(p)
    PROVE  CopiesNow(p)
<1>1. NoBatch.pc = "idle"
  BY DEF NoBatch
<1>2. BatchOK(NoBatch, task[p], call[p], zones, records)
  BY <1>1 DEF BatchOK
<1> QED
  BY <1>2, AheadCopies DEF BatchReturn

\* The call of a change returns: all of the change is in the store, or nothing of it.
LEMMA ChangeReturnedCopies ==
    ASSUME ManagerInv, SoloInv, BatchInv, CopiesInv, NEW p \in Writers, ChangeReturned(p)
    PROVE  CopiesNow(p)
<1>1. PICK b, t, c : b = batch[p] /\ t = task[p] /\ c = call[p]
  OBVIOUS
<1>2. /\ BatchOK(b, t, c, zones, records) /\ Course(t) /\ RowsKnown(c, records)
      /\ DOMAIN batch = Writers /\ BatchShape(b) /\ SoloOK(t, c, records)
  BY <1>1, CopiesFacts DEF SoloInv
<1>3. /\ b.pc = "apply" /\ Finished(p) /\ c.pc = "idle"
      /\ batch' = [batch EXCEPT ![p] = IF t.pc = "failed" THEN [b EXCEPT !.pc = "failed"]
                                       ELSE [b EXCEPT !.next = @ + 1]]
      /\ task'[p] = NoTask /\ call' = call /\ zones' = zones /\ records' = records
  BY <1>1 DEF ChangeReturned, Return, Go, storeVars, ManagerInv
<1>4. t.pc # "idle"
  BY <1>1, <1>3 DEF Finished
<1>5. /\ PreviewOK(b) /\ StatesValid(b) /\ Len(b.trail) = Len(b.changes)
      /\ b.next <= Len(b.trail) + 1 /\ b.next <= Len(b.changes)
      /\ AllShown(b, b.next, ZonesDue(t, zones), RecordsDue(t, Landing(c, records)))
      /\ Untouched(t) => AllShown(b, b.next - 1, zones, records)
  BY <1>2, <1>3, <1>4 DEF BatchOK
<1>6. /\ t.pc = "failed" => Untouched(t)
      /\ t.pc # "failed" => /\ RecordsDue(t, Landing(c, records)) = records
                            /\ ZonesDue(t, zones) = zones
  BY <1>1, <1>2, <1>3, FinishedDue
<1>7. Course(NoTask) /\ NoTask.pc = "idle"
  BY NoTaskFacts DEF Course, UniqueKeys
<1>8. CASE t.pc = "failed"
  <2>1. PICK d : d = [b EXCEPT !.pc = "failed"]
    OBVIOUS
  <2>2. batch'[p] = d
    BY <1>2, <1>3, <1>8, <2>1
  <2>3. /\ d.pc = "failed" /\ d.next = b.next /\ d.trail = b.trail /\ d.changes = b.changes
        /\ d.states = b.states /\ d.base = b.base
    BY <1>2, <2>1, BatchFields DEF BatchShape
  <2>4. AllShown(b, d.next - 1, zones, records) /\ d.next <= Len(b.trail) + 1
    BY <1>5, <1>6, <1>8, <2>3
  <2>5. BatchOK(d, NoTask, c, zones, records)
    BY <1>5, <2>3, <2>4, FailedOK
  <2> QED
    BY <1>1, <1>2, <1>3, <1>7, <2>2, <2>5 DEF CopiesNow
<1>9. CASE t.pc # "failed"
  <2>1. PICK d : d = [b EXCEPT !.next = @ + 1]
    OBVIOUS
  <2>2. batch'[p] = d
    BY <1>2, <1>3, <1>9, <2>1
  <2>3. /\ d.pc = "apply" /\ d.next = b.next + 1 /\ d.trail = b.trail /\ d.changes = b.changes
        /\ d.states = b.states /\ d.base = b.base
    BY <1>2, <1>3, <2>1, BatchFields DEF BatchShape
  <2>4. PreviewOK(d) /\ StatesValid(d) /\ AllShown(d, b.next, zones, records)
    BY <1>5, <1>6, <1>9, <2>3, CopiesKept
  <2>5. b.next \in Nat /\ Len(b.trail) \in Nat
    BY <1>2, <1>5 DEF BatchShape, PreviewOK
  <2>6. d.next - 1 = b.next /\ d.next <= Len(d.trail) + 1 /\ Len(d.trail) = Len(d.changes)
    BY <1>5, <2>3, <2>5
  <2>7. AllShown(d, d.next - 1, zones, records)
    BY <2>4, <2>6
  <2>8. BatchOK(d, NoTask, c, zones, records)
    BY <1>7, <2>3, <2>4, <2>6, <2>7 DEF BatchOK
  <2> QED
    BY <1>1, <1>2, <1>3, <1>7, <2>2, <2>8 DEF CopiesNow
<1> QED
  BY <1>8, <1>9

\* One change more in the trail.
LEMMA TrailGrows ==
    ASSUME NEW S, NEW s \in Seq(S), NEW e
    PROVE  /\ Append(s, e) \in Seq(S \cup {e})
           /\ Len(Append(s, e)) = Len(s) + 1 /\ Len(s) \in Nat
           /\ Append(s, e)[Len(s) + 1] = e
           /\ \A k \in 1 .. Len(s) : Append(s, e)[k] = s[k]
<1>1. s \in Seq(S \cup {e}) /\ e \in S \cup {e}
  OBVIOUS
<1> QED
  BY <1>1

\* A change is previewed: the copy of its zone moves and no other, and the store does not.
LEMMA PreviewChangeCopies ==
    ASSUME ManagerInv, SoloInv, BatchInv, CopiesInv, NEW p \in Writers, PreviewChange(p)
    PROVE  CopiesNow(p)
<1>1. PICK b, t, c : b = batch[p] /\ t = task[p] /\ c = call[p]
  OBVIOUS
<1>2. /\ BatchOK(b, t, c, zones, records) /\ BatchShape(b)
      /\ (t.pc # "idle" => InManager(b))
  BY <1>1, CopiesFacts
<1>3. b.pc = "change"
  BY <1>1 DEF PreviewChange
<1>4. CASE Ahead(p, [b EXCEPT !.pc = "failed", !.next = 1])
  BY <1>1, <1>3, <1>4, PreviewFails
<1>5. CASE /\ Accepted(b.zone, Current(p))
           /\ \E state \in Previews(b.states[b.zone], b.zone, Current(p)) :
                 LET states == [b.states EXCEPT ![b.zone] = state]
                 IN  Ahead(p, [b EXCEPT !.pc = "preview", !.next = @ + 1, !.states = states,
                                        !.trail = Append(@, states)])
  <2>1. PICK z, n : z = b.zone /\ n = b.next
    OBVIOUS
  <2>2. PICK change : change = b.changes[n]
    OBVIOUS
  <2>3. PICK new \in Previews(b.states[z], z, change) :
          LET states == [b.states EXCEPT ![z] = new]
          IN  Ahead(p, [b EXCEPT !.pc = "preview", !.next = @ + 1, !.states = states,
                                 !.trail = Append(@, states)])
    BY <1>1, <1>5, <2>1, <2>2 DEF Current
  <2>4. PICK states : states = [b.states EXCEPT ![z] = new]
    OBVIOUS
  <2>5. PICK trail : trail = Append(b.trail, states)
    OBVIOUS
  <2>6. PICK d : d = [b EXCEPT !.pc = "preview", !.next = @ + 1, !.states = states,
                               !.trail = trail]
    OBVIOUS
  <2>7. Ahead(p, d)
    BY <2>3, <2>4, <2>5, <2>6
  <2>8. /\ d.pc = "preview" /\ d.next = n + 1 /\ d.states = states /\ d.trail = trail
        /\ d.changes = b.changes /\ d.base = b.base
    BY <1>2, <2>1, <2>6, BatchFields DEF BatchShape
  <2>9. /\ PreviewOK(b) /\ AllShown(b, 0, zones, records)
        /\ n = Len(b.trail) + 1 /\ n <= Len(b.changes)
        /\ z \in ChangeZones(change) \ {NoZone} /\ z \in DOMAIN b.base
    BY <1>2, <1>3, <2>1, <2>2 DEF BatchOK
  <2>10. t.pc = "idle"
    BY <1>2, <1>3 DEF InManager
  <2>11. Accepted(z, change)
    BY <1>1, <1>5, <2>1, <2>2 DEF Current
  <2>12. PICK S : b.trail \in Seq(S)
    BY <2>9 DEF PreviewOK
  <2>13. /\ trail \in Seq(S \cup {states}) /\ Len(trail) = n /\ n \in Nat \ {0} /\ n - 1 \in Nat
         /\ trail[n] = states /\ Len(b.trail) = n - 1
         /\ \A k \in 1 .. (n - 1) : trail[k] = b.trail[k]
    <3>1. /\ trail \in Seq(S \cup {states}) /\ Len(trail) = Len(b.trail) + 1 /\ Len(b.trail) \in Nat
          /\ trail[Len(b.trail) + 1] = states
          /\ \A k \in 1 .. Len(b.trail) : trail[k] = b.trail[k]
      BY <2>5, <2>12, TrailGrows
    <3>2. Len(b.trail) = n - 1
      BY <2>9, <3>1
    <3> QED
      BY <2>9, <3>1, <3>2
  <2>14. /\ DOMAIN states = DOMAIN b.base /\ states[z] = new
         /\ \A y \in DOMAIN b.base : y # z => states[y] = b.states[y]
         /\ \A y \in DOMAIN b.base : b.states[y] = Seen(b, n - 1, y)
    BY <2>4, <2>9, <2>13 DEF PreviewOK
  <2>15. \A k \in 0 .. (n - 1) : \A y : Seen(d, k, y) = Seen(b, k, y)
    BY <2>8, <2>13 DEF Seen
  <2>16. \A y \in DOMAIN b.base : Seen(d, n, y) = states[y]
    BY <2>8, <2>13, <2>14 DEF Seen
  <2>17. PreviewStep(d, n)
    <3>1. Seen(d, n, z) \in Previews(Seen(d, n - 1, z), z, change)
      <4>1. n - 1 \in 0 .. (n - 1)
        BY <2>13
      <4>2. Seen(d, n - 1, z) = b.states[z] /\ Seen(d, n, z) = new
        BY <2>9, <2>14, <2>15, <2>16, <4>1
      <4> QED
        BY <2>3, <4>2
    <3>2. \A y \in DOMAIN b.base : y # z => Seen(d, n, y) = Seen(d, n - 1, y)
      <4>1. n - 1 \in 0 .. (n - 1)
        BY <2>13
      <4> QED
        BY <2>14, <2>15, <2>16, <4>1
    <3> QED
      BY <2>2, <2>8, <2>9, <2>11, <3>1, <3>2 DEF PreviewStep
  <2>18. \A i \in 1 .. n : PreviewStep(d, i) /\ DOMAIN trail[i] \subseteq DOMAIN b.base
    <3>1. SUFFICES ASSUME NEW i \in 1 .. n
                   PROVE  PreviewStep(d, i) /\ DOMAIN trail[i] \subseteq DOMAIN b.base
      OBVIOUS
    <3>2. CASE i = n
      BY <2>13, <2>14, <2>17, <3>2
    <3>3. CASE i # n
      <4>1. i \in 1 .. (n - 1) /\ i \in 0 .. (n - 1) /\ i - 1 \in 0 .. (n - 1)
        BY <2>13, <3>3
      <4>2. PreviewStep(b, i) /\ DOMAIN b.trail[i] \subseteq DOMAIN b.base
        BY <2>9, <2>13, <4>1 DEF PreviewOK
      <4>3. PreviewStep(d, i)
        BY <2>8, <2>15, <4>1, <4>2 DEF PreviewStep
      <4> QED
        BY <2>13, <4>1, <4>2, <4>3
    <3> QED
      BY <3>2, <3>3
  <2>19. PreviewOK(d)
    <3>1. \E T : d.trail \in Seq(T)
      BY <2>8, <2>13
    <3> QED
      BY <2>8, <2>9, <2>13, <2>14, <2>16, <2>18, <3>1 DEF PreviewOK
  <2>20. AllShown(d, 0, zones, records)
    <3>1. 0 \in 0 .. (n - 1)
      BY <2>13
    <3> QED
      BY <2>8, <2>9, <2>15, <3>1 DEF AllShown
  <2>21. BatchOK(d, t, c, zones, records)
    BY <2>8, <2>10, <2>13, <2>19, <2>20 DEF BatchOK
  <2> QED
    BY <1>1, <2>7, <2>21, AheadCopies
<1> QED
  BY <1>1, <1>4, <1>5 DEF PreviewChange

\* A Manager call begins: what it is bound for is the next copies.
LEMMA ApplyChangeCopies ==
    ASSUME PlainBatches, ManagerInv, SoloInv, BatchInv, CopiesInv, NEW p \in Writers,
           ApplyChange(p)
    PROVE  CopiesNow(p)
<1>1. PICK b, t, c : b = batch[p] /\ t = task[p] /\ c = call[p]
  OBVIOUS
<1>2. /\ BatchOK(b, t, c, zones, records) /\ BatchShape(b)
  BY <1>1, CopiesFacts
<1>3. b.pc = "apply" /\ b.next <= Len(b.changes) /\ t.pc = "idle" /\ batch' = batch
  BY <1>1 DEF ApplyChange, Applying
<1>4. /\ PreviewOK(b) /\ StatesValid(b) /\ Len(b.trail) = Len(b.changes)
      /\ b.next <= Len(b.trail) + 1 /\ AllShown(b, b.next - 1, zones, records)
  BY <1>2, <1>3 DEF BatchOK
<1>5. PICK n : n = b.next
  OBVIOUS
<1>6. PICK change : change = Current(p)
  OBVIOUS
<1>7. change = b.changes[n]
  BY <1>1, <1>5, <1>6 DEF Current
<1>8. b.changes \in Batches /\ Len(b.trail) \in Nat /\ n \in 1 .. Len(b.trail)
  BY <1>2, <1>3, <1>4, <1>5 DEF BatchShape, PreviewOK
<1>9. PlainChange(change)
  BY <1>4, <1>7, <1>8 DEF PlainBatches
<1>10. ChangeInUniverse(change)
  BY <1>1, <1>3, <1>6, CurrentChange
<1>11. PICK op, known1, stored1 : /\ Bound(p, op, known1, stored1)
                                  /\ Made(change, zones, records, known1, stored1)
  BY <1>6, <1>10, ApplyBound
<1>12. PICK z \in ChangeZones(change) \ {NoZone} :
        /\ z \in DOMAIN b.base
        /\ Accepted(z, change)
        /\ Seen(b, n, z) \in Previews(Seen(b, n - 1, z), z, change)
        /\ \A y \in DOMAIN b.base : y # z => Seen(b, n, y) = Seen(b, n - 1, y)
  BY <1>4, <1>7, <1>8 DEF PreviewOK, PreviewStep
<1>13. records \in SUBSET Records
  BY DEF ManagerInv, StoreInv, StoreTypeOK
<1>14. /\ \A y : y # z => (y \in known1 <=> y \in zones)
                          /\ KeysIn(KeysOf(stored1), y) = KeysIn(KeysOf(records), y)
       /\ \A state, new : new \in Previews(state, z, change) /\ Shows(state, z, zones, records)
                            => Shows(new, z, known1, stored1)
  BY <1>9, <1>10, <1>11, <1>12, <1>13, MadeShown DEF PlainBatches
<1>15. AllShown(b, n, known1, stored1)
  <2>1. SUFFICES ASSUME NEW y \in DOMAIN b.base PROVE Shows(Seen(b, n, y), y, known1, stored1)
    BY DEF AllShown
  <2>2. Shows(Seen(b, n - 1, y), y, zones, records)
    BY <1>4, <1>5 DEF AllShown
  <2>3. CASE y = z
    BY <1>12, <1>14, <2>2, <2>3
  <2>4. CASE y # z
    <3>1. Seen(b, n, y) = Seen(b, n - 1, y)
      BY <1>12, <2>4
    <3>2. KeysOf(InZone(stored1, y)) = KeysOf(InZone(records, y))
      <4>1. KeysIn(KeysOf(stored1), y) = KeysIn(KeysOf(records), y)
        BY <1>14, <2>4
      <4>2. KeysOf(InZone(stored1, y)) = KeysIn(KeysOf(stored1), y)
        BY KeysMoved
      <4>3. KeysOf(InZone(records, y)) = KeysIn(KeysOf(records), y)
        BY KeysMoved
      <4> QED
        BY <4>1, <4>2, <4>3
    <3>3. PICK s : s = Seen(b, n - 1, y)
      OBVIOUS
    <3>4. y \in known1 <=> y \in zones
      BY <1>14, <2>4
    <3>5. Shows(s, y, zones, records)
      BY <2>2, <3>3
    <3>6. Shows(s, y, known1, stored1)
      BY <3>2, <3>4, <3>5 DEF Shows
    <3> QED
      BY <3>1, <3>3, <3>6
  <2> QED
    BY <2>3, <2>4
<1>16. PICK t1, c1 : t1 = task'[p] /\ c1 = call'[p]
  OBVIOUS
<1>17. /\ t1.pc # "idle" /\ Course(t1) /\ RowsKnown(c1, records')
       /\ RecordsDue(t1, Landing(c1, records')) = stored1
       /\ ZonesDue(t1, zones') = known1
       /\ Untouched(t1) => zones' = zones /\ records' = records
  BY <1>11, <1>16 DEF Bound
<1>18. BatchOK(b, t1, c1, zones', records')
  BY <1>3, <1>4, <1>5, <1>15, <1>17 DEF BatchOK
<1> QED
  BY <1>1, <1>3, <1>16, <1>17, <1>18 DEF CopiesNow

\* A step of the batch or of the Manager within it.
LEMMA BatchStepCopies ==
    ASSUME PlainBatches, ManagerInv, SoloInv, BatchInv, CopiesInv, NEW p \in Writers,
           \/ \E changes \in Batches : ApplyChanges(p, changes)
           \/ PickZone(p) \/ ZoneMissing(p) \/ ZoneLoaded(p) \/ PreviewChange(p)
           \/ ValidatePreview(p) \/ ApplyChange(p) \/ ChangeRefused(p) \/ ChangeReturned(p)
           \/ BatchReturn(p)
           \/ WorkStep(p) /\ UNCHANGED <<batch, batches>>
    PROVE  CopiesNow(p)
<1>1. WorkStep(p) /\ UNCHANGED <<batch, batches>> => CopiesNow(p)
  BY WorkCopies
<1> QED
  BY <1>1, ApplyChangesCopies, PickZoneCopies, ZoneMissingCopies, ZoneLoadedCopies,
     PreviewChangeCopies, ValidatePreviewCopies, ApplyChangeCopies, ChangeRefusedCopies,
     ChangeReturnedCopies, BatchReturnCopies

\* At the start nothing is copied.
LEMMA CopiesInit == ChangesInit => CopiesInv
<1> SUFFICES ASSUME ChangesInit, NEW p \in Writers
             PROVE  /\ Course(task[p]) /\ RowsKnown(call[p], records)
                    /\ BatchOK(batch[p], task[p], call[p], zones, records)
  BY DEF CopiesInv
<1>1. task[p] = NoTask /\ call[p] = NoCall /\ batch[p] = NoBatch
  BY DEF ChangesInit, ManagerInit, StoreInit
<1>2. Course(NoTask)
  BY NoTaskFacts DEF Course, UniqueKeys
<1>3. RowsKnown(NoCall, records)
  BY DEF RowsKnown, NoCall
<1>4. BatchOK(NoBatch, NoTask, NoCall, zones, records)
  <2>1. NoBatch.pc = "idle"
    BY DEF NoBatch
  <2> QED
    BY <2>1 DEF BatchOK
<1> QED
  BY <1>1, <1>2, <1>3, <1>4

\* With one goroutine every step keeps the copies and the store together.
LEMMA CopiesStep ==
    ASSUME OneGoroutine, PlainBatches, ManagerInv, SoloInv, BatchInv, CopiesInv,
           [ChangesNext]_changesVars
    PROVE  ManagerInv' /\ SoloInv' /\ BatchInv' /\ CopiesInv'
<1>1. BatchInv' /\ [\E p \in Writers : ManagerStep(p)]_managerVars
  BY ChangesNextSteps
<1>2. ManagerInv' /\ SoloInv'
  <2>1. CASE UNCHANGED managerVars
    <3>1. task' = task /\ call' = call /\ records' = records
      BY <2>1 DEF managerVars
    <3> QED
      BY <1>1, <3>1, StepsInv DEF SoloInv
  <2>2. CASE \E p \in Writers : ManagerStep(p)
    <3>1. PICK p \in Writers : ManagerStep(p)
      BY <2>2
    <3>2. Advances(p)
      BY <3>1, ManagerStepAdvances
    <3>3. ManagerInv'
      BY <1>1, StepsInv
    <3>4. SoloInv'
      BY <3>2 DEF Advances, SoloInv, OneGoroutine
    <3> QED
      BY <3>3, <3>4
  <2> QED
    BY <1>1, <2>1, <2>2
<1>3. CopiesInv'
  <2>1. CASE UNCHANGED changesVars
    BY <2>1 DEF changesVars, CopiesInv
  <2>2. CASE BatchesRest
    BY <2>2 DEF BatchesRest, changesVars, CopiesInv
  <2>3. CASE \E p \in Writers : CopiesNow(p)
    <3>1. PICK p \in Writers : CopiesNow(p)
      BY <2>3
    <3>2. \A q \in Writers : q = p
      BY DEF OneGoroutine
    <3> QED
      BY <3>1, <3>2 DEF CopiesInv, CopiesNow
  <2> QED
    BY <2>1, <2>2, <2>3, BatchStepCopies DEF ChangesNext
<1> QED
  BY <1>1, <1>2, <1>3

\* Through any number of batches the copies and the store stay together.
LEMMA CopiesHold ==
    ASSUME OneGoroutine, PlainBatches
    PROVE  ChangesSpec => [](ManagerInv /\ SoloInv /\ BatchInv /\ CopiesInv)
<1>1. ChangesInit => ManagerInv /\ SoloInv /\ BatchInv /\ CopiesInv
  BY ManagerInitInv, SoloInit, ChangesInitInv, CopiesInit DEF ChangesInit
<1>2. ManagerInv /\ SoloInv /\ BatchInv /\ CopiesInv /\ [ChangesNext]_changesVars
        => ManagerInv' /\ SoloInv' /\ BatchInv' /\ CopiesInv'
  BY CopiesStep
<1> QED
  BY <1>1, <1>2, PTL DEF ChangesSpec

\* A batch of plain changes applied alone, whatever batches went before it: between its calls
\* the zones hold what the preview has foreseen for the changes made so far, up to TTLs, and a
\* batch that fails has written exactly the changes before the failing one.  The calls of
\* applyChange write record by record, after validations of their own on listings read row
\* by row.
THEOREM BatchIsPreviewed ==
    ASSUME OneGoroutine, PlainBatches
    PROVE  ChangesSpec => []AppliedMatchesPreview
<1>1. ASSUME ManagerInv, SoloInv, BatchInv, CopiesInv
      PROVE  AppliedMatchesPreview
  <2>1. SUFFICES ASSUME NEW p \in Writers, batch[p].pc # "idle", task[p].pc = "idle",
                        NEW z \in DOMAIN batch[p].states
                 PROVE  /\ Foreseen(batch[p], z).exists <=> z \in zones
                        /\ {Key(r) : r \in Foreseen(batch[p], z).records} =
                             {Key(r) : r \in InZone(records, z)}
    BY DEF AppliedMatchesPreview
  <2>2. PICK b, t, c : b = batch[p] /\ t = task[p] /\ c = call[p]
    OBVIOUS
  <2>3. BatchOK(b, t, c, zones, records)
    BY <1>1, <2>2, CopiesFacts
  <2>4. z \in DOMAIN b.base
    BY <2>1, <2>2, <2>3 DEF BatchOK, PreviewOK
  <2>5. CASE b.pc \in {"apply", "failed"}
    <3>1. Foreseen(b, z) = Seen(b, b.next - 1, z)
      BY <2>5 DEF Foreseen, Seen
    <3>2. Shows(Seen(b, b.next - 1, z), z, zones, records)
      BY <2>1, <2>2, <2>3, <2>4, <2>5 DEF BatchOK, AllShown
    <3> QED
      BY <2>2, <3>1, <3>2 DEF Shows, KeysOf
  <2>6. CASE b.pc \notin {"apply", "failed"}
    <3>1. Foreseen(b, z) = Seen(b, 0, z)
      BY <2>6 DEF Foreseen, Seen
    <3>2. Shows(Seen(b, 0, z), z, zones, records)
      BY <2>1, <2>2, <2>3, <2>4, <2>6 DEF BatchOK, AllShown
    <3> QED
      BY <2>2, <3>1, <3>2 DEF Shows, KeysOf
  <2> QED
    BY <2>5, <2>6
<1> QED
  BY <1>1, CopiesHold, PTL

\* Records that have the keys of valid ones are valid, the apex NS included.
LEMMA CompleteByKeys ==
    ASSUME NEW A, NEW B, NEW zone, UniqueKeys(A), KeysOf(A) = KeysOf(B),
           validateZoneRecords(zone, B, TRUE)
    PROVE  validateZoneRecords(zone, A, TRUE)
<1>1. /\ \A x \in A : \E y \in B : Key(x) = Key(y)
      /\ \A y \in B : \E x \in A : Key(x) = Key(y)
  BY DEF KeysOf
<1>2. validateZoneRecords(zone, B, FALSE)
  BY DEF validateZoneRecords, ApexNSPresent
<1>3. validateZoneRecords(zone, A, FALSE)
  BY <1>1, <1>2, ValidByKeys
<1>4. ApexNSPresent(zone, A, TRUE)
  <2>1. SUFFICES ASSUME NEW r \in A, r.name = zone, r.type = "SOA"
                 PROVE  \E s \in A : s.name = zone /\ s.type = "NS"
    BY DEF ApexNSPresent
  <2>2. PICK x \in B : Key(r) = Key(x)
    BY <1>1, <2>1
  <2>3. x.name = zone /\ x.type = "SOA"
    BY <2>1, <2>2, KeyParts
  <2>4. PICK y \in B : y.name = zone /\ y.type = "NS"
    BY <2>3 DEF validateZoneRecords, ApexNSPresent
  <2>5. PICK s \in A : Key(s) = Key(y)
    BY <1>1, <2>4
  <2> QED
    BY <2>4, <2>5, KeyParts
<1> QED
  BY <1>3, <1>4 DEF validateZoneRecords

\* A batch of plain changes that succeeds, applied alone, leaves every zone it touched
\* complete: validatePreviewZoneStates has required the apex NS of the copies, and the store
\* now holds what they hold (the calls themselves do not require it).
THEOREM BatchIsComplete ==
    ASSUME OneGoroutine, PlainBatches
    PROVE  ChangesSpec => []BatchComplete
<1>1. ASSUME ManagerInv, SoloInv, BatchInv, CopiesInv, RecordsHaveZone
      PROVE  BatchComplete
  <2>1. SUFFICES ASSUME NEW p \in Writers, Applied(p), NEW z \in DOMAIN batch[p].states
                 PROVE  validateZoneRecords(z, InZone(records, z), TRUE)
    BY DEF BatchComplete
  <2>2. PICK b, t, c : b = batch[p] /\ t = task[p] /\ c = call[p]
    OBVIOUS
  <2>3. /\ BatchOK(b, t, c, zones, records) /\ BatchShape(b)
        /\ (t.pc # "idle" => InManager(b)) /\ SoloOK(t, c, records)
    BY <1>1, <2>2, CopiesFacts DEF SoloInv
  <2>4. b.pc = "apply" /\ b.next > Len(b.changes)
    BY <2>1, <2>2 DEF Applied
  <2>5. Len(b.changes) \in Nat
    <3>1. b.changes \in Batches
      BY <2>3, <2>4 DEF BatchShape
    <3> QED
      BY <3>1, BatchesAssumption
  <2>6. b.next \in Nat
    BY <2>3 DEF BatchShape
  <2>7. t.pc = "idle"
    BY <2>3, <2>4, <2>5, <2>6 DEF InManager
  <2>8. /\ PreviewOK(b) /\ Len(b.trail) = Len(b.changes) /\ StatesValid(b)
        /\ b.next <= Len(b.trail) + 1 /\ AllShown(b, b.next - 1, zones, records)
    BY <2>3, <2>4, <2>7 DEF BatchOK
  <2>9. b.next - 1 = Len(b.trail)
    BY <2>4, <2>5, <2>6, <2>8
  <2>10. PICK state : state = b.states[z]
    OBVIOUS
  <2>11. Shows(state, z, zones, records)
    <3>1. z \in DOMAIN b.base /\ state = Seen(b, Len(b.trail), z)
      BY <2>1, <2>2, <2>8, <2>10 DEF PreviewOK
    <3> QED
      BY <2>8, <2>9, <3>1 DEF AllShown
  <2>12. KeysOf(state.records) = KeysOf(InZone(records, z)) /\ (state.exists <=> z \in zones)
    BY <2>11 DEF Shows
  <2>13. \/ ~state.exists
         \/ state.records = {}
         \/ validateZoneRecords(z, state.records, TRUE)
    BY <2>1, <2>2, <2>8, <2>10 DEF StatesValid
  <2>14. CASE ~state.exists
    <3>1. Quiet
      <4>1. c.pc = "idle"
        BY <2>3, <2>7 DEF SoloOK, CallOfTask
      <4> QED
        BY <2>2, <4>1 DEF Quiet, OneGoroutine
    <3>2. InZone(records, z) = {}
      BY <1>1, <2>12, <2>14, <3>1 DEF RecordsHaveZone, InZone
    <3> QED
      BY <3>2 DEF validateZoneRecords, SOAAtApexOnly, AtMostOneSOA, ApexNSPresent, CNAMEAlone
  <2>15. CASE state.records = {}
    <3>1. InZone(records, z) = {}
      BY <2>12, <2>15 DEF KeysOf
    <3> QED
      BY <3>1 DEF validateZoneRecords, SOAAtApexOnly, AtMostOneSOA, ApexNSPresent, CNAMEAlone
  <2>16. CASE validateZoneRecords(z, state.records, TRUE)
    <3>1. UniqueKeys(InZone(records, z))
      BY <1>1 DEF ManagerInv, UniqueKeys, InZone
    <3> QED
      BY <2>12, <2>16, <3>1, CompleteByKeys
  <2> QED
    BY <2>13, <2>14, <2>15, <2>16
<1>2. ChangesSpec => []RecordsHaveZone
  BY RecordsAreHomed
<1> QED
  BY <1>1, <1>2, CopiesHold, PTL

-----------------------------------------------------------------------------
(* The client. *)

\* What the library makes of the records of the requests leaves them as they are: their
\* class is that of the question, their data prints as they say, and no two have one key.
PlainRequests ==
    \A request \in {r \in Requests : RequestAccepted(r)} :
        request.op \in {"UpsertRecord", "UpsertRRSet", "DeleteRecord"} =>
            /\ UniqueKeys(UNION Normalized(request))
            /\ \A n \in UNION Normalized(request) :
                  RowKey(n) = Row(request) /\ n.class = "IN" /\ Canon[n.data] = n.data

\* The methods that an update message of the client calls.
ClientOps == {"none", "UpsertRecord", "DeleteRecord", "DeleteRRSet", "DeleteName"}

\* The row of an RR, and of the one whose turn it is.
RRRow(zone, rr) == <<Fold(zone), Fold(rr.name)>>
RowAt(u) == RRRow(u.message.zone, u.message.rrs[u.next])

AgreeOn(one, two, row) == InRow(one, row) = InRow(two, row)

\* A message in the universe whose RRs are all of the row.
MessageIn(m, row) ==
    /\ m.zone \in Texts /\ Len(m.rrs) \in Nat
    /\ \A i \in 1 .. Len(m.rrs) : RRInUniverse(m.zone, m.rrs[i]) /\ RRRow(m.zone, m.rrs[i]) = row

\* A method of a handler holds nothing outside the row of its RR.
Hand(u, t, c) ==
    /\ DOMAIN u = DOMAIN NoUpdate /\ u.pc \in {"idle", "apply", "reply"} /\ u.next \in Nat \ {0}
    /\ u.pc = "apply" => u.next <= Len(u.message.rrs) + 1
    /\ u.pc = "reply" => u.rcode # "SUCCESS"
    /\ t.pc # "idle" => u.pc = "apply" /\ u.next <= Len(u.message.rrs)
    /\ t.op \in ClientOps /\ CallOfTask(t, c) /\ Course(t)
    /\ \A r \in t.current \cup c.record : RowKey(r) = RowAt(u)
    /\ t.op \in {"DeleteRRSet", "DeleteName"} => <<t.zone, t.name>> = RowAt(u)

\* In the row that nobody else writes, the RRs so far have had their effect on the records
\* base, and the one at hand is bound to have its own.
Promised(u, t, c, stored, base, row) ==
    /\ SetKnown(t, c, stored)
    /\ u.pc = "apply" /\ t.pc = "idle" =>
          AgreeOn(stored, AfterRRs(base, u.message)[u.next - 1], row)
    /\ t.pc # "idle" =>
          AgreeOn(RecordsDue(t, Landing(c, stored)), AfterRRs(base, u.message)[u.next], row)

\* The message of an exchange: the one at hand, or one whose row is in doubt.
Carries(x, id, m) ==
    /\ id \in 1 .. x.id
    /\ IF x.pc = "waiting" /\ id = x.id
       THEN m \in RequestMessages(x.request)
       ELSE \E request \in Requests :
               /\ RequestAccepted(request) /\ m \in RequestMessages(request)
               /\ Row(request) \in x.doubtful

\* No two packets or goroutines carry the message of one exchange.
OneCarrier ==
    /\ \A k1, k2 \in inFlight : k1.id = k2.id => k1 = k2
    /\ \A k \in inFlight, p \in Writers : update[p].pc # "idle" => handling[p] # k.id
    /\ \A p, q \in Writers :
          update[p].pc # "idle" /\ update[q].pc # "idle" /\ handling[p] = handling[q] => p = q

AwaitedRow(x, row) == x.pc = "waiting" /\ row = Row(x.request)

\* Where no exchange was lost and none is at hand, the records are as expected; where one is
\* at hand, they are until its message is handled, and then follow its RRs.
RowsFollow ==
    /\ \A row : row \notin client.doubtful /\ ~AwaitedRow(client, row) =>
          AgreeOn(records, client.expected, row)
    /\ \A row : row \notin client.doubtful /\ AwaitedRow(client, row) =>
          /\ \A k \in inFlight : k.id = client.id => AgreeOn(records, client.expected, row)
          /\ \A p \in Writers : update[p].pc # "idle" /\ handling[p] = client.id =>
                Promised(update[p], task[p], call[p], records, client.expected, row)

ClientInv ==
    /\ DOMAIN client = {"pc", "id", "request", "expected", "doubtful"}
    /\ client.pc \in {"idle", "waiting"} /\ client.id \in Nat
    /\ client.pc = "waiting" => client.request \in Requests /\ RequestAccepted(client.request)
    /\ DOMAIN update = Writers /\ DOMAIN handling = Writers
    /\ \A p \in Writers : Hand(update[p], task[p], call[p])
    /\ \A k \in inFlight : Carries(client, k.id, k.message)
    /\ \A p \in Writers : update[p].pc # "idle" => Carries(client, handling[p], update[p].message)
    /\ OneCarrier
    /\ RowsFollow

-----------------------------------------------------------------------------
(* Rows. *)

\* What becomes of a row depends on that row only.
LEMMA EffectLocal ==
    ASSUME NEW one, NEW two, NEW row, AgreeOn(one, two, row), NEW zone, NEW rr
    PROVE  AgreeOn(Effect(one, zone, rr), Effect(two, zone, rr), row)
<1>1. \A r : RowKey(r) = row => (r \in one <=> r \in two)
  BY DEF AgreeOn, InRow
<1>2. CASE rr.class = "ANY"
  BY <1>1, <1>2 DEF AgreeOn, InRow, Effect, LookupIn
<1>3. CASE rr.class = "NONE"
  BY <1>1, <1>3 DEF AgreeOn, InRow, Effect, Without
<1>4. CASE rr.class \notin {"ANY", "NONE"}
  BY <1>1, <1>4 DEF AgreeOn, InRow, Effect, Put
<1> QED
  BY <1>2, <1>3, <1>4

LEMMA DueLocal ==
    ASSUME NEW one, NEW two, NEW row, AgreeOn(one, two, row), NEW t, NEW c
    PROVE  AgreeOn(RecordsDue(t, Landing(c, one)), RecordsDue(t, Landing(c, two)), row)
<1>1. \A r : RowKey(r) = row => (r \in one <=> r \in two)
  BY DEF AgreeOn, InRow
<1>2. PICK s1, s2 : s1 = Landing(c, one) /\ s2 = Landing(c, two)
  OBVIOUS
<1>3. \A r : RowKey(r) = row => (r \in s1 <=> r \in s2)
  BY <1>1, <1>2 DEF Landing
<1>4. CASE t.op \in RRSetCalls
  BY <1>2, <1>3, <1>4 DEF AgreeOn, InRow, RecordsDue
<1>5. CASE t.op \notin RRSetCalls
  BY <1>2, <1>3, <1>5 DEF AgreeOn, InRow, RecordsDue, Overlay
<1> QED
  BY <1>4, <1>5

\* A deletion knows the rest of its set as long as nobody else writes its row.
LEMMA KnownLocal ==
    ASSUME NEW one, NEW two, NEW u, NEW t, NEW c, Hand(u, t, c), AgreeOn(one, two, RowAt(u)),
           TaskShape(t), SetKnown(t, c, one)
    PROVE  SetKnown(t, c, two)
<1>1. PICK row : row = RowAt(u)
  OBVIOUS
<1>2. \A r : RowKey(r) = row => (r \in one <=> r \in two)
  BY <1>1 DEF AgreeOn, InRow
<1>3. ~Adding(t) /\ (t.pc = "drop" => t.op \in {"DeleteRRSet", "DeleteName"})
  BY DEF Hand, ClientOps, Adding, Course, RRSetCalls
<1>4. t.op \in {"DeleteRRSet", "DeleteName"} => SetIn(one, t) = SetIn(two, t)
  BY <1>1, <1>2 DEF Hand, SetIn, LookupIn
<1> QED
  BY <1>3, <1>4 DEF SetKnown

\* Outside a call a goroutine holds nothing.
LEMMA IdleHand ==
    ASSUME ManagerInv, NEW p \in Writers, task[p].pc = "idle", CallOfTask(task[p], call[p]),
           Course(task[p])
    PROVE  /\ task[p].op = "none" /\ call[p].pc = "idle"
           /\ task[p].current \cup call[p].record = {}
           /\ \A stored : SetKnown(task[p], call[p], stored)
<1>1. PICK t : t = task[p]
  OBVIOUS
<1>2. PICK c : c = call[p]
  OBVIOUS
<1>3. t.pc = "idle" /\ t.op = "none" /\ c.pc = "idle" /\ TaskShape(t) /\ CallShape(c)
  BY <1>1, <1>2 DEF ManagerInv, CallOfTask, TaskShape
<1>4. t.current = {} /\ c.record = {}
  BY <1>3 DEF TaskShape, CallShape
<1>5. \A stored : SetKnown(t, c, stored)
  BY <1>3 DEF SetKnown, Adding
<1> QED
  BY <1>1, <1>2, <1>3, <1>4, <1>5

\* No DeleteZone is at work.
LEMMA HandRows ==
    ASSUME NEW u, NEW t, NEW c, Hand(u, t, c)
    PROVE  c.pc \notin {"rows", "drop"} /\ \A stored : RowsKnown(c, stored)
BY DEF Hand, CallOfTask, ClientOps, RowsKnown

-----------------------------------------------------------------------------
(* Methods at work in a row. *)

\* A step of a method of a handler keeps to the row of its RR, and what it knows of it.
WorksOn(p, row) ==
    /\ CallOfTask(task'[p], call'[p])
    /\ \A r \in task'[p].current \cup call'[p].record : RowKey(r) = row
    /\ task'[p].op \in {"DeleteRRSet", "DeleteName"} => <<task'[p].zone, task'[p].name>> = row
    /\ \A other : other # row => AgreeOn(records', records, other)
    /\ SetKnown(task[p], call[p], records) => SetKnown(task'[p], call'[p], records')

\* A record that is put or removed leaves the other rows as they are.
LEMMA OtherRows ==
    ASSUME NEW stored, NEW r, NEW row, row # RowKey(r)
    PROVE  AgreeOn(Put(stored, r), stored, row) /\ AgreeOn(Without(stored, r), stored, row)
<1>1. \A x : Key(x) = Key(r) => RowKey(x) = RowKey(r)
  BY KeyParts DEF RowKey
<1> QED
  BY <1>1 DEF AgreeOn, InRow, Put, Without

\* A step that makes no store call.
LEMMA TaskWorksOn ==
    ASSUME ManagerInv, NEW p \in Writers, NEW u, Hand(u, task[p], call[p]), NEW t, t = task[p],
           NEW v, task' = [task EXCEPT ![p] = v], UNCHANGED storeVars,
           v.op = t.op, v.zone = t.zone, v.name = t.name, v.current = t.current,
           CallOfTask(v, call[p]),
           SetKnown(t, call[p], records) => SetKnown(v, call[p], records)
    PROVE  WorksOn(p, RowAt(u))
<1>1. task'[p] = v /\ call' = call /\ records' = records
  BY DEF ManagerInv, storeVars
<1> QED
  BY <1>1 DEF WorksOn, Hand, AgreeOn

\* ListRecords.
LEMMA ListingWorksOn ==
    ASSUME ManagerInv, NEW p \in Writers, NEW u, Hand(u, task[p], call[p]),
           ListKeys(p) \/ ReadRow(p)
    PROVE  WorksOn(p, RowAt(u))
<1>1. PICK t, c : t = task[p] /\ c = call[p]
  OBVIOUS
<1>2. t \in Tasks /\ t.pc \in {"list", "read"} /\ CallOfTask(t, c)
  BY <1>1 DEF ManagerInv, ListKeys, ReadRow, Hand
<1>3. PICK v : /\ task' = [task EXCEPT ![p] = v] /\ UNCHANGED storeVars
               /\ v.op = t.op /\ v.zone = t.zone /\ v.name = t.name /\ v.current = t.current
               /\ v.pc = "read" /\ v.target = t.target /\ v.todo = t.todo /\ v.type = t.type
  <2>1. CASE ListKeys(p)
    <3>1. PICK rows : rows = {RowKey(r) : r \in InZone(records, t.zone)}
      OBVIOUS
    <3>2. PICK v : v = [t EXCEPT !.pc = "read", !.listed = {}, !.rows = rows]
      OBVIOUS
    <3>3. task' = [task EXCEPT ![p] = v] /\ UNCHANGED storeVars
      BY <1>1, <2>1, <3>1, <3>2 DEF ListKeys, Go
    <3> QED
      <4>1. /\ v.op = t.op /\ v.zone = t.zone /\ v.name = t.name /\ v.current = t.current
            /\ v.pc = "read" /\ v.target = t.target /\ v.todo = t.todo /\ v.type = t.type
        BY <1>2, <3>2 DEF Tasks
      <4> QED
        BY <3>3, <4>1
  <2>2. CASE ReadRow(p)
    <3>1. PICK row \in t.rows :
              Go(p, [t EXCEPT !.rows = @ \ {row},
                              !.listed = @ \cup {r \in records : RowKey(r) = row}])
      BY <1>1, <2>2 DEF ReadRow
    <3>2. PICK found : found = {r \in records : RowKey(r) = row}
      OBVIOUS
    <3>3. PICK v : v = [t EXCEPT !.rows = @ \ {row}, !.listed = @ \cup found]
      OBVIOUS
    <3>4. task' = [task EXCEPT ![p] = v] /\ UNCHANGED storeVars /\ t.pc = "read"
      BY <1>1, <2>2, <3>1, <3>2, <3>3 DEF Go, ReadRow
    <3> QED
      <4>1. /\ v.op = t.op /\ v.zone = t.zone /\ v.name = t.name /\ v.current = t.current
            /\ v.pc = "read" /\ v.target = t.target /\ v.todo = t.todo /\ v.type = t.type
        BY <1>2, <3>3, <3>4 DEF Tasks
      <4> QED
        BY <3>4, <4>1
  <2> QED
    BY <2>1, <2>2
<1>4. CallOfTask(v, c) /\ ~Adding(v)
  BY <1>1, <1>2, <1>3 DEF CallOfTask, Adding, Hand, ClientOps
<1>5. SetKnown(v, c, records)
  BY <1>3, <1>4 DEF SetKnown
<1> QED
  BY <1>1, <1>3, <1>4, <1>5, TaskWorksOn

\* Lookup of the records to delete, and the end of their deletion.
LEMMA FindWorksOn ==
    ASSUME ManagerInv, NEW p \in Writers, NEW u, Hand(u, task[p], call[p]),
           FindRRSet(p) \/ Dropped(p)
    PROVE  WorksOn(p, RowAt(u))
<1>1. PICK t, c : t = task[p] /\ c = call[p]
  OBVIOUS
<1>2. /\ t \in Tasks /\ t.pc \in {"find", "drop"} /\ CallOfTask(t, c) /\ c.pc = "idle"
      /\ t.op \in {"DeleteRRSet", "DeleteName"}
  BY <1>1 DEF ManagerInv, FindRRSet, Dropped, Hand, CallOfTask, Course, RRSetCalls, ClientOps
<1>3. CASE FindRRSet(p)
  <2>1. PICK drops : drops = SetIn(records, t)
    OBVIOUS
  <2>2. PICK v : v = [t EXCEPT !.pc = "drop", !.drops = drops]
    OBVIOUS
  <2>3. task' = [task EXCEPT ![p] = v] /\ UNCHANGED storeVars
    BY <1>1, <1>3, <2>1, <2>2 DEF FindRRSet, Go, SetIn
  <2>4. /\ v.op = t.op /\ v.pc = "drop" /\ v.zone = t.zone /\ v.name = t.name /\ v.type = t.type
        /\ v.current = t.current /\ v.drops = drops
    BY <1>2, <2>2 DEF Tasks
  <2>5. SetIn(records, v) = drops /\ ~Adding(v) /\ CallOfTask(v, c)
    BY <1>2, <2>1, <2>4 DEF SetIn, Adding, CallOfTask
  <2>6. SetKnown(v, c, records)
    BY <2>4, <2>5 DEF SetKnown
  <2> QED
    BY <1>1, <2>3, <2>4, <2>5, <2>6, TaskWorksOn
<1>4. CASE Dropped(p)
  <2>1. PICK v : v = [t EXCEPT !.pc = "return"]
    OBVIOUS
  <2>2. task' = [task EXCEPT ![p] = v] /\ UNCHANGED storeVars /\ t.pc = "drop" /\ t.drops = {}
    BY <1>1, <1>2, <1>4, <2>1 DEF Dropped, Go
  <2>3. /\ v.op = t.op /\ v.pc = "return" /\ v.zone = t.zone /\ v.name = t.name
        /\ v.type = t.type /\ v.current = t.current
    BY <1>2, <2>1 DEF Tasks
  <2>4. SetIn(records, v) = SetIn(records, t) /\ ~Adding(v) /\ CallOfTask(v, c)
    BY <1>2, <2>3 DEF SetIn, Adding, CallOfTask
  <2>5. SetKnown(t, c, records) => SetKnown(v, c, records)
    BY <2>2, <2>3, <2>4 DEF SetKnown
  <2> QED
    BY <1>1, <2>2, <2>3, <2>4, <2>5, TaskWorksOn
<1> QED
  BY <1>3, <1>4

\* DeleteRecord of a record of the set.
LEMMA DropWorksOn ==
    ASSUME ManagerInv, NEW p \in Writers, NEW u, Hand(u, task[p], call[p]), DropRecord(p)
    PROVE  WorksOn(p, RowAt(u))
<1>1. PICK t, c, row : t = task[p] /\ c = call[p] /\ row = RowAt(u)
  OBVIOUS
<1>2. PICK r \in t.drops : DeleteRecord(p, r) /\ task' = [task EXCEPT ![p].drops = @ \ {r}]
  BY <1>1 DEF DropRecord
<1>3. PICK v : v = [t EXCEPT !.drops = @ \ {r}]
  OBVIOUS
<1>4. /\ t \in Tasks /\ t.pc = "drop" /\ Course(t) /\ t.op \in {"DeleteRRSet", "DeleteName"}
      /\ <<t.zone, t.name>> = row /\ \A x \in t.current : RowKey(x) = row
  BY <1>1 DEF ManagerInv, DropRecord, Hand, Course, RRSetCalls, ClientOps
<1>5. task'[p] = v
  BY <1>1, <1>2, <1>3 DEF ManagerInv
<1>6. /\ v.op = t.op /\ v.pc = "drop" /\ v.zone = t.zone /\ v.name = t.name /\ v.type = t.type
      /\ v.current = t.current /\ v.drops = t.drops \ {r}
  BY <1>3, <1>4 DEF Tasks
<1>7. NormalizeRecord(r) = r
  BY <1>2, <1>4, StoredNormal DEF Tasks
<1>8. RowKey(r) = row
  BY <1>2, <1>4 DEF Course, InSet, RowKey
<1>9. PICK d, left : d = call'[p] /\ left = Without(records, r)
  OBVIOUS
<1>10. d.pc = "bump" /\ d.record = {} /\ records' = left
  BY <1>2, <1>7, <1>9 DEF DeleteRecord, NoCall, ManagerInv, StoreInv, StoreTypeOK
<1>11. CallOfTask(v, d) /\ ~Adding(v)
  BY <1>4, <1>6, <1>10 DEF CallOfTask, Adding
<1>12. \A other : other # row => AgreeOn(left, records, other)
  BY <1>8, <1>9, OtherRows
<1>13. ASSUME SetKnown(t, c, records) PROVE SetKnown(v, d, left)
  <2>1. SetIn(records, t) \subseteq t.drops
    BY <1>4, <1>13 DEF SetKnown
  <2>2. SetIn(left, v) \subseteq SetIn(records, t) \ {r}
    BY <1>6, <1>9 DEF SetIn, LookupIn, Without
  <2> QED
    BY <1>6, <1>11, <2>1, <2>2 DEF SetKnown
<1> QED
  BY <1>1, <1>4, <1>5, <1>6, <1>9, <1>10, <1>11, <1>12, <1>13 DEF WorksOn

\* validateRecordUpsert, and SaveRecord when it passes.
LEMMA ValidateWorksOn ==
    ASSUME ManagerInv, NEW p \in Writers, NEW u, Hand(u, task[p], call[p]), ValidateRecord(p)
    PROVE  WorksOn(p, RowAt(u))
<1>1. PICK t, c, row : t = task[p] /\ c = call[p] /\ row = RowAt(u)
  OBVIOUS
<1>2. /\ t \in Tasks /\ t.pc = "read" /\ CallOfTask(t, c) /\ TaskShape(t)
      /\ t.op \in ClientOps /\ \A x \in t.current : RowKey(x) = row
  BY <1>1 DEF ManagerInv, ValidateRecord, Hand
<1>3. PICK r \in t.current :
          \/ /\ SaveRecord(p, r)
             /\ task' = [task EXCEPT ![p] = [t EXCEPT !.pc = IF t.op = "UpsertRRSet" THEN "add"
                                                             ELSE "return",
                                                      !.listed = {}, !.current = {}]]
          \/ Abort(p)
  BY <1>1 DEF ValidateRecord
<1>4. t.op = "UpsertRecord" /\ r \in Records /\ NormalizeRecord(r) = r /\ RowKey(r) = row
  BY <1>2, <1>3, StoredNormal DEF TaskShape, ClientOps, Tasks
<1>5. CASE /\ SaveRecord(p, r)
           /\ task' = [task EXCEPT ![p] = [t EXCEPT !.pc = IF t.op = "UpsertRRSet" THEN "add"
                                                           ELSE "return",
                                                    !.listed = {}, !.current = {}]]
  <2>1. PICK v : v = [t EXCEPT !.pc = "return", !.listed = {}, !.current = {}]
    OBVIOUS
  <2>2. task'[p] = v
    BY <1>4, <1>5, <2>1 DEF ManagerInv
  <2>3. v.op = t.op /\ v.pc = "return" /\ v.current = {}
    BY <1>2, <2>1 DEF Tasks
  <2>4. PICK d : d = call'[p]
    OBVIOUS
  <2>5. d.pc = "put" /\ d.record = {r} /\ records' = records
    BY <1>4, <1>5, <2>4 DEF SaveRecord, NoCall, ManagerInv, StoreInv, StoreTypeOK
  <2>6. CallOfTask(v, d) /\ ~Adding(v)
    BY <1>4, <2>3, <2>5 DEF CallOfTask, Adding
  <2>7. SetKnown(v, d, records)
    BY <1>4, <2>3, <2>6 DEF SetKnown
  <2> QED
    BY <1>1, <1>4, <2>2, <2>3, <2>4, <2>5, <2>6, <2>7 DEF WorksOn, AgreeOn
<1>6. CASE Abort(p)
  <2>1. PICK v : v = [t EXCEPT !.pc = "failed"]
    OBVIOUS
  <2>2. task' = [task EXCEPT ![p] = v] /\ UNCHANGED storeVars
    BY <1>1, <1>6, <2>1 DEF Abort, Go
  <2>3. /\ v.op = t.op /\ v.pc = "failed" /\ v.zone = t.zone /\ v.name = t.name
        /\ v.current = t.current
    BY <1>2, <2>1 DEF Tasks
  <2>4. CallOfTask(v, c) /\ ~Adding(v)
    BY <1>2, <1>4, <2>3 DEF CallOfTask, Adding
  <2>5. SetKnown(v, c, records)
    BY <1>4, <2>3, <2>4 DEF SetKnown
  <2> QED
    BY <1>1, <2>2, <2>3, <2>4, <2>5, TaskWorksOn
<1> QED
  BY <1>3, <1>5, <1>6

\* The steps of a store call.
LEMMA StoreWorksOn ==
    ASSUME ManagerInv, NEW p \in Writers, NEW u, Hand(u, task[p], call[p]), StoreStep(p),
           UNCHANGED task
    PROVE  WorksOn(p, RowAt(u))
<1>1. PICK t, c, row : t = task[p] /\ c = call[p] /\ row = RowAt(u)
  OBVIOUS
<1>2. PICK d : d = call'[p]
  OBVIOUS
<1>3. /\ CallOfTask(t, c) /\ t.op \in ClientOps /\ c \in Calls /\ CallShape(c) /\ TaskShape(t)
      /\ \A x \in t.current \cup c.record : RowKey(x) = row
      /\ t.op \in {"DeleteRRSet", "DeleteName"} => <<t.zone, t.name>> = row
      /\ call \in [Writers -> Calls] /\ task'[p] = t
  BY <1>1 DEF ManagerInv, StoreInv, StoreTypeOK, Hand
<1>4. c.pc \notin {"rows", "drop"}
  BY <1>1, HandRows
<1>5. CASE PutRecord(p)
  <2>1. PICK r \in c.record : records' = Put(records, r)
    BY <1>1, <1>5 DEF PutRecord
  <2>2. c.pc = "put" /\ d.pc = "bump" /\ d.record = {}
    BY <1>1, <1>2, <1>3, <1>5 DEF PutRecord, Calls
  <2>3. t.op = "UpsertRecord" /\ t.pc = "return"
    BY <1>3, <2>2 DEF CallOfTask, ClientOps, Adding, TaskShape
  <2>4. CallOfTask(t, d) /\ ~Adding(t)
    BY <2>2, <2>3 DEF CallOfTask, Adding
  <2>5. \A stored : SetKnown(t, d, stored)
    BY <2>3, <2>4 DEF SetKnown
  <2>6. \A other : other # row => AgreeOn(records', records, other)
    BY <1>3, <2>1, OtherRows
  <2> QED
    BY <1>1, <1>2, <1>3, <2>2, <2>4, <2>5, <2>6 DEF WorksOn
<1>6. CASE Bump(p)
  <2>1. d = NoCall /\ records' = records
    BY <1>2, <1>3, <1>6 DEF Bump
  <2>2. d.pc = "idle" /\ d.record = {}
    BY <2>1 DEF NoCall
  <2>3. CallOfTask(t, d) /\ ~Adding(t)
    BY <1>3, <2>2 DEF CallOfTask, Adding, ClientOps
  <2>4. SetKnown(t, c, records) => SetKnown(t, d, records)
    BY <2>3 DEF SetKnown
  <2> QED
    BY <1>1, <1>2, <1>3, <2>1, <2>2, <2>3, <2>4 DEF WorksOn, AgreeOn
<1> QED
  BY <1>1, <1>4, <1>5, <1>6 DEF StoreStep, ListRows, DropRow

\* All of them.
LEMMA WorkWorksOn ==
    ASSUME ManagerInv, NEW p \in Writers, NEW u, Hand(u, task[p], call[p]), task[p].pc # "idle",
           WorkStep(p)
    PROVE  Leads(p) /\ WorksOn(p, RowAt(u)) /\ Hand(u, task'[p], call'[p]) /\ task'[p].pc # "idle"
<1>1. task[p].op \in ClientOps /\ Course(task[p]) /\ CallOfTask(task[p], call[p])
      /\ TaskShape(task[p])
  BY DEF Hand, ManagerInv
<1>2. Leads(p)
  BY <1>1, HandRows, WorkLeads DEF ClientOps
<1>3. task'[p].pc # "idle"
  BY <1>1, <1>2, WorkStays
<1>4. ~ValidateRRSet(p)
  BY <1>1 DEF ValidateRRSet, Course, ClientOps
<1>5. ~NextRecord(p) /\ ~SaveSeedZone(p) /\ ~SaveSeedRecord(p)
  BY <1>1 DEF NextRecord, SaveSeedZone, SaveSeedRecord, TaskShape, ClientOps
<1>6. WorksOn(p, RowAt(u))
  BY <1>4, <1>5, ListingWorksOn, FindWorksOn, DropWorksOn, ValidateWorksOn, StoreWorksOn
  DEF WorkStep
<1>7. Hand(u, task'[p], call'[p])
  BY <1>2, <1>3, <1>6 DEF Hand, Leads, WorksOn
<1> QED
  BY <1>2, <1>3, <1>6, <1>7

-----------------------------------------------------------------------------
(* The handler of a message about a row. *)

\* The record an RR stands for is in the RR's row.
LEMMA RecordOfRow ==
    ASSUME NEW zone, NEW rr
    PROVE  RowKey(NormalizeRecord(RecordOf(zone, rr))) = RRRow(zone, rr)
<1>1. PICK r : r = RecordOf(zone, rr)
  OBVIOUS
<1>2. DOMAIN r = {"zone", "name", "ttl", "type", "data", "class"} /\ r.zone = zone
      /\ r.name = rr.name
  BY <1>1 DEF RecordOf
<1>3. PICK class : class = IF r.class = "none" THEN "IN" ELSE r.class
  OBVIOUS
<1>4. NormalizeRecord(r) = [r EXCEPT !.zone = Fold(r.zone), !.name = Fold(r.name), !.class = class]
  BY <1>3, Zenon DEF NormalizeRecord, NormalizeZoneName
<1>5. PICK z, n : z = Fold(r.zone) /\ n = Fold(r.name)
  OBVIOUS
<1>6. NormalizeRecord(r).zone = z /\ NormalizeRecord(r).name = n
  BY <1>2, <1>4, <1>5
<1> QED
  BY <1>1, <1>2, <1>5, <1>6 DEF RowKey, RRRow

\* The method for an RR begins in the row of the RR.
LEMMA BeginWorksOn ==
    ASSUME ManagerInv, NEW p \in Writers, NEW zone, NEW rr, NEW row, row = RRRow(zone, rr),
           task[p].pc = "idle",
           \/ rr.class = "ANY" /\ rr.type = "ANY" /\ DeleteName(p, RRSetOf(zone, rr))
           \/ rr.class = "ANY" /\ rr.type # "ANY" /\ DeleteRRSet(p, RRSetOf(zone, rr))
           \/ rr.class = "NONE" /\ ManagerDeleteRecord(p, RecordOf(zone, rr))
           \/ rr.class \notin {"ANY", "NONE"} /\ UpsertRecord(p, RecordOf(zone, rr))
    PROVE  WorksOn(p, row) /\ task'[p].op \in ClientOps /\ SetKnown(task'[p], call'[p], records')
<1>1. PICK c : c = call[p]
  OBVIOUS
<1>2. c.pc = "idle" /\ c.record = {}
  BY <1>1 DEF ManagerInv, CallShape, DeleteName, DeleteRRSet, ManagerDeleteRecord, UpsertRecord,
             Begin
<1>3. PICK set : set = RRSetOf(zone, rr)
  OBVIOUS
<1>4. <<Fold(set.zone), Fold(set.name)>> = row
  BY <1>3 DEF RRSetOf, RRRow
<1>5. PICK n : n = NormalizeRecord(RecordOf(zone, rr))
  OBVIOUS
<1>6. RowKey(n) = row
  BY <1>5, RecordOfRow
<1>7. ASSUME NEW op \in {"DeleteRRSet", "DeleteName"}, NEW type, UNCHANGED storeVars,
             task' = [task EXCEPT ![p] =
                         [NoTask EXCEPT !.op = op, !.pc = "find", !.zone = Fold(set.zone),
                                        !.name = Fold(set.name), !.type = type]]
      PROVE  WorksOn(p, row) /\ task'[p].op \in ClientOps /\ SetKnown(task'[p], call'[p], records')
  <2>1. PICK v : v = [NoTask EXCEPT !.op = op, !.pc = "find", !.zone = Fold(set.zone),
                                    !.name = Fold(set.name), !.type = type]
    OBVIOUS
  <2>2. task'[p] = v /\ call'[p] = c /\ records' = records
    BY <1>1, <1>7, <2>1 DEF ManagerInv, storeVars
  <2>3. v.op = op /\ v.pc = "find" /\ v.zone = Fold(set.zone) /\ v.name = Fold(set.name)
        /\ v.current = {}
    BY <2>1, NoTaskFacts
  <2>4. CallOfTask(v, c) /\ ~Adding(v)
    BY <1>2, <1>7, <2>3 DEF CallOfTask, Adding
  <2>5. SetKnown(v, c, records)
    BY <2>3, <2>4 DEF SetKnown
  <2> QED
    BY <1>2, <1>4, <2>2, <2>3, <2>4, <2>5 DEF WorksOn, AgreeOn, ClientOps
<1>8. CASE DeleteName(p, set)
  BY <1>7, <1>8 DEF DeleteName
<1>9. CASE DeleteRRSet(p, set)
  BY <1>7, <1>9 DEF DeleteRRSet
<1>10. CASE ManagerDeleteRecord(p, RecordOf(zone, rr))
  <2>1. PICK v : v = [NoTask EXCEPT !.op = "DeleteRecord", !.pc = "return"]
    OBVIOUS
  <2>2. v.op = "DeleteRecord" /\ v.pc = "return" /\ v.current = {}
    BY <2>1, NoTaskFacts
  <2>3. PICK d, left : d = call'[p] /\ left = Without(records, n)
    OBVIOUS
  <2>4. task'[p] = v /\ d.pc = "bump" /\ d.record = {} /\ records' = left
    BY <1>5, <1>10, <2>1, <2>3
    DEF ManagerDeleteRecord, DeleteRecord, NoCall, ManagerInv, StoreInv, StoreTypeOK
  <2>5. CallOfTask(v, d) /\ ~Adding(v)
    BY <2>2, <2>4 DEF CallOfTask, Adding
  <2>6. SetKnown(v, d, left)
    BY <2>2, <2>5 DEF SetKnown
  <2>7. \A other : other # row => AgreeOn(left, records, other)
    BY <1>6, <2>3, OtherRows
  <2> QED
    BY <2>2, <2>3, <2>4, <2>5, <2>6, <2>7 DEF WorksOn, ClientOps
<1>11. CASE UpsertRecord(p, RecordOf(zone, rr))
  <2>1. PICK v : v = [NoTask EXCEPT !.op = "UpsertRecord", !.pc = "list", !.zone = n.zone,
                                    !.target = {n}, !.current = {n}]
    OBVIOUS
  <2>2. v.op = "UpsertRecord" /\ v.pc = "list" /\ v.current = {n}
    BY <2>1, NoTaskFacts
  <2>3. task'[p] = v /\ call'[p] = c /\ records' = records
    BY <1>1, <1>5, <1>11, <2>1 DEF UpsertRecord, ManagerInv, storeVars
  <2>4. CallOfTask(v, c) /\ ~Adding(v)
    BY <1>2, <2>2 DEF CallOfTask, Adding
  <2>5. SetKnown(v, c, records)
    BY <2>2, <2>4 DEF SetKnown
  <2> QED
    BY <1>2, <1>6, <2>2, <2>3, <2>4, <2>5 DEF WorksOn, AgreeOn, ClientOps
<1> QED
  BY <1>3, <1>8, <1>9, <1>10, <1>11

\* A step of a handler before its reply.
HandlerMoves(p, row) ==
    /\ ManagerStep(p) \/ UNCHANGED managerVars
    /\ DOMAIN update' = Writers /\ \A q \in Writers : q # p => update'[q] = update[q]
    /\ update[p].pc # "idle" /\ update'[p].pc # "idle"
    /\ update'[p].message = update[p].message
    /\ Hand(update'[p], task'[p], call'[p])
    /\ \A other : other # row => AgreeOn(records', records, other)
    /\ \A base : Promised(update[p], task[p], call[p], records, base, row) =>
                    Promised(update'[p], task'[p], call'[p], records', base, row)

\* The Manager's method for an RR begins.
LEMMA ApplyRRHandles ==
    ASSUME ManagerInv, NEW p \in Writers, DOMAIN update = Writers,
           Hand(update[p], task[p], call[p]), NEW row, MessageIn(update[p].message, row),
           ApplyRR(p)
    PROVE  HandlerMoves(p, row)
<1>1. PICK u, m : u = update[p] /\ m = update[p].message
  OBVIOUS
<1>2. Len(m.rrs) \in Nat /\ m.zone \in Texts
  BY <1>1 DEF MessageIn
<1>3. PICK k \in 1 .. Len(m.rrs) : k = u.next
  BY <1>1, <1>2 DEF Hand, ApplyRR, AtRR
<1>4. PICK rr : rr = m.rrs[k]
  OBVIOUS
<1>5. RRInUniverse(m.zone, rr) /\ RRRow(m.zone, rr) = row /\ RowAt(u) = row
  BY <1>1, <1>3, <1>4 DEF MessageIn, RowAt
<1>6. /\ u.pc = "apply" /\ task[p].pc = "idle" /\ update' = update
      /\ \/ rr.class = "ANY" /\ rr.type = "ANY" /\ DeleteName(p, RRSetOf(m.zone, rr))
         \/ rr.class = "ANY" /\ rr.type # "ANY" /\ DeleteRRSet(p, RRSetOf(m.zone, rr))
         \/ rr.class = "NONE" /\ ManagerDeleteRecord(p, RecordOf(m.zone, rr))
         \/ rr.class \notin {"ANY", "NONE"} /\ UpsertRecord(p, RecordOf(m.zone, rr))
  BY <1>1, <1>3, <1>4 DEF ApplyRR, AtRR, CurrentRR
<1>7. WorksOn(p, row) /\ task'[p].op \in ClientOps /\ SetKnown(task'[p], call'[p], records')
  BY <1>5, <1>6, BeginWorksOn
<1>8. PICK stored : stored = Effect(records, Fold(m.zone), rr)
  OBVIOUS
<1>9. (\E op, known : Bound(p, op, known, stored)) /\ ManagerStep(p)
  BY <1>2, <1>5, <1>6, <1>8, RRBound
<1>10. PICK t, c : t = task'[p] /\ c = call'[p]
  OBVIOUS
<1>11. Course(t) /\ t.pc # "idle" /\ RecordsDue(t, Landing(c, records')) = stored
  BY <1>9, <1>10 DEF Bound
<1>12. Hand(u, t, c)
  BY <1>1, <1>3, <1>5, <1>6, <1>7, <1>10, <1>11 DEF Hand, WorksOn
<1>13. ASSUME NEW base, Promised(u, task[p], call[p], records, base, row)
       PROVE  Promised(u, t, c, records', base, row)
  <2>1. AgreeOn(records, AfterRRs(base, m)[k - 1], row)
    BY <1>1, <1>3, <1>6, <1>13 DEF Promised
  <2>2. AfterRRs(base, m)[k] = Effect(AfterRRs(base, m)[k - 1], Fold(m.zone), rr)
    BY <1>2, <1>4, AfterFacts
  <2>3. AgreeOn(stored, AfterRRs(base, m)[k], row)
    BY <1>8, <2>1, <2>2, EffectLocal
  <2> QED
    BY <1>1, <1>3, <1>7, <1>10, <1>11, <2>3 DEF Promised
<1> QED
  BY <1>1, <1>6, <1>7, <1>9, <1>10, <1>12, <1>13 DEF HandlerMoves, WorksOn

\* The method for an RR is at work.
LEMMA WorkHandles ==
    ASSUME ManagerInv, NEW p \in Writers, DOMAIN update = Writers,
           Hand(update[p], task[p], call[p]), NEW row, MessageIn(update[p].message, row),
           task[p].pc # "idle", WorkStep(p), UNCHANGED update
    PROVE  HandlerMoves(p, row)
<1>1. PICK u : u = update[p]
  OBVIOUS
<1>2. u.pc = "apply" /\ u.next \in 1 .. Len(u.message.rrs)
  BY <1>1 DEF Hand, MessageIn
<1>3. RowAt(u) = row
  BY <1>1, <1>2 DEF MessageIn, RowAt
<1>4. Leads(p) /\ WorksOn(p, row) /\ Hand(u, task'[p], call'[p]) /\ task'[p].pc # "idle"
  BY <1>1, <1>3, WorkWorksOn
<1>5. ASSUME NEW base, Promised(u, task[p], call[p], records, base, row)
      PROVE  Promised(u, task'[p], call'[p], records', base, row)
  <2>1. RecordsDue(task'[p], Landing(call'[p], records')) =
            RecordsDue(task[p], Landing(call[p], records))
    BY <1>4 DEF Leads
  <2>2. SetKnown(task'[p], call'[p], records')
    BY <1>4, <1>5 DEF WorksOn, Promised
  <2> QED
    BY <1>4, <1>5, <2>1, <2>2 DEF Promised
<1> QED
  BY <1>1, <1>2, <1>4, <1>5 DEF HandlerMoves, WorksOn, ManagerStep

\* The method for an RR returns, and with an error the update ends.
LEMMA RRReturnedHandles ==
    ASSUME ManagerInv, NEW p \in Writers, DOMAIN update = Writers,
           Hand(update[p], task[p], call[p]), NEW row, MessageIn(update[p].message, row),
           RRReturned(p)
    PROVE  HandlerMoves(p, row)
<1>1. PICK u, t, c : u = update[p] /\ t = task[p] /\ c = call[p]
  OBVIOUS
<1>2. PICK v : v = IF t.pc = "failed" THEN [u EXCEPT !.pc = "reply", !.rcode = "SERVFAIL"]
                                      ELSE [u EXCEPT !.next = u.next + 1]
  OBVIOUS
<1>3. update' = [update EXCEPT ![p] = v]
  BY <1>1, <1>2 DEF RRReturned
<1>4. /\ Finished(p) /\ c.pc = "idle" /\ u.pc = "apply" /\ Go(p, NoTask) /\ Hand(u, t, c)
      /\ TaskShape(t) /\ CallShape(c)
  BY <1>1 DEF RRReturned, Return, ManagerInv
<1>5. t.pc # "idle" /\ Course(t)
  BY <1>1, <1>4 DEF Finished, Hand
<1>6. u.next \in Nat \ {0} /\ u.next <= Len(u.message.rrs) /\ Len(u.message.rrs) \in Nat
      /\ DOMAIN u = DOMAIN NoUpdate
  BY <1>1, <1>4, <1>5 DEF Hand, MessageIn
<1>7. DOMAIN NoUpdate = {"pc", "message", "next", "rcode", "broken", "before"}
  BY DEF NoUpdate
<1>8. /\ v.message = u.message /\ DOMAIN v = DOMAIN NoUpdate
      /\ v.pc = IF t.pc = "failed" THEN "reply" ELSE "apply"
      /\ v.next = IF t.pc = "failed" THEN u.next ELSE u.next + 1
      /\ t.pc = "failed" => v.rcode = "SERVFAIL"
  BY <1>2, <1>4, <1>6, <1>7
<1>9. task'[p] = NoTask /\ call'[p] = c /\ records' = records
  BY <1>1, <1>4 DEF Go, storeVars, ManagerInv
<1>10. c.record = {}
  BY <1>4 DEF CallShape
<1>11. Hand(v, NoTask, c)
  <2>1. Course(NoTask) /\ CallOfTask(NoTask, c) /\ NoTask.op \in ClientOps
        /\ NoTask.current = {} /\ NoTask.pc = "idle" /\ NoTask.op = "none"
    BY <1>4, NoTaskFacts DEF Course, UniqueKeys, CallOfTask, ClientOps
  <2>2. v.pc \in {"apply", "reply"} /\ v.next \in Nat \ {0}
        /\ (v.pc = "apply" => v.next <= Len(v.message.rrs) + 1)
        /\ (v.pc = "reply" => v.rcode # "SUCCESS")
    BY <1>6, <1>8
  <2> QED
    BY <1>8, <1>10, <2>1, <2>2 DEF Hand
<1>12. ASSUME NEW base, Promised(u, t, c, records, base, row)
       PROVE  Promised(v, NoTask, c, records, base, row)
  <2>1. SetKnown(NoTask, c, records) /\ NoTask.pc = "idle"
    BY NoTaskFacts DEF SetKnown, Adding
  <2>2. ASSUME v.pc = "apply" PROVE AgreeOn(records, AfterRRs(base, v.message)[v.next - 1], row)
    <3>1. t.pc # "failed" /\ v.next - 1 = u.next
      BY <1>6, <1>8, <2>2
    <3>2. SetKnown(t, c, records)
      BY <1>12 DEF Promised
    <3>3. RecordsDue(t, Landing(c, records)) = records
      BY <1>1, <1>4, <1>5, <3>1, <3>2, SettledDue
    <3>4. AgreeOn(RecordsDue(t, Landing(c, records)), AfterRRs(base, u.message)[u.next], row)
      BY <1>5, <1>12 DEF Promised
    <3> QED
      BY <1>8, <3>1, <3>3, <3>4
  <2> QED
    BY <2>1, <2>2 DEF Promised
<1>13. update'[p] = v /\ DOMAIN update' = Writers
       /\ \A q \in Writers : q # p => update'[q] = update[q]
  BY <1>3
<1>14. \A other : AgreeOn(records', records, other)
  BY <1>9 DEF AgreeOn
<1> QED
  BY <1>1, <1>4, <1>8, <1>9, <1>11, <1>12, <1>13, <1>14 DEF HandlerMoves, ManagerStep

\* An RR is refused.
LEMMA RRRefusedHandles ==
    ASSUME ManagerInv, NEW p \in Writers, DOMAIN update = Writers,
           Hand(update[p], task[p], call[p]), NEW row, MessageIn(update[p].message, row),
           RRRefused(p)
    PROVE  HandlerMoves(p, row)
<1>1. PICK u, t, c : u = update[p] /\ t = task[p] /\ c = call[p]
  OBVIOUS
<1>2. PICK v : v = [u EXCEPT !.pc = "reply", !.rcode = "SERVFAIL"]
  OBVIOUS
<1>3. /\ update' = [update EXCEPT ![p] = v] /\ u.pc = "apply" /\ t.pc = "idle"
      /\ UNCHANGED managerVars /\ Hand(u, t, c)
  BY <1>1, <1>2 DEF RRRefused, AtRR
<1>4. DOMAIN u = {"pc", "message", "next", "rcode", "broken", "before"}
  BY <1>3 DEF Hand, NoUpdate
<1>5. v.message = u.message /\ DOMAIN v = DOMAIN u /\ v.pc = "reply" /\ v.next = u.next
      /\ v.rcode = "SERVFAIL"
  BY <1>2, <1>4
<1>6. RowAt(v) = RowAt(u)
  BY <1>5 DEF RowAt
<1>7. Hand(v, t, c)
  BY <1>3, <1>5, <1>6 DEF Hand
<1>8. \A base : Promised(u, t, c, records, base, row) => Promised(v, t, c, records, base, row)
  BY <1>3, <1>5 DEF Promised
<1>9. task' = task /\ call' = call /\ records' = records
  BY <1>3 DEF managerVars
<1>10. update'[p] = v /\ DOMAIN update' = Writers
       /\ \A q \in Writers : q # p => update'[q] = update[q]
  BY <1>3
<1>11. \A other : AgreeOn(records', records, other)
  BY <1>9 DEF AgreeOn
<1> QED
  BY <1>1, <1>3, <1>5, <1>7, <1>8, <1>9, <1>10, <1>11 DEF HandlerMoves

\* No method is at work, and nothing is left to handle, without a message.
LEMMA IdleHandler ==
    ASSUME NEW p \in Writers, Hand(update[p], task[p], call[p]), HandlerStep(p)
    PROVE  /\ update[p].pc # "idle"
           /\ WorkStep(p) => task[p].pc # "idle"
<1>1. task[p].pc = "idle" => call[p].pc = "idle"
  BY DEF Hand, CallOfTask
<1>2. task[p].pc = "idle" => ~StoreStep(p)
  BY <1>1 DEF StoreStep, PutRecord, ListRows, DropRow, Bump
<1>3. WorkStep(p) => task[p].pc # "idle"
  BY <1>2 DEF WorkStep, ListKeys, ReadRow, ValidateRRSet, FindRRSet, DropRecord, Dropped,
              NextRecord, ValidateRecord, SaveSeedZone, SaveSeedRecord
<1>4. task[p].pc # "idle" => update[p].pc = "apply"
  BY DEF Hand
<1> QED
  BY <1>3, <1>4 DEF HandlerStep, ApplyRR, RRReturned, RRRefused, AtRR

\* All of them.
LEMMA HandlerHandles ==
    ASSUME ManagerInv, NEW p \in Writers, DOMAIN update = Writers,
           Hand(update[p], task[p], call[p]), NEW row, MessageIn(update[p].message, row),
           HandlerStep(p)
    PROVE  HandlerMoves(p, row)
BY IdleHandler, ApplyRRHandles, WorkHandles, RRReturnedHandles, RRRefusedHandles DEF HandlerStep

-----------------------------------------------------------------------------
(* Requests. *)

RecordMethods == {"UpsertRecord", "UpsertRRSet", "DeleteRecord"}

\* An order of a finite set is a sequence of all its elements.
LEMMA OrderFacts ==
    ASSUME NEW S, IsFiniteSet(S), NEW zone, NEW m \in InAnyOrder(zone, S)
    PROVE  /\ m.zone = Fold(zone) /\ Len(m.rrs) \in Nat
           /\ \A i \in 1 .. Len(m.rrs) : m.rrs[i] \in S
           /\ \A rr \in S : \E i \in 1 .. Len(m.rrs) : m.rrs[i] = rr
<1>1. PICK n : n = Cardinality(S)
  OBVIOUS
<1>2. n \in Nat
  BY <1>1, FS_CardinalityType
<1>3. PICK f \in [1 .. n -> S] : /\ \A i, j \in 1 .. n : i # j => f[i] # f[j]
                                 /\ m = UpdateMessage(zone, f)
  BY <1>1 DEF InAnyOrder, SetToSeqs
<1>4. m.zone = Fold(zone) /\ m.rrs = f
  BY <1>3 DEF UpdateMessage
<1>5. Len(f) = n
  BY <1>2, <1>3
<1>6. f \in Injection(1 .. n, S)
  <2>1. DOMAIN f = 1 .. n /\ \A i, j \in 1 .. n : f[i] = f[j] => i = j
    BY <1>3
  <2> QED
    BY <1>3, <2>1 DEF Injection, IsInjective
<1>7. IsFiniteSet(1 .. n) /\ Cardinality(1 .. n) = n
  BY <1>2, FS_Interval
<1>8. f \in Surjection(1 .. n, S)
  BY <1>1, <1>6, <1>7, FS_Injection
<1>9. \A rr \in S : \E i \in 1 .. n : f[i] = rr
  BY <1>8 DEF Surjection
<1> QED
  BY <1>2, <1>3, <1>4, <1>5, <1>9

\* The image of a finite set.
LEMMA ImageFinite ==
    ASSUME NEW S, IsFiniteSet(S), NEW f, DOMAIN f = S
    PROVE  IsFiniteSet({f[x] : x \in S})
<1>1. PICK T : T = {f[x] : x \in S}
  OBVIOUS
<1>2. PICK g : g = [x \in S |-> f[x]]
  OBVIOUS
<1>3. g \in Surjection(S, T)
  BY <1>1, <1>2 DEF Surjection
<1> QED
  BY <1>1, <1>3, FS_Surjection

\* The method keeps all the records it normalizes.
LEMMA NormalizedSet ==
    ASSUME PlainRequests, NEW request \in Requests, RequestAccepted(request),
           request.op \in RecordMethods, NEW new \in Normalized(request)
    PROVE  new = UNION Normalized(request) /\ IsFiniteSet(new)
<1>1. PICK S : S = request.set.records
  OBVIOUS
<1>2. IsFiniteSet(S)
  BY <1>1, ClientAssumption
<1>3. UniqueKeys(UNION Normalized(request))
  BY DEF PlainRequests, RecordMethods
<1>4. CASE request.op = "UpsertRRSet"
  <2>1. PICK all : all = {normalizeRRSetRecord(request.set, r) : r \in S}
    OBVIOUS
  <2>2. PICK f : f = [r \in S |-> normalizeRRSetRecord(request.set, r)]
    OBVIOUS
  <2>3. all = {f[r] : r \in S} /\ DOMAIN f = S
    BY <2>1, <2>2
  <2>4. IsFiniteSet(all)
    BY <1>2, <2>3, ImageFinite
  <2>5. Normalized(request) = Deduped(all)
    BY <1>1, <1>4, <2>1 DEF Normalized
  <2>6. new \subseteq all /\ \A r \in all : \E s \in new : Key(r) = Key(s)
    BY <2>5 DEF Deduped
  <2>7. IsFiniteSet(new)
    BY <2>4, <2>6, FS_Subset
  <2>8. \A kept \in Normalized(request) : kept \subseteq all
    BY <2>5 DEF Deduped
  <2>9. \A r \in UNION Normalized(request) : r \in new
    BY <1>3, <2>6, <2>8 DEF UniqueKeys
  <2> QED
    BY <2>7, <2>9
<1>5. CASE request.op # "UpsertRRSet"
  <2>1. PICK all : all = {NormalizeRecord(r) : r \in S}
    OBVIOUS
  <2>2. PICK f : f = [r \in S |-> NormalizeRecord(r)]
    OBVIOUS
  <2>3. all = {f[r] : r \in S} /\ DOMAIN f = S
    BY <2>1, <2>2
  <2>4. IsFiniteSet(all)
    BY <1>2, <2>3, ImageFinite
  <2>5. Normalized(request) = {all}
    BY <1>1, <1>5, <2>1 DEF Normalized
  <2> QED
    BY <2>4, <2>5
<1> QED
  BY <1>4, <1>5

\* The RR that the message of a method has for a record.
StandsFor(rr, n, op) ==
    /\ rr.name = n.name /\ rr.type = n.type /\ rr.data = n.data
    /\ IF op = "DeleteRecord" THEN rr.class = "NONE" ELSE rr.class = "IN" /\ rr.ttl = n.ttl

\* A message of records has an RR for each of them, and no other.
LEMMA RecordMessage ==
    ASSUME PlainRequests, NEW request \in Requests, RequestAccepted(request),
           request.op \in RecordMethods, NEW m \in RequestMessages(request),
           NEW new, new = UNION Normalized(request)
    PROVE  /\ m.zone = Fold(request.set.zone) /\ Len(m.rrs) \in Nat
           /\ \A i \in 1 .. Len(m.rrs) : \E n \in new : StandsFor(m.rrs[i], n, request.op)
           /\ \A n \in new : \E i \in 1 .. Len(m.rrs) : StandsFor(m.rrs[i], n, request.op)
<1>1. PICK op, zone : op = request.op /\ zone = request.set.zone
  OBVIOUS
<1> DEFINE rrOf(n) == [name |-> n.name, ttl |-> n.ttl, class |-> n.class,
                       type |-> n.type, data |-> Canon[n.data]]
           sent(rr) == IF op = "DeleteRecord" THEN Removed(rr) ELSE Inserted(rr)
<1>2. PICK one \in Normalized(request) :
          m \in InAnyOrder(zone, {sent(rr) : rr \in RRs(one)})
  <2>1. CASE op = "DeleteRecord"
    BY <1>1, <2>1 DEF RequestMessages
  <2>2. CASE op \in {"UpsertRecord", "UpsertRRSet"}
    BY <1>1, <2>2 DEF RequestMessages
  <2> QED
    BY <1>1, <2>1, <2>2 DEF RecordMethods
<1>3. one = new /\ IsFiniteSet(new)
  BY <1>2, NormalizedSet
<1>4. PICK S : S = {sent(rr) : rr \in RRs(one)}
  OBVIOUS
<1>5. S = {sent(rrOf(n)) : n \in new}
  BY <1>3, <1>4 DEF RRs
<1>6. IsFiniteSet(S)
  <2>1. PICK f : f = [n \in new |-> sent(rrOf(n))]
    OBVIOUS
  <2>2. S = {f[n] : n \in new} /\ DOMAIN f = new
    <3> HIDE DEF rrOf, sent
    <3> QED
      BY <1>5, <2>1
  <2> QED
    BY <1>3, <2>2, ImageFinite
<1>7. \A n \in new : StandsFor(sent(rrOf(n)), n, op)
  <2> SUFFICES ASSUME NEW n \in new
               PROVE  StandsFor(sent(rrOf(n)), n, op)
    OBVIOUS
  <2>1. n.class = "IN" /\ Canon[n.data] = n.data
    BY DEF PlainRequests, RecordMethods
  <2> QED
    BY <2>1 DEF StandsFor, Removed, Inserted
<1>8. /\ m.zone = Fold(zone) /\ Len(m.rrs) \in Nat
      /\ \A i \in 1 .. Len(m.rrs) : m.rrs[i] \in S
      /\ \A rr \in S : \E i \in 1 .. Len(m.rrs) : m.rrs[i] = rr
  <2>1. m \in InAnyOrder(zone, S)
    BY <1>2, <1>4
  <2> HIDE DEF rrOf, sent
  <2> QED
    BY <1>6, <2>1, OrderFacts
<1> HIDE DEF rrOf, sent
<1> QED
  BY <1>1, <1>5, <1>7, <1>8

\* The name of a record in the universe is in its folded form.
LEMMA NameFolded ==
    ASSUME NEW n \in Records
    PROVE  Fold(n.name) = n.name
<1>1. n \in RecordType /\ NormalizeRecord(n) = n
  BY StoredNormal
<1>2. DOMAIN n = {"zone", "name", "ttl", "type", "data", "class"}
  BY <1>1 DEF RecordType
<1>3. PICK class, f, z : class = (IF n.class = "none" THEN "IN" ELSE n.class)
                         /\ f = Fold(n.name) /\ z = Fold(n.zone)
  OBVIOUS
<1>4. n = [n EXCEPT !.zone = z, !.name = f, !.class = class]
  BY <1>1, <1>3, Zenon DEF NormalizeRecord, NormalizeZoneName
<1> QED
  BY <1>2, <1>3, <1>4

\* An RR in the record's zone stands for a record with the key of the record, and, unless it
\* lost the TTL, for the record itself.
LEMMA RecordStoodFor ==
    ASSUME NEW n \in Records, n.class = "IN", NEW zone, Fold(zone) = n.zone, NEW op, NEW rr,
           StandsFor(rr, n, op), NEW x, x = NormalizeRecord(RecordOf(zone, rr))
    PROVE  Key(x) = Key(n) /\ (op # "DeleteRecord" => x = n)
<1>1. n \in RecordType
  BY StoredNormal
<1>2. DOMAIN n = {"zone", "name", "ttl", "type", "data", "class"}
  BY <1>1 DEF RecordType
<1>3. Fold(n.name) = n.name
  BY NameFolded
<1>4. PICK r : r = RecordOf(zone, rr)
  OBVIOUS
<1>5. /\ DOMAIN r = {"zone", "name", "ttl", "type", "data", "class"}
      /\ r.zone = zone /\ r.name = n.name /\ r.ttl = rr.ttl /\ r.type = n.type
      /\ r.data = n.data /\ r.class = "IN"
  BY <1>4 DEF RecordOf, StandsFor
<1>6. x = [r EXCEPT !.zone = n.zone, !.name = n.name, !.class = "IN"]
  <2>1. PICK class : class = IF r.class = "none" THEN "IN" ELSE r.class
    OBVIOUS
  <2>2. x = [r EXCEPT !.zone = Fold(r.zone), !.name = Fold(r.name), !.class = class]
    BY <1>4, <2>1, Zenon DEF NormalizeRecord, NormalizeZoneName
  <2>3. class = "IN" /\ Fold(r.zone) = n.zone /\ Fold(r.name) = n.name
    BY <1>3, <1>5, <2>1
  <2> QED
    BY <2>2, <2>3, Zenon
<1>7. /\ DOMAIN x = DOMAIN n /\ x.zone = n.zone /\ x.name = n.name /\ x.ttl = rr.ttl
      /\ x.type = n.type /\ x.data = n.data /\ x.class = n.class
  BY <1>2, <1>5, <1>6
<1>8. Key(x) = Key(n)
  BY <1>7 DEF Key
<1>9. ASSUME op # "DeleteRecord" PROVE x = n
  <2>1. x.ttl = n.ttl
    BY <1>7, <1>9 DEF StandsFor
  <2>2. x = [f \in DOMAIN x |-> x[f]] /\ n = [f \in DOMAIN n |-> n[f]]
    BY <1>1, <1>6, <1>5 DEF RecordType
  <2>3. \A f \in DOMAIN n : x[f] = n[f]
    BY <1>2, <1>7, <2>1
  <2> QED
    BY <1>7, <2>2, <2>3
<1> QED
  BY <1>8, <1>9

\* The record of an RR of a message, as the handler normalizes it.
SentRecord(m, i) == NormalizeRecord(RecordOf(Fold(m.zone), m.rrs[i]))

\* A property of the number of RRs that have had their effect, from one to the next.
LEMMA UpTo ==
    ASSUME NEW n \in Nat, NEW good, 0 \in good,
           \A k \in 1 .. n : k - 1 \in good => k \in good
    PROVE  n \in good
<1> DEFINE bad == {k \in 0 .. n : k \notin good}
<1>1. ASSUME bad # {} PROVE FALSE
  <2>1. bad \in SUBSET Nat
    OBVIOUS
  <2>2. PICK k \in bad : \A j \in bad : k <= j
    <3> HIDE DEF bad
    <3> QED
      BY <1>1, <2>1, SmallestNat
  <2>3. k \in 1 .. n /\ k - 1 \in 0 .. n /\ ~(k <= k - 1)
    BY <2>2
  <2>4. k - 1 \notin bad
    <3> HIDE DEF bad
    <3> QED
      BY <2>2, <2>3
  <2> QED
    BY <2>2, <2>3, <2>4
<1>2. n \in 0 .. n
  OBVIOUS
<1> QED
  BY <1>1, <1>2

\* A message of insertions lays its records over what was stored.
LEMMA PutsAll ==
    ASSUME NEW stored, NEW m, Len(m.rrs) \in Nat,
           \A i \in 1 .. Len(m.rrs) : m.rrs[i].class \notin {"ANY", "NONE"},
           UniqueKeys({SentRecord(m, i) : i \in 1 .. Len(m.rrs)})
    PROVE  AfterRRs(stored, m)[Len(m.rrs)] = Overlay(stored, {SentRecord(m, i) : i \in 1 .. Len(m.rrs)})
<1>1. PICK n : n = Len(m.rrs)
  OBVIOUS
<1>2. PICK after : after = AfterRRs(stored, m)
  OBVIOUS
<1>3. after[0] = stored /\ \A k \in 1 .. n : after[k] = Effect(after[k - 1], Fold(m.zone), m.rrs[k])
  BY <1>1, <1>2, AfterFacts
<1>4. PICK x : x = [i \in 1 .. n |-> SentRecord(m, i)]
  OBVIOUS
<1>5. \A k \in 1 .. n : after[k] = Put(after[k - 1], x[k])
  BY <1>1, <1>3, <1>4 DEF Effect, SentRecord
<1>6. \A i, j \in 1 .. n : Key(x[i]) = Key(x[j]) => x[i] = x[j]
  BY <1>1, <1>4 DEF UniqueKeys
<1>7. PICK good : good = {k \in 0 .. n : after[k] = Overlay(stored, {x[i] : i \in 1 .. k})}
  OBVIOUS
<1>8. 0 \in good
  <2>1. {x[i] : i \in 1 .. 0} = {}
    OBVIOUS
  <2>2. Overlay(stored, {}) = stored
    BY DEF Overlay
  <2>3. after[0] = Overlay(stored, {x[i] : i \in 1 .. 0})
    BY <1>3, <2>1, <2>2, Zenon
  <2>4. 0 \in 0 .. n
    BY <1>1
  <2> QED
    BY <1>7, <2>3, <2>4, Zenon
<1>9. ASSUME NEW k \in 1 .. n, k - 1 \in good PROVE k \in good
  <2>1. PICK D, E : D = {x[i] : i \in 1 .. k - 1} /\ E = {x[i] : i \in 1 .. k}
    OBVIOUS
  <2>2. E = D \cup {x[k]}
    BY <1>1, <2>1
  <2>3. \A d \in D : Key(d) = Key(x[k]) => d = x[k]
    BY <1>1, <1>6, <2>1
  <2>4. after[k] = Put(Overlay(stored, D), x[k])
    BY <1>5, <1>7, <1>9, <2>1
  <2>5. Put(Overlay(stored, D), x[k]) = Overlay(stored, D \cup {x[k]})
    BY <2>3 DEF Put, Overlay
  <2>6. after[k] = Overlay(stored, {x[i] : i \in 1 .. k})
    BY <2>1, <2>2, <2>4, <2>5, Zenon
  <2>7. k \in 0 .. n
    BY <1>1
  <2> QED
    BY <1>7, <2>6, <2>7, Zenon
<1>10. n \in good
  BY <1>1, <1>8, <1>9, UpTo
<1>11. {x[i] : i \in 1 .. n} = {SentRecord(m, i) : i \in 1 .. n}
  BY <1>4
<1> QED
  BY <1>1, <1>2, <1>7, <1>10, <1>11

\* A message of removals takes the records with those keys away.
LEMMA RemovesAll ==
    ASSUME NEW stored, NEW m, Len(m.rrs) \in Nat,
           \A i \in 1 .. Len(m.rrs) : m.rrs[i].class = "NONE"
    PROVE  AfterRRs(stored, m)[Len(m.rrs)] =
             {r \in stored : \A i \in 1 .. Len(m.rrs) : Key(r) # Key(SentRecord(m, i))}
<1>1. PICK n : n = Len(m.rrs)
  OBVIOUS
<1>2. PICK after : after = AfterRRs(stored, m)
  OBVIOUS
<1>3. after[0] = stored /\ \A k \in 1 .. n : after[k] = Effect(after[k - 1], Fold(m.zone), m.rrs[k])
  BY <1>1, <1>2, AfterFacts
<1>4. PICK x : x = [i \in 1 .. n |-> SentRecord(m, i)]
  OBVIOUS
<1>5. \A k \in 1 .. n : after[k] = Without(after[k - 1], x[k])
  BY <1>1, <1>3, <1>4 DEF Effect, SentRecord
<1>6. PICK good : good = {k \in 0 .. n :
                            after[k] = {r \in stored : \A i \in 1 .. k : Key(r) # Key(x[i])}}
  OBVIOUS
<1>7. 0 \in good
  BY <1>1, <1>3, <1>6
<1>8. ASSUME NEW k \in 1 .. n, k - 1 \in good PROVE k \in good
  <2>1. after[k] = {r \in stored : (\A i \in 1 .. k - 1 : Key(r) # Key(x[i])) /\ Key(r) # Key(x[k])}
    BY <1>5, <1>6, <1>8 DEF Without
  <2>2. \A r : (\A i \in 1 .. k : Key(r) # Key(x[i]))
                <=> (\A i \in 1 .. k - 1 : Key(r) # Key(x[i])) /\ Key(r) # Key(x[k])
    <3>1. \A i \in 1 .. k : i \in 1 .. k - 1 \/ i = k
      BY <1>1
    <3>2. k \in 1 .. k /\ \A i \in 1 .. k - 1 : i \in 1 .. k
      BY <1>1
    <3> QED
      BY <3>1, <3>2
  <2> QED
    BY <1>1, <1>6, <2>1, <2>2
<1>9. n \in good
  BY <1>1, <1>7, <1>8, UpTo
<1>10. \A i \in 1 .. n : x[i] = SentRecord(m, i)
  BY <1>4
<1> QED
  BY <1>1, <1>2, <1>6, <1>9, <1>10

\* The message of an accepted request is about the request's row.
LEMMA RequestGood ==
    ASSUME PlainRequests, NEW request \in Requests, RequestAccepted(request),
           NEW m \in RequestMessages(request)
    PROVE  MessageIn(m, Row(request)) /\ Fold(m.zone) = Fold(request.set.zone)
<1>1. PICK zone : zone = request.set.zone
  OBVIOUS
<1>2. zone \in Texts
  BY <1>1, ClientAssumption
<1>3. Fold(zone) \in Texts /\ Fold(Fold(zone)) = Fold(zone)
  BY <1>2, FoldText
<1>4. \A i \in 1 .. Len(m.rrs) : RRInUniverse(m.zone, m.rrs[i])
  BY ExchangesAssumption
<1>5. /\ m.zone = Fold(zone) /\ Len(m.rrs) \in Nat
      /\ \A i \in 1 .. Len(m.rrs) : Fold(m.rrs[i].name) = Fold(request.set.name)
  <2>1. CASE request.op \in RecordMethods
    <3>1. PICK new : new = UNION Normalized(request)
      OBVIOUS
    <3>2. /\ m.zone = Fold(zone) /\ Len(m.rrs) \in Nat
          /\ \A i \in 1 .. Len(m.rrs) : \E n \in new : StandsFor(m.rrs[i], n, request.op)
      BY <1>1, <2>1, <3>1, RecordMessage
    <3>3. ASSUME NEW n \in new PROVE Fold(n.name) = Fold(request.set.name)
      <4>1. RowKey(n) = Row(request) /\ n \in Records
        BY <2>1, <3>1, ExchangesAssumption DEF PlainRequests, RecordMethods
      <4>2. n.name = Fold(request.set.name)
        BY <4>1 DEF RowKey, Row
      <4>3. Fold(n.name) = n.name
        BY <4>1, NameFolded
      <4> QED
        BY <4>2, <4>3
    <3>4. \A i \in 1 .. Len(m.rrs) : Fold(m.rrs[i].name) = Fold(request.set.name)
      BY <3>2, <3>3 DEF StandsFor
    <3> QED
      BY <3>2, <3>4
  <2>2. CASE request.op \in {"DeleteRRSet", "DeleteName"}
    <3>1. PICK type : m = RemoveAll(request.set, type)
      BY <2>2 DEF RequestMessages
    <3>2. PICK rr : rr = [name |-> request.set.name, ttl |-> 0, class |-> "ANY", type |-> type,
                          data |-> <<>>]
      OBVIOUS
    <3>3. m.zone = Fold(zone) /\ m.rrs = <<rr>> /\ rr.name = request.set.name
      BY <1>1, <3>1, <3>2 DEF RemoveAll, UpdateMessage
    <3>4. Len(m.rrs) = 1 /\ m.rrs[1] = rr
      BY <3>3
    <3> QED
      BY <3>3, <3>4
  <2> QED
    BY <2>1, <2>2, ClientAssumption DEF RecordMethods
<1> QED
  BY <1>1, <1>3, <1>4, <1>5 DEF MessageIn, RRRow, Row

\* The RRs of the message, all of them, leave what the request promises.
LEMMA PromiseKept ==
    ASSUME PlainRequests, NEW request \in Requests, RequestAccepted(request),
           NEW m \in RequestMessages(request), NEW base
    PROVE  AfterRRs(base, m)[Len(m.rrs)] = Promise(base, request)
<1>1. PICK zone, op : zone = request.set.zone /\ op = request.op
  OBVIOUS
<1>2. Len(m.rrs) \in Nat /\ Fold(m.zone) = Fold(zone)
  BY <1>1, RequestGood DEF MessageIn
<1>3. CASE op \in RecordMethods
  <2>1. PICK new : new = UNION Normalized(request)
    OBVIOUS
  <2>2. /\ \A i \in 1 .. Len(m.rrs) : \E n \in new : StandsFor(m.rrs[i], n, op)
        /\ \A n \in new : \E i \in 1 .. Len(m.rrs) : StandsFor(m.rrs[i], n, op)
    BY <1>1, <1>3, <2>1, RecordMessage
  <2>3. UniqueKeys(new)
    BY <1>1, <1>3, <2>1 DEF PlainRequests, RecordMethods
  <2>4. ASSUME NEW n \in new, NEW i \in 1 .. Len(m.rrs), StandsFor(m.rrs[i], n, op)
        PROVE  Key(SentRecord(m, i)) = Key(n) /\ (op # "DeleteRecord" => SentRecord(m, i) = n)
    <3>1. n \in Records /\ n.class = "IN" /\ RowKey(n) = Row(request)
      BY <1>1, <1>3, <2>1, ExchangesAssumption DEF PlainRequests, RecordMethods
    <3>2. n.zone = Fold(zone)
      BY <1>1, <3>1 DEF RowKey, Row
    <3>3. Fold(Fold(m.zone)) = n.zone
      <4>1. zone \in Texts
        BY <1>1, ClientAssumption
      <4> QED
        BY <1>2, <3>2, <4>1, FoldText
    <3>4. PICK x : x = SentRecord(m, i)
      OBVIOUS
    <3> QED
      BY <2>4, <3>1, <3>3, <3>4, RecordStoodFor DEF SentRecord
  <2>5. CASE op # "DeleteRecord"
    <3>1. {SentRecord(m, i) : i \in 1 .. Len(m.rrs)} = new
      BY <2>2, <2>4, <2>5
    <3>2. \A i \in 1 .. Len(m.rrs) : m.rrs[i].class \notin {"ANY", "NONE"}
      BY <2>2, <2>5 DEF StandsFor
    <3>3. UniqueKeys({SentRecord(m, i) : i \in 1 .. Len(m.rrs)})
      BY <2>3, <3>1, Zenon
    <3>4. AfterRRs(base, m)[Len(m.rrs)] = Overlay(base, {SentRecord(m, i) : i \in 1 .. Len(m.rrs)})
      BY <1>2, <3>2, <3>3, PutsAll
    <3>5. AfterRRs(base, m)[Len(m.rrs)] = Overlay(base, new)
      BY <3>1, <3>4, Zenon
    <3>6. op \in {"UpsertRecord", "UpsertRRSet"}
      BY <1>3, <2>5 DEF RecordMethods
    <3>7. Promise(base, request) = {r \in base : \A n \in new : Key(n) # Key(r)} \cup new
      BY <1>1, <2>1, <3>6 DEF Promise
    <3>8. Overlay(base, new) = {r \in base : \A n \in new : Key(n) # Key(r)} \cup new
      BY DEF Overlay
    <3> QED
      BY <3>5, <3>7, <3>8
  <2>6. CASE op = "DeleteRecord"
    <3>1. \A i \in 1 .. Len(m.rrs) : m.rrs[i].class = "NONE"
      BY <2>2, <2>6 DEF StandsFor
    <3>2. AfterRRs(base, m)[Len(m.rrs)] =
             {r \in base : \A i \in 1 .. Len(m.rrs) : Key(r) # Key(SentRecord(m, i))}
      BY <1>2, <3>1, RemovesAll
    <3>3. \A r : (\A i \in 1 .. Len(m.rrs) : Key(r) # Key(SentRecord(m, i)))
                   <=> (\A n \in new : Key(n) # Key(r))
      BY <2>2, <2>4
    <3>4. Promise(base, request) = {r \in base : \A n \in new : Key(n) # Key(r)}
      BY <1>1, <2>1, <2>6 DEF Promise
    <3> QED
      BY <3>2, <3>3, <3>4
  <2> QED
    BY <2>5, <2>6
<1>4. CASE op \in {"DeleteRRSet", "DeleteName"}
  <2>1. PICK type : type = (IF op = "DeleteRRSet" THEN request.set.type ELSE "ANY")
    OBVIOUS
  <2>2. m = RemoveAll(request.set, type)
    BY <1>1, <1>4, <2>1 DEF RequestMessages
  <2>3. PICK rr : rr = [name |-> request.set.name, ttl |-> 0, class |-> "ANY", type |-> type,
                        data |-> <<>>]
    OBVIOUS
  <2>4. m.rrs = <<rr>> /\ rr.name = request.set.name /\ rr.class = "ANY" /\ rr.type = type
    BY <2>2, <2>3 DEF RemoveAll, UpdateMessage
  <2>5. Len(m.rrs) = 1 /\ m.rrs[1] = rr
    BY <2>4
  <2>6. AfterRRs(base, m)[0] = base /\ AfterRRs(base, m)[1] = Effect(AfterRRs(base, m)[0], Fold(m.zone), rr)
    <3>1. /\ AfterRRs(base, m)[0] = base
          /\ \A k \in 1 .. Len(m.rrs) : AfterRRs(base, m)[k] =
                 Effect(AfterRRs(base, m)[k - 1], Fold(m.zone), m.rrs[k])
      BY <1>2, AfterFacts
    <3>2. 1 \in 1 .. Len(m.rrs) /\ 1 - 1 = 0
      BY <2>5
    <3>3. AfterRRs(base, m)[1] = Effect(AfterRRs(base, m)[1 - 1], Fold(m.zone), m.rrs[1])
      BY <3>1, <3>2
    <3> QED
      BY <2>5, <3>1, <3>2, <3>3
  <2>7. AfterRRs(base, m)[Len(m.rrs)] = Effect(base, Fold(zone), rr)
    BY <1>2, <2>5, <2>6
  <2>8. Effect(base, Fold(zone), rr) =
          base \ LookupIn(base, Fold(zone), Fold(request.set.name), type, "ANY")
    BY <2>4 DEF Effect
  <2>9. CASE op = "DeleteRRSet"
    <3>1. Promise(base, request) =
            base \ LookupIn(base, Fold(zone), Fold(request.set.name), request.set.type, "ANY")
      BY <1>1, <2>9 DEF Promise
    <3> QED
      BY <2>1, <2>7, <2>8, <2>9, <3>1
  <2>10. CASE op = "DeleteName"
    <3>1. Promise(base, request) = {r \in base : RowKey(r) # Row(request)}
      BY <1>1, <2>10 DEF Promise
    <3>2. base \ LookupIn(base, Fold(zone), Fold(request.set.name), "ANY", "ANY")
            = {r \in base : RowKey(r) # Row(request)}
      BY <1>1 DEF LookupIn, Row
    <3> QED
      BY <2>1, <2>7, <2>8, <2>10, <3>1, <3>2
  <2> QED
    BY <1>4, <2>9, <2>10
<1> QED
  BY <1>1, <1>3, <1>4, ClientAssumption DEF RecordMethods

\* A request promises nothing of another row.
LEMMA PromiseElsewhere ==
    ASSUME PlainRequests, NEW request \in Requests, RequestAccepted(request), NEW base, NEW row,
           row # Row(request)
    PROVE  AgreeOn(Promise(base, request), base, row)
<1>1. PICK op : op = request.op
  OBVIOUS
<1>2. CASE op \in RecordMethods
  <2>1. PICK new : new = UNION Normalized(request)
    OBVIOUS
  <2>2. \A n \in new : RowKey(n) # row
    BY <1>1, <1>2, <2>1 DEF PlainRequests, RecordMethods
  <2>3. \A n \in new : \A r : Key(n) = Key(r) => RowKey(r) # row
    BY <2>2, KeyParts DEF RowKey
  <2>4. \/ Promise(base, request) = {r \in base : \A n \in new : Key(n) # Key(r)} \cup new
        \/ Promise(base, request) = {r \in base : \A n \in new : Key(n) # Key(r)}
    BY <1>1, <1>2, <2>1 DEF Promise, RecordMethods
  <2> QED
    BY <2>2, <2>3, <2>4 DEF AgreeOn, InRow
<1>3. CASE op = "DeleteRRSet"
  BY <1>1, <1>3 DEF Promise, Row, LookupIn, AgreeOn, InRow
<1>4. CASE op = "DeleteName"
  BY <1>1, <1>4 DEF Promise, AgreeOn, InRow
<1> QED
  BY <1>1, <1>2, <1>3, <1>4, ClientAssumption DEF RecordMethods

-----------------------------------------------------------------------------
(* The steps of the client. *)

\* A message is about the row of the request at hand, or about one in doubt.
LEMMA CarriedMessage ==
    ASSUME PlainRequests, ClientInv, NEW id, NEW m, Carries(client, id, m)
    PROVE  \E row : /\ MessageIn(m, row)
                    /\ IF client.pc = "waiting" /\ id = client.id
                       THEN row = Row(client.request) ELSE row \in client.doubtful
<1>1. CASE client.pc = "waiting" /\ id = client.id
  <2>1. /\ client.request \in Requests /\ RequestAccepted(client.request)
        /\ m \in RequestMessages(client.request)
    BY <1>1 DEF ClientInv, Carries
  <2>2. MessageIn(m, Row(client.request))
    BY <2>1, RequestGood
  <2> QED
    BY <1>1, <2>2
<1>2. CASE ~(client.pc = "waiting" /\ id = client.id)
  <2>1. PICK request \in Requests : /\ RequestAccepted(request) /\ m \in RequestMessages(request)
                                    /\ Row(request) \in client.doubtful
    BY <1>2 DEF Carries
  <2>2. MessageIn(m, Row(request))
    BY <2>1, RequestGood
  <2> QED
    BY <1>2, <2>1, <2>2
<1> QED
  BY <1>1, <1>2

\* An exchange that is not at hand stays in doubt.
LEMMA CarriedOn ==
    ASSUME NEW x, NEW y, NEW id, NEW m, Carries(x, id, m), x.id \in Nat, y.id \in Nat,
           x.id <= y.id, x.doubtful \subseteq y.doubtful,
           ~(x.pc = "waiting" /\ id = x.id), ~(y.pc = "waiting" /\ id = y.id)
    PROVE  Carries(y, id, m)
<1>1. id \in 1 .. y.id
  BY DEF Carries
<1>2. \E request \in Requests : /\ RequestAccepted(request) /\ m \in RequestMessages(request)
                                /\ Row(request) \in x.doubtful
  BY DEF Carries
<1>3. \E request \in Requests : /\ RequestAccepted(request) /\ m \in RequestMessages(request)
                                /\ Row(request) \in y.doubtful
  BY <1>2
<1> QED
  BY <1>1, <1>3 DEF Carries

\* A goroutine without a method at work may take up a message or put one down.
LEMMA RestingHand ==
    ASSUME ManagerInv, NEW p \in Writers, task[p].pc = "idle", CallOfTask(task[p], call[p]),
           Course(task[p]), NEW u, DOMAIN u = DOMAIN NoUpdate, u.pc \in {"idle", "apply", "reply"},
           u.next = 1, Len(u.message.rrs) \in Nat, u.pc = "reply" => u.rcode # "SUCCESS"
    PROVE  Hand(u, task[p], call[p])
<1>1. PICK t, c : t = task[p] /\ c = call[p]
  OBVIOUS
<1>2. t.op = "none" /\ t.current \cup c.record = {}
  BY <1>1, IdleHand
<1>3. u.next \in Nat \ {0} /\ u.next <= Len(u.message.rrs) + 1
  OBVIOUS
<1> QED
  BY <1>1, <1>2, <1>3 DEF Hand, ClientOps

\* The client, its packets and the goroutines in a state where nothing has been sent.
LEMMA ClientInitInv == ClientInit => ManagerInv /\ ClientInv
<1> SUFFICES ASSUME ClientInit PROVE ManagerInv /\ ClientInv
  OBVIOUS
<1>1. ManagerInv
  BY ManagerInitInv DEF ClientInit, UpdateInit
<1>2. /\ update = [p \in Writers |-> NoUpdate] /\ task = [p \in Writers |-> NoTask]
      /\ call = [p \in Writers |-> NoCall] /\ inFlight = {} /\ handling = [p \in Writers |-> 0]
  BY DEF ClientInit, UpdateInit, ManagerInit, StoreInit
<1>3. /\ DOMAIN client = {"pc", "id", "request", "expected", "doubtful"}
      /\ client.pc = "idle" /\ client.id = 0 /\ client.expected = records
  BY DEF ClientInit
<1>4. NoUpdate.pc = "idle" /\ NoUpdate.next = 1 /\ Len(NoUpdate.message.rrs) \in Nat
  BY DEF NoUpdate, NoMessage
<1>5. NoTask.pc = "idle" /\ CallOfTask(NoTask, NoCall) /\ Course(NoTask)
  BY NoTaskFacts DEF CallOfTask, NoCall, Course, UniqueKeys
<1>6. \A p \in Writers : Hand(update[p], task[p], call[p])
  <2> SUFFICES ASSUME NEW p \in Writers PROVE Hand(update[p], task[p], call[p])
    OBVIOUS
  <2>1. update[p] = NoUpdate /\ task[p] = NoTask /\ call[p] = NoCall
    BY <1>2
  <2> QED
    BY <1>1, <1>4, <1>5, <2>1, RestingHand
<1>7. \A p \in Writers : update[p].pc = "idle"
  BY <1>2, <1>4
<1>8. OneCarrier
  BY <1>2, <1>7 DEF OneCarrier
<1>9. RowsFollow
  BY <1>3 DEF RowsFollow, AwaitedRow, AgreeOn
<1>10. DOMAIN update = Writers /\ DOMAIN handling = Writers
  BY <1>2
<1> QED
  BY <1>1, <1>2, <1>3, <1>6, <1>7, <1>8, <1>9, <1>10 DEF ClientInv

\* A message is sent.
LEMMA ExchangeInv ==
    ASSUME ClientInv, NEW request \in Requests, Exchange(request)
    PROVE  ClientInv'
<1>1. PICK x, y : x = client /\ y = client'
  OBVIOUS
<1>2. /\ DOMAIN x = {"pc", "id", "request", "expected", "doubtful"} /\ x.pc = "idle"
      /\ x.id \in Nat /\ y = [x EXCEPT !.pc = "waiting", !.id = x.id + 1, !.request = request]
      /\ RequestAccepted(request)
  BY <1>1 DEF ClientInv, Exchange
<1>3. /\ DOMAIN y = DOMAIN x /\ y.pc = "waiting" /\ y.id = x.id + 1 /\ y.request = request
      /\ y.expected = x.expected /\ y.doubtful = x.doubtful
  BY <1>2
<1>4. PICK m \in RequestMessages(request) : inFlight' = inFlight \cup {[id |-> x.id + 1, message |-> m]}
  BY <1>1 DEF Exchange
<1>5. PICK new : new = [id |-> x.id + 1, message |-> m]
  OBVIOUS
<1>6. new.id = y.id /\ new.message = m /\ inFlight' = inFlight \cup {new}
  BY <1>3, <1>4, <1>5
<1>7. /\ update' = update /\ task' = task /\ call' = call /\ records' = records
      /\ handling' = handling
  BY DEF Exchange, updateVars, managerVars, storeVars
<1>8. /\ \A k \in inFlight : Carries(x, k.id, k.message)
      /\ \A p \in Writers : update[p].pc # "idle" => Carries(x, handling[p], update[p].message)
      /\ OneCarrier /\ RowsFollow
  BY <1>1 DEF ClientInv
<1>9. ASSUME NEW id, NEW any, Carries(x, id, any)
      PROVE  Carries(y, id, any) /\ id # y.id
  <2>1. id \in 1 .. x.id
    BY <1>9 DEF Carries
  <2>2. id # y.id /\ y.id \in Nat /\ x.id <= y.id
    BY <1>2, <1>3, <2>1
  <2> QED
    BY <1>2, <1>3, <1>9, <2>2, CarriedOn
<1>10. Carries(y, new.id, new.message)
  <2>1. y.id \in 1 .. y.id
    BY <1>2, <1>3
  <2> QED
    BY <1>3, <1>6, <2>1 DEF Carries
<1>11. OneCarrier'
  BY <1>6, <1>7, <1>8, <1>9 DEF OneCarrier
<1>12. RowsFollow'
  <2>1. \A row : row \notin x.doubtful => AgreeOn(records, x.expected, row)
    BY <1>1, <1>2, <1>8 DEF RowsFollow, AwaitedRow
  <2>2. \A p \in Writers : update[p].pc # "idle" => handling[p] # y.id
    BY <1>8, <1>9
  <2> QED
    BY <1>1, <1>3, <1>7, <2>1, <2>2 DEF RowsFollow
<1>13. \A k \in inFlight' : Carries(y, k.id, k.message)
  BY <1>6, <1>8, <1>9, <1>10
<1>14. y.id \in Nat
  BY <1>2, <1>3
<1> QED
  BY <1>1, <1>2, <1>3, <1>7, <1>8, <1>9, <1>11, <1>12, <1>13, <1>14 DEF ClientInv

\* A packet is lost.
LEMMA LoseRequestInv ==
    ASSUME ClientInv, LoseRequest
    PROVE  ClientInv'
<1>1. /\ update' = update /\ task' = task /\ call' = call /\ records' = records
      /\ handling' = handling /\ client' = client /\ inFlight' \subseteq inFlight
  BY DEF LoseRequest, updateVars, managerVars, storeVars
<1>2. OneCarrier'
  BY <1>1 DEF ClientInv, OneCarrier
<1>3. RowsFollow'
  BY <1>1 DEF ClientInv, RowsFollow
<1> QED
  BY <1>1, <1>2, <1>3 DEF ClientInv

\* The client gives up an exchange: its row is in doubt.
LEMMA GivenUp ==
    ASSUME ClientInv, client.pc = "waiting", client' = Concluded(FALSE)
    PROVE  /\ DOMAIN client' = DOMAIN client /\ client'.pc = "idle" /\ client'.id = client.id
           /\ client'.expected = client.expected
           /\ client'.doubtful = client.doubtful \cup {Row(client.request)}
           /\ \A id, m : Carries(client, id, m) => Carries(client', id, m)
<1>1. PICK x, y, row : x = client /\ y = client' /\ row = Row(client.request)
  OBVIOUS
<1>2. DOMAIN x = {"pc", "id", "request", "expected", "doubtful"} /\ x.id \in Nat
      /\ x.request \in Requests /\ RequestAccepted(x.request) /\ x.pc = "waiting"
  BY <1>1 DEF ClientInv
<1>3. y = [x EXCEPT !.pc = "idle", !.request = NoRequest, !.expected = @,
                    !.doubtful = @ \cup {row}]
  BY <1>1 DEF Concluded
<1>4. /\ DOMAIN y = DOMAIN x /\ y.pc = "idle" /\ y.id = x.id /\ y.expected = x.expected
      /\ y.doubtful = x.doubtful \cup {row}
  BY <1>2, <1>3
<1>5. ASSUME NEW id, NEW m, Carries(x, id, m) PROVE Carries(y, id, m)
  <2>1. CASE id = x.id
    <3>1. m \in RequestMessages(x.request) /\ id \in 1 .. x.id
      BY <1>2, <1>5, <2>1 DEF Carries
    <3>2. Row(x.request) \in y.doubtful
      BY <1>1, <1>4
    <3> QED
      BY <1>2, <1>4, <3>1, <3>2 DEF Carries
  <2>2. CASE id # x.id
    BY <1>2, <1>4, <1>5, <2>2, CarriedOn
  <2> QED
    BY <2>1, <2>2
<1> QED
  BY <1>1, <1>4, <1>5

LEMMA TimeoutInv ==
    ASSUME ClientInv, Timeout
    PROVE  ClientInv'
<1>1. /\ update' = update /\ task' = task /\ call' = call /\ records' = records
      /\ handling' = handling /\ inFlight' = inFlight /\ client.pc = "waiting"
      /\ client' = Concluded(FALSE)
  BY DEF Timeout, updateVars, managerVars, storeVars
<1>2. /\ DOMAIN client' = DOMAIN client /\ client'.pc = "idle" /\ client'.id = client.id
      /\ client'.expected = client.expected
      /\ client'.doubtful = client.doubtful \cup {Row(client.request)}
      /\ \A id, m : Carries(client, id, m) => Carries(client', id, m)
  BY <1>1, GivenUp
<1>3. OneCarrier'
  BY <1>1 DEF ClientInv, OneCarrier
<1>4. RowsFollow'
  BY <1>1, <1>2 DEF ClientInv, RowsFollow, AwaitedRow
<1> QED
  BY <1>1, <1>2, <1>3, <1>4 DEF ClientInv

\* A goroutine takes up a packet.
LEMMA ReceiveInv ==
    ASSUME PlainRequests, ManagerInv, ClientInv, NEW p \in Writers, Receive(p)
    PROVE  ClientInv'
<1>1. PICK k \in inFlight : /\ HandleMessage(p, k.message)
                            /\ handling' = [handling EXCEPT ![p] = k.id]
                            /\ inFlight' = inFlight \ {k}
  BY DEF Receive
<1>2. /\ update[p].pc = "idle" /\ task' = task /\ call' = call /\ records' = records
      /\ client' = client
  BY <1>1 DEF Receive, HandleMessage, managerVars, storeVars
<1>3. PICK m, id : m = k.message /\ id = k.id
  OBVIOUS
<1>4. PICK v : v = [NoUpdate EXCEPT !.pc = IF Verdict(m) = "SUCCESS" THEN "apply" ELSE "reply",
                                    !.message = m, !.rcode = Verdict(m), !.before = records]
  OBVIOUS
<1>5. update' = [update EXCEPT ![p] = v]
  BY <1>1, <1>3, <1>4 DEF HandleMessage
<1>6. /\ DOMAIN update = Writers /\ DOMAIN handling = Writers
      /\ \A q \in Writers : Hand(update[q], task[q], call[q])
      /\ \A j \in inFlight : Carries(client, j.id, j.message)
      /\ \A q \in Writers : update[q].pc # "idle" => Carries(client, handling[q], update[q].message)
      /\ OneCarrier /\ RowsFollow
  BY DEF ClientInv
<1>7. /\ update'[p] = v /\ DOMAIN update' = Writers /\ DOMAIN handling' = Writers
      /\ handling'[p] = id
      /\ \A q \in Writers : q # p => update'[q] = update[q] /\ handling'[q] = handling[q]
  BY <1>1, <1>3, <1>5, <1>6
<1>8. /\ DOMAIN v = DOMAIN NoUpdate /\ v.pc \in {"apply", "reply"} /\ v.next = 1
      /\ v.message = m /\ (v.pc = "reply" => v.rcode # "SUCCESS")
  BY <1>4 DEF NoUpdate
<1>9. Carries(client, id, m)
  BY <1>3, <1>6
<1>10. Len(m.rrs) \in Nat
  BY <1>9, CarriedMessage DEF MessageIn
<1>11. /\ task[p].pc = "idle" /\ CallOfTask(task[p], call[p]) /\ Course(task[p])
       /\ \A stored : SetKnown(task[p], call[p], stored)
  <2>1. task[p].pc = "idle" /\ CallOfTask(task[p], call[p]) /\ Course(task[p])
    BY <1>2, <1>6 DEF Hand
  <2> QED
    BY <2>1, IdleHand
<1>12. Hand(v, task[p], call[p])
  BY <1>8, <1>10, <1>11, RestingHand
<1>13. OneCarrier'
  <2>1. \A k1, k2 \in inFlight' : k1.id = k2.id => k1 = k2
    BY <1>1, <1>6 DEF OneCarrier
  <2>2. ASSUME NEW j \in inFlight', NEW q \in Writers, update'[q].pc # "idle"
        PROVE  handling'[q] # j.id
    BY <1>1, <1>3, <1>6, <1>7, <2>2 DEF OneCarrier
  <2>3. ASSUME NEW q \in Writers, NEW r \in Writers, update'[q].pc # "idle",
               update'[r].pc # "idle", handling'[q] = handling'[r]
        PROVE  q = r
    BY <1>1, <1>3, <1>6, <1>7, <2>3 DEF OneCarrier
  <2> QED
    BY <2>1, <2>2, <2>3 DEF OneCarrier
<1>14. RowsFollow'
  <2>1. \A row : row \notin client'.doubtful /\ ~AwaitedRow(client', row) =>
                   AgreeOn(records', client'.expected, row)
    BY <1>2, <1>6 DEF RowsFollow
  <2>2. ASSUME NEW row, row \notin client.doubtful, AwaitedRow(client, row)
        PROVE  \A j \in inFlight' : j.id = client.id => AgreeOn(records, client.expected, row)
    BY <1>1, <1>6, <2>2 DEF RowsFollow
  <2>3. ASSUME NEW row, row \notin client.doubtful, AwaitedRow(client, row),
               NEW q \in Writers, update'[q].pc # "idle", handling'[q] = client.id
        PROVE  Promised(update'[q], task[q], call[q], records, client.expected, row)
    <3>1. CASE q # p
      BY <1>6, <1>7, <2>3, <3>1 DEF RowsFollow
    <3>2. CASE q = p
      <4>1. k.id = client.id
        BY <1>3, <1>7, <2>3, <3>2
      <4>2. AgreeOn(records, client.expected, row)
        BY <1>6, <2>3, <4>1 DEF RowsFollow
      <4>3. AfterRRs(client.expected, m)[0] = client.expected /\ v.next - 1 = 0
        BY <1>8, <1>10, AfterFacts
      <4>4. AgreeOn(records, AfterRRs(client.expected, v.message)[v.next - 1], row)
        BY <1>8, <4>2, <4>3
      <4> QED
        BY <1>7, <1>11, <3>2, <4>4 DEF Promised
    <3> QED
      BY <3>1, <3>2
  <2> QED
    BY <1>2, <2>1, <2>2, <2>3 DEF RowsFollow
<1>15. \A q \in Writers : Hand(update'[q], task'[q], call'[q])
  BY <1>2, <1>6, <1>7, <1>12
<1>16. \A q \in Writers : update'[q].pc # "idle" => Carries(client', handling'[q], update'[q].message)
  BY <1>2, <1>6, <1>7, <1>8, <1>9
<1>17. \A j \in inFlight' : Carries(client', j.id, j.message)
  BY <1>1, <1>2, <1>6
<1> QED
  BY <1>2, <1>7, <1>13, <1>14, <1>15, <1>16, <1>17 DEF ClientInv

\* A reply tells the client that its request was applied.
LEMMA Granted ==
    ASSUME PlainRequests, ManagerInv, ClientInv, NEW p \in Writers, WriteReply(p),
           client.pc = "waiting", client.id = handling[p], client' = Concluded(TRUE),
           update[p].rcode = "SUCCESS"
    PROVE  /\ DOMAIN client' = DOMAIN client /\ client'.pc = "idle" /\ client'.id = client.id
           /\ client'.doubtful = client.doubtful
           /\ \A row : row \notin client'.doubtful => AgreeOn(records, client'.expected, row)
<1>1. PICK x, y, request : x = client /\ y = client' /\ request = client.request
  OBVIOUS
<1>2. /\ DOMAIN x = {"pc", "id", "request", "expected", "doubtful"}
      /\ request \in Requests /\ RequestAccepted(request) /\ x.pc = "waiting"
  BY <1>1 DEF ClientInv
<1>3. PICK promise : promise = Promise(x.expected, request)
  OBVIOUS
<1>4. y = [x EXCEPT !.pc = "idle", !.request = NoRequest, !.expected = promise, !.doubtful = @]
  BY <1>1, <1>3 DEF Concluded
<1>5. /\ DOMAIN y = DOMAIN x /\ y.pc = "idle" /\ y.id = x.id /\ y.expected = promise
      /\ y.doubtful = x.doubtful
  BY <1>2, <1>4
<1>6. PICK u : u = update[p]
  OBVIOUS
<1>7. u.pc # "idle" /\ Hand(u, task[p], call[p]) /\ Answered(p)
  BY <1>6 DEF WriteReply, Answered, ClientInv
<1>8. PICK m \in RequestMessages(request) : m = u.message
  BY <1>1, <1>2, <1>6, <1>7 DEF ClientInv, Carries
<1>9. Len(m.rrs) \in Nat
  BY <1>2, <1>8, RequestGood DEF MessageIn
<1>10. u.pc = "apply" /\ u.next = Len(m.rrs) + 1 /\ task[p].pc = "idle"
  <2>1. u.pc = "apply" /\ u.next > Len(m.rrs) /\ u.next \in Nat /\ u.next <= Len(m.rrs) + 1
    BY <1>6, <1>7, <1>8 DEF Answered, Hand
  <2>2. task[p].pc = "idle"
    BY <1>7, <1>8, <1>9, <2>1 DEF Hand
  <2> QED
    BY <1>9, <2>1, <2>2
<1>11. ASSUME NEW row, row \notin x.doubtful PROVE AgreeOn(records, promise, row)
  <2>1. CASE row = Row(request)
    <3>1. Promised(u, task[p], call[p], records, x.expected, row)
      BY <1>1, <1>2, <1>6, <1>7, <1>11, <2>1 DEF ClientInv, RowsFollow, AwaitedRow
    <3>2. u.next - 1 = Len(m.rrs)
      BY <1>9, <1>10
    <3>3. AgreeOn(records, AfterRRs(x.expected, m)[Len(m.rrs)], row)
      BY <1>8, <1>10, <3>1, <3>2 DEF Promised
    <3>4. AfterRRs(x.expected, m)[Len(m.rrs)] = promise
      BY <1>2, <1>3, PromiseKept
    <3> QED
      BY <3>3, <3>4
  <2>2. CASE row # Row(request)
    <3>1. AgreeOn(records, x.expected, row)
      BY <1>1, <1>11, <2>2 DEF ClientInv, RowsFollow, AwaitedRow
    <3>2. AgreeOn(promise, x.expected, row)
      BY <1>2, <1>3, <2>2, PromiseElsewhere
    <3> QED
      BY <3>1, <3>2 DEF AgreeOn
  <2> QED
    BY <2>1, <2>2
<1> QED
  BY <1>1, <1>5, <1>11

\* A reply is written: the client takes it for what it says, or nobody waits for it.
LEMMA RespondInv ==
    ASSUME PlainRequests, ManagerInv, ClientInv, NEW p \in Writers, Respond(p)
    PROVE  ClientInv'
<1>1. /\ WriteReply(p) /\ update' = [update EXCEPT ![p] = NoUpdate]
      /\ handling' = [handling EXCEPT ![p] = 0] /\ inFlight' = inFlight
      /\ task' = task /\ call' = call /\ records' = records
  BY DEF Respond, WriteReply, managerVars, storeVars
<1>2. /\ DOMAIN update = Writers /\ DOMAIN handling = Writers
      /\ \A q \in Writers : Hand(update[q], task[q], call[q])
      /\ \A j \in inFlight : Carries(client, j.id, j.message)
      /\ \A q \in Writers : update[q].pc # "idle" => Carries(client, handling[q], update[q].message)
      /\ OneCarrier /\ RowsFollow
  BY DEF ClientInv
<1>3. /\ update'[p] = NoUpdate /\ DOMAIN update' = Writers /\ DOMAIN handling' = Writers
      /\ \A q \in Writers : q # p => update'[q] = update[q] /\ handling'[q] = handling[q]
  BY <1>1, <1>2
<1>4. NoUpdate.pc = "idle" /\ NoUpdate.next = 1 /\ Len(NoUpdate.message.rrs) \in Nat
  BY DEF NoUpdate, NoMessage
<1>5. update[p].pc # "idle" /\ Answered(p)
  BY <1>1 DEF WriteReply, Answered
<1>6. Hand(NoUpdate, task[p], call[p])
  <2>1. PICK u : u = update[p]
    OBVIOUS
  <2>2. Len(u.message.rrs) \in Nat
    BY <1>2, <1>5, <2>1, CarriedMessage DEF MessageIn
  <2>3. Hand(u, task[p], call[p])
    BY <1>2, <2>1
  <2>4. task[p].pc = "idle"
    BY <1>5, <2>1, <2>2, <2>3 DEF Answered, Hand
  <2>5. CallOfTask(task[p], call[p]) /\ Course(task[p])
    BY <2>3 DEF Hand
  <2> QED
    BY <1>4, <2>4, <2>5, RestingHand
<1>7. \A q \in Writers : Hand(update'[q], task'[q], call'[q])
  BY <1>1, <1>2, <1>3, <1>6
<1>8. \A q \in Writers : update'[q].pc # "idle" =>
          q # p /\ update'[q] = update[q] /\ handling'[q] = handling[q] /\ update[q].pc # "idle"
  BY <1>3, <1>4
<1>9. OneCarrier'
  BY <1>1, <1>2, <1>8 DEF OneCarrier
<1>10. CASE UNCHANGED client
  <2>1. RowsFollow'
    BY <1>1, <1>2, <1>8, <1>10 DEF RowsFollow
  <2>2. \A q \in Writers : update'[q].pc # "idle" =>
            Carries(client', handling'[q], update'[q].message)
    BY <1>2, <1>8, <1>10
  <2> QED
    BY <1>1, <1>2, <1>3, <1>7, <1>9, <1>10, <2>1, <2>2 DEF ClientInv
<1>11. ASSUME client.pc = "waiting", client.id = handling[p],
              client' = Concluded(update[p].rcode = "SUCCESS")
       PROVE  ClientInv'
  <2>1. /\ \A j \in inFlight : j.id # client.id
        /\ \A q \in Writers : update'[q].pc # "idle" => handling[q] # client.id
    BY <1>2, <1>5, <1>8, <1>11 DEF OneCarrier
  <2>2. /\ DOMAIN client' = DOMAIN client /\ client'.pc = "idle" /\ client'.id = client.id
        /\ client.doubtful \subseteq client'.doubtful
        /\ \A row : row \notin client'.doubtful => AgreeOn(records, client'.expected, row)
    <3>1. CASE update[p].rcode = "SUCCESS"
      <4>1. client' = Concluded(TRUE)
        BY <1>11, <3>1 DEF Concluded
      <4> QED
        BY <1>1, <1>11, <3>1, <4>1, Granted
    <3>2. CASE update[p].rcode # "SUCCESS"
      <4>1. client' = Concluded(FALSE)
        BY <1>11, <3>2 DEF Concluded
      <4>2. /\ DOMAIN client' = DOMAIN client /\ client'.pc = "idle" /\ client'.id = client.id
            /\ client'.expected = client.expected
            /\ client'.doubtful = client.doubtful \cup {Row(client.request)}
        BY <1>11, <4>1, GivenUp
      <4> QED
        BY <1>2, <4>2 DEF RowsFollow, AwaitedRow
    <3> QED
      BY <3>1, <3>2
  <2>3. ASSUME NEW id, NEW m, id # client.id, Carries(client, id, m)
        PROVE  Carries(client', id, m)
    <3>1. client.id \in Nat /\ client'.id \in Nat /\ client.id <= client'.id
      BY <2>2 DEF ClientInv
    <3> QED
      BY <2>2, <2>3, <3>1, CarriedOn
  <2>4. \A j \in inFlight' : Carries(client', j.id, j.message)
    BY <1>1, <1>2, <2>1, <2>3
  <2>5. \A q \in Writers : update'[q].pc # "idle" =>
            Carries(client', handling'[q], update'[q].message)
    BY <1>2, <1>8, <2>1, <2>3
  <2>6. RowsFollow'
    BY <1>1, <2>2 DEF RowsFollow, AwaitedRow
  <2>7. DOMAIN client = {"pc", "id", "request", "expected", "doubtful"} /\ client.id \in Nat
    BY DEF ClientInv
  <2> QED
    BY <1>3, <1>7, <1>9, <2>2, <2>4, <2>5, <2>6, <2>7 DEF ClientInv
<1> QED
  BY <1>10, <1>11 DEF Respond

\* What a handler is bound to leave in the awaited row, another handler's step in its own row
\* does not touch.
LEMMA PromiseStands ==
    ASSUME ManagerInv, NEW q \in Writers, NEW u, NEW t, t = task[q], NEW c, c = call[q],
           Hand(u, t, c), NEW row, MessageIn(u.message, row), NEW one, NEW two,
           AgreeOn(two, one, row), NEW base, Promised(u, t, c, one, base, row)
    PROVE  Promised(u, t, c, two, base, row)
<1>1. TaskShape(t)
  BY DEF ManagerInv
<1>2. AgreeOn(one, two, row)
  BY DEF AgreeOn
<1>3. SetKnown(t, c, two)
  <2>1. CASE t.pc = "idle"
    <3>1. CallOfTask(t, c) /\ Course(t)
      BY DEF Hand
    <3> QED
      BY <2>1, <3>1, IdleHand
  <2>2. CASE t.pc # "idle"
    <3>1. u.next \in 1 .. Len(u.message.rrs)
      BY <2>2 DEF Hand, MessageIn
    <3>2. RowAt(u) = row
      BY <3>1 DEF MessageIn, RowAt
    <3> QED
      BY <1>1, <1>2, <3>2, KnownLocal DEF Promised
  <2> QED
    BY <2>1, <2>2
<1>4. AgreeOn(RecordsDue(t, Landing(c, one)), RecordsDue(t, Landing(c, two)), row)
  BY <1>2, DueLocal
<1> QED
  BY <1>2, <1>3, <1>4 DEF Promised, AgreeOn

\* A handler makes a step.
LEMMA HandlerStepInv ==
    ASSUME PlainRequests, ManagerInv, ClientInv, NEW p \in Writers, HandlerStep(p),
           UNCHANGED <<client, inFlight, handling>>
    PROVE  ManagerInv' /\ ClientInv'
<1>1. /\ DOMAIN update = Writers /\ DOMAIN handling = Writers
      /\ \A q \in Writers : Hand(update[q], task[q], call[q])
      /\ \A j \in inFlight : Carries(client, j.id, j.message)
      /\ \A q \in Writers : update[q].pc # "idle" => Carries(client, handling[q], update[q].message)
      /\ OneCarrier /\ RowsFollow
  BY DEF ClientInv
<1>2. update[p].pc # "idle"
  BY <1>1, IdleHandler
<1>3. PICK mine : /\ MessageIn(update[p].message, mine)
                  /\ IF client.pc = "waiting" /\ handling[p] = client.id
                     THEN mine = Row(client.request) ELSE mine \in client.doubtful
  <2>1. Carries(client, handling[p], update[p].message)
    BY <1>1, <1>2
  <2> QED
    BY <2>1, CarriedMessage
<1>4. HandlerMoves(p, mine)
  BY <1>1, <1>3, HandlerHandles
<1>5. /\ DOMAIN update' = Writers /\ \A q \in Writers : q # p => update'[q] = update[q]
      /\ update'[p].pc # "idle" /\ update'[p].message = update[p].message
      /\ Hand(update'[p], task'[p], call'[p])
      /\ \A other : other # mine => AgreeOn(records', records, other)
      /\ \A base : Promised(update[p], task[p], call[p], records, base, mine) =>
                      Promised(update'[p], task'[p], call'[p], records', base, mine)
  BY <1>4 DEF HandlerMoves
<1>6. ManagerStep(p) \/ UNCHANGED managerVars
  BY <1>4 DEF HandlerMoves
<1>7. ManagerInv'
  BY <1>6, StepsInv
<1>8. \A q \in Writers : q # p => task'[q] = task[q] /\ call'[q] = call[q]
  BY <1>6, ManagerStepAdvances DEF Advances, managerVars, storeVars
<1>9. client' = client /\ inFlight' = inFlight /\ handling' = handling
  OBVIOUS
<1>10. \A q \in Writers : (update'[q].pc = "idle" <=> update[q].pc = "idle")
                            /\ update'[q].message = update[q].message
  BY <1>2, <1>5
<1>11. OneCarrier'
  BY <1>1, <1>9, <1>10 DEF OneCarrier
<1>12. \A q \in Writers : Hand(update'[q], task'[q], call'[q])
  BY <1>1, <1>5, <1>8
<1>13. \A q \in Writers : update'[q].pc # "idle" =>
            Carries(client', handling'[q], update'[q].message)
  BY <1>1, <1>9, <1>10
<1>14. RowsFollow'
  <2>1. ASSUME NEW row, row \notin client.doubtful, ~AwaitedRow(client, row)
        PROVE  AgreeOn(records', client.expected, row)
    <3>1. row # mine
      BY <1>3, <2>1 DEF AwaitedRow
    <3>2. AgreeOn(records', records, row) /\ AgreeOn(records, client.expected, row)
      BY <1>1, <1>5, <2>1, <3>1 DEF RowsFollow
    <3> QED
      BY <3>2 DEF AgreeOn
  <2>2. ASSUME NEW row, row \notin client.doubtful, AwaitedRow(client, row)
        PROVE  /\ \A k \in inFlight : k.id = client.id => AgreeOn(records', client.expected, row)
               /\ \A q \in Writers : update'[q].pc # "idle" /\ handling[q] = client.id =>
                     Promised(update'[q], task'[q], call'[q], records', client.expected, row)
    <3>1. /\ \A k \in inFlight : k.id = client.id => AgreeOn(records, client.expected, row)
          /\ \A q \in Writers : update[q].pc # "idle" /\ handling[q] = client.id =>
                Promised(update[q], task[q], call[q], records, client.expected, row)
      BY <1>1, <2>2 DEF RowsFollow
    <3>2. client.pc = "waiting" /\ row = Row(client.request)
      BY <2>2 DEF AwaitedRow
    <3>3. CASE handling[p] = client.id
      <4>1. row = mine /\ \A k \in inFlight : k.id # client.id
        BY <1>1, <1>2, <1>3, <3>2, <3>3 DEF OneCarrier
      <4>2. \A q \in Writers : update'[q].pc # "idle" /\ handling[q] = client.id => q = p
        BY <1>1, <1>2, <1>10, <3>3 DEF OneCarrier
      <4>3. Promised(update'[p], task'[p], call'[p], records', client.expected, row)
        BY <1>2, <1>5, <3>1, <3>3, <4>1
      <4> QED
        BY <4>1, <4>2, <4>3
    <3>4. CASE handling[p] # client.id
      <4>1. row # mine
        BY <1>3, <2>2, <3>4
      <4>2. AgreeOn(records', records, row)
        BY <1>5, <4>1
      <4>3. ASSUME NEW q \in Writers, update'[q].pc # "idle", handling[q] = client.id
            PROVE  Promised(update'[q], task'[q], call'[q], records', client.expected, row)
        <5>1. q # p /\ update[q].pc # "idle" /\ update'[q] = update[q]
              /\ task'[q] = task[q] /\ call'[q] = call[q]
          BY <1>5, <1>8, <3>4, <4>3
        <5>2. MessageIn(update[q].message, row)
          BY <1>1, <3>2, <4>3, <5>1, CarriedMessage
        <5>3. Promised(update[q], task[q], call[q], records, client.expected, row)
          BY <3>1, <4>3, <5>1
        <5>4. Promised(update[q], task[q], call[q], records', client.expected, row)
          BY <1>1, <4>2, <5>2, <5>3, PromiseStands
        <5> QED
          BY <5>1, <5>4
      <4>4. ASSUME NEW k \in inFlight, k.id = client.id
            PROVE  AgreeOn(records', client.expected, row)
        BY <3>1, <4>2, <4>4 DEF AgreeOn
      <4> QED
        BY <4>3, <4>4
    <3> QED
      BY <3>3, <3>4
  <2> QED
    BY <1>9, <2>1, <2>2 DEF RowsFollow
<1>15. \A j \in inFlight' : Carries(client', j.id, j.message)
  BY <1>1, <1>9
<1> QED
  BY <1>5, <1>7, <1>9, <1>11, <1>12, <1>13, <1>14, <1>15 DEF ClientInv

\* Any step.
LEMMA ClientNextInv ==
    ASSUME PlainRequests, ManagerInv, ClientInv, [ClientNext]_clientVars
    PROVE  ManagerInv' /\ ClientInv'
<1>1. ASSUME UNCHANGED managerVars PROVE ManagerInv'
  BY <1>1, StepsInv
<1>2. ASSUME NEW request \in Requests, Exchange(request) PROVE ManagerInv' /\ ClientInv'
  BY <1>1, <1>2, ExchangeInv DEF Exchange, updateVars
<1>3. CASE LoseRequest
  BY <1>1, <1>3, LoseRequestInv DEF LoseRequest, updateVars
<1>4. CASE Timeout
  BY <1>1, <1>4, TimeoutInv DEF Timeout, updateVars
<1>5. ASSUME NEW p \in Writers, Receive(p) PROVE ManagerInv' /\ ClientInv'
  BY <1>1, <1>5, ReceiveInv DEF Receive, HandleMessage
<1>6. ASSUME NEW p \in Writers, Respond(p) PROVE ManagerInv' /\ ClientInv'
  BY <1>1, <1>6, RespondInv DEF Respond, WriteReply
<1>7. ASSUME NEW p \in Writers, HandlerStep(p), UNCHANGED <<client, inFlight, handling>>
      PROVE  ManagerInv' /\ ClientInv'
  BY <1>7, HandlerStepInv
<1>8. CASE UNCHANGED clientVars
  <2>1. UNCHANGED managerVars
    BY <1>8 DEF clientVars, updateVars
  <2>2. /\ update' = update /\ task' = task /\ call' = call /\ records' = records
        /\ handling' = handling /\ inFlight' = inFlight /\ client' = client
    BY <1>8 DEF clientVars, updateVars, managerVars, storeVars
  <2>3. OneCarrier' /\ RowsFollow'
    BY <2>2 DEF ClientInv, OneCarrier, RowsFollow
  <2> QED
    BY <1>1, <2>1, <2>2, <2>3 DEF ClientInv
<1> QED
  BY <1>2, <1>3, <1>4, <1>5, <1>6, <1>7, <1>8 DEF ClientNext, ClientRests

\* Whatever happens to other exchanges, and however the handlers of their late requests
\* interleave with that of the one at hand, a name that every request about it was answered
\* SUCCESS holds what those requests promised.
THEOREM AcknowledgedRowsHold ==
    ASSUME PlainRequests
    PROVE  ClientSpec => []AcknowledgedHolds
<1>1. ManagerInv /\ ClientInv => AcknowledgedHolds
  BY DEF ClientInv, RowsFollow, AwaitedRow, AgreeOn, AcknowledgedHolds
<1>2. ManagerInv /\ ClientInv /\ [ClientNext]_clientVars => ManagerInv' /\ ClientInv'
  BY ClientNextInv
<1> QED
  BY <1>1, <1>2, ClientInitInv, PTL DEF ClientSpec
=============================================================================

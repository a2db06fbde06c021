------------------------------- MODULE Changes -------------------------------
(***************************************************************************)
(* Batches of changes: ApplyChanges of the Manager, with ValidateChanges,  *)
(* its first half (PreviewChanges is that half alone).  The batch is       *)
(* previewed change by change on copies of the zones it touches, the       *)
(* copies are validated, and then every change is made by a Manager call   *)
(* of its own, which validates again.  A change that fails ends the batch; *)
(* the changes before it stay.                                             *)
(*                                                                         *)
(* The preview and the calls of the Manager take the zone of a change from *)
(* different fields, treat classes and TTLs differently, and see different *)
(* intermediate zones.                                                     *)
(***************************************************************************)
EXTENDS Manager

CONSTANTS
    Batches,       \* arguments of ApplyChanges: sequences of changes
    MaxBatches     \* bound on the number of ApplyChanges calls

ASSUME ChangesAssumption ==
    /\ MaxBatches \in Nat
    /\ \A b \in Batches : MaxBatches * Len(b) <= MaxOperations

VARIABLES
    batch,      \* the ApplyChanges call each goroutine is in
    batches     \* ApplyChanges calls so far

changesVars == <<zones, records, revision, call, task, started, batch, batches>>

\* next is the change at hand, zone and exists what is known of its zone, states the
\* copies.  Two fields are history: base, the copies as they were read, and trail,
\* the copies after each change.
NoBatch == [pc |-> "idle", changes |-> <<>>, next |-> 1, zone |-> NoZone, exists |-> FALSE,
            states |-> <<>>, base |-> <<>>, trail |-> <<>>]

ChangesInit ==
    /\ ManagerInit
    /\ batch = [p \in Writers |-> NoBatch]
    /\ batches = 0

-----------------------------------------------------------------------------
(* One change. *)

\* normalizeChangeZone: the zone the preview works on, NoZone when no field names one.
\* The last field it tries is the first record, and records are in any order.
ChangeZones(change) ==
    CASE change.zone # Root -> {NormalizeZoneName(change.zone)}
      [] change.zone = Root /\ change.record.zone # Root ->
            {NormalizeZoneName(change.record.zone)}
      [] change.zone = Root /\ change.record.zone = Root /\ change.records # {} ->
            {NormalizeZoneName(r.zone) : r \in change.records}
      [] OTHER -> {NoZone}

\* The RRset a change names, in the zone that is passed on.
SetOf(zone, change) ==
    [zone |-> zone, name |-> change.name, type |-> change.type, records |-> change.records]

\* The changes that the normalizations let through, given that zone.
Accepted(zone, change) ==
    CASE change.kind \in {"upsert_zone", "delete_zone"}     -> ZoneAccepted(zone)
      [] change.kind \in {"upsert_record", "delete_record"} -> RecordAccepted(change.record)
      [] change.kind = "upsert_rrset"                       -> RRSetAccepted(SetOf(zone, change))
      [] change.kind \in {"delete_rrset", "delete_name"}    -> LookupAccepted(SetOf(zone, change))
      [] OTHER                                              -> FALSE

\* The copies upsert_rrset may leave: the first record decides which class is replaced.
RRSetPreviews(state, set) ==
    LET Preview(kept, first) ==
            [exists  |-> TRUE,
             records |-> upsertRecords({r \in state.records : ~ /\ r.name = first.name
                                                                /\ r.type = first.type
                                                                /\ r.class = first.class}, kept)]
    IN  UNION {{Preview(kept, first) : first \in kept} :
                  kept \in Deduped({normalizeRRSetRecord(set, r) : r \in set.records})}

\* applyChangePreview: what a change makes of the copy of its zone.
Previews(state, zone, change) ==
    CASE change.kind = "upsert_zone" -> {[state EXCEPT !.exists = TRUE]}
      [] change.kind = "delete_zone" -> {[exists |-> FALSE, records |-> {}]}
      [] change.kind = "upsert_record" ->
            {[exists  |-> TRUE,
              records |-> upsertRecords(state.records, {NormalizeRecord(change.record)})]}
      [] change.kind = "delete_record" ->
            {[state EXCEPT !.records = Without(@, NormalizeRecord(change.record))]}
      [] change.kind = "upsert_rrset" -> RRSetPreviews(state, SetOf(zone, change))
      [] change.kind = "delete_rrset" ->
            {[state EXCEPT !.records = {r \in @ : ~ /\ RowKey(r) = <<zone, Fold(change.name)>>
                                                    /\ r.type = change.type}]}
      [] change.kind = "delete_name" ->
            {[state EXCEPT !.records = {r \in @ : RowKey(r) # <<zone, Fold(change.name)>>}]}

\* Zones and Records contain what the changes name.
ChangeInUniverse(change) ==
    /\ ChangeZones(change) \subseteq Zones \cup {NoZone}
    /\ ZoneAccepted(change.zone) => NormalizeZoneName(change.zone) \in Zones
    /\ RecordAccepted(change.record) => NormalizeRecord(change.record) \in Records
    /\ RRSetInUniverse(SetOf(change.zone, change))

ASSUME BatchesAssumption ==
    \A b \in Batches : Len(b) \in Nat /\ \A i \in 1 .. Len(b) : ChangeInUniverse(b[i])

-----------------------------------------------------------------------------
(* The preview. *)

ApplyChanges(p, changes) ==
    /\ batch[p].pc = "idle"
    /\ batches < MaxBatches
    /\ batches' = batches + 1
    /\ batch' = [batch EXCEPT ![p] = [NoBatch EXCEPT !.pc = "preview", !.changes = changes]]
    /\ UNCHANGED <<storeVars, task, started>>

\* A step of the batch on its own variables.
Ahead(p, b) ==
    /\ batch' = [batch EXCEPT ![p] = b]
    /\ UNCHANGED <<storeVars, task, started, batches>>

\* The change whose turn it is.
Current(p) == batch[p].changes[batch[p].next]

Previewing(p) == batch[p].pc = "preview" /\ batch[p].next <= Len(batch[p].changes)

\* loadPreviewZoneState: HasZone and then ListRecords, unless the zone has its copy.
PickZone(p) ==
    /\ Previewing(p)
    /\ \E z \in ChangeZones(Current(p)) \ {NoZone} :
          LET known == z \in DOMAIN batch[p].states
          IN  /\ batch' = [batch EXCEPT ![p].zone = z, ![p].exists = z \in zones,
                                        ![p].pc = IF known THEN "change" ELSE "load"]
              /\ task' = IF known THEN task
                         ELSE [task EXCEPT ![p] = [NoTask EXCEPT !.op = "PreviewChanges",
                                                                 !.pc = "list", !.zone = z]]
    /\ UNCHANGED <<storeVars, started, batches>>

\* The change names no zone.
ZoneMissing(p) ==
    /\ Previewing(p) /\ NoZone \in ChangeZones(Current(p))
    /\ Ahead(p, [batch[p] EXCEPT !.pc = "failed", !.next = 1])

\* With z a new member of the domain.
Extended(f, z, value) == [y \in DOMAIN f \cup {z} |-> IF y = z THEN value ELSE f[y]]

ZoneLoaded(p) ==
    LET b     == batch[p]
        state == [exists |-> b.exists, records |-> task[p].listed]
    IN  /\ b.pc = "load" /\ task[p].pc = "read" /\ task[p].rows = {}
        /\ batch' = [batch EXCEPT ![p] = [b EXCEPT !.pc = "change",
                                                   !.states = Extended(@, b.zone, state),
                                                   !.base = Extended(@, b.zone, state)]]
        /\ task' = [task EXCEPT ![p] = NoTask]
        /\ UNCHANGED <<storeVars, started, batches>>

PreviewChange(p) ==
    LET b == batch[p]
    IN  /\ b.pc = "change"
        /\ \/ /\ Accepted(b.zone, Current(p))
              /\ \E state \in Previews(b.states[b.zone], b.zone, Current(p)) :
                    LET states == [b.states EXCEPT ![b.zone] = state]
                    IN  Ahead(p, [b EXCEPT !.pc = "preview", !.next = @ + 1, !.states = states,
                                           !.trail = Append(@, states)])
           \/ /\ ~Accepted(b.zone, Current(p))
              /\ Ahead(p, [b EXCEPT !.pc = "failed", !.next = 1])

\* Mutant: the apex NS is not required.
ValidatePreviewLenient(p) ==
    LET b == batch[p]
    IN  /\ b.pc = "preview" /\ b.next > Len(b.changes)
        /\ Ahead(p, [b EXCEPT !.next = 1,
                              !.pc = IF \A z \in DOMAIN b.states :
                                           validateZoneRecords(z, b.states[z].records, FALSE)
                                     THEN "apply" ELSE "failed"])

\* validatePreviewZoneStates: deleted zones and empty ones pass.
ValidatePreview(p) ==
    LET b == batch[p]
        Valid(z) == \/ ~b.states[z].exists
                    \/ b.states[z].records = {}
                    \/ validateZoneRecords(z, b.states[z].records, TRUE)
    IN  /\ b.pc = "preview" /\ b.next > Len(b.changes)
        /\ Ahead(p, [b EXCEPT !.next = 1,
                              !.pc = IF \A z \in DOMAIN b.states : Valid(z)
                                     THEN "apply" ELSE "failed"])

-----------------------------------------------------------------------------
(* The application. *)

Applying(p) ==
    /\ batch[p].pc = "apply" /\ batch[p].next <= Len(batch[p].changes)
    /\ task[p].pc = "idle"

\* applyChange: a Manager call, with the zone that zoneName finds.
ApplyChange(p) ==
    LET change == Current(p)
        set    == SetOf(change.zone, change)
    IN  /\ Applying(p)
        /\ \/ change.kind = "upsert_zone"   /\ UpsertZone(p, change.zone)
           \/ change.kind = "delete_zone"   /\ ManagerDeleteZone(p, change.zone)
           \/ change.kind = "upsert_record" /\ UpsertRecord(p, change.record)
           \/ change.kind = "delete_record" /\ ManagerDeleteRecord(p, change.record)
           \/ change.kind = "upsert_rrset"  /\ UpsertRRSet(p, set)
           \/ change.kind = "delete_rrset"  /\ DeleteRRSet(p, set)
           \/ change.kind = "delete_name"   /\ DeleteName(p, set)
        /\ UNCHANGED <<batch, batches>>

\* The call returns a normalization error that the preview had not met.
ChangeRefused(p) ==
    /\ Applying(p)
    /\ ~Accepted(Current(p).zone, Current(p))
    /\ Ahead(p, [batch[p] EXCEPT !.pc = "failed"])

\* Mutant: the error of a change is dropped.
ChangeReturnedAnyway(p) ==
    /\ batch[p].pc = "apply"
    /\ Return(p)
    /\ batch' = [batch EXCEPT ![p].next = @ + 1]
    /\ UNCHANGED batches

ChangeReturned(p) ==
    LET b == batch[p]
    IN  /\ b.pc = "apply"
        /\ Return(p)
        /\ batch' = [batch EXCEPT ![p] = IF task[p].pc = "failed" THEN [b EXCEPT !.pc = "failed"]
                                         ELSE [b EXCEPT !.next = @ + 1]]
        /\ UNCHANGED batches

Applied(p) == batch[p].pc = "apply" /\ batch[p].next > Len(batch[p].changes)

\* ApplyChanges returns its result or its error.
BatchReturn(p) ==
    /\ Applied(p) \/ batch[p].pc = "failed"
    /\ Ahead(p, NoBatch)

\* No batch is left within the bound: the goroutines rest.
BatchesRest ==
    /\ batches = MaxBatches
    /\ \A p \in Writers : batch[p].pc = "idle"
    /\ UNCHANGED changesVars

ChangesNext ==
    \/ \E p \in Writers :
          \/ \E changes \in Batches : ApplyChanges(p, changes)
          \/ PickZone(p) \/ ZoneMissing(p) \/ ZoneLoaded(p) \/ PreviewChange(p)
          \/ ValidatePreview(p) \/ ApplyChange(p) \/ ChangeRefused(p) \/ ChangeReturned(p)
          \/ BatchReturn(p)
          \/ WorkStep(p) /\ UNCHANGED <<batch, batches>>
    \/ BatchesRest

ChangesSpec == ChangesInit /\ [][ChangesNext]_changesVars

-----------------------------------------------------------------------------
(* Properties. *)

\* The copy of a zone after the changes that have been applied so far.
Foreseen(b, z) ==
    LET applied == IF b.pc \in {"apply", "failed"} THEN b.next - 1 ELSE 0
    IN  IF applied > 0 /\ z \in DOMAIN b.trail[applied] THEN b.trail[applied][z]
        ELSE b.base[z]

\* Between the changes of a batch that nobody disturbs, and when it fails, the zones
\* hold what the preview foresaw for the changes made so far, up to TTLs: a batch
\* that validation rejects has written nothing, one that fails later has written
\* exactly the changes before the failing one.
AppliedMatchesPreview ==
    \A p \in Writers :
        batch[p].pc # "idle" /\ task[p].pc = "idle" =>
            \A z \in DOMAIN batch[p].states :
                LET state == Foreseen(batch[p], z)
                IN  /\ state.exists <=> z \in zones
                    /\ {Key(r) : r \in state.records} = {Key(r) : r \in InZone(records, z)}

\* A batch that succeeds leaves every zone it touched complete, the apex NS included,
\* although none of its calls requires the NS (ErrApexNSRequired).
BatchComplete ==
    \A p \in Writers : Applied(p) =>
        \A z \in DOMAIN batch[p].states :
            validateZoneRecords(z, InZone(records, z), TRUE)
=============================================================================

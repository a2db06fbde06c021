----------------------------- MODULE BboltStore -----------------------------
(***************************************************************************)
(* store/bbolt.Store, the Repository that lives in a file: a bucket of     *)
(* zones and a bucket of records, written and read in transactions, and an *)
(* atomic revision counter that lives in memory only.  A transaction is    *)
(* atomic and durable, or fails and changes nothing; a call may be two of  *)
(* them.  The variables are those of MemoryStore, which the Resolver reads.*)
(*                                                                         *)
(* A call whose first transaction fails changes nothing and is not a step. *)
(***************************************************************************)
EXTENDS MemoryStore

CONSTANTS
    Fallible,     \* which second transactions may fail: "SaveRecord", "DeleteZone"
    MaxFaults     \* bound on the number of failed transactions

ASSUME FaultAssumption ==
    /\ Fallible \subseteq {"SaveRecord", "DeleteZone"}
    /\ MaxFaults \in Nat

VARIABLES
    stale,      \* history: the zones that a failed DeleteZone has removed unannounced
    calls,      \* writing calls so far; a restart resets the revision
    faults      \* failed transactions so far

bboltVars == <<zones, records, revision, call, stale, calls, faults>>

BboltInit ==
    /\ StoreInit
    /\ stale = {}
    /\ calls = 0
    /\ faults = 0

\* A goroutine makes a writing call.
BeginCall(p) ==
    /\ call[p].pc = "idle"
    /\ calls < MaxCalls
    /\ calls' = calls + 1

\* A transaction of the call fails: its error is returned.
Fail(p, op) ==
    /\ op \in Fallible
    /\ faults < MaxFaults
    /\ faults' = faults + 1
    /\ call' = [call EXCEPT ![p] = NoCall]
    /\ UNCHANGED <<zones, records, revision, calls>>

-----------------------------------------------------------------------------
\* The transaction of SaveZone; for SaveRecord, the record waits for its turn.
PutZone(p, zone, record) ==
    /\ call[p].pc = "idle"
    /\ zones' = zones \cup {zone}
    /\ call' = [call EXCEPT ![p] = [NoCall EXCEPT !.pc = "bump", !.zone = zone,
                                                  !.record = record]]
    /\ UNCHANGED <<records, revision, stale, faults>>

BboltSaveZone(p, raw) ==
    /\ BeginCall(p)
    /\ ZoneAccepted(raw)
    /\ PutZone(p, NormalizeZoneName(raw), {})

\* Mutant: the zone is put without an increment of its own.
BboltSaveRecordOnce(p, raw) ==
    /\ BeginCall(p)
    /\ RecordAccepted(raw)
    /\ zones' = zones \cup {NormalizeRecord(raw).zone}
    /\ call' = [call EXCEPT ![p] = [NoCall EXCEPT !.pc = "put",
                                                  !.zone = NormalizeRecord(raw).zone,
                                                  !.record = {NormalizeRecord(raw)}]]
    /\ UNCHANGED <<records, revision, stale, faults>>

\* SaveRecord starts with a whole SaveZone, increment included.
BboltSaveRecord(p, raw) ==
    /\ BeginCall(p)
    /\ RecordAccepted(raw)
    /\ PutZone(p, NormalizeRecord(raw).zone, {NormalizeRecord(raw)})

\* Mutant: the call returns without incrementing the revision.
BboltPutRecordSilently(p) ==
    /\ call[p].pc = "put"
    /\ \E record \in call[p].record : records' = Put(records, record)
    /\ call' = [call EXCEPT ![p] = NoCall]
    /\ UNCHANGED <<zones, revision, stale, calls, faults>>

BboltPutRecord(p) ==
    /\ call[p].pc = "put"
    /\ \/ /\ \E record \in call[p].record : records' = Put(records, record)
          /\ call' = [call EXCEPT ![p].pc = "bump", ![p].record = {}]
          /\ UNCHANGED <<zones, revision, stale, calls, faults>>
       \/ Fail(p, "SaveRecord") /\ UNCHANGED stale

BboltDeleteRecord(p, raw) ==
    /\ BeginCall(p)
    /\ RecordAccepted(raw)
    /\ records' = Without(records, NormalizeRecord(raw))
    /\ call' = [call EXCEPT ![p] = [NoCall EXCEPT !.pc = "bump",
                                                  !.zone = NormalizeRecord(raw).zone]]
    /\ UNCHANGED <<zones, revision, stale, faults>>

BboltDeleteZone(p, raw) ==
    /\ BeginCall(p)
    /\ ZoneAccepted(raw)
    /\ zones' = zones \ {NormalizeZoneName(raw)}
    /\ call' = [call EXCEPT ![p] = [NoCall EXCEPT !.pc = "rows",
                                                  !.zone = NormalizeZoneName(raw)]]
    /\ UNCHANGED <<records, revision, stale, faults>>

\* Mutant: the call returns without incrementing the revision.
DeleteRowsSilently(p) ==
    /\ call[p].pc = "rows"
    /\ records' = records \ InZone(records, call[p].zone)
    /\ call' = [call EXCEPT ![p] = NoCall]
    /\ UNCHANGED <<zones, revision, stale, calls, faults>>

\* The second transaction of DeleteZone; when it fails the zone is gone already, and
\* the call returns without an increment.
DeleteRows(p) ==
    /\ call[p].pc = "rows"
    /\ \/ /\ records' = records \ InZone(records, call[p].zone)
          /\ call' = [call EXCEPT ![p].pc = "bump"]
          /\ UNCHANGED <<zones, revision, stale, calls, faults>>
       \/ Fail(p, "DeleteZone") /\ stale' = stale \cup {call[p].zone}

\* revision.Add(1): the call returns, unless it is SaveRecord with its record to put.
BboltBump(p) ==
    /\ call[p].pc = "bump"
    /\ revision' = revision + 1
    /\ call' = [call EXCEPT ![p] = IF call[p].record = {} THEN NoCall
                                   ELSE [@ EXCEPT !.pc = "put"]]
    /\ stale' = {}
    /\ UNCHANGED <<zones, records, calls, faults>>

-----------------------------------------------------------------------------
\* The zones with a committed change that no increment has followed yet.
Unannounced ==
    stale \cup {call[p].zone : p \in {w \in Writers : call[w].pc \in {"rows", "bump"}}}

BboltContract == INSTANCE Repository WITH busy <- Unannounced
=============================================================================

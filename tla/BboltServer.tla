---------------------------- MODULE BboltServer ----------------------------
(***************************************************************************)
(* The server process of cmd/server: it opens the bbolt store, applies the *)
(* seed file to it, and then serves: goroutines write through the store    *)
(* while others answer questions with the Resolver.  The process may stop  *)
(* or crash between any two steps; only the two buckets survive, and the   *)
(* next start opens and seeds them again.                                  *)
(*                                                                         *)
(* ListZones is one read transaction here: Shards is 1.                    *)
(***************************************************************************)
EXTENDS Resolver, BboltStore

CONSTANTS
    Main,           \* the goroutine of openStore, a writer
    SeedFile,       \* the contents of Config.Seed.File, empty when there is none
    MaxCrashes,     \* bound on the number of stops and crashes
    MaxReadFaults   \* bound on the number of failed read transactions

ASSUME ServerAssumption ==
    /\ Main \in Writers
    /\ Shards = 1
    /\ SeedAccepted(SeedFile)
    /\ SeedFile.zones \subseteq RawZones /\ SeedFile.records \subseteq RawRecords
    /\ MaxCrashes \in Nat
    /\ MaxReadFaults \in Nat

VARIABLES
    phase,         \* "down", "seeding" or "serving"
    seedZones,     \* the zones and
    seedRecords,   \* the records of the seed that are not yet saved
    crashes,       \* stops and crashes so far
    readFaults     \* failed reads so far

processVars == <<phase, seedZones, seedRecords, crashes, readFaults>>
serverVars == <<bboltVars, resolverVars, processVars>>

ServerInit ==
    /\ BboltInit
    /\ ResolverInit
    /\ phase = "down"
    /\ seedZones = {}
    /\ seedRecords = {}
    /\ crashes = 0
    /\ readFaults = 0

-----------------------------------------------------------------------------
(* openStore. *)

\* Mutant: a store that holds zones already is not seeded again.
OpenOnce ==
    /\ phase = "down"
    /\ phase' = "seeding"
    /\ seedZones' = IF zones = {} THEN SeedZones(SeedFile) ELSE {}
    /\ seedRecords' = IF zones = {} THEN {NormalizeRecord(r) : r \in SeedFile.records} ELSE {}
    /\ revision' = 0
    /\ UNCHANGED <<zones, records, call, stale, calls, faults, crashes, readFaults, resolverVars>>

\* bbolt.Open, and the checks that ApplySeedData makes before it saves anything.
Open ==
    /\ phase = "down"
    /\ \E kept \in Deduped({NormalizeRecord(r) : r \in SeedFile.records}) :
          /\ validateRecordsByZone(kept, TRUE)
          /\ seedRecords' = kept
    /\ seedZones' = SeedZones(SeedFile)
    /\ phase' = "seeding"
    /\ revision' = 0
    /\ UNCHANGED <<zones, records, call, stale, calls, faults, crashes, readFaults, resolverVars>>

\* saveSeedZones
SeedZone ==
    /\ phase = "seeding"
    /\ \E zone \in seedZones :
          /\ PutZone(Main, zone, {})
          /\ seedZones' = seedZones \ {zone}
    /\ UNCHANGED <<calls, phase, seedRecords, crashes, readFaults, resolverVars>>

\* saveSeedRecords
SeedRecord ==
    /\ phase = "seeding" /\ seedZones = {}
    /\ \E record \in seedRecords :
          /\ PutZone(Main, record.zone, {record})
          /\ seedRecords' = seedRecords \ {record}
    /\ UNCHANGED <<calls, phase, seedZones, crashes, readFaults, resolverVars>>

\* openStore returns; newResolver, newManager and the start hooks follow.
Serve ==
    /\ phase = "seeding"
    /\ seedZones = {} /\ seedRecords = {} /\ call[Main].pc = "idle"
    /\ phase' = "serving"
    /\ UNCHANGED <<bboltVars, resolverVars, seedZones, seedRecords, crashes, readFaults>>

\* The process ends: by a crash, by a stop, or by the error of a seed that could not be
\* saved.  What it held in memory is lost, in the middle of whatever it was doing.
Crash ==
    /\ phase # "down"
    /\ crashes < MaxCrashes
    /\ crashes' = crashes + 1
    /\ phase' = "down"
    /\ seedZones' = {} /\ seedRecords' = {}
    /\ revision' = 0
    /\ call' = [p \in Writers |-> NoCall]
    /\ stale' = {}
    /\ zoneIndex' = {} /\ zonesLoaded' = FALSE /\ zonesVersion' = 0 /\ cache' = {}
    /\ query' = [p \in Readers |-> NoQuery]
    /\ UNCHANGED <<zones, records, calls, faults, readFaults>>

-----------------------------------------------------------------------------
(* Reads. *)

\* Mutant: a lookup that fails counts as one that finds nothing.
ReadFailsEmpty(p) ==
    /\ query[p].pc \in {"exact", "soa"}
    /\ readFaults < MaxReadFaults
    /\ readFaults' = readFaults + 1
    /\ query' = [query EXCEPT ![p] =
                    [query[p] EXCEPT !.pc = "set",
                                     !.result = Resolution("NXDOMAIN", {}, {}, {})]]
    /\ UNCHANGED <<bboltVars, zoneIndex, zonesLoaded, zonesVersion, cache,
                   phase, seedZones, seedRecords, crashes>>

\* The read transaction of ListZones or of a lookup fails: Resolve returns its error.
ReadFails(p) ==
    /\ query[p].pc \in {"scan", "any", "exact", "cname", "target", "negative", "soa",
                        "extraA", "extraAAAA", "extraFail"}
    /\ readFaults < MaxReadFaults
    /\ readFaults' = readFaults + 1
    /\ query' = [query EXCEPT ![p] = Failed(query[p])]
    /\ UNCHANGED <<bboltVars, zoneIndex, zonesLoaded, zonesVersion, cache,
                   phase, seedZones, seedRecords, crashes>>

Write(p) ==
    /\ phase = "serving"
    /\ \/ \E raw \in RawZones : BboltSaveZone(p, raw) \/ BboltDeleteZone(p, raw)
       \/ \E raw \in RawRecords : BboltSaveRecord(p, raw) \/ BboltDeleteRecord(p, raw)
    /\ UNCHANGED <<processVars, resolverVars>>

\* A failure of the second transaction of SaveRecord while seeding ends the process,
\* which Crash stands for.
WriteStep(p) ==
    /\ \/ BboltPutRecord(p) /\ (phase = "serving" \/ faults' = faults)
       \/ DeleteRows(p)
       \/ BboltBump(p)
    /\ UNCHANGED <<processVars, resolverVars>>

Answering(p) ==
    /\ phase = "serving"
    /\ (\E raw \in Questions : Resolve(p, raw)) \/ QueryStep(p)
    /\ UNCHANGED <<stale, calls, faults, processVars>>

ServerNext ==
    \/ Open \/ SeedZone \/ SeedRecord \/ Serve \/ Crash
    \/ \E p \in Writers : Write(p) \/ WriteStep(p)
    \/ \E p \in Readers : Answering(p) \/ ReadFails(p)
    \/ Evict /\ UNCHANGED <<stale, calls, faults, processVars>>

ServerSpec == ServerInit /\ [][ServerNext]_serverVars

-----------------------------------------------------------------------------
(* Properties. *)

\* The store implements the specification the resolver relies on, across failed
\* transactions and restarts: every change but that of a DeleteZone whose second
\* transaction failed is followed by an increment, and that one by the next increment.
BboltImplementsRepository == BboltContract!RepositorySpec

\* The index of the current revision lists exactly the zones of the store, but for those
\* with a change that no increment has followed yet, whichever start of the process it is.
IndexFresh ==
    zonesLoaded /\ zonesVersion = revision =>
        \A z \in Zones \ Unannounced : z \in zoneIndex <=> z \in zones

\* An entry of the current revision is its zone's answer to its question: no entry is
\* left behind by a write that failed half-way, and none mixes two states of the zone.
CacheFresh ==
    \A e \in cache : e.key = revision /\ e.zone \notin Unannounced =>
        e.result = ZoneAnswer(records, e.zone, e.question)

\* A query that ran while no write was under way, and with no failed DeleteZone that is
\* still unannounced, returns the store's answer or, when a read failed, SERVFAIL; it
\* never turns a failed read or a failed write into data.
AnswerFresh ==
    \A p \in Readers :
        query[p].pc = "done" /\ Quiet /\ stale = {} /\ query[p].revision = revision =>
            \/ query[p].result = Answer(zones, records, query[p].question)
            \/ readFaults > 0 /\ query[p].result = Unanswered("SERVFAIL")

\* When the server starts to serve, the whole seed is in the store with the seed's TTLs,
\* whatever an earlier start or its writers left there: a crash in the middle of seeding
\* is repaired by the next start.
SeedServed ==
    [][phase # "serving" /\ phase' = "serving" =>
          /\ SeedZones(SeedFile) \subseteq zones
          /\ \A raw \in SeedFile.records :
                \E r \in records \cap {NormalizeRecord(x) : x \in SeedFile.records} :
                    Key(r) = Key(NormalizeRecord(raw))]_serverVars
=============================================================================

# Verification of dnsx

TLA+ models of dnsx: the two repositories, the authoritative resolver with its zone index and
response cache, the Manager that validates and writes zones, and what drives them: dynamic
updates, the client, the HTTP handler, the start and stop of the server. TLC checks them on
small instances; TLAPS proves the safety properties, all of them, for every value of the
constants (some under hypotheses on what callers do, see Proofs).
Source paths are relative to `src/dnsserver` unless they start with another directory.

## Inventory

| Component | State | Operations | Interaction |
|---|---|---|---|
| zones and records (`record.go`, `store_helpers.go`, `record_filter.go`) | none | normalize, key, RR conversion | used everywhere |
| zone validation (`validation.go`) | none | SOA, apex NS and CNAME rules, previews | Manager, batches, seeds |
| in-memory store (`store_memory.go`) | sharded zone map, record table, atomic revision | SaveZone, DeleteZone, SaveRecord, DeleteRecord, lists, lookups | one lock per map access, none per call |
| zone index (`zone_index.go`) | trie of reversed zone names | build, longest suffix match | swapped by the resolver |
| resolver (`resolver*.go`) | zone index with its revision, response cache | Resolve, ServeDNS | reads the store lookup by lookup while writers run |
| response cache (`cache_hot.go`, `resolver_cache*.go`) | entries keyed by revision, name, type, class | Get, Set, eviction, expiry | shared by all queries |
| Manager (`manager*.go`, `bootstrap.go`) | none of its own | upsert and delete of zones, records, RRsets, names; seed import | lists, validates, then calls the store |
| change batches (`manager_change.go`) | copies of zones during a preview | Validate, Preview, Apply | one Manager call per change |
| snapshots (`snapshot.go`) | none | group, validate | batches |
| dynamic updates (`update.go`) | none | RFC 2136 messages | Manager calls |
| server (`server*.go`) | two listeners, two servers | Start, Stop, client, lookups | two serving goroutines |
| bbolt store (`store/bbolt`) | two buckets of a file, a revision in memory | as the in-memory store | one or two transactions per call |
| `cmd/server` | configuration, admin HTTP server | open and seed the store, HTTP handlers | Manager, Server |
| `dnsclient` | none | one exchange over UDP, 5 s timeout, no retry | network |

What is hard here: nothing locks a call as a whole. The resolver's defence is the revision
counter, which every write increments after its data and every query reads before its
lookups; the Manager has no defence between its validation and its writes. Calls made of
several store calls, transactions or RRs can fail in the middle, the process can stop between
any two of them, and the goroutines of the server run when the scheduler lets them.
`PROJECT.json` lists each hazard at its line.

What makes each part correct:

- store: every visible change is followed by an increment, and no record is left in a zone
  that is not listed;
- index and cache: what is used at a revision is right for that revision;
- resolver: the sections it returns are those of a fixed definition, and every query ends;
- Manager: zones obey the validation rules, an RRset is replaced entirely or not at all;
- batches: what was previewed is what is done;
- bbolt store and its server: no committed change stays unannounced, a restart forgets
  whatever was compared with the old revision, and the seed is complete before serving;
- updates, client, HTTP: the reply tells what was done;
- lifecycle: a stopped server has left nothing behind, and Stop returns.

## Modules

- **DnsRecords** holds the data and the pure functions. A name is the sequence of its labels
  from the top-level label down (the order of `reverseDNSName`), so `dns.IsSubDomain` is the
  prefix relation. The root name `.` stands for every empty or missing name. `Lower` folds
  case, `Canon` is what `dns.NewRR` followed by `String` makes of data, `BadData` what it
  refuses, `Rank` the order of `CompareRecordsByData`. Slices that the code sorts or searches
  are sets. `Key` is the identity of a record; its 64-bit fingerprint is taken as injective.
- **MemoryStore** has `zones`, `records`, `revision`, and `call`, the position of every
  writing goroutine in its method. One action is one access to a shared structure:
  `SaveRecord` saves the zone, `PutRecord` the record, `Bump` increments; `DeleteZone`,
  `ListRows`, `DropRow` for each row, `Bump`.
- **Resolver** adds the index (`zoneIndex`, `zonesLoaded`, `zonesVersion`), the `cache` and
  `query`, the position and locals of every goroutine in `Resolve`. `Resolve` is the entry
  with the first read of the revision; `UseIndex`, `ScanShard`, `InstallIndex` are
  `matchZone`; `ReadKey`, `CacheGet`, `CacheSet` the cache; the `Lookup...` actions the
  resolution, one store access each; `Reply` is `ServeDNS`. A result of SERVFAIL without the
  authoritative bit is an error return of `Resolve`. `reads` in a query and an entry and
  `zone` in an entry are history that no step reads.
- **Manager** adds `task`, the position of every goroutine in a Manager method, above the
  store call it is in. `ListKeys` and `ReadRow` are `ListRecords`, row by row. `StoreFails` ends
  a method with the error of a transaction: one that reads, the first or only one of a writing
  call, or the second of SaveRecord or DeleteZone. The in-memory store has no errors, so it is
  not a step of the Manager's own specifications but of the handlers'. `Tasks` is the
  type of what a method holds; `ArgumentsAssumption` (and `BatchesAssumption` in Changes) says
  that `Zones` and `Records`, which the types are made of, contain what the arguments name.
- **Changes** adds `batch`, the position in `ApplyChanges`, above the Manager call it is in.
  `base` and `trail` are history. `PreviewChanges` and `ValidateChanges` are the steps up to
  `ValidatePreview`.
- **CacheTTL** is `cacheTTLFor`, RR by RR: how long an entry of the cache of Resolver, where
  an entry may leave at any time, is really kept. It adds no step; its properties are about
  every entry and every order of the RRs of its sections.
- **Repository** is the abstract store, what the resolver relies on when it caches: a change
  makes its zone `busy`, only an increment of the revision makes it quiet again, and a restart
  sets the revision to 0. Nothing is said of which change a call makes.
- **MemoryRepository** maps MemoryStore to Repository: a zone is busy while a call is in it.
- **BboltStore** replaces the actions of MemoryStore by those of the bbolt store, one per
  transaction, over the same variables. `Fallible` names the calls whose second transaction
  may fail (a first one that fails changes nothing and is no step); `Unannounced` is the
  mapping to `busy`, and `stale`, which no step reads, its part that failed calls have left.
- **BboltServer** composes BboltStore and Resolver into the process of `cmd/server`: `Open`,
  `SeedZone`, `SeedRecord`, `Serve` are `openStore` with `ApplySeedData`; `Crash` ends the
  process anywhere and keeps the two buckets only; `ReadFails` fails any read of a query.
- **Update** adds `update`, the position of every goroutine in `serveUpdate`, above the
  Manager call it is in. `HandlerFails` is a transaction of the store that fails within an RR.
  `before` and `broken` (the store has failed) are history.
- **Client** adds the network and one client: `Exchange`, `Receive`, `LoseRequest`, `Respond`
  (which the client may never see) and `Timeout`. `expected` and `doubtful` are what the
  client may conclude, and are history. Data is sent as the library prints it (`Canon`).
- **Admin** adds `admin`, the position of every goroutine in an HTTP handler. `cmd/server`
  gives it the bbolt store only, so any transaction may fail: within a method of the Manager
  (`ManagerFails`), or where the method begins with it (`FirstTransactionFails`). What does not
  fail is made of the steps of MemoryStore: they are finer than the transactions and differ
  from them in when the revision is incremented, which no handler reads. `broken`,
  `zonesBefore` and `recordsBefore` are history.
- **FrontEnds** composes Update and Admin over one Manager and one store that may fail at any
  time and any number of times: a goroutine serves a message or a request at a time.
- **ServerLifecycle** stands by itself: the fields of Server, the sockets, and the goroutines
  that `Start` spawns. What `ActivateAndServe` and `Shutdown` of `dns.Server` do is external.
- **MemoryStoreProofs**, **ResolverProofs**, **ResolutionProofs**, **CacheTTLProofs**,
  **BboltProofs**, **ManagerProofs**, **EffectProofs** and **ServerLifecycleProofs** hold the
  theorems; each extends the modules it is about. EffectProofs is about what a call of the
  Manager makes of the store, and with it about Update, Admin, Changes and Client.
- **MCResolver**, **MCManager**, **MCChanges**, **MCBbolt**, **MCFrontEnds** and **MCClient**
  give the constants their values. ServerLifecycle has numbers only and is run as it is.

What extends what: DnsRecords, MemoryStore, then on the one side Resolver (then CacheTTL) and,
with BboltStore, BboltServer; on the other Manager, then Changes, Update and Admin, and over
these Client (Update) and FrontEnds (both).

Definitions marked as mutants are faulty variants, each a plausible mistake in the definition
after it; they are used only to see that the properties notice: put in its place, each one
makes TLC find a violation of the property it is meant for.

## Runs

| Run | Bounds | Shows |
|---|---|---|
| `resolver_flat` | 2 readers (symmetric), 1 writer with 2 calls, 2 sibling zones, alias and target, capacity 1 | index, cache and answers are those of the store |
| `resolver_sections` | all 1024 stores over 10 records with TTLs 0, 1, 3, 6, 8 questions, alias bound 3, no writes; maximum TTL 4, negative TTL 2 | the lookups compute the reference answer, errors included; the lifetime of an entry |
| `resolver_progress` | 1 reader, 2 writers with a call each or one with both, a zone in a zone, none, two or all of the three aliases of a loop stored at the start, alias bound 2 | types, index and cache with overlapping writes, every query ends, MemoryStore implements Repository |
| `resolver_zone_race` | 1 reader, 1 writer with 2 calls, nested zones | violation of `AnswerExact`, see below |
| `manager_duo` | 2 goroutines, 3 calls, every method | SOA placement, every call returns |
| `changes_batch` | 1 goroutine, every batch of 1 or 2 out of 15 changes and of 3 out of 12, 4 stores | the store follows the preview; validity at every step, RRsets whole, no record without its zone |
| `changes_race` | 2 goroutines, 2 batches of one change | violation of `BatchComplete` |
| `bbolt_restart` | 2 writers with 2 calls, 1 reader, 2 crashes, 1 failed transaction, 1 failed read | index, cache and answers are right, the store implements Repository, the seed is complete whenever the server serves |
| `requests` | 1 goroutine, 2 of 19 HTTP requests and a message of 2 out of 11 or 3 out of 5 RRs, in any order, 2 stores, any transaction may fail | what a message leaves, whether it succeeds or fails; the status is the truth, and a write that the store interrupts is made in its order |
| `client_faults` | 2 exchanges of 8 requests about 2 names, 2 server goroutines (symmetric) | answered requests hold |
| `lifecycle` | 3 Starts, 4 Stops | no goroutine meets the wrong server, stopped is quiet, Stop returns |
| `lifecycle_restart` | 2 Starts, 2 Stops | violation of `AlreadyStartedServes` |

Why the bounds are enough. A stale index or entry needs a query that started before a write
and one that uses its result after it: two readers (or one, twice), two writes and a cache
that holds one entry show every order of those events; `resolver_progress` adds the overlap
of two writers. `InitStores` are stores that `InitRevision` earlier calls can have left. Two
shards are what a torn zone listing needs. An alias bound of 2 or 3 (the code has 8 unless
`WithMaxCNAMEChain` says otherwise) reaches the bound, a loop and a chain that leaves the
zone. In `manager_duo` two goroutines and three calls contain every overlap of two calls with
something stored before. Three changes are a repair, a conflict and one more zone; every rule
of `validateZoneRecords` that one goroutine's upsert can break is broken by one of them.

`bbolt_restart` needs a crash while seeding and one while serving (two), a failed transaction
and a query before and after; the initial file is empty or left by an earlier run. In
`client_faults` a second exchange overlaps a first that has timed out, and the two names show
that one does not disturb the other; with three exchanges (6.9 million states) the result is
the same. `requests` has one goroutine because with two "nothing has changed" is not the
handler's to promise. The TTLs put a zero before, between and after TTLs on both sides of the
maximum. Three Starts and four Stops contain a Stop that fails, one that shuts down the rest,
and another Start after each.

`MaxCalls`, `MaxOperations`, `MaxBatches`, `MaxMessages`, `MaxExchanges`, `MaxRequests`,
`MaxStarts`, `MaxStops`, `MaxCrashes`, `MaxFaults` and `MaxReadFaults` bound counters; the
resolver runs keep asking questions for ever, and in the others `Rest` stands for the idle
goroutines after the bound, so that deadlocks are looked for in every run.

Fairness. `FairSpec` and `ManagerFairSpec` assume weak fairness of each goroutine's own
steps: the Go scheduler runs every runnable goroutine, the locks are held for single map
accesses, and no step waits for another goroutine. Nothing is assumed of writers in
`FairSpec`, of new calls, or of eviction. `LifecycleFairSpec` assumes that Stop and the
goroutines of the server run and that handlers return (the library waits for them, and they
make only calls that end); it does not assume that requests come or that reads fail.

## Refinement

`Repository` says all that the proof of the cache uses of a store: changes are confined to
busy zones, and a zone leaves `busy` only with an increment. `MemoryImplementsRepository`
(`busy` is the zones with a call in them) and `BboltImplementsRepository` (`busy` is
`Unannounced`) are checked by TLC as properties and proved. The bbolt store implements it
across crashes, failed reads and failed SaveRecords; a DeleteZone whose second transaction
fails leaves its zone busy until the next increment, and the properties of the index, the cache
and the answers say nothing of that zone meanwhile. That a busy zone becomes quiet again is not
part of Repository: calls that overlap without end can keep a zone busy.

## What the runs found

- `resolver_zone_race`: `Resolve` reads the revision in `matchZone` (`resolver.go:196`) and
  again for the cache key (`resolver.go:172`). A zone that appears below the matched zone
  between the two reads makes it cache the outer zone's answer under the new revision, and
  later queries get that answer although the write is over. `resolver_flat` shows that with
  zones that do not contain each other this cannot happen.
- `changes_race`: a batch is validated against the store and applied later
  (`manager_change.go:78`), and deletions are not validated again, so that one batch can take
  the apex NS away while another adds the SOA that needs it. An upsert is validated again, but
  not together with its save (`manager.go:127`): an alias and an address upserted at once for
  one name are both stored.
- `lifecycle_restart`: `Start` returns before its goroutines have activated their servers; a
  Stop that comes first gets the library's error (`server_lifecycle.go:64`) and leaves both
  fields set although it may have shut one server down (`server_lifecycle.go:70`). The next
  one fails for that server, and in the end neither Start nor Stop ever succeeds again.

The other properties are stated around behaviour of the code that a reader may not expect:

- A seed is validated without the stored records (`manager.go:219`), so that an alias of the
  seed may be stored beside an address. `ZonesValid` is checked without imports.
- The status 400 does not say that nothing has been written (`cmd/server/http.go:88`, `:180`):
  the store may fail after some of the saves of an import (`bootstrap.go:103`), after
  `DELETE /zones` has removed the zone but not its records (`store/bbolt/store.go:120`), after
  `PUT /records` has saved the zone of the record (`store/bbolt/store.go:178`). What `StatusTruthful`
  says of such an answer (`Interrupted`) is that nothing else was touched and that the part
  which was made is one in the order of the code: no record before all zones, and a part of the
  records only of a seed. A request that did not meet a failing transaction and is not answered
  200 has written nothing.
- The preview of a batch keeps the TTL that is stored (`validation.go:82`), the application
  replaces it; `AppliedMatchesPreview` therefore compares keys. The preview also differs when
  an RRset mixes classes (only the first record's class is replaced in the preview, every class
  in the store), when a set change names type ANY, and when the zone of a record change is not
  the zone of its record (the preview works on the former, the call on the latter). The batches
  of `changes_batch` do none of this; `PlainBatches` of EffectProofs says so for the proofs.
- The preview of `delete_rrset` compares the type of a record with the type of the change
  (`manager_validation.go:266`), the call looks the type up (`manager_rrset.go:110`), where ANY
  is every type. The batch that deletes type ANY at an apex with an NS and then upserts the SOA
  passes validation with the NS still in its copy, succeeds, and leaves an SOA without an NS:
  `BatchComplete` broken by one batch alone. TLC finds it with that batch as `Batches` and that
  NS in the store.
- DeleteZone of the bbolt store removes the zone, then its records, then increments
  (`store/bbolt/store.go:105`). An error in between returns without an increment, and the
  resolver serves the deleted zone from its index and cache until another write. A crash there
  is harmless to the resolver, which starts empty; the records stay in the file and are
  served again when the zone is saved again.
- The RRs of a failed update that came before the failing one stay applied (`update.go:72`),
  where RFC 2136 asks for all or nothing. `UpdatePrefix` is what does hold. When the store
  fails inside one RR, the deletion of an RRset or of a name may be made in part too, since
  every record is a transaction of its own (`manager_rrset.go:164`).
- The client sends data as the library prints it (`server_client.go:90`), the server deletes by
  the text; a record that was stored in another form stays, and the reply is SUCCESS. The data
  of `client_faults` is printed as it is.
- `TTLAfterLastZero` records what `cacheTTLFor` computes: a TTL of zero makes it forget the
  TTLs before it. `ServedWithinTTL` is therefore stated for responses without a zero.

`RecordsHaveZone` is checked for one goroutine only. With two, a SaveRecord interrupted by a
DeleteZone of its zone leaves an orphan record; the repository does not promise otherwise.

## Proofs

The theorems hold for all constants that satisfy the named assumptions: any number of readers,
writers, zones, records, questions, calls, crashes and faults, any alias bound and capacity.

| Module | Theorem | States | Hypotheses |
|---|---|---|---|
| MemoryStoreProofs | `MemoryStoreImplementsRepository` | `StoreSpec => MemoryImplementsRepository` | |
| ResolverProofs | `TypeCorrect` | `Spec => []TypeOK` | |
| | `IndexIsCurrent` | `Spec => []IndexCurrent` | |
| | `CacheIsCurrent` | `Spec => []CacheCurrent` | |
| ResolutionProofs | `CacheIsExact` | `Spec => []CacheExact` | |
| | `AnswerIsExact` | `Spec => []AnswerExact` | `OneZoneAbove` |
| CacheTTLProofs | `LastZeroCounts` | `Spec => []TTLAfterLastZero` | |
| | `NothingOutlivesItsTTL` | `Spec => []ServedWithinTTL` | |
| | `LifetimeIsBounded` | `Spec => []ServedWithinBound` | |
| BboltProofs | `BboltStoreImplementsRepository` | `ServerSpec => BboltImplementsRepository` | |
| | `IndexIsFresh` | `ServerSpec => []IndexFresh` | |
| | `CacheIsFresh` | `ServerSpec => []CacheFresh` | |
| | `AnswerIsFresh` | `ServerSpec => []AnswerFresh` | `OneZoneAbove` |
| | `SeedIsServed` | `ServerSpec => SeedServed` | |
| ManagerProofs | `ManagerTypeCorrect` | `... => []ManagerTypeOK` | |
| | `SOAIsPlaced` | `... => []SOAPlaced` | `InitPlaced` |
| | `RRSetIsAllOrNothing` | `... => []RRSetAllOrNothing` | `OneGoroutine` |
| | `RRSetIsReplaced` | `... => []RRSetReplaced` | `OneGoroutine` |
| | `ZonesAreValid` | `... => []ZonesValid` | `OneGoroutine`, `InitValid`, no `ImportSeedData` |
| | `RecordsAreHomed` | `... => []RecordsHaveZone` | `OneGoroutine` |
| EffectProofs | `UpdateIsPrefix` | `FrontSpec => []UpdatePrefix` | `OneGoroutine` |
| | `StatusIsTruthful` | `FrontSpec => []StatusTruthful` | `OneGoroutine` |
| | `BatchIsPreviewed` | `ChangesSpec => []AppliedMatchesPreview` | `OneGoroutine`, `PlainBatches` |
| | `BatchIsComplete` | `ChangesSpec => []BatchComplete` | `OneGoroutine`, `PlainBatches` |
| | `AcknowledgedRowsHold` | `ClientSpec => []AcknowledgedHolds` | `PlainRequests` |
| ServerLifecycleProofs | `LifecycleTypeCorrect` | `LifecycleSpec => []LifecycleTypeOK` | |
| | `GoroutineFindsItsServer` | `LifecycleSpec => []FindsItsServer` | |
| | `StoppedServerIsQuiet` | `LifecycleSpec => []StoppedIsQuiet` | |

In ManagerProofs `...` is `ManagerSpec \/ ChangesSpec`: calls of the methods, or batches.

Assumptions on the constants. The initial stores are sets of normalized records with one
record per key (`InitAssumption`), bounds are natural numbers, every zone has a shard, of
finitely many zones or records one is the longest or the last (`LongestAssumption`,
`RankAssumption`), texts are sequences of labels and folding a label twice is folding it once
(`RawAssumption`, `LowerAssumption`), and the arguments are from the universe of zones and
records (`ArgumentsAssumption`, `BatchesAssumption`, `MessagesAssumption`,
`RequestsAssumption`, `ExchangesAssumption`, `ServerAssumption`); the requests of the client have
finitely many records (`ClientAssumption`). CacheTTL needs finitely many records
(`FiniteAssumption`), since the RRs of an answer are a sequence. TLC evaluates each on every run
that reaches it.

Hypotheses of a theorem. `OneZoneAbove`: no question lies under two zones. The cache key does
not name the zone, and `resolver_zone_race` is the counterexample with two. `OneGoroutine`: the
application calls the Manager from one goroutine. No lock spans a call; `changes_race` is a
counterexample with two. `PlainBatches`: a record change names no other zone than its record's,
no set is of type ANY, and records do not differ in class. Each of the three is needed:
`AppliedMatchesPreview` fails without it, for a batch of one or two changes. `PlainRequests`: the
records of a request are of class IN, are printed by the library as they are, and have one key
each (besides being of the name that the request is about, which is how `Requests` are given).
Each of the three is needed: without it TLC finds a request that is answered SUCCESS and
not kept (`Msg.Insert` gives every RR the class IN; the text is rewritten; of two records with
one key and different TTLs the last RR wins). The requests of `client_faults` are plain.
`InitValid`, `InitPlaced`: the store obeys the rules at the start.
`ImportSeedData` validates a seed without the store, so `ZonesValid` is not its to keep.

**Stores.** A writing call has one zone, which its record and its rows belong to. Each step
either changes only that zone, which is busy from then on, or increments the revision
(`CallsInOneZone` and the shape of `call` make this inductive). That is the whole of
Repository; for the bbolt store `Unannounced` takes the place of the busy zones.

**Index and cache.** An index or entry is judged when its revision is the store's, but it is
built by a query whose earlier reads may already be out of date. So the invariant speaks of the
queries under way: as long as the revision a query has read is still the store's, every shard
it has scanned and every lookup it has made is what the store holds now, except in zones that
a writer is busy in (`StillTrue`, `QueryInv`, `EntryInv`). It is inductive because a step of the
store either increments the revision, which makes the claim void (`Announces`), or changes only
a busy zone (`Hides`). That is why the increment must come last in every writing method.

**Sections of an answer.** `CacheExact` compares with `ZoneAnswer`, which follows the aliases of
a store by a function on their number (`Links`). `ExactInv` says: for every store with which the
lookups of a query agree, the query is on its way to that store's answer, on a link of its
chain, or with the sections it has read. Facts about chains are proved by least counterexample
(from `WFMin`), since the induction theorems cannot be applied. The proof corrected the
reference definition: a chain that reaches the bound gets the authoritative SERVFAIL only when
the aliases on it can be parsed, and an error before that otherwise.

**Answers.** At one revision the set of busy zones only grows, so when the store is quiet at the
end of a query it was quiet since the query read its revision (`AnswersInv`). With one zone
above each question the index, the entry and the lookups are then all of one store.

**Bbolt server.** The lemmas about queries hold with the unannounced zones as the open ones; a
restart empties index and cache with the revision. While the seed is applied only `Main`
writes, so every record of it is still to be saved, in `Main`'s call, or stored.

**Manager.** `ManagerInv`, for any number of goroutines: types, one record per key, and the
shape of what a method holds (`TaskShape`, `CallShape`). For `SOAPlaced`, what a goroutine is
about to put was in the preview, or the stored record of its key was, however torn the listing.
For one goroutine `SoloOK` says what it knows of the store: the rows read are the store's,
while it deletes the old set the rest of it is among its `drops`, while it upserts the new one
the set is what it has upserted, and from the first validation on the zone with the new set in
place of the old one is valid (`Fits`). `Fits` is what makes the later validations succeed;
`RRSetAllOrNothing` by itself is not inductive. `ZonesValid` needs that what is yet to be put
was validated against the zone as it is, and that a set with the same keys is as valid
(`ValidByKeys`), because the preview keeps the old record of a key and the store the new one.
`RecordsHaveZone` needs that the records of an unlisted zone are those that `DeleteZone` has
yet to drop.

**What a call makes.** The properties of the handlers and of batches compare the store at the
end of a call with the store at its start, many steps earlier. So EffectProofs defines at every
step what the store is bound to be when the call is over: `RecordsDue` and `ZonesDue`, computed
from the store, the store call under way (`Landing`) and what the Manager method still holds.
Each step of the call leaves them as they are (`Leads`, for each of its steps), the first step
makes them the change (`Bound`), and when the call is finished they are the store itself
(`FinishedDue`). A call whose validation has failed, or that has only listed so far, has
written nothing (`Untouched`). For a transaction that fails, the invariant says besides what a call has
made so far: wherever it can be cut off, the records are those that it found, or while it
deletes a set, fewer (`Kept`); an import has lost none, and has written none before its zones
are all there (`Seeded`). `WorkKeeps` and `WorkSeeds` show this for each step of a call,
`StoreFailsAt` what it means for each call that is cut off. Of the store this needs `SoloOK`: the rows that a
deletion has found are the store's.

**Handlers.** `FrontInv` says of each goroutine in a call that what the store is bound to be is
the effect of the RRs so far (`UpdateOK`), or the whole of the HTTP request (`AdminOK`), and
between calls that it is so; once the store has failed, that an update has left a part of the
RR it stopped at (`Torn`), an HTTP write a part of itself in its order (`Interrupted`).
`AfterRRs` is a recursive function, whose values are obtained by
least counterexample. A listing is read row by row, and is the store's since nobody else writes.

**Batches.** The invariant joins preview and application. `Seen` is the copy of a zone after k
changes. Until the preview is over the copies before the first change are the store's, and each
later one is made from the one before (`PreviewStep`); after n changes have been applied the
copies after n are the store's (`AllShown`), and within a call they are what the store is bound
to be. The core is a lemma about one change (`MadeShown`): what the call makes of the zone is,
key by key, what the preview makes of its copy, and no other zone is touched. A batch that
succeeds has reached the last copies, which `validatePreviewZoneStates` has passed
(`StatesValid`), and validity depends on keys only (`CompleteByKeys`); of a zone that the batch
has deleted no record is left, by `RecordsAreHomed`.

**Client.** `AcknowledgedRowsHold` is about any number of server goroutines. Two rows of the
store do not meet: a call that an update message makes reads and writes the row of its RR only
(`WorksOn`), and all RRs of a message of the client are of one row (`MessageIn`). What the store
is bound to be is therefore determined in that row whatever happens in the others (`DueLocal`,
`KnownLocal`), so that the argument for one goroutine can be made row by row. `ClientInv` says
that every message under way is of the exchange at hand or about a row in doubt (`Carries`),
that no two packets or goroutines carry one message (`OneCarrier`), and that in every row not
in doubt the store is as expected, except in the row of the exchange at hand, where it is what
the RRs so far have made of it (`RowsFollow`). That all RRs together make what the method
promises is a lemma about messages (`PromiseKept`), whatever the order of the RRs.

**Lifetimes.** The fold of `cacheTTLFor` is compared with the least TTL after the last zero at
each prefix of the RRs; the first prefix at which they differ cannot exist.

**Lifecycle.** Only the servers that the two fields name can have a socket, a flag, a goroutine
or a handler left, and a Stop that has not failed so far knows that the servers it is done with
are quiet (`LifecycleInv`).

The invariants of the Manager, the handlers, the batches and the client were checked by TLC on
small instances before they were proved.

Only model-checked: the properties under fairness (`QueryTerminates`, `CallsReturn`,
`StopReturns`), which the prover does not reason about.

## Not modelled

- The reads of the client and of Server (`Query`, the typed lookups): they return the answer
  section of one exchange, whatever its rcode, and change nothing.
- The grouping of a snapshot into RRsets, which changes nothing either.
- The listener of the admin server, the configuration and the wiring of `cmd/server`: they are
  calls of net/http, configx and dix with no state of their own. dix stops the components in
  an order of its own choosing, which the code in this repository does not fix.
- A datagram that arrives twice; errors of the in-memory store, which has none; a first
  transaction that fails in BboltServer, where it changes nothing and nobody looks at the
  error (the handlers do, and have it); failing transactions under batches, which `cmd/server`
  does not call, and under the client, whose promise leaves out the rows of every request that was not
  answered SUCCESS; contexts
  and logging; the collision of two fingerprints.
- A Server without a Manager (`update.go` has branches for it): every Server with a
  repository makes itself one.
- Start and Stop from two goroutines at once: the fields have no lock, and the code calls
  them from one.

## Plan

Done in this order: records, store, resolver, Manager, batches, the proofs of the index and
the cache; then the repository contract, the bbolt store and its server, dynamic updates, the
client, the HTTP handler, the cache TTL, the lifecycle, and batches at once. Then the
proofs: lifecycle, the refinements of Repository, the resolver's answers, the bbolt server, the
Manager, the lifetimes of cached responses, the two handlers, the batches, the client. Every
safety property that a passing run checks is now a theorem.

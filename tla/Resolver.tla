------------------------------ MODULE Resolver ------------------------------
(***************************************************************************)
(* Resolver over a MemoryStore: goroutines answer questions while others   *)
(* write.  A query reads the revision, matches a zone through the shared   *)
(* zone index (rebuilding it when its version is not that revision), reads *)
(* the revision again for the cache key, and on a miss performs one store  *)
(* lookup after another, each of them a step between which writers run.    *)
(*                                                                         *)
(* Sections are sets of RRs.  Two fields are history, never read by a step:*)
(* reads, the lookups a resolution made with what they found, and the zone *)
(* of a cache entry.                                                       *)
(***************************************************************************)
EXTENDS MemoryStore

CONSTANTS
    Readers,          \* goroutines in ServeDNS
    Questions,        \* raw questions: name, type and class
    MaxCNAMEChain,    \* Resolver.maxCNAMEChain
    Capacity,         \* CacheConfig.Capacity, at least 1 after newResponseCache
    Shards,           \* number of shards of the zone map
    ShardOf           \* the shard of every zone

ASSUME ResolverAssumption ==
    /\ MaxCNAMEChain \in Nat \ {0}
    /\ Capacity \in Nat \ {0}
    /\ Shards \in Nat \ {0}
    /\ ShardOf \in [Zones -> 0 .. Shards - 1]
    /\ \A q \in Questions : q = [name |-> q.name, type |-> q.type, class |-> q.class]

\* There are finitely many zones: of those above a name, one is the longest.
ASSUME LongestAssumption ==
    \A index \in SUBSET Zones : index # {} =>
        \E z \in index : \A y \in index : Len(y) <= Len(z)

VARIABLES
    zoneIndex,      \* Resolver.zones
    zonesLoaded,    \* Resolver.zonesLoaded
    zonesVersion,   \* Resolver.zonesVersion
    cache,          \* Resolver.cache: a set of entries, one per key
    query           \* the Resolve call each reader is in

resolverVars == <<zoneIndex, zonesLoaded, zonesVersion, cache, query>>
vars == <<zones, records, revision, call,
          zoneIndex, zonesLoaded, zonesVersion, cache, query>>

Resolution(rcode, answer, authority, extra) ==
    [rcode |-> rcode, answer |-> answer, authority |-> authority,
     extra |-> extra, authoritative |-> TRUE]

\* The answers that carry no section and no authority.
Unanswered(rcode) ==
    [rcode |-> rcode, answer |-> {}, authority |-> {}, extra |-> {},
     authoritative |-> FALSE]

NoQuestion == [name |-> Root, type |-> "none", class |-> "none"]

NoQuery ==
    [pc |-> "idle", question |-> NoQuestion, revision |-> 0, shard |-> 0,
     seen |-> {}, zone |-> NoZone, key |-> 0, current |-> Root, target |-> Root,
     hops |-> 0, visited |-> {}, todo |-> {}, reads |-> {},
     result |-> Unanswered("SUCCESS")]

ResolverInit ==
    /\ zoneIndex = {}
    /\ zonesLoaded = FALSE
    /\ zonesVersion = 0
    /\ cache = {}
    /\ query = [p \in Readers |-> NoQuery]

Init == StoreInit /\ ResolverInit

-----------------------------------------------------------------------------
(* Matching the zone. *)

\* Resolve returns, with a result for ServeDNS to write.
Returned(q, result) ==
    [NoQuery EXCEPT !.pc = "done", !.question = q.question, !.revision = q.revision,
                    !.result = result]

\* Resolve returns an error: ServeDNS writes SERVFAIL and nothing is cached.
Failed(q) == Returned(q, Unanswered("SERVFAIL"))

\* Resolve with the zone that matchZone has found in an index.
Matched(q, index) ==
    LET zone == MatchZone(index, q.question.name)
    IN  IF zone = NoZone THEN Returned(q, Unanswered("REFUSED"))
        ELSE [q EXCEPT !.pc = "key", !.zone = zone]

Resolve(p, raw) ==
    LET question == [raw EXCEPT !.name = Fold(@)]
        q        == [NoQuery EXCEPT !.question = question, !.revision = revision]
    IN  /\ query[p].pc = "idle"
        /\ query' = [query EXCEPT ![p] =
                        IF question.name = Root THEN Returned(q, Unanswered("FORMERR"))
                        ELSE [q EXCEPT !.pc = "index"]]
        /\ UNCHANGED <<storeVars, zoneIndex, zonesLoaded, zonesVersion, cache>>

UseIndex(p) ==
    /\ query[p].pc = "index"
    /\ query' = [query EXCEPT ![p] =
                    IF zonesVersion = query[p].revision /\ zonesLoaded
                    THEN Matched(query[p], zoneIndex)
                    ELSE [query[p] EXCEPT !.pc = "scan"]]
    /\ UNCHANGED <<storeVars, zoneIndex, zonesLoaded, zonesVersion, cache>>

\* ListZones reads the zone map shard by shard.
ScanShard(p) ==
    LET q == query[p]
    IN  /\ q.pc = "scan"
        /\ query' = [query EXCEPT ![p] =
               [q EXCEPT !.seen = q.seen \cup {z \in zones : ShardOf[z] = q.shard},
                         !.shard = q.shard + 1,
                         !.pc = IF q.shard + 1 = Shards THEN "install" ELSE "scan"]]
        /\ UNCHANGED <<storeVars, zoneIndex, zonesLoaded, zonesVersion, cache>>

\* Mutant: the version is the revision at the end of the scan.
InstallIndexLate(p) ==
    /\ query[p].pc = "install"
    /\ zoneIndex' = query[p].seen
    /\ zonesLoaded' = TRUE
    /\ zonesVersion' = revision
    /\ query' = [query EXCEPT ![p] =
                    [Matched(query[p], query[p].seen) EXCEPT !.seen = {}, !.shard = 0]]
    /\ UNCHANGED <<storeVars, cache>>

InstallIndex(p) ==
    /\ query[p].pc = "install"
    /\ zoneIndex' = query[p].seen
    /\ zonesLoaded' = TRUE
    /\ zonesVersion' = query[p].revision
    /\ query' = [query EXCEPT ![p] = 
                    [Matched(query[p], query[p].seen) EXCEPT !.seen = {}, !.shard = 0]]
    /\ UNCHANGED <<storeVars, cache>>

-----------------------------------------------------------------------------
(* The response cache. *)

ReadKey(p) ==
    /\ query[p].pc = "key"
    /\ query' = [query EXCEPT ![p].key = revision, ![p].pc = "get"]
    /\ UNCHANGED <<storeVars, zoneIndex, zonesLoaded, zonesVersion, cache>>

\* queryCacheKey: the zone that matched is not part of it.
CacheKey(q) == <<q.key, q.question>>
EntryKey(e) == <<e.key, e.question>>

\* resolveAuthoritative up to its first lookup.
Missed(q) ==
    CASE q.question.class \notin {"IN", "ANY"} ->
            [q EXCEPT !.pc = "set", !.result = Resolution("NOTIMP", {}, {}, {})]
      [] q.question.class \in {"IN", "ANY"} /\ q.question.type = "ANY" ->
            [q EXCEPT !.pc = "any"]
      [] OTHER -> [q EXCEPT !.pc = "exact"]

CacheGet(p) ==
    LET hits == {e \in cache : EntryKey(e) = CacheKey(query[p])}
    IN  /\ query[p].pc = "get"
        /\ \/ \E e \in hits :
                 query' = [query EXCEPT ![p] = Returned(query[p], e.result)]
           \/ hits = {} /\ query' = [query EXCEPT ![p] = Missed(query[p])]
        /\ UNCHANGED <<storeVars, zoneIndex, zonesLoaded, zonesVersion, cache>>

\* Mutant: the entry is filed under the revision at the end of the resolution.
CacheSetLate(p) ==
    LET q     == query[p]
        entry == [key |-> revision, question |-> q.question, zone |-> q.zone,
                  reads |-> q.reads, result |-> q.result]
    IN  /\ q.pc = "set"
        /\ cache' = {entry}
        /\ query' = [query EXCEPT ![p] = Returned(q, q.result)]
        /\ UNCHANGED <<storeVars, zoneIndex, zonesLoaded, zonesVersion>>

\* freezeResolution and Cache.Set.  cacheTTLFor is never zero, so every resolution is
\* stored; it replaces the entry of its key, and a full cache drops some other entry.
CacheSet(p) ==
    LET q      == query[p]
        entry  == [key |-> q.key, question |-> q.question, zone |-> q.zone,
                   reads |-> q.reads, result |-> q.result]
        others == {e \in cache : EntryKey(e) # CacheKey(q)}
    IN  /\ q.pc = "set"
        /\ \E kept \in SUBSET others :
              /\ kept = others \/ Cardinality(kept) = Capacity - 1
              /\ Cardinality(kept) < Capacity
              /\ cache' = kept \cup {entry}
        /\ query' = [query EXCEPT ![p] = Returned(q, q.result)]
        /\ UNCHANGED <<storeVars, zoneIndex, zonesLoaded, zonesVersion>>

\* An entry expires, or the eviction algorithm of the cache picks it.
Evict ==
    /\ \E e \in cache : cache' = cache \ {e}
    /\ UNCHANGED <<storeVars, zoneIndex, zonesLoaded, zonesVersion, query>>

-----------------------------------------------------------------------------
(* The authoritative answer: one lookup, one step. *)

\* What the reader's next lookup finds, and the query with that lookup noted.
Find(q, name, type) == LookupIn(records, q.zone, name, type, q.question.class)

Noted(q, name, type) ==
    [q EXCEPT !.reads = @ \cup {[name |-> name, type |-> type,
                                 found |-> Find(q, name, type)]}]

\* A step that makes one lookup and leaves the query as q.
Looked(p, q) ==
    /\ query' = [query EXCEPT ![p] = q]
    /\ UNCHANGED <<storeVars, zoneIndex, zonesLoaded, zonesVersion, cache>>

\* additionalRecords with the targets of the answer q has by now.
Completed(q) ==
    LET targets == AdditionalTargets(q.zone, q.result.answer)
    IN  [q EXCEPT !.todo = targets, !.target = Root,
                  !.pc = IF targets = {} THEN "set" ELSE "extraA"]

\* successResolution of the records found.
Success(q, found) ==
    IF ~Parsable(found) THEN Failed(q)
    ELSE Completed([q EXCEPT !.result = Resolution("SUCCESS", RRs(found), {}, {})])

\* serverFailureResolution: a loop, or a chain that is too long.
ServerFailure(q) == [q EXCEPT !.pc = "set", !.result = Resolution("SERVFAIL", {}, {}, {})]

\* resolveAny
LookupAny(p) ==
    LET q     == Noted(query[p], query[p].question.name, "ANY")
        found == Find(query[p], query[p].question.name, "ANY")
    IN  /\ query[p].pc = "any"
        /\ Looked(p, IF found = {} THEN [q EXCEPT !.pc = "negative"]
                                   ELSE Success(q, found))

\* resolveExact
LookupExact(p) ==
    LET name  == query[p].question.name
        q     == Noted(query[p], name, query[p].question.type)
        found == Find(query[p], name, query[p].question.type)
    IN  /\ query[p].pc = "exact"
        /\ Looked(p, IF found = {}
                     THEN [q EXCEPT !.pc = "cname", !.current = name, !.visited = {name},
                                    !.result = Resolution("SUCCESS", {}, {}, {})]
                     ELSE Success(q, found))

\* nextCNAMEStep up to the target's lookup; emptyCNAMEStepResponse.
LookupCNAME(p) ==
    LET q      == Noted(query[p], query[p].current, "CNAME")
        cnames == Find(query[p], query[p].current, "CNAME")
        target == LastTarget(cnames)
        linked == [q EXCEPT !.result.answer = @ \cup RRs(cnames)]
        next   ==
            CASE cnames = {} /\ q.current = q.question.name -> [q EXCEPT !.pc = "negative"]
              [] cnames = {} /\ q.current # q.question.name -> [q EXCEPT !.pc = "soa"]
              [] cnames # {} /\ ~Parsable(cnames) -> Failed(q)
              [] cnames # {} /\ Parsable(cnames) /\ q.question.type # "CNAME"
                   /\ IsSubDomain(q.zone, target) ->
                     [linked EXCEPT !.target = target, !.pc = "target"]
              [] OTHER -> Completed(linked)
    IN  query[p].pc = "cname" /\ Looked(p, next)

\* Mutant: the bound counts one alias more.
LookupTargetOneMore(p) ==
    LET target == query[p].target
        q      == Noted(query[p], target, query[p].question.type)
        found  == Find(query[p], target, query[p].question.type)
        next   ==
            CASE found # {} -> Completed([q EXCEPT !.result.answer = @ \cup RRs(found)])
              [] found = {} /\ (target \in q.visited \/ q.hops = MaxCNAMEChain) ->
                    ServerFailure(q)
              [] OTHER -> [q EXCEPT !.pc = "cname", !.current = target, !.target = Root,
                                    !.visited = @ \cup {target}, !.hops = @ + 1]
    IN  query[p].pc = "target" /\ Looked(p, next)

\* Mutant: neither a visited name nor the bound ends the chain.
LookupTargetForever(p) ==
    LET target == query[p].target
        q      == Noted(query[p], target, query[p].question.type)
        found  == Find(query[p], target, query[p].question.type)
        next   ==
            IF found # {} THEN Completed([q EXCEPT !.result.answer = @ \cup RRs(found)])
            ELSE [q EXCEPT !.pc = "cname", !.current = target, !.target = Root]
    IN  query[p].pc = "target" /\ Looked(p, next)

\* lookupTargetAnswer, then seenCNAME and the bound of resolveCNAMEChain.
LookupTarget(p) ==
    LET target == query[p].target
        q      == Noted(query[p], target, query[p].question.type)
        found  == Find(query[p], target, query[p].question.type)
        next   ==
            CASE found # {} /\ ~Parsable(found) -> Failed(q)
              [] found # {} /\ Parsable(found) ->
                    Completed([q EXCEPT !.result.answer = @ \cup RRs(found)])
              [] found = {} /\ (target \in q.visited \/ q.hops + 1 = MaxCNAMEChain) ->
                    ServerFailure(q)
              [] OTHER -> [q EXCEPT !.pc = "cname", !.current = target, !.target = Root,
                                    !.visited = @ \cup {target}, !.hops = @ + 1]
    IN  query[p].pc = "target" /\ Looked(p, next)

\* Mutant: a name that holds other types does not exist either.
LookupNegativeAlways(p) ==
    LET q == Noted(query[p], query[p].question.name, "ANY")
    IN  /\ query[p].pc = "negative"
        /\ Looked(p, [q EXCEPT !.pc = "soa", !.result = Resolution("NXDOMAIN", {}, {}, {})])

\* negativeResponse: does the name hold any other type?
LookupNegative(p) ==
    LET name  == query[p].question.name
        q     == Noted(query[p], name, "ANY")
        found == Find(query[p], name, "ANY")
    IN  /\ query[p].pc = "negative"
        /\ Looked(p, [q EXCEPT !.pc = "soa",
                               !.result = Resolution(IF found = {} THEN "NXDOMAIN"
                                                                   ELSE "SUCCESS",
                                                     {}, {}, {})])

\* Mutant: the aliases of a terminal no-data answer get no additional records.
LookupSOAOnly(p) ==
    LET q   == Noted(query[p], query[p].zone, "SOA")
        soa == Find(query[p], query[p].zone, "SOA")
    IN  /\ query[p].pc = "soa"
        /\ Looked(p, IF ~Parsable(soa) THEN Failed(q)
                     ELSE [q EXCEPT !.result.authority = RRs(soa), !.pc = "set"])

\* authoritySOA, for negativeResponse and for cnameTerminalNoDataResponse.
LookupSOA(p) ==
    LET q   == Noted(query[p], query[p].zone, "SOA")
        soa == Find(query[p], query[p].zone, "SOA")
    IN  /\ query[p].pc = "soa"
        /\ Looked(p, IF ~Parsable(soa) THEN Failed(q)
                     ELSE Completed([q EXCEPT !.result.authority = RRs(soa)]))

\* lookupAddressRRs of one target: its A records ...
LookupA(p) ==
    \E target \in query[p].todo :
        LET q     == Noted(query[p], target, "A")
            found == Find(query[p], target, "A")
        IN  /\ query[p].pc = "extraA"
            /\ Looked(p, IF Parsable(found)
                         THEN [q EXCEPT !.pc = "extraAAAA", !.target = target,
                                        !.result.extra = @ \cup RRs(found)]
                         ELSE [q EXCEPT !.pc = "extraFail", !.target = target])

\* ... and its AAAA records; what the answer holds already is left out.
LookupAAAA(p) ==
    LET target == query[p].target
        q      == Noted(query[p], target, "AAAA")
        found  == Find(query[p], target, "AAAA")
        todo   == query[p].todo \ {target}
    IN  /\ query[p].pc \in {"extraAAAA", "extraFail"}
        /\ Looked(p, IF query[p].pc = "extraFail" \/ ~Parsable(found) THEN Failed(q)
                     ELSE [q EXCEPT !.pc = IF todo = {} THEN "set" ELSE "extraA",
                                    !.todo = todo, !.target = Root,
                                    !.result.extra = (@ \cup RRs(found)) \ q.result.answer])

\* ServeDNS writes the reply and returns.
Reply(p) ==
    /\ query[p].pc = "done"
    /\ query' = [query EXCEPT ![p] = NoQuery]
    /\ UNCHANGED <<storeVars, zoneIndex, zonesLoaded, zonesVersion, cache>>

-----------------------------------------------------------------------------
\* The steps of a query after it has been asked.
QueryStep(p) ==
    \/ UseIndex(p) \/ ScanShard(p) \/ InstallIndex(p) \/ ReadKey(p)
    \/ CacheGet(p) \/ CacheSet(p)
    \/ LookupAny(p) \/ LookupExact(p) \/ LookupCNAME(p) \/ LookupTarget(p)
    \/ LookupNegative(p) \/ LookupSOA(p) \/ LookupA(p) \/ LookupAAAA(p)
    \/ Reply(p)

Next ==
    \/ StoreNext /\ UNCHANGED resolverVars
    \/ \E p \in Readers :
          \/ \E raw \in Questions : Resolve(p, raw)
          \/ QueryStep(p)
    \/ Evict

Spec == Init /\ [][Next]_vars

\* Every goroutine that answers a query keeps running.
FairSpec == Spec /\ \A p \in Readers : WF_vars(QueryStep(p))

-----------------------------------------------------------------------------
(***************************************************************************)
(* The answer as a function of a fixed store: the definition the stepwise  *)
(* resolution is checked against.  A view v is the records of the store,   *)
(* the zone that matched and the question.                                 *)
(***************************************************************************)
Lookup(v, name, type) == LookupIn(v.records, v.zone, name, type, v.question.class)

\* The alias at a name: where it leads, whether that ends the chain, and whether the
\* chain goes on from there.
AliasTarget(v, name) == LastTarget(Lookup(v, name, "CNAME"))

LeavesZone(v, name) ==
    v.question.type = "CNAME" \/ ~IsSubDomain(v.zone, AliasTarget(v, name))

Follows(v, name) ==
    /\ Lookup(v, name, "CNAME") # {}
    /\ ~LeavesZone(v, name)
    /\ Lookup(v, AliasTarget(v, name), v.question.type) = {}

\* The names of the chain, from the question's on, and how many aliases it follows.
Links(v) ==
    LET link[k \in 0 .. MaxCNAMEChain] ==
            IF k = 0 THEN v.question.name
            ELSE IF Follows(v, link[k - 1]) THEN AliasTarget(v, link[k - 1]) ELSE link[k - 1]
    IN  link

ChainLength(v) ==
    CHOOSE k \in 0 .. MaxCNAMEChain :
        /\ \A j \in 0 .. k - 1 : Follows(v, Links(v)[j])
        /\ k = MaxCNAMEChain \/ ~Follows(v, Links(v)[k])

\* The aliases of the first names of the chain, up to the n-th.
Aliases(v, n) == UNION {Lookup(v, Links(v)[k], "CNAME") : k \in 0 .. n}

Addresses(v, names) == UNION {Lookup(v, n, "A") \cup Lookup(v, n, "AAAA") : n \in names}

\* A response with its additional section, unless an RR of it cannot be parsed.
Answered(v, rcode, answer, authority) ==
    LET extra == Addresses(v, AdditionalTargets(v.zone, RRs(answer)))
    IN  IF Parsable(answer \cup authority \cup extra)
        THEN Resolution(rcode, RRs(answer), RRs(authority), RRs(extra) \ RRs(answer))
        ELSE Unanswered("SERVFAIL")

\* The response when the name of the question has no record of its type: the chain is
\* too long or a circle, ends in an answer or outside the zone, ends without data, or
\* there is none.
AliasAnswer(v) ==
    LET length == ChainLength(v)
        last   == Links(v)[length]
        soa    == Lookup(v, v.zone, "SOA")
    IN  CASE length = MaxCNAMEChain ->
                IF Parsable(Aliases(v, MaxCNAMEChain - 1))
                THEN Resolution("SERVFAIL", {}, {}, {}) ELSE Unanswered("SERVFAIL")
          [] length < MaxCNAMEChain /\ Lookup(v, last, "CNAME") # {} ->
                Answered(v, "SUCCESS",
                         Aliases(v, length) \cup
                             IF LeavesZone(v, last) THEN {}
                             ELSE Lookup(v, AliasTarget(v, last), v.question.type), {})
          [] length \in 1 .. MaxCNAMEChain - 1 /\ Lookup(v, last, "CNAME") = {} ->
                Answered(v, "SUCCESS", Aliases(v, length), soa)
          [] OTHER ->
                Answered(v, IF Lookup(v, v.question.name, "ANY") = {} THEN "NXDOMAIN"
                                                                      ELSE "SUCCESS", {}, soa)

ViewAnswer(v) ==
    LET exact == Lookup(v, v.question.name, v.question.type)
    IN  CASE v.question.class \notin {"IN", "ANY"} -> Resolution("NOTIMP", {}, {}, {})
          [] v.question.class \in {"IN", "ANY"} /\ exact # {} ->
                Answered(v, "SUCCESS", exact, {})
          [] v.question.class \in {"IN", "ANY"} /\ exact = {} /\ v.question.type = "ANY" ->
                Answered(v, "NXDOMAIN", {}, Lookup(v, v.zone, "SOA"))
          [] OTHER -> AliasAnswer(v)

ZoneAnswer(stored, zone, question) ==
    ViewAnswer([records |-> stored, zone |-> zone, question |-> question])

Answer(listed, stored, question) ==
    LET zone == MatchZone(listed, question.name)
    IN  CASE question.name = Root -> Unanswered("FORMERR")
          [] question.name # Root /\ zone = NoZone -> Unanswered("REFUSED")
          [] OTHER -> ZoneAnswer(stored, zone, question)

-----------------------------------------------------------------------------
(* Properties. *)

Sections == SUBSET RRs(Records)

Results == [rcode : {"SUCCESS", "FORMERR", "REFUSED", "NOTIMP", "NXDOMAIN", "SERVFAIL"},
            answer : Sections, authority : Sections, extra : Sections,
            authoritative : BOOLEAN]

Asked == {NoQuestion} \cup {[raw EXCEPT !.name = Fold(@)] : raw \in Questions}

Names == {q.name : q \in Asked} \cup Zones \cup {Fold(r.data) : r \in Records}
             \cup {Fold(rr.data) : rr \in RRs(Records)}

Reads == [name  : Names,
          type  : {q.type : q \in Asked} \cup {"ANY", "CNAME", "SOA", "A", "AAAA"},
          found : SUBSET Records]

Queries ==
    [pc       : {"idle", "index", "scan", "install", "key", "get", "any", "exact", "cname",
                 "target", "negative", "soa", "extraA", "extraAAAA", "extraFail", "set", "done"},
     question : Asked,
     revision : Nat,
     shard    : 0 .. Shards,
     seen     : SUBSET Zones,
     zone     : Zones \cup {NoZone},
     key      : Nat,
     current  : Names,
     target   : Names,
     hops     : 0 .. MaxCNAMEChain - 1,
     visited  : SUBSET Names,
     todo     : SUBSET Names,
     reads    : SUBSET Reads,
     result   : Results]

Entries == [key : Nat, question : Asked, zone : Zones \cup {NoZone},
            reads : SUBSET Reads, result : Results]

\* The type invariant: what every variable of the store and the resolver holds.
TypeOK ==
    /\ StoreTypeOK
    /\ zoneIndex \subseteq Zones
    /\ zonesLoaded \in BOOLEAN
    /\ zonesVersion \in Nat
    /\ cache \subseteq Entries
    /\ query \in [Readers -> Queries]

\* The index whose version is the store's revision lists exactly the zones of the
\* store, but for zones that a writer is working on: matchZone may use it unlocked.
IndexCurrent ==
    zonesLoaded /\ zonesVersion = revision =>
        \A z \in Zones : ~Busy(z) => (z \in zoneIndex <=> z \in zones)

\* Every lookup that went into an entry of the current revision would find the same
\* records now, unless a writer is working on the entry's zone: no response that
\* mixes the zone before and after a write is ever served once the write is done.
CacheCurrent ==
    \A e \in cache : e.key = revision /\ ~Busy(e.zone) =>
        \A rd \in e.reads :
            rd.found = LookupIn(records, e.zone, rd.name, rd.type, e.question.class)

\* Such an entry is the answer of its zone to its question, section by section: the
\* chain of lookups computes what the definition above says.
CacheExact ==
    \A e \in cache : e.key = revision /\ ~Busy(e.zone) =>
        e.result = ZoneAnswer(records, e.zone, e.question)

\* A query that ran while no write was under way, and whose revision is still the
\* store's, returns the store's answer: what was written before it is what it sees.
AnswerExact ==
    \A p \in Readers :
        query[p].pc = "done" /\ Quiet /\ query[p].revision = revision =>
            query[p].result = Answer(zones, records, query[p].question)

\* Every query is answered, whatever CNAME loops the store holds and whatever the
\* writers do to the chain while it is followed.
QueryTerminates ==
    \A p \in Readers : query[p].pc # "idle" ~> query[p].pc = "idle"
=============================================================================

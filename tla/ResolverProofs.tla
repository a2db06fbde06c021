---------------------------- MODULE ResolverProofs ----------------------------
(***************************************************************************)
(* Proofs that the zone index and the response cache of the resolver never *)
(* serve, under the store's current revision, what a finished write has    *)
(* changed.                                                                *)
(*                                                                         *)
(* The argument.  A writing call is busy in one zone from its first change *)
(* to its increment of the revision.  Whatever a reader took from the      *)
(* store after it read revision r therefore still holds in a zone as long  *)
(* as the revision is r and nobody is busy in that zone: a change makes    *)
(* its writer busy there, and a writer stops being busy only by moving the *)
(* revision beyond r.                                                      *)
(***************************************************************************)
EXTENDS Resolver, MemoryStoreProofs

-----------------------------------------------------------------------------
(* Types of the resolver's values. *)

\* The steps before a query has its cache key, and the ones after its first lookup.
EarlyPcs == {"index", "scan", "install", "key"}
LatePcs == {"cname", "target", "negative", "soa", "extraA", "extraAAAA", "extraFail", "set"}

\* The names a query can hold: questions, zones and the folded data of records and RRs.
LEMMA NameFacts ==
    /\ NoQuestion \in Asked /\ Root \in Names /\ NoZone \in Names
    /\ \A q \in Asked : q.name \in Names
    /\ \A z \in Zones : z \in Names
<1>1. NoQuestion \in Asked /\ NoQuestion.name = Root
  BY DEF Asked, NoQuestion
<1> QED
  BY <1>1 DEF Names, NoZone

\* recordsToRRs of stored records is a section.
LEMMA SectionFacts ==
    /\ {} \in Sections
    /\ \A S \in SUBSET Records : RRs(S) \in Sections
    /\ \A A, B \in Sections : A \cup B \in Sections /\ A \ B \in Sections
<1>1. \A S \in SUBSET Records : RRs(S) \in Sections
  BY DEF Sections, RRs
<1> QED
  BY <1>1 DEF Sections

\* The literal resolutions of the code, with and without the authoritative bit, are results.
LEMMA ResultFacts ==
    /\ \A rcode \in {"SUCCESS", "FORMERR", "REFUSED", "NOTIMP", "NXDOMAIN", "SERVFAIL"} :
          /\ Unanswered(rcode) \in Results
          /\ Resolution(rcode, {}, {}, {}) \in Results
          /\ \A A \in Sections : Resolution(rcode, A, {}, {}) \in Results
BY SectionFacts DEF Unanswered, Resolution, Results

\* The reader between two queries is a well-typed query state.
LEMMA NoQueryType == NoQuery \in Queries
BY NameFacts, ResultFacts, ResolverAssumption DEF NoQuery, Queries

\* A returned query has its type and has forgotten everything but its question.
LEMMA ReturnedFacts ==
    ASSUME NEW q \in Queries, NEW result \in Results
    PROVE  LET d == Returned(q, result)
           IN  /\ d \in Queries /\ d.pc = "done" /\ d.revision = q.revision /\ d.key = 0
               /\ d.shard = 0 /\ d.seen = {} /\ d.reads = {}
<1> DEFINE d == Returned(q, result)
<1>1. d = [NoQuery EXCEPT !.pc = "done", !.question = q.question, !.revision = q.revision,
                          !.result = result]
  BY DEF Returned
<1>2. q.question \in Asked /\ q.revision \in Nat
  BY DEF Queries
<1>3. d \in Queries
  BY <1>1, <1>2, NoQueryType DEF Queries
<1>4. d.pc = "done" /\ d.revision = q.revision /\ d.key = 0
      /\ d.shard = 0 /\ d.seen = {} /\ d.reads = {}
  BY <1>1 DEF NoQuery
<1> QED
  BY <1>3, <1>4

\* An error return of Resolve is a reply that reads, caches and promises nothing.
LEMMA FailedFacts ==
    ASSUME NEW q \in Queries
    PROVE  Failed(q) = Returned(q, Unanswered("SERVFAIL")) /\ Unanswered("SERVFAIL") \in Results
BY ResultFacts DEF Failed

\* The zone that an index yields for a name is a zone of the index, or none.
LEMMA MatchZoneType ==
    ASSUME NEW index \in SUBSET Zones, NEW name
    PROVE  MatchZone(index, name) \in Zones \cup {NoZone}
<1> DEFINE above == {z \in index : IsSubDomain(z, name)}
<1>1. above = {} => MatchZone(index, name) = NoZone
  BY DEF MatchZone
<1>2. ASSUME above # {} PROVE MatchZone(index, name) \in Zones
  <2>1. \E z \in above : \A y \in above : Len(y) <= Len(z)
    BY <1>2, LongestAssumption
  <2>2. MatchZone(index, name) = CHOOSE z \in above : \A y \in above : Len(y) <= Len(z)
    BY <1>2 DEF MatchZone
  <2> QED
    BY <2>1, <2>2
<1> QED
  BY <1>1, <1>2

\* The target nextCNAMEStep takes from a non-empty row is one of the names.
LEMMA LastTargetType ==
    ASSUME NEW row \in SUBSET Records, row # {}
    PROVE  LastTarget(row) \in Names
<1>1. \E r \in row : \A s \in row : Rank[s.data] <= Rank[r.data]
  BY RankAssumption
<1> DEFINE last == CHOOSE r \in row : \A s \in row : Rank[s.data] <= Rank[r.data]
<1>2. last \in row
  BY <1>1
<1>3. LastTarget(row) = Fold(last.data)
  BY DEF LastTarget
<1> HIDE DEF last
<1> QED
  BY <1>2, <1>3 DEF Names

\* additionalTargets of an answer is a set of the names.
LEMMA AdditionalTargetsType ==
    ASSUME NEW zone, NEW answer \in Sections
    PROVE  AdditionalTargets(zone, answer) \subseteq Names
<1>1. AdditionalTargets(zone, answer) \subseteq {Fold(rr.data) : rr \in answer}
  BY DEF AdditionalTargets
<1>2. answer \subseteq RRs(Records)
  BY DEF Sections
<1> QED
  BY <1>1, <1>2 DEF Names

\* A query goes on from q to n: nothing that its cache entry will be filed under moves.
GoesOn(q, n) ==
    /\ n \in Queries
    /\ n.pc \in LatePcs
    /\ n.question = q.question /\ n.revision = q.revision /\ n.key = q.key
    /\ n.zone = q.zone /\ n.shard = q.shard /\ n.seen = q.seen /\ n.reads = q.reads

\* What a lookup finds has its type, and so has the query that notes it.
LEMMA NotedFacts ==
    ASSUME TypeOK, NEW q \in Queries, NEW name \in Names,
           NEW type \in {a.type : a \in Asked} \cup {"ANY", "CNAME", "SOA", "A", "AAAA"}
    PROVE  /\ Find(q, name, type) \in SUBSET Records
           /\ Noted(q, name, type) \in Queries
           /\ LET n == Noted(q, name, type)
              IN  /\ n.pc = q.pc /\ n.question = q.question /\ n.revision = q.revision
                  /\ n.key = q.key /\ n.zone = q.zone /\ n.shard = q.shard /\ n.seen = q.seen
                  /\ n.current = q.current /\ n.target = q.target /\ n.hops = q.hops
                  /\ n.visited = q.visited /\ n.todo = q.todo /\ n.result = q.result
                  /\ n.reads = q.reads \cup {[name |-> name, type |-> type,
                                              found |-> Find(q, name, type)]}
<1>1. Find(q, name, type) \in SUBSET Records
  BY DEF Find, LookupIn, TypeOK, StoreTypeOK
<1> DEFINE rd == [name |-> name, type |-> type, found |-> Find(q, name, type)]
<1>2. rd \in Reads
  BY <1>1 DEF Reads
<1>3. Noted(q, name, type) = [q EXCEPT !.reads = @ \cup {rd}]
  BY DEF Noted
<1> HIDE DEF rd
<1>4. q.reads \cup {rd} \in SUBSET Reads
  BY <1>2 DEF Queries
<1>5. [q EXCEPT !.reads = @ \cup {rd}] \in Queries
  BY <1>4 DEF Queries
<1> QED
  BY <1>1, <1>3, <1>5 DEF Queries, rd

\* additionalRecords started on a well-typed query leaves it well typed and its reads alone.
LEMMA CompletedFacts ==
    ASSUME NEW q \in Queries
    PROVE  GoesOn(q, Completed(q))
<1> DEFINE targets == AdditionalTargets(q.zone, q.result.answer)
<1>1. targets \subseteq Names
  BY AdditionalTargetsType DEF Queries, Results
<1>2. Completed(q) = [q EXCEPT !.todo = targets, !.target = Root,
                               !.pc = IF targets = {} THEN "set" ELSE "extraA"]
  BY DEF Completed
<1> HIDE DEF targets
<1> QED
  BY <1>1, <1>2, NameFacts DEF GoesOn, Queries, LatePcs

\* successResolution of records the query has just read ends well typed, or fails.
LEMMA SuccessFacts ==
    ASSUME NEW q \in Queries, NEW found \in SUBSET Records
    PROVE  Success(q, found) = Failed(q) \/ GoesOn(q, Success(q, found))
<1> DEFINE r == Resolution("SUCCESS", RRs(found), {}, {})
           n == [q EXCEPT !.result = r]
<1>1. r \in Results
  BY SectionFacts, ResultFacts
<1> HIDE DEF r
<1>2. n \in Queries /\ n.question = q.question /\ n.revision = q.revision /\ n.key = q.key
      /\ n.zone = q.zone /\ n.shard = q.shard /\ n.seen = q.seen /\ n.reads = q.reads
  BY <1>1 DEF Queries
<1>3. Success(q, found) = Failed(q) \/ Success(q, found) = Completed(n)
  BY DEF Success, r
<1> HIDE DEF n
<1>4. GoesOn(n, Completed(n))
  BY <1>2, CompletedFacts
<1>5. GoesOn(q, Completed(n))
  BY <1>2, <1>4 DEF GoesOn
<1> QED
  BY <1>3, <1>5

-----------------------------------------------------------------------------
(* The steps of a query that make a lookup. *)

\* One lookup has been noted, and the query returns or goes on.
LooksUp(p, name, type) ==
    \E n \in Queries :
        /\ query' = [query EXCEPT ![p] = n]
        /\ n = Failed(Noted(query[p], name, type)) \/ GoesOn(Noted(query[p], name, type), n)

\* The name and the type that a lookup step of a reader asks the store for.
LookupTypes == {a.type : a \in Asked} \cup {"ANY", "CNAME", "SOA", "A", "AAAA"}

\* Every lookup step notes what it found and otherwise keeps the query filed as it was.
NotesOne(p) == \E name \in Names, type \in LookupTypes : LooksUp(p, name, type)

\* The fields of a well-typed query, one by one.
LEMMA QueryFacts ==
    ASSUME TypeOK, NEW p \in Readers
    PROVE  /\ query[p] \in Queries
           /\ query[p].question \in Asked
           /\ query[p].question.name \in Names
           /\ query[p].question.type \in LookupTypes
           /\ query[p].current \in Names /\ query[p].target \in Names
           /\ query[p].zone \in Names
           /\ query[p].todo \subseteq Names
<1>1. query[p] \in Queries
  BY DEF TypeOK
<1>2. query[p].question \in Asked /\ query[p].zone \in Zones \cup {NoZone}
      /\ query[p].current \in Names /\ query[p].target \in Names
      /\ query[p].todo \subseteq Names
  BY <1>1 DEF Queries
<1> QED
  BY <1>1, <1>2, NameFacts DEF LookupTypes

\* A lookup step is one whose next query is either of the two outcomes.
LEMMA LooksUpIntro ==
    ASSUME TypeOK, NEW p \in Readers, NEW name \in Names, NEW type \in LookupTypes,
           NEW n, Looked(p, n),
           n = Failed(Noted(query[p], name, type)) \/ GoesOn(Noted(query[p], name, type), n)
    PROVE  LooksUp(p, name, type)
<1> DEFINE q == Noted(query[p], name, type)
<1>1. q \in Queries
  BY QueryFacts, NotedFacts DEF LookupTypes
<1> HIDE DEF q
<1>2. Failed(q) \in Queries
  BY <1>1, FailedFacts, ReturnedFacts
<1>3. n \in Queries
  BY <1>2 DEF q, GoesOn
<1> QED
  BY <1>3 DEF Looked, LooksUp

\* The lookup of resolveAny notes one read of the store as it is and keeps the query's type.
LEMMA LookupAnyStep ==
    ASSUME TypeOK, NEW p \in Readers, LookupAny(p)
    PROVE  LooksUp(p, query[p].question.name, "ANY")
<1> DEFINE name  == query[p].question.name
           q     == Noted(query[p], name, "ANY")
           found == Find(query[p], name, "ANY")
           n     == IF found = {} THEN [q EXCEPT !.pc = "negative"] ELSE Success(q, found)
<1>1. name \in Names /\ "ANY" \in LookupTypes /\ q \in Queries /\ found \in SUBSET Records
  BY QueryFacts, NotedFacts DEF LookupTypes
<1>2. Looked(p, n)
  BY DEF LookupAny
<1> HIDE DEF found
<1>3. n = Failed(q) \/ GoesOn(q, n)
  <2> HIDE DEF q
  <2>1. CASE found = {}
    BY <1>1, <2>1 DEF GoesOn, Queries, LatePcs
  <2>2. CASE found # {}
    BY <1>1, <2>2, SuccessFacts
  <2> QED
    BY <2>1, <2>2
<1> QED
  BY <1>1, <1>2, <1>3, LooksUpIntro

\* The same of the lookup of resolveExact.
LEMMA LookupExactStep ==
    ASSUME TypeOK, NEW p \in Readers, LookupExact(p)
    PROVE  LooksUp(p, query[p].question.name, query[p].question.type)
<1> DEFINE name  == query[p].question.name
           type  == query[p].question.type
           q     == Noted(query[p], name, type)
           found == Find(query[p], name, type)
           n     == IF found = {}
                    THEN [q EXCEPT !.pc = "cname", !.current = name, !.visited = {name},
                                   !.result = Resolution("SUCCESS", {}, {}, {})]
                    ELSE Success(q, found)
<1>1. name \in Names /\ type \in LookupTypes /\ q \in Queries /\ found \in SUBSET Records
  BY QueryFacts, NotedFacts DEF LookupTypes
<1>2. Looked(p, n)
  BY DEF LookupExact
<1> HIDE DEF found
<1>3. n = Failed(q) \/ GoesOn(q, n)
  <2> HIDE DEF q, name
  <2>1. CASE found = {}
    BY <1>1, <2>1, ResultFacts DEF GoesOn, Queries, LatePcs
  <2>2. CASE found # {}
    BY <1>1, <2>2, SuccessFacts
  <2> QED
    BY <2>1, <2>2
<1> QED
  BY <1>1, <1>2, <1>3, LooksUpIntro

\* The same of the lookup of negativeResponse.
LEMMA LookupNegativeStep ==
    ASSUME TypeOK, NEW p \in Readers, LookupNegative(p)
    PROVE  LooksUp(p, query[p].question.name, "ANY")
<1> DEFINE name  == query[p].question.name
           q     == Noted(query[p], name, "ANY")
           found == Find(query[p], name, "ANY")
           r     == Resolution(IF found = {} THEN "NXDOMAIN" ELSE "SUCCESS", {}, {}, {})
           n     == [q EXCEPT !.pc = "soa", !.result = r]
<1>1. name \in Names /\ "ANY" \in LookupTypes /\ q \in Queries
  BY QueryFacts, NotedFacts DEF LookupTypes
<1>2. Looked(p, n)
  BY DEF LookupNegative
<1>3. r \in Results
  BY ResultFacts
<1>4. GoesOn(q, n)
  <2> HIDE DEF q, r
  <2> QED
    BY <1>1, <1>3 DEF GoesOn, Queries, LatePcs
<1> QED
  BY <1>1, <1>2, <1>4, LooksUpIntro

\* A query with another answer, authority or extra section is still a query.
LEMMA SectionUpdate ==
    ASSUME NEW q \in Queries, NEW S \in Sections
    PROVE  /\ q.result.answer \in Sections /\ q.result.extra \in Sections
           /\ \A n \in {[q EXCEPT !.result.answer = S], [q EXCEPT !.result.authority = S],
                        [q EXCEPT !.result.extra = S]} :
                 /\ n \in Queries
                 /\ n.pc = q.pc /\ n.question = q.question /\ n.revision = q.revision
                 /\ n.key = q.key /\ n.zone = q.zone /\ n.shard = q.shard /\ n.seen = q.seen
                 /\ n.reads = q.reads
<1>1. q.result \in Results
  BY DEF Queries
<1>2. /\ [q.result EXCEPT !.answer = S] \in Results
      /\ [q.result EXCEPT !.authority = S] \in Results
      /\ [q.result EXCEPT !.extra = S] \in Results
  BY <1>1 DEF Results
<1>3. ASSUME NEW r \in Results
      PROVE  LET n == [q EXCEPT !.result = r]
             IN  /\ n \in Queries
                 /\ n.pc = q.pc /\ n.question = q.question /\ n.revision = q.revision
                 /\ n.key = q.key /\ n.zone = q.zone /\ n.shard = q.shard /\ n.seen = q.seen
                 /\ n.reads = q.reads
  BY DEF Queries
<1>4. /\ [q EXCEPT !.result.answer = S] = [q EXCEPT !.result = [q.result EXCEPT !.answer = S]]
      /\ [q EXCEPT !.result.authority = S]
            = [q EXCEPT !.result = [q.result EXCEPT !.authority = S]]
      /\ [q EXCEPT !.result.extra = S] = [q EXCEPT !.result = [q.result EXCEPT !.extra = S]]
  BY DEF Queries
<1>5. q.result.answer \in Sections /\ q.result.extra \in Sections
  BY <1>1 DEF Results
<1> QED
  BY <1>2, <1>3, <1>4, <1>5

\* The same of the lookup of authoritySOA.
LEMMA LookupSOAStep ==
    ASSUME TypeOK, NEW p \in Readers, LookupSOA(p)
    PROVE  LooksUp(p, query[p].zone, "SOA")
<1> DEFINE q   == Noted(query[p], query[p].zone, "SOA")
           soa == Find(query[p], query[p].zone, "SOA")
           m   == [q EXCEPT !.result.authority = RRs(soa)]
           n   == IF ~Parsable(soa) THEN Failed(q) ELSE Completed(m)
<1>1. query[p].zone \in Names /\ "SOA" \in LookupTypes /\ q \in Queries
      /\ soa \in SUBSET Records
  BY QueryFacts, NotedFacts DEF LookupTypes
<1>2. Looked(p, n)
  BY DEF LookupSOA
<1>3. n = Failed(q) \/ GoesOn(q, n)
  <2> HIDE DEF q, soa
  <2>1. RRs(soa) \in Sections
    BY <1>1, SectionFacts
  <2>2. /\ m \in Queries
        /\ m.pc = q.pc /\ m.question = q.question /\ m.revision = q.revision
        /\ m.key = q.key /\ m.zone = q.zone /\ m.shard = q.shard /\ m.seen = q.seen
        /\ m.reads = q.reads
    BY <1>1, <2>1, SectionUpdate
  <2> HIDE DEF m
  <2>3. GoesOn(m, Completed(m))
    BY <2>2, CompletedFacts
  <2> QED
    BY <2>2, <2>3 DEF GoesOn
<1> QED
  BY <1>1, <1>2, <1>3, LooksUpIntro

\* The same of the lookup of nextCNAMEStep, which may link, leave or end the chain.
LEMMA LookupCNAMEStep ==
    ASSUME TypeOK, NEW p \in Readers, LookupCNAME(p)
    PROVE  LooksUp(p, query[p].current, "CNAME")
<1> DEFINE name   == query[p].current
           q      == Noted(query[p], name, "CNAME")
           cnames == Find(query[p], name, "CNAME")
           target == LastTarget(cnames)
           linked == [q EXCEPT !.result.answer = @ \cup RRs(cnames)]
           next   ==
             CASE cnames = {} /\ q.current = q.question.name -> [q EXCEPT !.pc = "negative"]
               [] cnames = {} /\ q.current # q.question.name -> [q EXCEPT !.pc = "soa"]
               [] cnames # {} /\ ~Parsable(cnames) -> Failed(q)
               [] cnames # {} /\ Parsable(cnames) /\ q.question.type # "CNAME"
                    /\ IsSubDomain(q.zone, target) ->
                      [linked EXCEPT !.target = target, !.pc = "target"]
               [] OTHER -> Completed(linked)
<1>1. name \in Names /\ "CNAME" \in LookupTypes /\ q \in Queries
      /\ cnames \in SUBSET Records
  BY QueryFacts, NotedFacts DEF LookupTypes
<1>2. Looked(p, next)
  BY DEF LookupCNAME
<1>3. next = Failed(q) \/ GoesOn(q, next)
  <2> HIDE DEF q, cnames
  <2>1. q.result.answer \cup RRs(cnames) \in Sections
    BY <1>1, SectionFacts, SectionUpdate
  <2>2. /\ linked \in Queries
        /\ linked.pc = q.pc /\ linked.question = q.question /\ linked.revision = q.revision
        /\ linked.key = q.key /\ linked.zone = q.zone /\ linked.shard = q.shard
        /\ linked.seen = q.seen /\ linked.reads = q.reads
    BY <1>1, <2>1, SectionUpdate
  <2>3. cnames # {} => target \in Names
    BY <1>1, LastTargetType
  <2> HIDE DEF linked, target
  <2>4. \/ cnames = {} /\ next = [q EXCEPT !.pc = "negative"]
        \/ cnames = {} /\ next = [q EXCEPT !.pc = "soa"]
        \/ next = Failed(q)
        \/ cnames # {} /\ next = [linked EXCEPT !.target = target, !.pc = "target"]
        \/ next = Completed(linked)
    OBVIOUS
  <2> HIDE DEF next
  <2>5. CASE next = [q EXCEPT !.pc = "negative"] \/ next = [q EXCEPT !.pc = "soa"]
    BY <1>1, <2>5 DEF GoesOn, Queries, LatePcs
  <2>6. CASE cnames # {} /\ next = [linked EXCEPT !.target = target, !.pc = "target"]
    <3>1. next \in Queries /\ next.pc = "target"
      BY <2>2, <2>3, <2>6 DEF Queries
    <3>2. /\ next.question = linked.question /\ next.revision = linked.revision
          /\ next.key = linked.key /\ next.zone = linked.zone /\ next.shard = linked.shard
          /\ next.seen = linked.seen /\ next.reads = linked.reads
      BY <2>2, <2>6 DEF Queries
    <3> QED
      BY <2>2, <3>1, <3>2 DEF GoesOn, LatePcs
  <2>7. CASE next = Completed(linked)
    <3>1. GoesOn(linked, next)
      BY <2>2, <2>7, CompletedFacts
    <3> QED
      BY <2>2, <3>1 DEF GoesOn
  <2> QED
    BY <2>4, <2>5, <2>6, <2>7
<1> QED
  BY <1>1, <1>2, <1>3, LooksUpIntro

\* The same of lookupTargetAnswer; the chain is followed only below maxCNAMEChain.
LEMMA LookupTargetStep ==
    ASSUME TypeOK, NEW p \in Readers, LookupTarget(p)
    PROVE  LooksUp(p, query[p].target, query[p].question.type)
<1> DEFINE target == query[p].target
           type   == query[p].question.type
           q      == Noted(query[p], target, type)
           found  == Find(query[p], target, type)
           linked == [q EXCEPT !.result.answer = @ \cup RRs(found)]
           longer == [q EXCEPT !.pc = "cname", !.current = target, !.target = Root,
                               !.visited = @ \cup {target}, !.hops = @ + 1]
           next   ==
             CASE found # {} /\ ~Parsable(found) -> Failed(q)
               [] found # {} /\ Parsable(found) -> Completed(linked)
               [] found = {} /\ (target \in q.visited \/ q.hops + 1 = MaxCNAMEChain) ->
                     ServerFailure(q)
               [] OTHER -> longer
<1>1. target \in Names /\ type \in LookupTypes /\ q \in Queries
      /\ found \in SUBSET Records
  BY QueryFacts, NotedFacts DEF LookupTypes
<1>2. Looked(p, next)
  BY DEF LookupTarget
<1>3. next = Failed(q) \/ GoesOn(q, next)
  <2> HIDE DEF q, found, target
  <2>1. q.result.answer \cup RRs(found) \in Sections
    BY <1>1, SectionFacts, SectionUpdate
  <2>2. /\ linked \in Queries
        /\ linked.pc = q.pc /\ linked.question = q.question /\ linked.revision = q.revision
        /\ linked.key = q.key /\ linked.zone = q.zone /\ linked.shard = q.shard
        /\ linked.seen = q.seen /\ linked.reads = q.reads
    BY <1>1, <2>1, SectionUpdate
  <2> HIDE DEF linked
  <2>3. \/ next = Failed(q)
        \/ next = Completed(linked)
        \/ next = ServerFailure(q)
        \/ q.hops + 1 # MaxCNAMEChain /\ next = longer
    <3> HIDE DEF longer
    <3> QED
      OBVIOUS
  <2> HIDE DEF next
  <2>4. CASE next = Completed(linked)
    <3>1. GoesOn(linked, next)
      BY <2>2, <2>4, CompletedFacts
    <3> QED
      BY <2>2, <3>1 DEF GoesOn
  <2>5. CASE next = ServerFailure(q)
    BY <1>1, <2>5, ResultFacts DEF ServerFailure, GoesOn, Queries, LatePcs
  <2>6. CASE q.hops + 1 # MaxCNAMEChain /\ next = longer
    <3>1. q.hops + 1 \in 0 .. MaxCNAMEChain - 1
      BY <1>1, <2>6, ResolverAssumption DEF Queries
    <3>2. q.visited \cup {target} \in SUBSET Names
      BY <1>1 DEF Queries
    <3>3. next \in Queries
      BY <1>1, <2>6, <3>1, <3>2, NameFacts DEF Queries
    <3> QED
      BY <1>1, <2>6, <3>3 DEF GoesOn, Queries, LatePcs
  <2> QED
    BY <2>3, <2>4, <2>5, <2>6
<1> QED
  BY <1>1, <1>2, <1>3, LooksUpIntro

\* The same of the A lookup of lookupAddressRRs.
LEMMA LookupAStep ==
    ASSUME TypeOK, NEW p \in Readers, NEW target \in query[p].todo,
           LET q     == Noted(query[p], target, "A")
               found == Find(query[p], target, "A")
           IN  Looked(p, IF Parsable(found)
                         THEN [q EXCEPT !.pc = "extraAAAA", !.target = target,
                                        !.result.extra = @ \cup RRs(found)]
                         ELSE [q EXCEPT !.pc = "extraFail", !.target = target])
    PROVE  LooksUp(p, target, "A")
<1> DEFINE q     == Noted(query[p], target, "A")
           found == Find(query[p], target, "A")
           r     == [q.result EXCEPT !.extra = @ \cup RRs(found)]
           good  == [q EXCEPT !.pc = "extraAAAA", !.target = target,
                              !.result.extra = @ \cup RRs(found)]
           bad   == [q EXCEPT !.pc = "extraFail", !.target = target]
           next  == IF Parsable(found) THEN good ELSE bad
<1>2. target \in Names /\ "A" \in LookupTypes /\ q \in Queries /\ found \in SUBSET Records
  BY QueryFacts, NotedFacts DEF LookupTypes
<1>3. Looked(p, next)
  OBVIOUS
<1>4. GoesOn(q, next)
  <2> HIDE DEF q, found
  <2>1. q.result \in Results /\ RRs(found) \in Sections
    BY <1>2, SectionFacts DEF Queries
  <2>2. r \in Results
    BY <2>1, SectionFacts DEF Results
  <2>3. good = [q EXCEPT !.pc = "extraAAAA", !.target = target, !.result = r]
    BY <1>2 DEF Queries
  <2> HIDE DEF r, good
  <2>4. GoesOn(q, good)
    BY <1>2, <2>2, <2>3 DEF GoesOn, Queries, LatePcs
  <2>5. GoesOn(q, bad)
    BY <1>2 DEF GoesOn, Queries, LatePcs
  <2> QED
    BY <2>4, <2>5
<1> QED
  BY <1>2, <1>3, <1>4, LooksUpIntro

\* The same of the AAAA lookup of lookupAddressRRs.
LEMMA LookupAAAAStep ==
    ASSUME TypeOK, NEW p \in Readers, LookupAAAA(p)
    PROVE  LooksUp(p, query[p].target, "AAAA")
<1> DEFINE target == query[p].target
           q      == Noted(query[p], target, "AAAA")
           found  == Find(query[p], target, "AAAA")
           todo   == query[p].todo \ {target}
           pc     == IF todo = {} THEN "set" ELSE "extraA"
           r      == [q.result EXCEPT !.extra = (@ \cup RRs(found)) \ q.result.answer]
           good   == [q EXCEPT !.pc = IF todo = {} THEN "set" ELSE "extraA",
                               !.todo = todo, !.target = Root,
                               !.result.extra = (@ \cup RRs(found)) \ q.result.answer]
           next   == IF query[p].pc = "extraFail" \/ ~Parsable(found) THEN Failed(q) ELSE good
<1>1. target \in Names /\ "AAAA" \in LookupTypes /\ q \in Queries
      /\ found \in SUBSET Records /\ todo \subseteq Names
  BY QueryFacts, NotedFacts DEF LookupTypes
<1>2. Looked(p, next)
  BY DEF LookupAAAA
<1>3. next = Failed(q) \/ GoesOn(q, next)
  <2> HIDE DEF q, found, todo
  <2>1. q.result \in Results /\ RRs(found) \in Sections
    BY <1>1, SectionFacts DEF Queries
  <2>2. r \in Results
    BY <2>1, SectionFacts DEF Results
  <2>3. good = [q EXCEPT !.pc = pc, !.todo = todo, !.target = Root, !.result = r]
    BY <1>1 DEF Queries
  <2>4. pc \in {"set", "extraA"}
    OBVIOUS
  <2> HIDE DEF r, good, pc
  <2>5. GoesOn(q, good)
    BY <1>1, <2>2, <2>3, <2>4, NameFacts DEF GoesOn, Queries, LatePcs
  <2> QED
    BY <2>5
<1> QED
  BY <1>1, <1>2, <1>3, LooksUpIntro

-----------------------------------------------------------------------------
(* The inductive invariant. *)

\* What a lookup of the zone found is what it would find now.
StillTrue(zone, class, reads) ==
    \A rd \in reads : rd.found = LookupIn(records, zone, rd.name, rd.type, class)

\* A query never knows a revision of the future; the shards it has scanned, and the
\* lookups it has made, agree with the store in every zone where its revision (for the
\* scan) or its key (for the lookups) is current and nobody is busy.
QueryInv(q, open) ==
    /\ q.revision <= revision /\ q.key <= revision
    /\ q.pc = "index" => q.shard = 0
    /\ q.pc = "scan" => q.shard < Shards
    /\ q.pc = "install" => q.shard = Shards
    /\ \A z \in q.seen : ShardOf[z] < q.shard
    /\ q.pc \in EarlyPcs => q.reads = {}
    /\ q.pc \in {"scan", "install"} /\ q.revision = revision =>
          \A z \in Zones : ShardOf[z] < q.shard /\ z \notin open => (z \in q.seen <=> z \in zones)
    /\ q.key = revision /\ q.zone \notin open => StillTrue(q.zone, q.question.class, q.reads)

EntryInv(e, open) ==
    /\ e.key <= revision
    /\ e.key = revision /\ e.zone \notin open => StillTrue(e.zone, e.question.class, e.reads)

\* The index of the current revision lists the zones of the store, but for the open ones.
IndexInv(open) ==
    zonesLoaded /\ zonesVersion = revision =>
        \A z \in Zones : z \notin open => (z \in zoneIndex <=> z \in zones)

\* The invariant of the resolver; open is the set of zones with a change that no
\* increment of the revision has followed yet, whichever store it reads.
ResolverInv(open) ==
    /\ TypeOK
    /\ zonesVersion <= revision
    /\ IndexInv(open)
    /\ \A e \in cache : EntryInv(e, open)
    /\ \A p \in Readers : QueryInv(query[p], open)

\* The new resolver, with no index and an empty cache, satisfies the invariant.
LEMMA FreshResolver ==
    ASSUME StoreTypeOK, ResolverInit, NEW open
    PROVE  ResolverInv(open)
<1>1. zoneIndex = {} /\ zonesLoaded = FALSE /\ zonesVersion = 0 /\ cache = {}
      /\ query = [p \in Readers |-> NoQuery]
  BY DEF ResolverInit
<1>2. TypeOK
  BY <1>1, NoQueryType DEF TypeOK
<1>3. QueryInv(NoQuery, open)
  BY DEF QueryInv, NoQuery, StillTrue, EarlyPcs, StoreTypeOK
<1> QED
  BY <1>1, <1>2, <1>3 DEF ResolverInv, IndexInv, StoreTypeOK

\* A step that opens zones, changes nothing in the others and leaves the revision alone.
Hides(before, after) ==
    /\ revision' = revision
    /\ before \subseteq after
    /\ \A z : z \notin after => /\ z \in zones' <=> z \in zones
                               /\ InZone(records', z) = InZone(records, z)

\* A step of a writer, seen from the resolver.
LEMMA WriterStep ==
    ASSUME NEW before, NEW after, ResolverInv(before),
           Announces \/ Hides(before, after), StoreTypeOK', UNCHANGED resolverVars
    PROVE  ResolverInv(after)'
<1>1. zoneIndex' = zoneIndex /\ zonesLoaded' = zonesLoaded /\ zonesVersion' = zonesVersion
      /\ cache' = cache /\ query' = query
  BY DEF resolverVars
<1>2. TypeOK'
  BY <1>1 DEF ResolverInv, TypeOK
<1>3. /\ revision \in Nat /\ zonesVersion \in Nat
      /\ \A e \in cache : e.key \in Nat
      /\ \A p \in Readers : query[p].revision \in Nat /\ query[p].key \in Nat
  BY DEF ResolverInv, TypeOK, StoreTypeOK, Entries, Queries
<1>4. CASE Announces
  <2>1. zonesVersion' <= revision' /\ IndexInv(after)'
    BY <1>1, <1>3, <1>4 DEF ResolverInv, IndexInv, Announces
  <2>2. \A e \in cache : EntryInv(e, after)'
    BY <1>3, <1>4 DEF ResolverInv, EntryInv, Announces
  <2>3. ASSUME NEW p \in Readers PROVE QueryInv(query[p], after)'
    BY <1>1, <1>3, <1>4 DEF ResolverInv, QueryInv, Announces
  <2> QED
    BY <1>1, <1>2, <2>1, <2>2, <2>3 DEF ResolverInv
<1>5. CASE Hides(before, after)
  <2>1. /\ revision' = revision
        /\ \A z : z \notin after => z \notin before /\ (z \in zones' <=> z \in zones)
    BY <1>5 DEF Hides
  <2>2. ASSUME NEW z, NEW class, NEW reads, z \notin after, StillTrue(z, class, reads)
        PROVE  StillTrue(z, class, reads)'
    <3>1. InZone(records', z) = InZone(records, z)
      BY <1>5, <2>2 DEF Hides
    <3> QED
      BY <2>2, <3>1, LookupInZone DEF StillTrue
  <2>3. zonesVersion' <= revision' /\ IndexInv(after)'
    BY <1>1, <2>1 DEF ResolverInv, IndexInv
  <2>4. ASSUME NEW e \in cache PROVE EntryInv(e, after)'
    BY <2>1, <2>2 DEF ResolverInv, EntryInv
  <2>5. ASSUME NEW p \in Readers PROVE QueryInv(query[p], after)'
    <3>1. PICK q : q = query[p]
      OBVIOUS
    <3>2. QueryInv(q, before) /\ query[p]' = q
      BY <1>1, <3>1 DEF ResolverInv
    <3>3. q.key = revision' /\ q.zone \notin after =>
              StillTrue(q.zone, q.question.class, q.reads)'
      BY <2>1, <2>2, <3>2 DEF QueryInv
    <3>4. q.pc \in {"scan", "install"} /\ q.revision = revision' =>
              \A z \in Zones : ShardOf[z] < q.shard /\ z \notin after =>
                  (z \in q.seen <=> z \in zones')
      BY <2>1, <3>2 DEF QueryInv
    <3>5. QueryInv(q, after)'
      BY <2>1, <3>2, <3>3, <3>4 DEF QueryInv
    <3> QED
      BY <3>2, <3>5
  <2> QED
    BY <1>1, <1>2, <2>3, <2>4, <2>5 DEF ResolverInv
<1> QED
  BY <1>4, <1>5

\* A step of one reader that leaves the store, the index and the cache alone.
LEMMA ReaderStep ==
    ASSUME NEW open, ResolverInv(open),
           NEW p \in Readers, NEW n \in Queries, QueryInv(n, open),
           query' = [query EXCEPT ![p] = n],
           UNCHANGED <<storeVars, zoneIndex, zonesLoaded, zonesVersion, cache>>
    PROVE  ResolverInv(open)'
<1>1. /\ zones' = zones /\ records' = records /\ revision' = revision /\ call' = call
      /\ zoneIndex' = zoneIndex /\ zonesLoaded' = zonesLoaded
      /\ zonesVersion' = zonesVersion /\ cache' = cache
  BY DEF storeVars
<1>2. TypeOK'
  BY <1>1 DEF ResolverInv, TypeOK, StoreTypeOK
<1>3. zonesVersion' <= revision' /\ IndexInv(open)'
  BY <1>1 DEF ResolverInv, IndexInv
<1>4. \A e \in cache : EntryInv(e, open)'
  BY <1>1 DEF ResolverInv, EntryInv, StillTrue
<1>5. ASSUME NEW r \in Readers PROVE QueryInv(query[r], open)'
  <2>1. query'[r] = n \/ query'[r] = query[r]
    BY DEF ResolverInv, TypeOK
  <2>2. QueryInv(query'[r], open)
    BY <2>1 DEF ResolverInv
  <2> QED
    BY <1>1, <2>2 DEF QueryInv, StillTrue
<1> QED
  BY <1>1, <1>2, <1>3, <1>4, <1>5 DEF ResolverInv

\* Returning keeps the invariant of a query.
LEMMA ReturnedInv ==
    ASSUME NEW open, ResolverInv(open),
           NEW q \in Queries, q.revision <= revision, NEW result \in Results
    PROVE  Returned(q, result) \in Queries /\ QueryInv(Returned(q, result), open)
<1>1. revision \in Nat
  BY DEF ResolverInv, TypeOK, StoreTypeOK
<1> DEFINE d == Returned(q, result)
<1>2. /\ d \in Queries /\ d.pc = "done" /\ d.revision = q.revision /\ d.key = 0
      /\ d.shard = 0 /\ d.seen = {} /\ d.reads = {}
  BY ReturnedFacts
<1> HIDE DEF d
<1>3. QueryInv(d, open)
  BY <1>1, <1>2 DEF QueryInv, StillTrue, EarlyPcs
<1> QED
  BY <1>2, <1>3 DEF d

\* A lookup step keeps the invariant: what it has just found is true now.
LEMMA LookupStep ==
    ASSUME NEW open, ResolverInv(open), NEW p \in Readers, NotesOne(p),
           UNCHANGED <<storeVars, zoneIndex, zonesLoaded, zonesVersion, cache>>
    PROVE  ResolverInv(open)'
<1>1. PICK name \in Names, type \in LookupTypes : LooksUp(p, name, type)
  BY DEF NotesOne
<1> DEFINE q0 == query[p]
           q  == Noted(q0, name, type)
<1>2. PICK n \in Queries :
          query' = [query EXCEPT ![p] = n] /\ (n = Failed(q) \/ GoesOn(q, n))
  BY <1>1 DEF LooksUp
<1>3. q0 \in Queries /\ QueryInv(q0, open) /\ TypeOK
  BY QueryFacts DEF ResolverInv
<1>4. /\ q \in Queries /\ q.question = q0.question /\ q.revision = q0.revision
      /\ q.key = q0.key /\ q.zone = q0.zone /\ q.shard = q0.shard /\ q.seen = q0.seen
      /\ q.reads = q0.reads \cup {[name |-> name, type |-> type, found |-> Find(q0, name, type)]}
  BY <1>3, NotedFacts DEF LookupTypes
<1>5. Find(q0, name, type) = LookupIn(records, q0.zone, name, type, q0.question.class)
  BY DEF Find
<1> HIDE DEF q, q0
<1>6. CASE n = Failed(q)
  <2>1. n = Returned(q, Unanswered("SERVFAIL")) /\ Unanswered("SERVFAIL") \in Results
    BY <1>4, <1>6, FailedFacts
  <2>2. q.revision <= revision
    BY <1>3, <1>4 DEF QueryInv
  <2>3. QueryInv(n, open)
    BY <1>4, <2>1, <2>2, ReturnedInv
  <2> QED
    BY <1>2, <2>3, ReaderStep
<1>7. CASE GoesOn(q, n)
  <2>1. n.key = revision /\ n.zone \notin open => StillTrue(n.zone, n.question.class, n.reads)
    BY <1>3, <1>4, <1>5, <1>7 DEF GoesOn, QueryInv, StillTrue
  <2>2. n.pc \notin EarlyPcs /\ n.pc \notin {"index", "scan", "install"}
    BY <1>7 DEF GoesOn, LatePcs, EarlyPcs
  <2>3. QueryInv(n, open)
    BY <1>3, <1>4, <1>7, <2>1, <2>2 DEF GoesOn, QueryInv
  <2> QED
    BY <1>2, <2>3, ReaderStep
<1> QED
  BY <1>2, <1>6, <1>7

\* Resolve reads the revision before anything else, so its reads are true of that revision.
LEMMA ResolveStep ==
    ASSUME NEW open, ResolverInv(open), NEW p \in Readers, NEW raw \in Questions, Resolve(p, raw)
    PROVE  ResolverInv(open)'
<1> DEFINE question == [raw EXCEPT !.name = Fold(@)]
           q == [NoQuery EXCEPT !.question = question, !.revision = revision]
           n == IF question.name = Root THEN Returned(q, Unanswered("FORMERR"))
                ELSE [q EXCEPT !.pc = "index"]
<1>1. question \in Asked /\ revision \in Nat
  BY DEF Asked, ResolverInv, TypeOK, StoreTypeOK
<1>2. query' = [query EXCEPT ![p] = n]
      /\ UNCHANGED <<storeVars, zoneIndex, zonesLoaded, zonesVersion, cache>>
  BY DEF Resolve
<1> HIDE DEF question
<1>3. q \in Queries
  BY <1>1, NoQueryType DEF Queries
<1>4. q.revision = revision /\ q.key = 0 /\ q.shard = 0 /\ q.seen = {} /\ q.reads = {}
  BY DEF NoQuery
<1> HIDE DEF q
<1>5. CASE n = Returned(q, Unanswered("FORMERR"))
  <2>1. q.revision <= revision /\ Unanswered("FORMERR") \in Results
    BY <1>1, <1>4, ResultFacts
  <2>2. n \in Queries /\ QueryInv(n, open)
    BY <1>3, <1>5, <2>1, ReturnedInv
  <2> HIDE DEF n
  <2> QED
    BY <1>2, <2>2, ReaderStep
<1>6. CASE n = [q EXCEPT !.pc = "index"]
  <2>1. n \in Queries /\ n.pc = "index" /\ n.revision = revision /\ n.key = 0
        /\ n.shard = 0 /\ n.seen = {} /\ n.reads = {}
    BY <1>3, <1>4, <1>6 DEF Queries
  <2> HIDE DEF n
  <2>2. QueryInv(n, open)
    BY <1>1, <2>1 DEF QueryInv, StillTrue
  <2> QED
    BY <1>2, <2>1, <2>2, ReaderStep
<1> QED
  BY <1>5, <1>6

\* A query that has matched its zone, or has been refused.
LEMMA MatchedInv ==
    ASSUME NEW open, ResolverInv(open),
           NEW q \in Queries, QueryInv(q, open), q.pc \in EarlyPcs,
           NEW index \in SUBSET Zones,
           NEW n, \/ n = [Matched(q, index) EXCEPT !.seen = {}, !.shard = 0]
                  \/ n = Matched(q, index) /\ q.shard = 0
    PROVE  n \in Queries /\ QueryInv(n, open)
<1> DEFINE m == Matched(q, index)
           zone == MatchZone(index, q.question.name)
<1>1. zone \in Zones \cup {NoZone}
  BY MatchZoneType
<1>2. 0 \in 0 .. Shards /\ q.revision <= revision /\ q.reads = {} /\ q.key <= revision
  BY ResolverAssumption DEF QueryInv
<1>3. CASE m = Returned(q, Unanswered("REFUSED"))
  <2>1. Unanswered("REFUSED") \in Results
    BY ResultFacts
  <2>2. m \in Queries /\ QueryInv(m, open) /\ m.shard = 0 /\ m.seen = {}
    BY <1>2, <1>3, <2>1, ReturnedInv, ReturnedFacts
  <2> HIDE DEF m
  <2>3. [m EXCEPT !.seen = {}, !.shard = 0] = m
    BY <2>2 DEF Queries
  <2> QED
    BY <2>2, <2>3 DEF m
<1>4. CASE m = [q EXCEPT !.pc = "key", !.zone = zone]
  <2> HIDE DEF zone
  <2>1. m \in Queries /\ m.pc = "key" /\ m.revision = q.revision /\ m.key = q.key
        /\ m.shard = q.shard /\ m.seen = q.seen /\ m.reads = {}
    BY <1>1, <1>2, <1>4 DEF Queries
  <2>2. q.shard = 0 => q.seen = {}
    <3> SUFFICES ASSUME q.shard = 0, NEW z \in q.seen PROVE FALSE
      OBVIOUS
    <3>1. z \in Zones /\ ShardOf[z] < 0
      BY DEF QueryInv, Queries
    <3> QED
      BY <3>1, ResolverAssumption
  <2> HIDE DEF m
  <2>3. n \in Queries /\ n.pc = "key" /\ n.revision = q.revision /\ n.key = q.key
        /\ n.shard = 0 /\ n.seen = {} /\ n.reads = {}
    <3>1. CASE n = [m EXCEPT !.seen = {}, !.shard = 0]
      <4>1. n \in Queries
        BY <1>2, <2>1, <3>1 DEF Queries
      <4>2. n.pc = m.pc /\ n.revision = m.revision /\ n.key = m.key /\ n.reads = m.reads
            /\ n.shard = 0 /\ n.seen = {}
        BY <2>1, <3>1 DEF Queries
      <4> QED
        BY <2>1, <4>1, <4>2
    <3>2. CASE n = m /\ q.shard = 0
      BY <2>1, <2>2, <3>2
    <3> QED
      BY <3>1, <3>2 DEF m
  <2>4. QueryInv(n, open)
    BY <1>2, <2>3 DEF QueryInv, StillTrue
  <2> QED
    BY <2>3, <2>4
<1> QED
  BY <1>3, <1>4 DEF Matched

\* matchZone may use the index of its revision without listing the zones.
LEMMA UseIndexStep ==
    ASSUME NEW open, ResolverInv(open), NEW p \in Readers, UseIndex(p)
    PROVE  ResolverInv(open)'
<1> DEFINE n == IF zonesVersion = query[p].revision /\ zonesLoaded
                THEN Matched(query[p], zoneIndex)
                ELSE [query[p] EXCEPT !.pc = "scan"]
<1>1. query[p] \in Queries /\ QueryInv(query[p], open) /\ query[p].pc = "index"
      /\ zoneIndex \in SUBSET Zones /\ query[p].shard = 0
  BY DEF ResolverInv, TypeOK, UseIndex, QueryInv
<1>2. query' = [query EXCEPT ![p] = n]
      /\ UNCHANGED <<storeVars, zoneIndex, zonesLoaded, zonesVersion, cache>>
  BY DEF UseIndex
<1>3. CASE n = Matched(query[p], zoneIndex)
  <2> HIDE DEF n
  <2>1. n \in Queries /\ QueryInv(n, open)
    BY <1>1, <1>3, MatchedInv DEF EarlyPcs
  <2> QED
    BY <1>2, <2>1, ReaderStep
<1>4. CASE n = [query[p] EXCEPT !.pc = "scan"]
  <2> HIDE DEF n
  <2>1. /\ n \in Queries /\ n.pc = "scan" /\ n.revision = query[p].revision
        /\ n.key = query[p].key /\ n.zone = query[p].zone /\ n.question = query[p].question
        /\ n.shard = 0 /\ n.seen = query[p].seen /\ n.reads = query[p].reads
    BY <1>1, <1>4 DEF Queries
  <2>2. \A z \in Zones : ~(ShardOf[z] < 0)
    BY ResolverAssumption
  <2>3. QueryInv(n, open)
    BY <1>1, <2>1, <2>2, ResolverAssumption DEF QueryInv, EarlyPcs, StillTrue
  <2> QED
    BY <1>2, <2>1, <2>3, ReaderStep
<1> QED
  BY <1>3, <1>4

\* A scanned shard is right for the revision of the scan, but for zones a writer is busy in.
LEMMA ScanShardStep ==
    ASSUME NEW open, ResolverInv(open), NEW p \in Readers, ScanShard(p)
    PROVE  ResolverInv(open)'
<1> DEFINE q == query[p]
           found == {z \in zones : ShardOf[z] = q.shard}
           n == [q EXCEPT !.seen = q.seen \cup found, !.shard = q.shard + 1,
                          !.pc = IF q.shard + 1 = Shards THEN "install" ELSE "scan"]
<1>1. q \in Queries /\ QueryInv(q, open) /\ q.pc = "scan" /\ zones \subseteq Zones
  BY DEF ResolverInv, TypeOK, StoreTypeOK, ScanShard
<1>2. query' = [query EXCEPT ![p] = n]
      /\ UNCHANGED <<storeVars, zoneIndex, zonesLoaded, zonesVersion, cache>>
  BY DEF ScanShard
<1>3. q.shard \in 0 .. Shards /\ q.shard < Shards /\ q.seen \subseteq Zones /\ q.reads = {}
  BY <1>1 DEF QueryInv, Queries, EarlyPcs
<1>4. q.shard + 1 \in 0 .. Shards /\ q.seen \cup found \in SUBSET Zones
  BY <1>1, <1>3, ResolverAssumption
<1>5. /\ n \in Queries /\ n.revision = q.revision /\ n.key = q.key /\ n.zone = q.zone
      /\ n.question = q.question /\ n.shard = q.shard + 1 /\ n.seen = q.seen \cup found
      /\ n.reads = {} /\ n.pc = IF q.shard + 1 = Shards THEN "install" ELSE "scan"
  <2> HIDE DEF found
  <2> QED
    BY <1>1, <1>3, <1>4 DEF Queries
<1>6. \A z \in n.seen : ShardOf[z] < n.shard
  <2>1. \A z \in q.seen : ShardOf[z] < q.shard /\ ShardOf[z] \in Nat
    BY <1>1, <1>3, ResolverAssumption DEF QueryInv
  <2>2. \A z \in found : ShardOf[z] < q.shard + 1
    BY <1>3
  <2> QED
    BY <1>3, <1>5, <2>1, <2>2
<1>7. n.revision = revision =>
          \A z \in Zones : ShardOf[z] < n.shard /\ z \notin open => (z \in n.seen <=> z \in zones)
  <2> SUFFICES ASSUME q.revision = revision, NEW z \in Zones,
                      ShardOf[z] < q.shard + 1, z \notin open
               PROVE  z \in q.seen \cup found <=> z \in zones
    BY <1>5
  <2>1. ShardOf[z] \in Nat
    BY ResolverAssumption
  <2>2. CASE ShardOf[z] < q.shard
    BY <1>1, <2>2 DEF QueryInv
  <2>3. CASE ShardOf[z] = q.shard
    BY <1>1, <1>3, <2>3 DEF QueryInv
  <2> QED
    BY <1>3, <2>1, <2>2, <2>3
<1>8. QueryInv(n, open)
  <2> HIDE DEF n
  <2>1. n.pc = "scan" => n.shard < Shards
    BY <1>3, <1>5, ResolverAssumption
  <2>2. n.pc = "install" => n.shard = Shards
    BY <1>5
  <2>3. n.pc # "index"
    BY <1>5
  <2>4. n.revision <= revision /\ n.key <= revision
    BY <1>1, <1>5 DEF QueryInv
  <2> QED
    BY <1>5, <1>6, <1>7, <2>1, <2>2, <2>3, <2>4 DEF QueryInv, StillTrue
<1> HIDE DEF n
<1> QED
  BY <1>2, <1>5, <1>8, ReaderStep

\* The installed index is current: every shard was read at the version it gets.
LEMMA InstallIndexStep ==
    ASSUME NEW open, ResolverInv(open), NEW p \in Readers, InstallIndex(p)
    PROVE  ResolverInv(open)'
<1> DEFINE q == query[p]
           n == [Matched(q, q.seen) EXCEPT !.seen = {}, !.shard = 0]
<1>1. q \in Queries /\ QueryInv(q, open) /\ q.pc = "install"
  BY DEF ResolverInv, TypeOK, InstallIndex
<1>2. q.seen \in SUBSET Zones /\ q.revision \in Nat /\ q.shard = Shards
      /\ q.revision <= revision
  BY <1>1 DEF Queries, QueryInv
<1>3. /\ zoneIndex' = q.seen /\ zonesLoaded' = TRUE /\ zonesVersion' = q.revision
      /\ query' = [query EXCEPT ![p] = n] /\ cache' = cache
      /\ zones' = zones /\ records' = records /\ revision' = revision /\ call' = call
  BY DEF InstallIndex, storeVars
<1>4. n \in Queries /\ QueryInv(n, open)
  BY <1>1, <1>2, MatchedInv DEF EarlyPcs
<1> HIDE DEF n
<1>5. TypeOK'
  BY <1>2, <1>3, <1>4 DEF ResolverInv, TypeOK, StoreTypeOK
<1>6. zonesVersion' <= revision'
  BY <1>2, <1>3
<1>7. IndexInv(open)'
  <2>1. \A z \in Zones : ShardOf[z] < Shards
    BY ResolverAssumption
  <2>2. q.revision = revision =>
            \A z \in Zones : z \notin open => (z \in q.seen <=> z \in zones)
    BY <1>1, <1>2, <2>1 DEF QueryInv
  <2> QED
    BY <1>3, <2>2 DEF IndexInv
<1>8. \A e \in cache : EntryInv(e, open)'
  BY <1>3 DEF ResolverInv, EntryInv, StillTrue
<1>9. ASSUME NEW r \in Readers PROVE QueryInv(query[r], open)'
  <2>1. query'[r] = n \/ query'[r] = query[r]
    BY <1>3 DEF ResolverInv, TypeOK
  <2>2. QueryInv(query'[r], open)
    BY <1>4, <2>1 DEF ResolverInv
  <2> QED
    BY <1>3, <2>2 DEF QueryInv, StillTrue
<1> QED
  BY <1>3, <1>5, <1>6, <1>7, <1>8, <1>9 DEF ResolverInv

\* The key's revision is read before the first lookup, so no read is older than its key.
LEMMA ReadKeyStep ==
    ASSUME NEW open, ResolverInv(open), NEW p \in Readers, ReadKey(p)
    PROVE  ResolverInv(open)'
<1> DEFINE q == query[p]
           n == [q EXCEPT !.key = revision, !.pc = "get"]
<1>1. q \in Queries /\ QueryInv(q, open) /\ q.pc = "key" /\ revision \in Nat
  BY DEF ResolverInv, TypeOK, StoreTypeOK, ReadKey
<1>2. query' = [query EXCEPT ![p] = n]
      /\ UNCHANGED <<storeVars, zoneIndex, zonesLoaded, zonesVersion, cache>>
  BY DEF ReadKey, ResolverInv, TypeOK
<1>3. q.reads = {}
  BY <1>1 DEF QueryInv, EarlyPcs
<1>4. /\ n \in Queries /\ n.pc = "get" /\ n.revision = q.revision /\ n.key = revision
      /\ n.shard = q.shard /\ n.seen = q.seen /\ n.reads = {}
  BY <1>1, <1>3 DEF Queries
<1> HIDE DEF n
<1>5. QueryInv(n, open)
  BY <1>1, <1>4 DEF QueryInv, StillTrue, EarlyPcs
<1> QED
  BY <1>2, <1>4, <1>5, ReaderStep

\* A hit returns the entry's result; a miss starts a resolution that has read nothing.
LEMMA CacheGetStep ==
    ASSUME NEW open, ResolverInv(open), NEW p \in Readers, CacheGet(p)
    PROVE  ResolverInv(open)'
<1> DEFINE q == query[p]
<1>1. q \in Queries /\ QueryInv(q, open) /\ q.pc = "get" /\ q.revision <= revision
  BY DEF ResolverInv, TypeOK, CacheGet, QueryInv
<1>2. UNCHANGED <<storeVars, zoneIndex, zonesLoaded, zonesVersion, cache>>
  BY DEF CacheGet
<1>3. \/ \E e \in cache : query' = [query EXCEPT ![p] = Returned(q, e.result)]
      \/ query' = [query EXCEPT ![p] = Missed(q)]
  BY DEF CacheGet
<1>4. ASSUME NEW e \in cache, query' = [query EXCEPT ![p] = Returned(q, e.result)]
      PROVE  ResolverInv(open)'
  <2>1. e.result \in Results
    BY DEF ResolverInv, TypeOK, Entries
  <2>2. Returned(q, e.result) \in Queries /\ QueryInv(Returned(q, e.result), open)
    BY <1>1, <2>1, ReturnedInv
  <2> QED
    BY <1>2, <1>4, <2>2, ReaderStep
<1>5. ASSUME query' = [query EXCEPT ![p] = Missed(q)]
      PROVE  ResolverInv(open)'
  <2> DEFINE n == Missed(q)
             r == Resolution("NOTIMP", {}, {}, {})
  <2>1. r \in Results
    BY ResultFacts
  <2>2. \/ n = [q EXCEPT !.pc = "set", !.result = r]
        \/ n = [q EXCEPT !.pc = "any"]
        \/ n = [q EXCEPT !.pc = "exact"]
    BY DEF Missed
  <2> HIDE DEF n, r, q
  <2>3. /\ n \in Queries /\ n.pc \in {"set", "any", "exact"}
        /\ n.revision = q.revision /\ n.key = q.key /\ n.zone = q.zone
        /\ n.question = q.question /\ n.shard = q.shard /\ n.seen = q.seen
        /\ n.reads = q.reads
    BY <1>1, <2>1, <2>2 DEF Queries
  <2>4. QueryInv(n, open)
    BY <1>1, <2>3 DEF QueryInv, EarlyPcs
  <2> QED
    BY <1>2, <1>5, <2>3, <2>4, ReaderStep DEF n
<1> QED
  BY <1>3, <1>4, <1>5

\* The entry that is stored takes over what the invariant says of the query's reads.
LEMMA CacheSetStep ==
    ASSUME NEW open, ResolverInv(open), NEW p \in Readers, CacheSet(p)
    PROVE  ResolverInv(open)'
<1> DEFINE q     == query[p]
           entry == [key |-> q.key, question |-> q.question, zone |-> q.zone,
                     reads |-> q.reads, result |-> q.result]
           n     == Returned(q, q.result)
<1>1. q \in Queries /\ QueryInv(q, open) /\ q.result \in Results /\ q.revision <= revision
  BY DEF ResolverInv, TypeOK, QueryInv, Queries
<1>2. /\ query' = [query EXCEPT ![p] = n]
      /\ zones' = zones /\ records' = records /\ revision' = revision /\ call' = call
      /\ zoneIndex' = zoneIndex /\ zonesLoaded' = zonesLoaded
      /\ zonesVersion' = zonesVersion
  BY DEF CacheSet, storeVars
<1>3. cache' \subseteq cache \cup {entry}
  BY DEF CacheSet
<1>4. entry \in Entries
  BY <1>1 DEF Entries, Queries
<1>5. EntryInv(entry, open)
  BY <1>1 DEF EntryInv, QueryInv
<1>6. n \in Queries /\ QueryInv(n, open)
  BY <1>1, ReturnedInv
<1> HIDE DEF n, entry
<1>7. TypeOK'
  BY <1>2, <1>3, <1>4, <1>6 DEF ResolverInv, TypeOK, StoreTypeOK
<1>8. zonesVersion' <= revision' /\ IndexInv(open)'
  BY <1>2 DEF ResolverInv, IndexInv
<1>9. ASSUME NEW e \in cache' PROVE EntryInv(e, open)'
  <2>1. EntryInv(e, open)
    BY <1>3, <1>5 DEF ResolverInv
  <2> QED
    BY <1>2, <2>1 DEF EntryInv, StillTrue
<1>10. ASSUME NEW r \in Readers PROVE QueryInv(query[r], open)'
  <2>1. query'[r] = n \/ query'[r] = query[r]
    BY <1>2 DEF ResolverInv, TypeOK
  <2>2. QueryInv(query'[r], open)
    BY <1>6, <2>1 DEF ResolverInv
  <2> QED
    BY <1>2, <2>2 DEF QueryInv, StillTrue
<1> QED
  BY <1>7, <1>8, <1>9, <1>10 DEF ResolverInv

\* Expiry and eviction only remove entries.
LEMMA EvictStep ==
    ASSUME NEW open, ResolverInv(open), Evict
    PROVE  ResolverInv(open)'
<1>1. /\ cache' \subseteq cache /\ query' = query
      /\ zones' = zones /\ records' = records /\ revision' = revision /\ call' = call
      /\ zoneIndex' = zoneIndex /\ zonesLoaded' = zonesLoaded
      /\ zonesVersion' = zonesVersion
  BY DEF Evict, storeVars
<1>2. TypeOK'
  BY <1>1 DEF ResolverInv, TypeOK, StoreTypeOK
<1>3. zonesVersion' <= revision' /\ IndexInv(open)'
  BY <1>1 DEF ResolverInv, IndexInv
<1>4. \A e \in cache' : EntryInv(e, open)'
  BY <1>1 DEF ResolverInv, EntryInv, StillTrue
<1>5. \A p \in Readers : QueryInv(query[p], open)'
  BY <1>1 DEF ResolverInv, QueryInv, StillTrue
<1> QED
  BY <1>2, <1>3, <1>4, <1>5 DEF ResolverInv

\* Writing the reply returns the reader to its state between two queries.
LEMMA ReplyStep ==
    ASSUME NEW open, ResolverInv(open), NEW p \in Readers, Reply(p)
    PROVE  ResolverInv(open)'
<1>1. revision \in Nat
  BY DEF ResolverInv, TypeOK, StoreTypeOK
<1>2. QueryInv(NoQuery, open)
  BY <1>1 DEF QueryInv, NoQuery, StillTrue, EarlyPcs
<1> QED
  BY <1>2, NoQueryType, ReaderStep DEF Reply

\* Each of the eight lookup steps notes one lookup and touches nothing else.
LEMMA LookupsNoteOne ==
    ASSUME TypeOK, NEW p \in Readers,
           \/ LookupAny(p) \/ LookupExact(p) \/ LookupCNAME(p) \/ LookupTarget(p)
           \/ LookupNegative(p) \/ LookupSOA(p) \/ LookupA(p) \/ LookupAAAA(p)
    PROVE  /\ NotesOne(p)
           /\ UNCHANGED <<storeVars, zoneIndex, zonesLoaded, zonesVersion, cache>>
<1>1. NotesOne(p)
  <2>1. /\ query[p].question.name \in Names /\ query[p].question.type \in LookupTypes
        /\ query[p].current \in Names /\ query[p].target \in Names /\ query[p].zone \in Names
        /\ query[p].todo \subseteq Names
        /\ {"ANY", "CNAME", "SOA", "A", "AAAA"} \subseteq LookupTypes
    BY QueryFacts DEF LookupTypes
  <2>2. CASE LookupA(p)
    <3>1. PICK target \in query[p].todo : LooksUp(p, target, "A")
      BY <2>2, LookupAStep DEF LookupA
    <3> QED
      BY <2>1, <3>1 DEF NotesOne
  <2> QED
    BY <2>1, <2>2, LookupAnyStep, LookupExactStep, LookupCNAMEStep, LookupTargetStep,
       LookupNegativeStep, LookupSOAStep, LookupAAAAStep DEF NotesOne
<1>2. UNCHANGED <<storeVars, zoneIndex, zonesLoaded, zonesVersion, cache>>
  BY DEF LookupAny, LookupExact, LookupCNAME, LookupTarget, LookupNegative, LookupSOA,
         LookupA, LookupAAAA, Looked
<1> QED
  BY <1>1, <1>2

\* So each of them keeps the invariant.
LEMMA AnyLookupStep ==
    ASSUME NEW open, ResolverInv(open), NEW p \in Readers,
           \/ LookupAny(p) \/ LookupExact(p) \/ LookupCNAME(p) \/ LookupTarget(p)
           \/ LookupNegative(p) \/ LookupSOA(p) \/ LookupA(p) \/ LookupAAAA(p)
    PROVE  ResolverInv(open)'
BY LookupsNoteOne, LookupStep DEF ResolverInv

\* Every step of a query, and its first, keeps the invariant.
LEMMA QueryNextStep ==
    ASSUME NEW open, ResolverInv(open), NEW p \in Readers,
           (\E raw \in Questions : Resolve(p, raw)) \/ QueryStep(p)
    PROVE  ResolverInv(open)' /\ UNCHANGED storeVars
<1>1. UNCHANGED storeVars
  BY DEF Resolve, QueryStep, UseIndex, ScanShard, InstallIndex, ReadKey, CacheGet, CacheSet,
         LookupAny, LookupExact, LookupCNAME, LookupTarget, LookupNegative, LookupSOA,
         LookupA, LookupAAAA, Looked, Reply
<1>2. ASSUME NEW raw \in Questions, Resolve(p, raw) PROVE ResolverInv(open)'
  BY <1>2, ResolveStep
<1>3. ASSUME QueryStep(p) PROVE ResolverInv(open)'
  BY <1>3, UseIndexStep, ScanShardStep, InstallIndexStep, ReadKeyStep, CacheGetStep,
     CacheSetStep, AnyLookupStep, ReplyStep DEF QueryStep
<1> QED
  BY <1>1, <1>2, <1>3

\* A step that changes neither the store nor the resolver keeps the invariant.
LEMMA IdleStep ==
    ASSUME NEW open, ResolverInv(open), UNCHANGED vars
    PROVE  ResolverInv(open)'
<1>1. /\ zones' = zones /\ records' = records /\ revision' = revision /\ call' = call
      /\ zoneIndex' = zoneIndex /\ zonesLoaded' = zonesLoaded
      /\ zonesVersion' = zonesVersion /\ cache' = cache /\ query' = query
  BY DEF vars
<1> QED
  BY <1>1 DEF ResolverInv, TypeOK, StoreTypeOK, IndexInv, EntryInv, QueryInv, StillTrue

-----------------------------------------------------------------------------
(* The resolver over a MemoryStore, whose open zones are those a writer is busy in. *)

Inv == StoreInv /\ \E open \in SUBSET Zones : open = OpenZones /\ ResolverInv(open)

\* The resolver starts with an empty cache on whatever the store holds.
LEMMA InitInv == Init => Inv
<1> SUFFICES ASSUME Init PROVE Inv
  OBVIOUS
<1>1. StoreInv
  BY StoreInitInv DEF Init
<1>2. PICK open \in SUBSET Zones : open = OpenZones
  BY DEF OpenZones
<1>3. ResolverInv(open)
  BY <1>1, FreshResolver DEF Init, StoreInv
<1> QED
  BY <1>1, <1>2, <1>3 DEF Inv

\* Every step of the system, and a stuttering one, keeps the invariant.
LEMMA NextInv == Inv /\ [Next]_vars => Inv'
<1> SUFFICES ASSUME Inv, [Next]_vars PROVE Inv'
  OBVIOUS
<1>1. PICK open \in SUBSET Zones : open = OpenZones /\ ResolverInv(open)
  BY DEF Inv
<1>2. StoreInv
  BY DEF Inv
<1>3. CASE StoreNext /\ UNCHANGED resolverVars
  <2>1. StoreInv' /\ ((\E zone \in Zones : Touches(zone)) \/ \E p \in Writers : Bump(p))
    BY <1>2, <1>3, StoreNextStep
  <2>2. PICK after \in SUBSET Zones : after = OpenZones'
    BY DEF OpenZones
  <2>3. ASSUME NEW zone \in Zones, Touches(zone) PROVE Hides(open, after)
    BY <1>1, <2>2, <2>3 DEF Touches, Hides, OpenZones
  <2>4. ASSUME NEW p \in Writers, Bump(p) PROVE Announces
    BY <1>2, <2>4, BumpStep
  <2>5. ResolverInv(after)'
    BY <1>1, <1>3, <2>1, <2>3, <2>4, WriterStep DEF StoreInv
  <2> QED
    BY <2>1, <2>2, <2>5 DEF Inv
<1>4. ASSUME ResolverInv(open)', UNCHANGED storeVars PROVE Inv'
  <2>1. zones' = zones /\ records' = records /\ revision' = revision /\ call' = call
    BY <1>4 DEF storeVars
  <2>2. StoreInv' /\ open = OpenZones'
    BY <1>1, <1>2, <2>1
    DEF StoreInv, StoreTypeOK, CallsInOneZone, BusyInZones, OpenZones, Busy
  <2> QED
    BY <1>4, <2>2 DEF Inv
<1>5. ASSUME NEW p \in Readers, (\E raw \in Questions : Resolve(p, raw)) \/ QueryStep(p)
      PROVE  Inv'
  BY <1>1, <1>4, <1>5, QueryNextStep
<1>6. CASE Evict
  BY <1>1, <1>4, <1>6, EvictStep DEF Evict
<1>7. CASE UNCHANGED vars
  <2>1. UNCHANGED storeVars
    BY <1>7 DEF vars, storeVars
  <2> QED
    BY <1>1, <1>4, <1>7, <2>1, IdleStep
<1> QED
  BY <1>3, <1>5, <1>6, <1>7 DEF Next

\* The invariant implies what the theorems say.
LEMMA InvConsequences == Inv => TypeOK /\ IndexCurrent /\ CacheCurrent
<1> SUFFICES ASSUME Inv PROVE TypeOK /\ IndexCurrent /\ CacheCurrent
  OBVIOUS
<1>1. PICK open \in SUBSET Zones : open = OpenZones /\ ResolverInv(open)
  BY DEF Inv
<1>2. \A z : ~Busy(z) => z \notin open
  BY <1>1 DEF OpenZones
<1>3. IndexCurrent
  BY <1>1, <1>2 DEF ResolverInv, IndexInv, IndexCurrent
<1>4. CacheCurrent
  BY <1>1, <1>2 DEF ResolverInv, EntryInv, StillTrue, CacheCurrent
<1> QED
  BY <1>1, <1>3, <1>4 DEF ResolverInv

-----------------------------------------------------------------------------
\* The inductive invariant holds in every reachable state of the resolver and its store.
LEMMA InvHolds == Spec => []Inv
BY InitInv, NextInv, PTL DEF Spec

\* The type invariant of the store and the resolver, for any number of writers and
\* readers, any records, questions, shards, chain bound and cache capacity.
THEOREM TypeCorrect == Spec => []TypeOK
BY InvHolds, InvConsequences, PTL

\* The zone index that matchZone uses for the current revision is the zone list of
\* the store, but for zones a writer is still working on.
THEOREM IndexIsCurrent == Spec => []IndexCurrent
BY InvHolds, InvConsequences, PTL

\* Every lookup behind a cached response of the current revision still finds the same
\* records, unless a writer is still working on the zone of the response.
THEOREM CacheIsCurrent == Spec => []CacheCurrent
BY InvHolds, InvConsequences, PTL
=============================================================================

-------------------------- MODULE ResolutionProofs --------------------------
(***************************************************************************)
(* Proofs that the chain of lookups a query makes computes the answer of   *)
(* its zone: a cached response of the current revision is what the         *)
(* reference definition ZoneAnswer says of the store as it is.             *)
(*                                                                         *)
(* The argument.  For every store with which the lookups made so far       *)
(* agree, the query is on its way to that store's answer: it stands on a   *)
(* link of that store's chain of aliases, or holds the sections of the     *)
(* answer that it has read.  An entry therefore holds the answer of every  *)
(* store that its lookups agree with, and ResolverProofs shows that the    *)
(* current store is one of them.                                           *)
(***************************************************************************)
EXTENDS ResolverProofs, WellFoundedInduction

-----------------------------------------------------------------------------
(* The chain of aliases. *)

\* A set of natural numbers that is not empty has a least one.
LEMMA LeastNat ==
    ASSUME NEW T \in SUBSET Nat, T # {}
    PROVE  \E n \in T : \A m \in T : n <= m
<1>1. PICK n \in T : \A m \in T : ~(<<m, n>> \in OpToRel(<, Nat))
  BY NatLessThanWellFounded, WFMin
<1>2. \A m \in T : ~(m < n)
  BY <1>1 DEF OpToRel
<1> QED
  BY <1>2

\* The name after a link of the chain.
NextLink(v, name) == IF Follows(v, name) THEN AliasTarget(v, name) ELSE name

\* A chain of n links exists for every n up to the bound.
LEMMA ChainExists ==
    ASSUME NEW v
    PROVE  \A n \in 0 .. MaxCNAMEChain : \E f :
               f = [k \in 0 .. n |-> IF k = 0 THEN v.question.name ELSE NextLink(v, f[k - 1])]
<1> DEFINE IsChain(f, n) ==
               f = [k \in 0 .. n |-> IF k = 0 THEN v.question.name ELSE NextLink(v, f[k - 1])]
           bad == {n \in 0 .. MaxCNAMEChain : ~ \E f : IsChain(f, n)}
<1>1. ASSUME bad # {} PROVE FALSE
  <2>1. bad \in SUBSET Nat
    BY ResolverAssumption
  <2>2. PICK n \in bad : \A m \in bad : n <= m
    <3> HIDE DEF bad
    <3> QED
      BY <1>1, <2>1, LeastNat
  <2>3. n \in Nat /\ n <= MaxCNAMEChain /\ MaxCNAMEChain \in Nat
    BY <2>2, ResolverAssumption
  <2>4. CASE n = 0
    <3> DEFINE f == [k \in 0 .. 0 |-> v.question.name]
    <3>1. f = [k \in 0 .. 0 |-> IF k = 0 THEN v.question.name ELSE NextLink(v, f[k - 1])]
      OBVIOUS
    <3> QED
      BY <2>2, <2>4, <3>1
  <2>5. CASE n > 0
    <3>1. PICK g : IsChain(g, n - 1)
      <4>1. n - 1 \in 0 .. MaxCNAMEChain /\ ~(n <= n - 1)
        BY <2>3, <2>5
      <4>2. n - 1 \notin bad
        <5> HIDE DEF bad
        <5> QED
          BY <2>2, <4>1
      <4> HIDE DEF IsChain
      <4> QED
        BY <4>1, <4>2
    <3> DEFINE f == [k \in 0 .. n |-> IF k = n THEN NextLink(v, g[n - 1]) ELSE g[k]]
    <3>2. IsChain(f, n)
      BY <2>3, <2>5, <3>1
    <3> QED
      BY <2>2, <3>2
  <2> QED
    BY <2>3, <2>4, <2>5
<1> QED
  BY <1>1

\* The links of the chain, one after the other.
LEMMA LinksFacts ==
    ASSUME NEW v
    PROVE  /\ Links(v)[0] = v.question.name
           /\ \A k \in 0 .. MaxCNAMEChain - 1 :
                 Links(v)[k + 1] = NextLink(v, Links(v)[k])
<1> DEFINE IsChain(f) ==
               f = [k \in 0 .. MaxCNAMEChain |->
                        IF k = 0 THEN v.question.name ELSE NextLink(v, f[k - 1])]
<1>1. MaxCNAMEChain \in 0 .. MaxCNAMEChain /\ MaxCNAMEChain \in Nat
  BY ResolverAssumption
<1>2. \E f : IsChain(f)
  BY <1>1, ChainExists
<1>3. Links(v) = CHOOSE f : IsChain(f)
  BY DEF Links, NextLink
<1>4. IsChain(Links(v))
  BY <1>2, <1>3
<1> QED
  BY <1>1, <1>4

\* The number of aliases followed, from what holds of the links.
LEMMA LengthIs ==
    ASSUME NEW v, NEW k \in 0 .. MaxCNAMEChain,
           \A j \in 0 .. k - 1 : Follows(v, Links(v)[j]),
           k = MaxCNAMEChain \/ ~Follows(v, Links(v)[k])
    PROVE  ChainLength(v) = k
<1> DEFINE Ends(n) == /\ \A j \in 0 .. n - 1 : Follows(v, Links(v)[j])
                      /\ n = MaxCNAMEChain \/ ~Follows(v, Links(v)[n])
<1>1. Ends(k) /\ k \in 0 .. MaxCNAMEChain
  OBVIOUS
<1>2. ASSUME NEW n \in 0 .. MaxCNAMEChain, Ends(n) PROVE n = k
  BY <1>1, <1>2, ResolverAssumption
<1>3. ChainLength(v) = CHOOSE n \in 0 .. MaxCNAMEChain : Ends(n)
  BY DEF ChainLength
<1> HIDE DEF Ends
<1> QED
  BY <1>1, <1>2, <1>3

\* There is such a number.
LEMMA LengthFacts ==
    ASSUME NEW v
    PROVE  /\ ChainLength(v) \in 0 .. MaxCNAMEChain
           /\ \A j \in 0 .. ChainLength(v) - 1 : Follows(v, Links(v)[j])
           /\ ChainLength(v) = MaxCNAMEChain \/ ~Follows(v, Links(v)[ChainLength(v)])
<1> DEFINE ends == {k \in 0 .. MaxCNAMEChain :
                        k = MaxCNAMEChain \/ ~Follows(v, Links(v)[k])}
<1>1. ends \in SUBSET Nat /\ MaxCNAMEChain \in ends /\ MaxCNAMEChain \in Nat
  BY ResolverAssumption
<1>2. PICK k \in ends : \A m \in ends : k <= m
  <2> HIDE DEF ends
  <2> QED
    BY <1>1, LeastNat
<1>3. \A j \in 0 .. k - 1 : Follows(v, Links(v)[j])
  BY <1>1, <1>2
<1>4. ChainLength(v) = k
  BY <1>2, <1>3, LengthIs
<1> QED
  BY <1>2, <1>3, <1>4

\* Names whose aliases lead from one to another keep the chain going to its bound.
LEMMA CircleFacts ==
    ASSUME NEW v, NEW V, v.question.name \in V,
           \A name \in V : Follows(v, name) /\ AliasTarget(v, name) \in V
    PROVE  /\ ChainLength(v) = MaxCNAMEChain
           /\ \A k \in 0 .. MaxCNAMEChain : Links(v)[k] \in V
<1> DEFINE bad == {k \in 0 .. MaxCNAMEChain : Links(v)[k] \notin V}
<1>1. ASSUME bad # {} PROVE FALSE
  <2>1. bad \in SUBSET Nat
    BY ResolverAssumption
  <2>2. PICK k \in bad : \A m \in bad : k <= m
    <3> HIDE DEF bad
    <3> QED
      BY <1>1, <2>1, LeastNat
  <2>3. k # 0 /\ k \in 1 .. MaxCNAMEChain
    BY <2>2, LinksFacts, ResolverAssumption
  <2>4. k - 1 \in 0 .. MaxCNAMEChain - 1 /\ k - 1 \in 0 .. MaxCNAMEChain /\ (k - 1) + 1 = k
    BY <2>3, ResolverAssumption
  <2>5. Links(v)[k - 1] \in V
    BY <2>2, <2>4
  <2>6. Links(v)[k] = NextLink(v, Links(v)[k - 1])
    BY <2>4, LinksFacts
  <2> QED
    BY <2>2, <2>5, <2>6 DEF NextLink
<1>2. \A k \in 0 .. MaxCNAMEChain : Links(v)[k] \in V
  BY <1>1
<1>3. \A j \in 0 .. MaxCNAMEChain - 1 : Follows(v, Links(v)[j])
  BY <1>2, ResolverAssumption
<1>4. MaxCNAMEChain \in 0 .. MaxCNAMEChain
  BY ResolverAssumption
<1> QED
  BY <1>2, <1>3, <1>4, LengthIs

-----------------------------------------------------------------------------
(* A query on its way to the answer of a view. *)

\* The question is one that resolveAuthoritative looks up.
Served(q) == q.question.class \in {"IN", "ANY"}

\* The query stands on a link of the chain, and its answer holds the aliases up to the
\* n-th link.
Chained(q, v, n) ==
    /\ v.question.type # "ANY"
    /\ Lookup(v, v.question.name, v.question.type) = {}
    /\ q.current = Links(v)[q.hops]
    /\ \A j \in 0 .. q.hops - 1 : Follows(v, Links(v)[j])
    /\ q.visited = {Links(v)[j] : j \in 0 .. q.hops}
    /\ q.current = v.question.name <=> q.hops = 0
    /\ Parsable(Aliases(v, n))
    /\ q.result = Resolution("SUCCESS", RRs(Aliases(v, n)), {}, {})

\* The answer and the authority of the query are final, and some targets have been
\* asked for their addresses; extra is what its additional section holds.
Completing(q, v, extra) ==
    \E A \in SUBSET Records, U \in SUBSET Records :
        LET targets == AdditionalTargets(v.zone, RRs(A))
            found   == Addresses(v, targets \ q.todo)
        IN  /\ ViewAnswer(v) = Answered(v, q.result.rcode, A, U)
            /\ q.todo \subseteq targets
            /\ Parsable(A \cup U) /\ Parsable(found)
            /\ q.result = Resolution(q.result.rcode, RRs(A), RRs(U),
                                     (RRs(found) \ RRs(A)) \cup extra)

OnWay(q, v) ==
    /\ q.pc # "set" => Served(q)
    /\ q.pc = "any" => v.question.type = "ANY"
    /\ q.pc = "exact" => v.question.type # "ANY"
    /\ q.pc = "cname" => Chained(q, v, q.hops - 1)
    /\ q.pc = "target" =>
          /\ Chained(q, v, q.hops)
          /\ Lookup(v, q.current, "CNAME") # {}
          /\ ~LeavesZone(v, q.current)
          /\ q.target = AliasTarget(v, q.current)
    /\ q.pc = "negative" =>
          /\ Lookup(v, v.question.name, v.question.type) = {}
          /\ v.question.type = "ANY" \/ Lookup(v, v.question.name, "CNAME") = {}
    /\ q.pc = "soa" =>
          \E A \in SUBSET Records :
              /\ ViewAnswer(v) = Answered(v, q.result.rcode, A, Lookup(v, v.zone, "SOA"))
              /\ Parsable(A)
              /\ q.result = Resolution(q.result.rcode, RRs(A), {}, {})
    /\ q.pc = "extraA" => Completing(q, v, {})
    /\ q.pc = "extraAAAA" =>
          /\ q.target \in q.todo
          /\ Parsable(Lookup(v, q.target, "A"))
          /\ Completing(q, v, RRs(Lookup(v, q.target, "A")))
    /\ q.pc = "extraFail" =>
          /\ q.target \in q.todo
          /\ ~Parsable(Lookup(v, q.target, "A"))
          /\ Completing(q, v, {})
    /\ q.pc = "set" => q.result = ViewAnswer(v)

\* The same of a query after its resolution, which may have failed.
Reaches(q, v) ==
    /\ q.pc # "done" => OnWay(q, v)
    /\ q.pc = "done" => q.result = ViewAnswer(v)

\* The pcs of a query between its cache miss and its answer.
ResolvingPcs == {"any", "exact"} \cup LatePcs

View(q, S) == [records |-> S, zone |-> q.zone, question |-> q.question]

Agrees(S, q) ==
    \A rd \in q.reads : rd.found = LookupIn(S, q.zone, rd.name, rd.type, q.question.class)

ExactQuery(q) ==
    /\ q.pc \notin LatePcs => q.hops = 0
    /\ q.pc \in ResolvingPcs =>
          \A S \in SUBSET Records : Agrees(S, q) => OnWay(q, View(q, S))

ExactEntry(e) ==
    \A S \in SUBSET Records : Agrees(S, e) => e.result = ZoneAnswer(S, e.zone, e.question)

ExactInv ==
    /\ \A e \in cache : ExactEntry(e)
    /\ \A p \in Readers : ExactQuery(query[p])

-----------------------------------------------------------------------------
(* What the reference definition says in each case of the code. *)

\* A resolution with another answer, authority or additional section.
LEMMA ResolutionFacts ==
    ASSUME NEW rcode, NEW a, NEW u, NEW x, NEW s
    PROVE  LET r == Resolution(rcode, a, u, x)
           IN  /\ r.rcode = rcode /\ r.answer = a /\ r.authority = u /\ r.extra = x
               /\ [r EXCEPT !.answer = s] = Resolution(rcode, s, u, x)
               /\ [r EXCEPT !.authority = s] = Resolution(rcode, a, s, x)
               /\ [r EXCEPT !.extra = s] = Resolution(rcode, a, u, s)
<1> DEFINE r == Resolution(rcode, a, u, x)
<1>1. r.rcode = rcode /\ r.answer = a /\ r.authority = u /\ r.extra = x
  BY DEF Resolution
<1> DEFINE R(b, c, d, t) == [rcode |-> rcode, answer |-> b, authority |-> c,
                             extra |-> d, authoritative |-> t]
<1>2. \A b, c, d, t : /\ [R(b, c, d, t) EXCEPT !.answer = s] = R(s, c, d, t)
                      /\ [R(b, c, d, t) EXCEPT !.authority = s] = R(b, s, d, t)
                      /\ [R(b, c, d, t) EXCEPT !.extra = s] = R(b, c, s, t)
  OBVIOUS
<1>3. \A b, c, d : Resolution(rcode, b, c, d) = R(b, c, d, TRUE)
  BY DEF Resolution
<1>4. PICK t : t = TRUE
  OBVIOUS
<1>5. \A b, c, d : Resolution(rcode, b, c, d) = R(b, c, d, t)
  BY <1>3, <1>4, Zenon
<1> HIDE DEF R
<1>6. r = R(a, u, x, t) /\ Resolution(rcode, s, u, x) = R(s, u, x, t)
      /\ Resolution(rcode, a, s, x) = R(a, s, x, t) /\ Resolution(rcode, a, u, s) = R(a, u, s, t)
  BY <1>5
<1> HIDE DEF r
<1>7. /\ [r EXCEPT !.answer = s] = Resolution(rcode, s, u, x)
      /\ [r EXCEPT !.authority = s] = Resolution(rcode, a, s, x)
      /\ [r EXCEPT !.extra = s] = Resolution(rcode, a, u, s)
  BY <1>2, <1>6
<1> QED
  BY <1>1, <1>7 DEF r

\* recordsToRRs of two groups of records, and parsing them.
LEMMA UnionFacts ==
    ASSUME NEW A, NEW B
    PROVE  /\ RRs(A \cup B) = RRs(A) \cup RRs(B)
           /\ Parsable(A \cup B) <=> Parsable(A) /\ Parsable(B)
           /\ RRs({}) = {} /\ Parsable({})
<1>1. RRs(A \cup B) = RRs(A) \cup RRs(B)
  BY DEF RRs
<1>2. Parsable(A \cup B) <=> Parsable(A) /\ Parsable(B)
  BY DEF Parsable
<1>3. RRs({}) = {} /\ Parsable({})
  BY DEF RRs, Parsable
<1> QED
  BY <1>1, <1>2, <1>3

\* A view of a query: some store, with the query's zone and question.
IsView(v, q) ==
    /\ v.records \in SUBSET Records
    /\ v.zone = q.zone
    /\ v.question = q.question

\* The class of a question that is looked up, and one that is not.
LEMMA ViewAnswerFacts ==
    ASSUME NEW v
    PROVE  LET exact == Lookup(v, v.question.name, v.question.type)
           IN  /\ v.question.class \notin {"IN", "ANY"} =>
                      ViewAnswer(v) = Resolution("NOTIMP", {}, {}, {})
               /\ v.question.class \in {"IN", "ANY"} =>
                      /\ exact # {} => ViewAnswer(v) = Answered(v, "SUCCESS", exact, {})
                      /\ exact = {} /\ v.question.type = "ANY" =>
                             ViewAnswer(v) = Answered(v, "NXDOMAIN", {}, Lookup(v, v.zone, "SOA"))
                      /\ exact = {} /\ v.question.type # "ANY" => ViewAnswer(v) = AliasAnswer(v)
<1> DEFINE exact == Lookup(v, v.question.name, v.question.type)
<1>1. ViewAnswer(v) =
          CASE v.question.class \notin {"IN", "ANY"} -> Resolution("NOTIMP", {}, {}, {})
            [] v.question.class \in {"IN", "ANY"} /\ exact # {} ->
                  Answered(v, "SUCCESS", exact, {})
            [] v.question.class \in {"IN", "ANY"} /\ exact = {} /\ v.question.type = "ANY" ->
                  Answered(v, "NXDOMAIN", {}, Lookup(v, v.zone, "SOA"))
            [] OTHER -> AliasAnswer(v)
  BY DEF ViewAnswer
<1> HIDE DEF exact
<1> QED
  BY <1>1 DEF exact

\* What a lookup of a view finds are records.
LEMMA LookupType ==
    ASSUME NEW v, v.records \in SUBSET Records, NEW name, NEW type
    PROVE  Lookup(v, name, type) \in SUBSET Records
BY DEF Lookup, LookupIn

\* The aliases up to a link are those before it and its own.
LEMMA AliasesStep ==
    ASSUME NEW v, v.records \in SUBSET Records, NEW k \in Nat
    PROVE  /\ Aliases(v, k) = Aliases(v, k - 1) \cup Lookup(v, Links(v)[k], "CNAME")
           /\ Aliases(v, k) \in SUBSET Records
           /\ Aliases(v, 0 - 1) = {}
<1>1. \A n : n \in 0 .. k <=> n \in 0 .. k - 1 \/ n = k
  OBVIOUS
<1>2. Aliases(v, k) = Aliases(v, k - 1) \cup Lookup(v, Links(v)[k], "CNAME")
  BY <1>1 DEF Aliases
<1>3. Aliases(v, k) \in SUBSET Records
  BY LookupType DEF Aliases
<1>4. Aliases(v, 0 - 1) = {}
  BY DEF Aliases
<1> QED
  BY <1>2, <1>3, <1>4

\* A response whose answer or authority cannot be parsed is none.
LEMMA AnsweredFails ==
    ASSUME NEW v, NEW rcode, NEW A, NEW U,
           \/ ~Parsable(A) \/ ~Parsable(U)
           \/ ~Parsable(Addresses(v, AdditionalTargets(v.zone, RRs(A))))
    PROVE  Answered(v, rcode, A, U) = Unanswered("SERVFAIL")
<1>1. ~Parsable(A \cup U \cup Addresses(v, AdditionalTargets(v.zone, RRs(A))))
  BY DEF Parsable
<1> QED
  BY <1>1 DEF Answered

\* A response all of which can be parsed.
LEMMA AnsweredHolds ==
    ASSUME NEW v, NEW rcode, NEW A, NEW U, Parsable(A \cup U),
           NEW found, found = Addresses(v, AdditionalTargets(v.zone, RRs(A))), Parsable(found)
    PROVE  Answered(v, rcode, A, U) = Resolution(rcode, RRs(A), RRs(U), RRs(found) \ RRs(A))
<1>1. Parsable(A \cup U \cup found)
  BY DEF Parsable
<1> QED
  BY <1>1 DEF Answered

\* The four outcomes of a chain of aliases.
LEMMA AliasAnswerFacts ==
    ASSUME NEW v
    PROVE  LET length == ChainLength(v)
               last   == Links(v)[length]
               soa    == Lookup(v, v.zone, "SOA")
           IN  /\ length = MaxCNAMEChain =>
                     AliasAnswer(v) = IF Parsable(Aliases(v, MaxCNAMEChain - 1))
                                      THEN Resolution("SERVFAIL", {}, {}, {})
                                      ELSE Unanswered("SERVFAIL")
               /\ length < MaxCNAMEChain /\ Lookup(v, last, "CNAME") # {} =>
                     AliasAnswer(v) =
                         Answered(v, "SUCCESS",
                                  Aliases(v, length) \cup
                                      IF LeavesZone(v, last) THEN {}
                                      ELSE Lookup(v, AliasTarget(v, last), v.question.type), {})
               /\ length < MaxCNAMEChain /\ length # 0 /\ Lookup(v, last, "CNAME") = {} =>
                     AliasAnswer(v) = Answered(v, "SUCCESS", Aliases(v, length), soa)
               /\ length = 0 /\ Lookup(v, last, "CNAME") = {} =>
                     AliasAnswer(v) =
                         Answered(v, IF Lookup(v, v.question.name, "ANY") = {}
                                     THEN "NXDOMAIN" ELSE "SUCCESS", {}, soa)
<1> DEFINE length == ChainLength(v)
           last   == Links(v)[length]
           soa    == Lookup(v, v.zone, "SOA")
           long   == IF Parsable(Aliases(v, MaxCNAMEChain - 1))
                     THEN Resolution("SERVFAIL", {}, {}, {}) ELSE Unanswered("SERVFAIL")
           ended  == Answered(v, "SUCCESS",
                              Aliases(v, length) \cup
                                  IF LeavesZone(v, last) THEN {}
                                  ELSE Lookup(v, AliasTarget(v, last), v.question.type), {})
           empty  == Answered(v, "SUCCESS", Aliases(v, length), soa)
           none   == Answered(v, IF Lookup(v, v.question.name, "ANY") = {}
                                 THEN "NXDOMAIN" ELSE "SUCCESS", {}, soa)
<1>1. AliasAnswer(v) =
          CASE length = MaxCNAMEChain -> long
            [] length < MaxCNAMEChain /\ Lookup(v, last, "CNAME") # {} -> ended
            [] length \in 1 .. MaxCNAMEChain - 1 /\ Lookup(v, last, "CNAME") = {} -> empty
            [] OTHER -> none
  BY DEF AliasAnswer
<1>2. length \in 0 .. MaxCNAMEChain /\ MaxCNAMEChain \in Nat \ {0}
  BY LengthFacts, ResolverAssumption
<1> HIDE DEF length, long, ended, empty, none
<1>3. length = MaxCNAMEChain => AliasAnswer(v) = long
  BY <1>1, <1>2
<1>4. length < MaxCNAMEChain /\ Lookup(v, last, "CNAME") # {} => AliasAnswer(v) = ended
  BY <1>1, <1>2
<1>5. length < MaxCNAMEChain /\ length # 0 /\ Lookup(v, last, "CNAME") = {} =>
          AliasAnswer(v) = empty
  BY <1>1, <1>2
<1>6. length = 0 /\ Lookup(v, last, "CNAME") = {} => AliasAnswer(v) = none
  BY <1>1, <1>2
<1> QED
  BY <1>3, <1>4, <1>5, <1>6 DEF length, long, ended, empty, none

-----------------------------------------------------------------------------
(* The lookups of a query, one by one. *)

\* An error return of Resolve.
LEMMA FailedReaches ==
    ASSUME NEW q \in Queries, NEW v, ViewAnswer(v) = Unanswered("SERVFAIL")
    PROVE  Reaches(Failed(q), v)
<1>1. Failed(q).pc = "done" /\ Failed(q).result = Unanswered("SERVFAIL")
  BY DEF Failed, Returned, NoQuery
<1> QED
  BY <1>1 DEF Reaches

\* A query whose answer and authority are final goes on to the additional section.
LEMMA CompletedReaches ==
    ASSUME NEW q \in Queries, NEW v, IsView(v, q), Served(q), NEW rcode,
           NEW A \in SUBSET Records, NEW U \in SUBSET Records, Parsable(A \cup U),
           ViewAnswer(v) = Answered(v, rcode, A, U),
           q.result = Resolution(rcode, RRs(A), RRs(U), {})
    PROVE  Reaches(Completed(q), v)
<1> DEFINE targets == AdditionalTargets(v.zone, RRs(A))
           pc == IF targets = {} THEN "set" ELSE "extraA"
           n == [q EXCEPT !.todo = targets, !.target = Root, !.pc = pc]
<1>1. q.result.answer = RRs(A) /\ q.result.rcode = rcode
  BY ResolutionFacts
<1>2. Completed(q) = n
  BY <1>1 DEF Completed, IsView
<1>3. n.pc = pc /\ n.todo = targets /\ n.result = q.result /\ n.question = q.question
  BY DEF Queries
<1> HIDE DEF n
<1>4. Addresses(v, {}) = {} /\ RRs({}) = {} /\ Parsable({})
  BY UnionFacts DEF Addresses
<1>5. CASE targets = {}
  <2>1. ViewAnswer(v) = q.result
    BY <1>4, <1>5, AnsweredHolds
  <2>2. n.pc = "set" /\ n.result = ViewAnswer(v)
    BY <1>3, <1>5, <2>1
  <2> QED
    BY <1>2, <2>2 DEF Reaches, OnWay
<1>6. CASE targets # {}
  <2>1. targets \ n.todo = {} /\ n.pc = "extraA"
    BY <1>3, <1>6
  <2>2. Completing(n, v, {})
    <3>1. Addresses(v, targets \ n.todo) = {}
      BY <1>4, <2>1
    <3>2. n.result = Resolution(n.result.rcode, RRs(A), RRs(U),
                                (RRs(Addresses(v, targets \ n.todo)) \ RRs(A)) \cup {})
      BY <1>1, <1>3, <1>4, <3>1
    <3> QED
      BY <1>1, <1>3, <1>4, <3>1, <3>2 DEF Completing
  <2>3. Served(n)
    BY <1>3 DEF Served
  <2> QED
    BY <1>2, <2>1, <2>2, <2>3 DEF Reaches, OnWay
<1> QED
  BY <1>5, <1>6

\* successResolution of the records that are the whole answer.
LEMMA SuccessReaches ==
    ASSUME NEW q \in Queries, NEW v, IsView(v, q), Served(q), NEW found \in SUBSET Records,
           ViewAnswer(v) = Answered(v, "SUCCESS", found, {})
    PROVE  Reaches(Success(q, found), v)
<1> DEFINE r == Resolution("SUCCESS", RRs(found), {}, {})
           n == [q EXCEPT !.result = r]
<1>1. CASE ~Parsable(found)
  <2>1. ViewAnswer(v) = Unanswered("SERVFAIL")
    BY <1>1, AnsweredFails
  <2>2. Success(q, found) = Failed(q)
    BY <1>1 DEF Success
  <2> QED
    BY <2>1, <2>2, FailedReaches
<1>2. CASE Parsable(found)
  <2>1. Success(q, found) = Completed(n)
    BY <1>2 DEF Success
  <2>2. r \in Results
    BY SectionFacts, ResultFacts
  <2> HIDE DEF r
  <2>3. n \in Queries /\ n.result = r /\ n.zone = q.zone /\ n.question = q.question
    BY <2>2 DEF Queries
  <2> HIDE DEF n
  <2>4. IsView(v, n) /\ Served(n)
    BY <2>3 DEF IsView, Served
  <2>5. r = Resolution("SUCCESS", RRs(found), RRs({}), {}) /\ Parsable(found \cup {})
    BY <1>2, UnionFacts DEF r
  <2>6. {} \in SUBSET Records
    OBVIOUS
  <2> QED
    BY <2>1, <2>3, <2>4, <2>5, <2>6, CompletedReaches
<1> QED
  BY <1>1, <1>2

\* resolveAny
LEMMA AnyReaches ==
    ASSUME NEW q \in Queries, NEW v, IsView(v, q), OnWay(q, v), q.pc = "any",
           NEW found, found = Lookup(v, q.question.name, "ANY"),
           NEW n, n = IF found = {} THEN [q EXCEPT !.pc = "negative"] ELSE Success(q, found)
    PROVE  Reaches(n, v)
<1>1. Served(q) /\ v.question = q.question /\ v.question.type = "ANY"
      /\ v.question.class \in {"IN", "ANY"} /\ found \in SUBSET Records
  BY LookupType DEF OnWay, IsView, Served
<1>2. found = Lookup(v, v.question.name, v.question.type)
  BY <1>1
<1>3. CASE found # {}
  BY <1>1, <1>2, <1>3, ViewAnswerFacts, SuccessReaches
<1>4. CASE found = {}
  <2>1. n.pc = "negative" /\ n.question = q.question
    BY <1>4 DEF Queries
  <2>2. Served(n)
    BY <1>1, <2>1 DEF Served
  <2> QED
    BY <1>1, <1>2, <1>4, <2>1, <2>2 DEF Reaches, OnWay
<1> QED
  BY <1>3, <1>4

\* resolveExact: the chain starts at the name of the question.
LEMMA ExactReaches ==
    ASSUME NEW q \in Queries, NEW v, IsView(v, q), OnWay(q, v), q.pc = "exact", q.hops = 0,
           NEW found, found = Lookup(v, q.question.name, q.question.type),
           NEW n, n = IF found = {}
                      THEN [q EXCEPT !.pc = "cname", !.current = q.question.name,
                                     !.visited = {q.question.name},
                                     !.result = Resolution("SUCCESS", {}, {}, {})]
                      ELSE Success(q, found)
    PROVE  Reaches(n, v)
<1>1. Served(q) /\ v.question = q.question /\ v.question.type # "ANY"
      /\ v.question.class \in {"IN", "ANY"} /\ found \in SUBSET Records
      /\ v.records \in SUBSET Records
  BY LookupType DEF OnWay, IsView, Served
<1>2. found = Lookup(v, v.question.name, v.question.type)
  BY <1>1
<1>3. CASE found # {}
  BY <1>1, <1>2, <1>3, ViewAnswerFacts, SuccessReaches
<1>4. CASE found = {}
  <2> DEFINE r == Resolution("SUCCESS", {}, {}, {})
  <2> HIDE DEF r
  <2>1. n = [q EXCEPT !.pc = "cname", !.current = q.question.name,
                      !.visited = {q.question.name}, !.result = r]
    BY <1>4 DEF r
  <2>2. n.pc = "cname" /\ n.question = q.question /\ n.current = v.question.name
        /\ n.visited = {v.question.name} /\ n.hops = 0 /\ n.result = r
    BY <1>1, <2>1 DEF Queries
  <2>3. Links(v)[0] = v.question.name
    BY LinksFacts
  <2>4. Aliases(v, 0 - 1) = {} /\ RRs({}) = {} /\ Parsable({})
    BY <1>1, AliasesStep, UnionFacts
  <2>5. Chained(n, v, n.hops - 1)
    BY <1>1, <1>2, <1>4, <2>2, <2>3, <2>4 DEF Chained, r
  <2>6. Served(n)
    BY <1>1, <2>2 DEF Served
  <2> QED
    BY <2>2, <2>5, <2>6 DEF Reaches, OnWay
<1> QED
  BY <1>3, <1>4

\* negativeResponse
LEMMA NegativeReaches ==
    ASSUME NEW q \in Queries, NEW v, IsView(v, q), OnWay(q, v), q.pc = "negative",
           NEW found, found = Lookup(v, q.question.name, "ANY"),
           NEW n, n = [q EXCEPT !.pc = "soa",
                                !.result = Resolution(IF found = {} THEN "NXDOMAIN"
                                                                    ELSE "SUCCESS", {}, {}, {})]
    PROVE  Reaches(n, v)
<1> DEFINE rcode == IF found = {} THEN "NXDOMAIN" ELSE "SUCCESS"
           r == Resolution(rcode, {}, {}, {})
           soa == Lookup(v, v.zone, "SOA")
<1>1. /\ Served(q) /\ v.question = q.question /\ v.question.class \in {"IN", "ANY"}
      /\ Lookup(v, v.question.name, v.question.type) = {}
      /\ v.question.type = "ANY" \/ Lookup(v, v.question.name, "CNAME") = {}
  BY DEF OnWay, IsView, Served
<1>2. n.pc = "soa" /\ n.question = q.question /\ n.result = r
  <2> HIDE DEF r
  <2>1. n = [q EXCEPT !.pc = "soa", !.result = r]
    BY DEF r
  <2> QED
    BY <2>1 DEF Queries
<1>3. ViewAnswer(v) = Answered(v, rcode, {}, soa)
  <2>1. CASE v.question.type = "ANY"
    BY <1>1, <2>1, ViewAnswerFacts
  <2>2. CASE v.question.type # "ANY"
    <3>1. Links(v)[0] = v.question.name /\ ~Follows(v, Links(v)[0])
      BY <1>1, <2>2, LinksFacts DEF Follows
    <3>2. ChainLength(v) = 0
      BY <3>1, LengthIs, ResolverAssumption
    <3>3. AliasAnswer(v) = Answered(v, rcode, {}, soa)
      BY <1>1, <2>2, <3>1, <3>2, AliasAnswerFacts
    <3> QED
      BY <1>1, <2>2, <3>3, ViewAnswerFacts
  <2> QED
    BY <2>1, <2>2
<1>4. r.rcode = rcode /\ RRs({}) = {} /\ Parsable({}) /\ {} \in SUBSET Records
  BY ResolutionFacts, UnionFacts
<1>5. Served(n)
  BY <1>1, <1>2 DEF Served
<1> HIDE DEF rcode, soa
<1>6. /\ ViewAnswer(v) = Answered(v, n.result.rcode, {}, Lookup(v, v.zone, "SOA"))
      /\ n.result = Resolution(n.result.rcode, RRs({}), {}, {})
  BY <1>2, <1>3, <1>4 DEF soa
<1> QED
  BY <1>2, <1>4, <1>5, <1>6 DEF Reaches, OnWay

\* authoritySOA
LEMMA SOAReaches ==
    ASSUME NEW q \in Queries, NEW v, IsView(v, q), OnWay(q, v), q.pc = "soa",
           NEW soa, soa = Lookup(v, q.zone, "SOA"),
           NEW n, n = IF ~Parsable(soa) THEN Failed(q)
                      ELSE Completed([q EXCEPT !.result.authority = RRs(soa)])
    PROVE  Reaches(n, v)
<1>1. Served(q) /\ v.zone = q.zone /\ soa \in SUBSET Records
  BY LookupType DEF OnWay, IsView
<1>2. PICK A \in SUBSET Records :
          /\ ViewAnswer(v) = Answered(v, q.result.rcode, A, soa)
          /\ Parsable(A)
          /\ q.result = Resolution(q.result.rcode, RRs(A), {}, {})
  BY <1>1 DEF OnWay
<1>3. CASE ~Parsable(soa)
  BY <1>2, <1>3, AnsweredFails, FailedReaches
<1>4. CASE Parsable(soa)
  <2> DEFINE m == [q EXCEPT !.result.authority = RRs(soa)]
             rcode == q.result.rcode
  <2>1. RRs(soa) \in Sections
    BY <1>1, SectionFacts
  <2>2. m \in Queries /\ m.zone = q.zone /\ m.question = q.question
    BY <2>1, SectionUpdate
  <2>3. m.result = [q.result EXCEPT !.authority = RRs(soa)]
    BY DEF Queries
  <2>4. m.result = Resolution(rcode, RRs(A), RRs(soa), {})
    BY <1>2, <2>3, ResolutionFacts
  <2> HIDE DEF m, rcode
  <2>5. IsView(v, m) /\ Served(m)
    BY <1>1, <2>2 DEF IsView, Served
  <2>6. Parsable(A \cup soa)
    <3>1. Parsable(A)
      BY <1>2
    <3> QED
      BY <1>4, <3>1 DEF Parsable
  <2>7. ViewAnswer(v) = Answered(v, rcode, A, soa)
    BY <1>2 DEF rcode
  <2>8. Reaches(Completed(m), v)
    BY <1>1, <2>2, <2>4, <2>5, <2>6, <2>7, CompletedReaches
  <2> QED
    BY <1>4, <2>8 DEF m
<1> QED
  BY <1>3, <1>4

\* A chain with an alias that cannot be parsed: an error, wherever it leads.
LEMMA ChainFails ==
    ASSUME NEW v, NEW k \in 0 .. MaxCNAMEChain - 1,
           \A j \in 0 .. k - 1 : Follows(v, Links(v)[j]),
           ~Parsable(Lookup(v, Links(v)[k], "CNAME"))
    PROVE  AliasAnswer(v) = Unanswered("SERVFAIL")
<1> DEFINE length == ChainLength(v)
           last   == Links(v)[length]
           cnames == Lookup(v, Links(v)[k], "CNAME")
<1>1. length \in 0 .. MaxCNAMEChain /\ MaxCNAMEChain \in Nat \ {0}
      /\ (length = MaxCNAMEChain \/ ~Follows(v, Links(v)[length]))
  BY LengthFacts, ResolverAssumption
<1>2. k \in 0 .. length
  BY <1>1
<1>3. cnames # {}
  BY DEF Parsable
<1>4. ASSUME NEW m \in Nat, k <= m PROVE ~Parsable(Aliases(v, m))
  <2>1. cnames \subseteq Aliases(v, m)
    BY <1>4 DEF Aliases
  <2> QED
    BY <2>1 DEF Parsable
<1> HIDE DEF length
<1>5. CASE length = MaxCNAMEChain
  <2>1. MaxCNAMEChain - 1 \in Nat /\ k <= MaxCNAMEChain - 1
    BY <1>1
  <2>2. ~Parsable(Aliases(v, MaxCNAMEChain - 1))
    BY <1>4, <2>1
  <2> QED
    BY <1>5, <2>2, AliasAnswerFacts DEF length
<1>6. CASE length < MaxCNAMEChain /\ Lookup(v, last, "CNAME") # {}
  <2> DEFINE found == IF LeavesZone(v, last) THEN {}
                      ELSE Lookup(v, AliasTarget(v, last), v.question.type)
  <2>1. AliasAnswer(v) = Answered(v, "SUCCESS", Aliases(v, length) \cup found, {})
    BY <1>6, AliasAnswerFacts DEF length
  <2>2. ~Parsable(Aliases(v, length))
    BY <1>1, <1>2, <1>4
  <2> HIDE DEF found
  <2>3. ~Parsable(Aliases(v, length) \cup found)
    BY <2>2 DEF Parsable
  <2> QED
    BY <2>1, <2>3, AnsweredFails
<1>7. CASE length < MaxCNAMEChain /\ Lookup(v, last, "CNAME") = {}
  <2>1. length # 0
    BY <1>1, <1>2, <1>3, <1>7
  <2>2. AliasAnswer(v) = Answered(v, "SUCCESS", Aliases(v, length), Lookup(v, v.zone, "SOA"))
    BY <1>7, <2>1, AliasAnswerFacts DEF length
  <2>3. ~Parsable(Aliases(v, length))
    BY <1>1, <1>2, <1>4
  <2> QED
    BY <2>2, <2>3, AnsweredFails
<1> QED
  BY <1>1, <1>5, <1>6, <1>7

\* The answer of a resolution with more records in it.
LEMMA AnswerGrows ==
    ASSUME NEW r, NEW A, NEW found, r = Resolution("SUCCESS", RRs(A), {}, {})
    PROVE  [r EXCEPT !.answer = r.answer \cup RRs(found)]
               = Resolution("SUCCESS", RRs(A \cup found), {}, {})
<1>1. r.answer = RRs(A)
  BY ResolutionFacts
<1>2. RRs(A) \cup RRs(found) = RRs(A \cup found)
  BY DEF RRs
<1>3. PICK s : s = RRs(A \cup found)
  OBVIOUS
<1>4. [r EXCEPT !.answer = s] = Resolution("SUCCESS", s, {}, {})
  BY ResolutionFacts
<1> QED
  BY <1>1, <1>2, <1>3, <1>4

\* nextCNAMEStep and emptyCNAMEStepResponse: the alias at a link of the chain.
LEMMA CNAMEReaches ==
    ASSUME NEW q \in Queries, NEW v, IsView(v, q), OnWay(q, v), q.pc = "cname",
           NEW cnames, cnames = Lookup(v, q.current, "CNAME"),
           NEW target, target = LastTarget(cnames),
           NEW linked, linked = [q EXCEPT !.result.answer = @ \cup RRs(cnames)],
           NEW n, n =
             CASE cnames = {} /\ q.current = q.question.name -> [q EXCEPT !.pc = "negative"]
               [] cnames = {} /\ q.current # q.question.name -> [q EXCEPT !.pc = "soa"]
               [] cnames # {} /\ ~Parsable(cnames) -> Failed(q)
               [] cnames # {} /\ Parsable(cnames) /\ q.question.type # "CNAME"
                    /\ IsSubDomain(q.zone, target) ->
                      [linked EXCEPT !.target = target, !.pc = "target"]
               [] OTHER -> Completed(linked)
    PROVE  Reaches(n, v)
<1> DEFINE k == q.hops
           A == Aliases(v, k - 1)
<1>1. /\ Served(q) /\ v.zone = q.zone /\ v.question = q.question
      /\ v.question.class \in {"IN", "ANY"} /\ v.records \in SUBSET Records
      /\ Chained(q, v, k - 1)
  BY DEF OnWay, IsView, Served
<1>2. k \in 0 .. MaxCNAMEChain - 1 /\ k \in Nat /\ MaxCNAMEChain \in Nat \ {0}
      /\ k \in 0 .. MaxCNAMEChain /\ k < MaxCNAMEChain
  BY ResolverAssumption DEF Queries
<1>3. /\ v.question.type # "ANY"
      /\ Lookup(v, v.question.name, v.question.type) = {}
      /\ q.current = Links(v)[k]
      /\ \A j \in 0 .. k - 1 : Follows(v, Links(v)[j])
      /\ q.visited = {Links(v)[j] : j \in 0 .. k}
      /\ q.current = v.question.name <=> k = 0
      /\ Parsable(A)
      /\ q.result = Resolution("SUCCESS", RRs(A), {}, {})
  BY <1>1 DEF Chained
<1>4. ViewAnswer(v) = AliasAnswer(v)
  BY <1>1, <1>3, ViewAnswerFacts
<1>5. cnames \in SUBSET Records /\ A \in SUBSET Records /\ Aliases(v, k) = A \cup cnames
  <2>1. \A j : Lookup(v, Links(v)[j], "CNAME") \in SUBSET Records
    BY <1>1, LookupType
  <2>2. cnames \in SUBSET Records /\ A \in SUBSET Records
    BY <1>3, <2>1 DEF Aliases
  <2>3. Aliases(v, k) = A \cup cnames
    BY <1>1, <1>2, <1>3, AliasesStep
  <2> QED
    BY <2>2, <2>3
<1> HIDE DEF k, A
<1>6. CASE cnames = {} /\ q.current = q.question.name
  <2>1. n = [q EXCEPT !.pc = "negative"]
    BY <1>6
  <2>2. n.pc = "negative" /\ n.question = q.question
    BY <2>1 DEF Queries
  <2>3. Served(n)
    BY <1>1, <2>2 DEF Served
  <2>4. Lookup(v, v.question.name, "CNAME") = {}
    BY <1>1, <1>6
  <2> QED
    BY <1>3, <2>2, <2>3, <2>4 DEF Reaches, OnWay
<1>7. CASE cnames = {} /\ q.current # q.question.name
  <2>1. n = [q EXCEPT !.pc = "soa"]
    BY <1>7
  <2>2. n.pc = "soa" /\ n.question = q.question /\ n.result = q.result
    BY <2>1 DEF Queries
  <2>3. Served(n)
    BY <1>1, <2>2 DEF Served
  <2>4. ~Follows(v, Links(v)[k]) /\ k # 0
    BY <1>1, <1>3, <1>7 DEF Follows
  <2>5. ChainLength(v) = k
    BY <1>2, <1>3, <2>4, LengthIs
  <2>6. Lookup(v, Links(v)[k], "CNAME") = {} /\ Aliases(v, k) = A
    BY <1>3, <1>5, <1>7
  <2>7. AliasAnswer(v) = Answered(v, "SUCCESS", A, Lookup(v, v.zone, "SOA"))
    BY <1>2, <2>4, <2>5, <2>6, AliasAnswerFacts
  <2>8. q.result.rcode = "SUCCESS"
    BY <1>3, ResolutionFacts
  <2>9. /\ ViewAnswer(v) = Answered(v, n.result.rcode, A, Lookup(v, v.zone, "SOA"))
        /\ n.result = Resolution(n.result.rcode, RRs(A), {}, {})
    BY <1>3, <1>4, <2>2, <2>7, <2>8
  <2>10. Parsable(A)
    BY <1>3
  <2> QED
    BY <1>5, <2>2, <2>3, <2>9, <2>10 DEF Reaches, OnWay
<1>8. CASE cnames # {} /\ ~Parsable(cnames)
  <2>1. n = Failed(q)
    BY <1>8
  <2>2. ~Parsable(Lookup(v, Links(v)[k], "CNAME"))
    BY <1>3, <1>8
  <2>3. AliasAnswer(v) = Unanswered("SERVFAIL")
    BY <1>2, <1>3, <2>2, ChainFails
  <2> QED
    BY <1>4, <2>1, <2>3, FailedReaches
<1>9. ASSUME cnames # {}, Parsable(cnames)
      PROVE  /\ linked \in Queries
             /\ linked.question = q.question /\ linked.zone = q.zone /\ linked.hops = q.hops
             /\ linked.current = q.current /\ linked.visited = q.visited
             /\ linked.result = Resolution("SUCCESS", RRs(Aliases(v, k)), {}, {})
             /\ Parsable(Aliases(v, k)) /\ Aliases(v, k) \in SUBSET Records
  <2>1. q.result = Resolution("SUCCESS", RRs(A), {}, {}) /\ Parsable(A)
    BY <1>3
  <2>2. Parsable(A \cup cnames)
    BY <1>9, <2>1 DEF Parsable
  <2>3. A \cup cnames \in SUBSET Records
    BY <1>5
  <2>4. /\ linked \in Queries
        /\ linked.question = q.question /\ linked.zone = q.zone /\ linked.hops = q.hops
        /\ linked.current = q.current /\ linked.visited = q.visited
        /\ linked.result = Resolution("SUCCESS", RRs(A \cup cnames), {}, {})
    <3>1. PICK r : r = [q.result EXCEPT !.answer = q.result.answer \cup RRs(cnames)]
      OBVIOUS
    <3>2. linked = [q EXCEPT !.result = r]
      BY <3>1 DEF Queries
    <3>3. r = Resolution("SUCCESS", RRs(A \cup cnames), {}, {})
      BY <2>1, <3>1, AnswerGrows
    <3>4. r \in Results
      BY <2>3, <3>3, SectionFacts, ResultFacts
    <3>5. /\ linked \in Queries /\ linked.result = r
          /\ linked.question = q.question /\ linked.zone = q.zone /\ linked.hops = q.hops
          /\ linked.current = q.current /\ linked.visited = q.visited
      BY <3>2, <3>4 DEF Queries
    <3> QED
      BY <3>3, <3>5
  <2> QED
    BY <1>5, <2>2, <2>3, <2>4
<1>10. CASE cnames # {} /\ Parsable(cnames) /\ q.question.type # "CNAME"
            /\ IsSubDomain(q.zone, target)
  <2>1. n = [linked EXCEPT !.target = target, !.pc = "target"]
    BY <1>10
  <2>2. /\ n.pc = "target" /\ n.target = target /\ n.question = linked.question
        /\ n.hops = linked.hops /\ n.current = linked.current /\ n.visited = linked.visited
        /\ n.result = linked.result
    BY <1>9, <1>10, <2>1 DEF Queries
  <2>3. Served(n)
    BY <1>1, <1>9, <1>10, <2>2 DEF Served
  <2>4. n.hops = k /\ n.current = q.current /\ n.visited = q.visited
    BY <1>9, <1>10, <2>2 DEF k
  <2>5. /\ n.result = Resolution("SUCCESS", RRs(Aliases(v, k)), {}, {})
        /\ Parsable(Aliases(v, k))
    BY <1>9, <1>10, <2>2
  <2>6. Chained(n, v, n.hops)
    BY <1>3, <2>4, <2>5 DEF Chained
  <2>7. Lookup(v, n.current, "CNAME") # {} /\ AliasTarget(v, n.current) = target
    BY <1>10, <2>4 DEF AliasTarget
  <2>8. ~LeavesZone(v, n.current)
    BY <1>1, <1>10, <2>7 DEF LeavesZone
  <2> QED
    BY <2>2, <2>3, <2>6, <2>7, <2>8 DEF Reaches, OnWay
<1>11. CASE cnames # {} /\ Parsable(cnames)
            /\ ~(q.question.type # "CNAME" /\ IsSubDomain(q.zone, target))
  <2>1. n = Completed(linked)
    BY <1>11
  <2>2. Lookup(v, Links(v)[k], "CNAME") # {} /\ LeavesZone(v, Links(v)[k])
    BY <1>1, <1>3, <1>11 DEF LeavesZone, AliasTarget
  <2>3. ~Follows(v, Links(v)[k])
    BY <2>2 DEF Follows
  <2>4. ChainLength(v) = k
    BY <1>2, <1>3, <2>3, LengthIs
  <2>5. AliasAnswer(v) = Answered(v, "SUCCESS", Aliases(v, k) \cup {}, {})
    BY <1>2, <2>2, <2>4, AliasAnswerFacts
  <2>6. ViewAnswer(v) = Answered(v, "SUCCESS", Aliases(v, k), {})
    BY <1>4, <2>5
  <2>7. IsView(v, linked) /\ Served(linked)
    BY <1>1, <1>9, <1>11 DEF IsView, Served
  <2>8. RRs({}) = {} /\ Aliases(v, k) \cup {} = Aliases(v, k) /\ {} \in SUBSET Records
    BY DEF RRs
  <2>9. linked.result = Resolution("SUCCESS", RRs(Aliases(v, k)), RRs({}), {})
    BY <1>9, <1>11, <2>8
  <2> QED
    BY <1>9, <1>11, <2>1, <2>6, <2>7, <2>8, <2>9, CompletedReaches
<1> QED
  BY <1>6, <1>7, <1>8, <1>10, <1>11

\* lookupTargetAnswer, seenCNAME and the bound of resolveCNAMEChain.
LEMMA TargetReaches ==
    ASSUME NEW q \in Queries, NEW v, IsView(v, q), OnWay(q, v), q.pc = "target",
           NEW found, found = Lookup(v, q.target, q.question.type),
           NEW n, n =
             CASE found # {} /\ ~Parsable(found) -> Failed(q)
               [] found # {} /\ Parsable(found) ->
                     Completed([q EXCEPT !.result.answer = @ \cup RRs(found)])
               [] found = {} /\ (q.target \in q.visited \/ q.hops + 1 = MaxCNAMEChain) ->
                     ServerFailure(q)
               [] OTHER -> [q EXCEPT !.pc = "cname", !.current = q.target, !.target = Root,
                                     !.visited = @ \cup {q.target}, !.hops = @ + 1]
    PROVE  Reaches(n, v)
<1> DEFINE k == q.hops
           A == Aliases(v, k)
           link == Links(v)
<1>1. /\ Served(q) /\ v.zone = q.zone /\ v.question = q.question
      /\ v.question.class \in {"IN", "ANY"} /\ v.records \in SUBSET Records
      /\ Chained(q, v, k)
      /\ Lookup(v, q.current, "CNAME") # {}
      /\ ~LeavesZone(v, q.current)
      /\ q.target = AliasTarget(v, q.current)
  BY DEF OnWay, IsView, Served
<1>2. k \in 0 .. MaxCNAMEChain - 1 /\ k \in Nat /\ MaxCNAMEChain \in Nat \ {0}
      /\ k \in 0 .. MaxCNAMEChain /\ k < MaxCNAMEChain
  BY ResolverAssumption DEF Queries
<1>3. /\ v.question.type # "ANY"
      /\ Lookup(v, v.question.name, v.question.type) = {}
      /\ q.current = link[k]
      /\ \A j \in 0 .. k - 1 : Follows(v, link[j])
      /\ q.visited = {link[j] : j \in 0 .. k}
      /\ Parsable(A)
      /\ q.result = Resolution("SUCCESS", RRs(A), {}, {})
  BY <1>1 DEF Chained
<1>4. ViewAnswer(v) = AliasAnswer(v)
  BY <1>1, <1>3, ViewAnswerFacts
<1>5. found \in SUBSET Records /\ A \in SUBSET Records
  BY <1>1, <1>2, LookupType, AliasesStep
<1>6. link[0] = v.question.name /\ \A j \in 0 .. MaxCNAMEChain - 1 : link[j + 1] = NextLink(v, link[j])
  BY LinksFacts
<1> HIDE DEF k, A, link
<1>7. ASSUME found # {}
      PROVE  ViewAnswer(v) = Answered(v, "SUCCESS", A \cup found, {})
  <2>1. ~Follows(v, link[k])
    BY <1>1, <1>3, <1>7 DEF Follows
  <2>2. ChainLength(v) = k
    BY <1>2, <1>3, <2>1, LengthIs DEF link
  <2>3. Lookup(v, AliasTarget(v, link[k]), v.question.type) = found
    BY <1>1, <1>3
  <2>4. Lookup(v, link[k], "CNAME") # {} /\ ~LeavesZone(v, link[k])
    BY <1>1, <1>3
  <2> QED
    BY <1>2, <1>4, <2>2, <2>3, <2>4, AliasAnswerFacts DEF link, A
<1>8. CASE found # {} /\ ~Parsable(found)
  <2>1. n = Failed(q)
    BY <1>8
  <2>2. ~Parsable(A \cup found)
    BY <1>8 DEF Parsable
  <2> QED
    BY <1>7, <1>8, <2>1, <2>2, AnsweredFails, FailedReaches
<1>9. CASE found # {} /\ Parsable(found)
  <2>1. PICK r : r = [q.result EXCEPT !.answer = q.result.answer \cup RRs(found)]
    OBVIOUS
  <2> DEFINE m == [q EXCEPT !.result = r]
  <2>2. n = Completed(m)
    <3>1. [q EXCEPT !.result.answer = @ \cup RRs(found)] = m
      BY <2>1 DEF Queries
    <3> QED
      BY <1>9, <3>1
  <2>3. r = Resolution("SUCCESS", RRs(A \cup found), {}, {})
    BY <1>3, <2>1, AnswerGrows
  <2>4. A \cup found \in SUBSET Records /\ {} \in SUBSET Records
    BY <1>5
  <2>5. Parsable(A) /\ RRs({}) = {} /\ A \cup found \cup {} = A \cup found
    BY <1>3 DEF RRs
  <2>6. Parsable(A \cup found \cup {})
    BY <1>9, <2>5 DEF Parsable
  <2>7. r \in Results
    BY <2>3, <2>4, SectionFacts, ResultFacts
  <2>8. m \in Queries /\ m.result = r /\ m.question = q.question /\ m.zone = q.zone
    BY <2>7 DEF Queries
  <2> HIDE DEF m
  <2>9. IsView(v, m) /\ Served(m)
    BY <1>1, <2>8 DEF IsView, Served
  <2>10. m.result = Resolution("SUCCESS", RRs(A \cup found), RRs({}), {})
    BY <2>3, <2>5, <2>8
  <2>11. ViewAnswer(v) = Answered(v, "SUCCESS", A \cup found, {})
    BY <1>7, <1>9
  <2> QED
    BY <2>2, <2>4, <2>6, <2>8, <2>9, <2>10, <2>11, CompletedReaches
<1>10. ASSUME found = {}
       PROVE  /\ \A j \in 0 .. k : Follows(v, link[j])
              /\ link[k + 1] = q.target
  <2>1. Follows(v, link[k])
    BY <1>1, <1>3, <1>10 DEF Follows
  <2>2. \A j \in 0 .. k : Follows(v, link[j])
    BY <1>2, <1>3, <2>1
  <2>3. link[k + 1] = q.target
    BY <1>1, <1>2, <1>3, <1>6, <2>1 DEF NextLink
  <2> QED
    BY <2>2, <2>3
<1>11. ASSUME found = {}, q.target \in q.visited \/ k + 1 = MaxCNAMEChain
       PROVE  ViewAnswer(v) = Resolution("SERVFAIL", {}, {}, {})
  <2>1. /\ ChainLength(v) = MaxCNAMEChain
        /\ Parsable(Aliases(v, MaxCNAMEChain - 1))
    <3>1. CASE k + 1 = MaxCNAMEChain
      <4>1. MaxCNAMEChain - 1 = k
        BY <1>2, <3>1
      <4>2. ChainLength(v) = MaxCNAMEChain
        <5>1. MaxCNAMEChain \in 0 .. MaxCNAMEChain
          BY <1>2
        <5>2. \A j \in 0 .. MaxCNAMEChain - 1 : Follows(v, link[j])
          BY <1>10, <1>11, <4>1
        <5> QED
          BY <5>1, <5>2, LengthIs DEF link
      <4> QED
        BY <1>3, <4>1, <4>2 DEF A
    <3>2. CASE q.target \in q.visited
      <4> DEFINE V == q.visited
      <4>1. v.question.name \in V
        BY <1>2, <1>3, <1>6
      <4>2. ASSUME NEW j \in 0 .. k PROVE AliasTarget(v, link[j]) \in V
        <5>1. CASE j = k
          BY <1>1, <1>3, <3>2, <5>1
        <5>2. CASE j # k
          <6>1. j \in 0 .. MaxCNAMEChain - 1 /\ j + 1 \in 0 .. k
            BY <1>2, <5>2
          <6>2. link[j + 1] = AliasTarget(v, link[j])
            BY <1>6, <1>10, <1>11, <6>1 DEF NextLink
          <6> QED
            BY <1>3, <6>1, <6>2
        <5> QED
          BY <5>1, <5>2
      <4>3. \A name \in V : Follows(v, name) /\ AliasTarget(v, name) \in V
        BY <1>3, <1>10, <1>11, <4>2
      <4>4. ChainLength(v) = MaxCNAMEChain /\ \A i \in 0 .. MaxCNAMEChain : link[i] \in V
        BY <4>1, <4>3, CircleFacts DEF link
      <4>5. \A i \in 0 .. MaxCNAMEChain - 1 : link[i] \in {link[j] : j \in 0 .. k}
        BY <1>2, <1>3, <4>4
      <4>6. Aliases(v, MaxCNAMEChain - 1) \subseteq A
        BY <4>5 DEF Aliases, A, link
      <4>7. Parsable(A)
        BY <1>3
      <4>8. Parsable(Aliases(v, MaxCNAMEChain - 1))
        BY <4>6, <4>7 DEF Parsable
      <4> QED
        BY <4>4, <4>8
    <3> QED
      BY <1>11, <3>1, <3>2
  <2> QED
    BY <1>4, <2>1, AliasAnswerFacts
<1>12. CASE found = {} /\ (q.target \in q.visited \/ q.hops + 1 = MaxCNAMEChain)
  <2>1. n = ServerFailure(q)
    BY <1>12
  <2>2. PICK r : r = Resolution("SERVFAIL", {}, {}, {})
    OBVIOUS
  <2>3. n.pc = "set" /\ n.result = r
    BY <2>1, <2>2 DEF ServerFailure, Queries
  <2>4. ViewAnswer(v) = r
    BY <1>11, <1>12, <2>2 DEF k
  <2> QED
    BY <2>3, <2>4 DEF Reaches, OnWay
<1>13. CASE found = {} /\ ~(q.target \in q.visited \/ q.hops + 1 = MaxCNAMEChain)
  <2>1. n = [q EXCEPT !.pc = "cname", !.current = q.target, !.target = Root,
                      !.visited = @ \cup {q.target}, !.hops = @ + 1]
    BY <1>13
  <2>2. /\ n.pc = "cname" /\ n.question = q.question /\ n.current = q.target
        /\ n.visited = q.visited \cup {q.target} /\ n.hops = k + 1 /\ n.result = q.result
    BY <2>1 DEF Queries, k
  <2>3. Served(n)
    BY <1>1, <2>2 DEF Served
  <2>4. n.hops - 1 = k /\ k + 1 # 0
    BY <1>2, <2>2
  <2>5. \A j \in 0 .. n.hops - 1 : Follows(v, link[j])
    BY <1>10, <1>13, <2>4
  <2>6. n.visited = {link[j] : j \in 0 .. n.hops}
    <3>1. \A j : j \in 0 .. k + 1 <=> j \in 0 .. k \/ j = k + 1
      BY <1>2
    <3>2. {link[j] : j \in 0 .. k + 1} = {link[j] : j \in 0 .. k} \cup {link[k + 1]}
      BY <3>1, Zenon
    <3>3. q.visited = {link[j] : j \in 0 .. k} /\ link[k + 1] = q.target
      BY <1>3, <1>10, <1>13
    <3> QED
      BY <2>2, <3>2, <3>3
  <2>7. n.current # v.question.name
    <3>1. v.question.name \in q.visited
      BY <1>2, <1>3, <1>6
    <3> QED
      BY <1>13, <2>2, <3>1
  <2>8. n.current = link[n.hops]
    BY <1>10, <1>13, <2>2
  <2>9. Parsable(Aliases(v, n.hops - 1))
        /\ n.result = Resolution("SUCCESS", RRs(Aliases(v, n.hops - 1)), {}, {})
    BY <1>3, <2>2, <2>4 DEF A
  <2>10. n.current = v.question.name <=> n.hops = 0
    BY <2>2, <2>4, <2>7
  <2>11. Chained(n, v, n.hops - 1)
    BY <1>3, <2>5, <2>6, <2>8, <2>9, <2>10 DEF Chained, link
  <2> QED
    BY <2>2, <2>3, <2>11 DEF Reaches, OnWay
<1> QED
  BY <1>8, <1>9, <1>12, <1>13

\* lookupAddressRRs of one target: its A records ...
LEMMA AReaches ==
    ASSUME NEW q \in Queries, NEW v, IsView(v, q), OnWay(q, v), q.pc = "extraA",
           NEW target \in q.todo, NEW found, found = Lookup(v, target, "A"),
           NEW x, x = q.result.extra \cup RRs(found),
           NEW r, r = [q.result EXCEPT !.extra = x],
           NEW n, n = IF Parsable(found)
                      THEN [q EXCEPT !.pc = "extraAAAA", !.target = target, !.result = r]
                      ELSE [q EXCEPT !.pc = "extraFail", !.target = target]
    PROVE  Reaches(n, v)
<1>1. Served(q) /\ Completing(q, v, {}) /\ q.result \in Results
  BY DEF OnWay, Queries
<1>2. PICK A \in SUBSET Records, U \in SUBSET Records :
          LET targets == AdditionalTargets(v.zone, RRs(A))
              adds    == Addresses(v, targets \ q.todo)
          IN  /\ ViewAnswer(v) = Answered(v, q.result.rcode, A, U)
              /\ q.todo \subseteq targets
              /\ Parsable(A \cup U) /\ Parsable(adds)
              /\ q.result = Resolution(q.result.rcode, RRs(A), RRs(U),
                                       (RRs(adds) \ RRs(A)) \cup {})
  BY <1>1 DEF Completing
<1> DEFINE targets == AdditionalTargets(v.zone, RRs(A))
           adds    == Addresses(v, targets \ q.todo)
           rcode   == q.result.rcode
           before  == RRs(adds) \ RRs(A)
<1>3. CASE Parsable(found)
  <2>2. n = [q EXCEPT !.pc = "extraAAAA", !.target = target, !.result = r]
    BY <1>3
  <2>3. n.pc = "extraAAAA" /\ n.target = target /\ n.question = q.question
        /\ n.todo = q.todo /\ n.result = r
    BY <2>2 DEF Queries
  <2>4. Served(n)
    BY <1>1, <2>3 DEF Served
  <2>5. q.result = Resolution(rcode, RRs(A), RRs(U), before \cup {})
    BY <1>2
  <2> HIDE DEF before, adds, rcode
  <2>6. q.result.extra = before
    BY <2>5, ResolutionFacts
  <2>7. r = Resolution(rcode, RRs(A), RRs(U), before \cup RRs(found))
    <3>1. PICK y : y = x
      OBVIOUS
    <3>2. [q.result EXCEPT !.extra = y] = Resolution(rcode, RRs(A), RRs(U), y)
      BY <2>5, ResolutionFacts
    <3> QED
      BY <2>6, <3>1, <3>2
  <2>8. r.rcode = rcode
    <3>1. Resolution(rcode, RRs(A), RRs(U), before \cup RRs(found)).rcode = rcode
      BY ResolutionFacts
    <3> QED
      BY <2>7, <3>1
  <2>9. Completing(n, v, RRs(found))
    <3>1. ViewAnswer(v) = Answered(v, n.result.rcode, A, U)
      BY <1>2, <2>3, <2>8 DEF rcode
    <3>2. n.result = Resolution(n.result.rcode, RRs(A), RRs(U),
                                (RRs(adds) \ RRs(A)) \cup RRs(found))
      BY <2>3, <2>7, <2>8 DEF before
    <3>3. n.todo \subseteq targets /\ Parsable(A \cup U) /\ Parsable(adds)
      BY <1>2, <2>3 DEF adds
    <3>4. adds = Addresses(v, targets \ n.todo)
      BY <2>3 DEF adds
    <3> QED
      BY <3>1, <3>2, <3>3, <3>4 DEF Completing
  <2>10. n.target \in n.todo /\ Parsable(Lookup(v, n.target, "A"))
         /\ Completing(n, v, RRs(Lookup(v, n.target, "A")))
    BY <1>3, <2>3, <2>9
  <2> QED
    BY <2>3, <2>4, <2>10 DEF Reaches, OnWay
<1>4. CASE ~Parsable(found)
  <2>1. n = [q EXCEPT !.pc = "extraFail", !.target = target]
    BY <1>4
  <2>2. n.pc = "extraFail" /\ n.target = target /\ n.question = q.question
        /\ n.todo = q.todo /\ n.result = q.result
    BY <2>1 DEF Queries
  <2>3. Served(n)
    BY <1>1, <2>2 DEF Served
  <2>4. Completing(n, v, {})
    BY <1>1, <2>2 DEF Completing
  <2> QED
    BY <1>4, <2>2, <2>3, <2>4 DEF Reaches, OnWay
<1> QED
  BY <1>3, <1>4

\* ... and its AAAA records.
LEMMA AAAAReaches ==
    ASSUME NEW q \in Queries, NEW v, IsView(v, q), OnWay(q, v),
           q.pc \in {"extraAAAA", "extraFail"},
           NEW found, found = Lookup(v, q.target, "AAAA"),
           NEW todo, todo = q.todo \ {q.target},
           NEW x, x = (q.result.extra \cup RRs(found)) \ q.result.answer,
           NEW r, r = [q.result EXCEPT !.extra = x],
           NEW pc, pc = IF todo = {} THEN "set" ELSE "extraA",
           NEW n, n = IF q.pc = "extraFail" \/ ~Parsable(found) THEN Failed(q)
                      ELSE [q EXCEPT !.pc = pc, !.todo = todo, !.target = Root, !.result = r]
    PROVE  Reaches(n, v)
<1> DEFINE addr == Lookup(v, q.target, "A")
           rcode == q.result.rcode
<1>1. /\ Served(q) /\ q.target \in q.todo /\ q.result \in Results
      /\ q.pc = "extraAAAA" => Parsable(addr) /\ Completing(q, v, RRs(addr))
      /\ q.pc = "extraFail" => ~Parsable(addr) /\ Completing(q, v, {})
  BY DEF OnWay, Queries
<1>2. PICK extra : /\ Completing(q, v, extra)
                   /\ q.pc = "extraAAAA" => extra = RRs(addr)
  BY <1>1
<1>3. PICK A \in SUBSET Records, U \in SUBSET Records :
          LET targets == AdditionalTargets(v.zone, RRs(A))
              adds    == Addresses(v, targets \ q.todo)
          IN  /\ ViewAnswer(v) = Answered(v, q.result.rcode, A, U)
              /\ q.todo \subseteq targets
              /\ Parsable(A \cup U) /\ Parsable(adds)
              /\ q.result = Resolution(q.result.rcode, RRs(A), RRs(U),
                                       (RRs(adds) \ RRs(A)) \cup extra)
  BY <1>2 DEF Completing
<1> DEFINE targets == AdditionalTargets(v.zone, RRs(A))
           adds    == Addresses(v, targets \ q.todo)
           after   == Addresses(v, targets \ todo)
<1>4. /\ q.todo \subseteq targets
      /\ ViewAnswer(v) = Answered(v, rcode, A, U)
      /\ q.result = Resolution(rcode, RRs(A), RRs(U), (RRs(adds) \ RRs(A)) \cup extra)
  BY <1>3
<1>5. Parsable(A \cup U) /\ Parsable(adds)
  BY <1>3
<1>6. after = adds \cup (addr \cup found)
  <2> HIDE DEF targets
  <2>1. targets \ todo = (targets \ q.todo) \cup {q.target}
    BY <1>1, <1>4
  <2> QED
    BY <2>1 DEF Addresses
<1> HIDE DEF adds, after, addr, rcode
<1>7. CASE q.pc = "extraFail" \/ ~Parsable(found)
  <2>1. addr \cup found \subseteq Addresses(v, targets)
    BY <1>1, <1>4 DEF Addresses, addr
  <2>2. ~Parsable(addr) \/ ~Parsable(found)
    BY <1>1, <1>7
  <2>3. ~Parsable(Addresses(v, targets))
    BY <2>1, <2>2 DEF Parsable
  <2>4. ViewAnswer(v) = Unanswered("SERVFAIL")
    BY <1>4, <2>3, AnsweredFails
  <2>5. n = Failed(q)
    BY <1>7
  <2> QED
    BY <2>4, <2>5, FailedReaches
<1>8. CASE q.pc = "extraAAAA" /\ Parsable(found)
  <2>2. n = [q EXCEPT !.pc = pc, !.todo = todo, !.target = Root, !.result = r]
    BY <1>8
  <2>3. n.pc = pc /\ n.question = q.question /\ n.todo = todo /\ n.result = r
    BY <2>2 DEF Queries
  <2>4. Served(n)
    BY <1>1, <2>3 DEF Served
  <2>5. q.result.extra = (RRs(adds) \ RRs(A)) \cup RRs(addr) /\ q.result.answer = RRs(A)
    BY <1>2, <1>4, <1>8, ResolutionFacts
  <2>6. x = RRs(after) \ RRs(A)
    <3>1. RRs(after) = RRs(adds) \cup (RRs(addr) \cup RRs(found))
      BY <1>6 DEF RRs
    <3> QED
      BY <2>5, <3>1
  <2>7. r = Resolution(rcode, RRs(A), RRs(U), RRs(after) \ RRs(A))
    <3>1. PICK y : y = x
      OBVIOUS
    <3>2. [q.result EXCEPT !.extra = y] = Resolution(rcode, RRs(A), RRs(U), y)
      BY <1>4, ResolutionFacts
    <3> QED
      BY <2>6, <3>1, <3>2
  <2>8. r.rcode = rcode
    <3>1. Resolution(rcode, RRs(A), RRs(U), RRs(after) \ RRs(A)).rcode = rcode
      BY ResolutionFacts
    <3> QED
      BY <2>7, <3>1
  <2>9. Parsable(after)
    <3>1. Parsable(addr)
      BY <1>1, <1>8
    <3> QED
      BY <1>5, <1>6, <1>8, <3>1 DEF Parsable
  <2>10. CASE todo = {}
    <3>1. after = Addresses(v, targets)
      BY <2>10 DEF after
    <3>2. ViewAnswer(v) = r
      <4>1. Answered(v, rcode, A, U) = Resolution(rcode, RRs(A), RRs(U), RRs(after) \ RRs(A))
        BY <1>5, <2>9, <3>1, AnsweredHolds
      <4> QED
        BY <1>4, <2>7, <4>1
    <3>3. n.pc = "set" /\ n.result = ViewAnswer(v)
      BY <2>3, <2>10, <3>2
    <3> QED
      BY <3>3 DEF Reaches, OnWay
  <2>11. CASE todo # {}
    <3>1. n.pc = "extraA"
      BY <2>3, <2>11
    <3>2. ViewAnswer(v) = Answered(v, n.result.rcode, A, U)
      BY <1>4, <2>3, <2>8
    <3>3. n.result = Resolution(n.result.rcode, RRs(A), RRs(U), (RRs(after) \ RRs(A)) \cup {})
      BY <2>3, <2>7, <2>8
    <3>4. n.todo \subseteq targets /\ after = Addresses(v, targets \ n.todo)
      BY <1>4, <2>3 DEF after
    <3>5. Completing(n, v, {})
      BY <1>5, <2>9, <3>2, <3>3, <3>4 DEF Completing
    <3> QED
      BY <2>4, <3>1, <3>5 DEF Reaches, OnWay
  <2> QED
    BY <2>10, <2>11
<1> QED
  BY <1>7, <1>8

-----------------------------------------------------------------------------
(* The steps of the resolver. *)

\* Whether a query is on its way does not depend on what it has noted.
LEMMA OnWaySame ==
    ASSUME NEW q, NEW m, NEW v, OnWay(q, v),
           m.pc = q.pc, m.question = q.question, m.current = q.current, m.target = q.target,
           m.hops = q.hops, m.visited = q.visited, m.todo = q.todo, m.result = q.result
    PROVE  OnWay(m, v)
<1>1. Served(q) <=> Served(m)
  BY DEF Served
<1>2. \A n : Chained(q, v, n) => Chained(m, v, n)
  BY DEF Chained
<1>3. \A extra : Completing(q, v, extra) => Completing(m, v, extra)
  BY DEF Completing
<1> QED
  BY <1>1, <1>2, <1>3 DEF OnWay

\* A step of one reader.
LEMMA ExactReader ==
    ASSUME TypeOK, ExactInv, NEW p \in Readers, NEW n, ExactQuery(n),
           query' = [query EXCEPT ![p] = n], \A e \in cache' : ExactEntry(e)
    PROVE  ExactInv'
<1>1. ASSUME NEW r \in Readers PROVE ExactQuery(query'[r])
  <2>1. query'[r] = n \/ query'[r] = query[r]
    BY DEF TypeOK
  <2> QED
    BY <2>1 DEF ExactInv
<1> QED
  BY <1>1 DEF ExactInv

\* A query that is not resolving.
LEMMA ExactOutside ==
    ASSUME NEW n, n.pc \notin ResolvingPcs, n.hops = 0
    PROVE  ExactQuery(n)
BY DEF ExactQuery

\* A query that has returned, and the reader between two queries.
LEMMA ExactReturned ==
    /\ \A q, result : ExactQuery(Returned(q, result))
    /\ ExactQuery(NoQuery)
<1>1. ASSUME NEW q, NEW result PROVE ExactQuery(Returned(q, result))
  <2>1. Returned(q, result).pc = "done" /\ Returned(q, result).hops = 0
    BY DEF Returned, NoQuery
  <2> QED
    BY <2>1, ExactOutside DEF ResolvingPcs, LatePcs
<1>2. NoQuery.pc = "idle" /\ NoQuery.hops = 0
  BY DEF NoQuery
<1> QED
  BY <1>1, <1>2, ExactOutside DEF ResolvingPcs, LatePcs

\* A query whose lookups the store agrees with gets nearer to the store's answer.
Nears(p) == Agrees(records, query[p]) => Reaches(query'[p], View(query[p], records))

\* A lookup: if every view it agrees with leads from q to n, the invariant is kept.
LEMMA ExactLookup ==
    ASSUME TypeOK, ExactInv, NEW p \in Readers, NEW name \in Names, NEW type \in LookupTypes,
           LooksUp(p, name, type), query[p].pc \in ResolvingPcs, cache' = cache,
           NEW q, q = Noted(query[p], name, type),
           NEW n, query' = [query EXCEPT ![p] = n],
           \A v : IsView(v, q) /\ OnWay(q, v) /\ Lookup(v, name, type) = Find(query[p], name, type)
                     => Reaches(n, v)
    PROVE  ExactInv' /\ Nears(p)
<1> DEFINE q0 == query[p]
           found == Find(q0, name, type)
           rd == [name |-> name, type |-> type, found |-> found]
<1>1. q0 \in Queries /\ ExactQuery(q0) /\ n = query'[p]
  BY QueryFacts DEF ExactInv, TypeOK
<1>2. /\ q \in Queries /\ q.pc = q0.pc /\ q.question = q0.question /\ q.zone = q0.zone
      /\ q.current = q0.current /\ q.target = q0.target /\ q.hops = q0.hops
      /\ q.visited = q0.visited /\ q.todo = q0.todo /\ q.result = q0.result
      /\ q.reads = q0.reads \cup {rd}
  BY <1>1, NotedFacts DEF LookupTypes
<1>3. n = Failed(q) \/ GoesOn(q, n)
  BY <1>1 DEF LooksUp, TypeOK
<1>4. Nears(p)
  <2> SUFFICES ASSUME Agrees(records, q0) PROVE Reaches(n, View(q0, records))
    BY <1>1 DEF Nears
  <2> DEFINE v == View(q0, records)
  <2>1. records \in SUBSET Records
    BY DEF TypeOK, StoreTypeOK
  <2>2. v.records = records /\ v.zone = q0.zone /\ v.question = q0.question
    BY DEF View
  <2>3. OnWay(q0, v)
    BY <1>1, <2>1 DEF ExactQuery
  <2>4. Lookup(v, name, type) = Find(q0, name, type)
    BY <2>2 DEF Lookup, Find
  <2> HIDE DEF v
  <2>5. OnWay(q, v)
    BY <1>2, <2>3, OnWaySame
  <2>6. IsView(v, q)
    BY <1>2, <2>1, <2>2 DEF IsView
  <2> QED
    BY <2>4, <2>5, <2>6 DEF v
<1>5. CASE n = Failed(q)
  BY <1>4, <1>5, ExactReturned, ExactReader DEF ExactInv, Failed
<1>6. CASE GoesOn(q, n)
  <2>1. n.pc \in LatePcs /\ n.pc # "done" /\ n.zone = q.zone /\ n.question = q.question
        /\ n.reads = q.reads
    BY <1>6 DEF GoesOn, LatePcs
  <2>2. ASSUME NEW S \in SUBSET Records, Agrees(S, n)
        PROVE  OnWay(n, View(n, S))
    <3> DEFINE v == View(n, S)
    <3>1. v = View(q0, S) /\ v = View(q, S)
      BY <1>2, <2>1 DEF View
    <3>2. v.records = S /\ v.zone = q.zone /\ v.question = q.question
      BY <3>1 DEF View
    <3>3. \A x \in q0.reads \cup {rd} :
              x.found = LookupIn(S, q0.zone, x.name, x.type, q0.question.class)
      BY <1>2, <2>1, <2>2 DEF Agrees
    <3>4. Agrees(S, q0)
      BY <3>3 DEF Agrees
    <3>5. OnWay(q0, v)
      BY <1>1, <3>1, <3>4 DEF ExactQuery
    <3>6. found = LookupIn(S, q0.zone, name, type, q0.question.class)
      <4>1. rd.found = found /\ rd.name = name /\ rd.type = type
        BY DEF rd
      <4>2. rd.found = LookupIn(S, q0.zone, rd.name, rd.type, q0.question.class)
        <5> HIDE DEF rd
        <5> QED
          BY <3>3
      <4> HIDE DEF rd, found
      <4> QED
        BY <4>1, <4>2
    <3>7. Lookup(v, name, type) = found
      BY <1>2, <3>2, <3>6 DEF Lookup
    <3> HIDE DEF v, found
    <3>8. OnWay(q, v)
      BY <1>2, <3>5, OnWaySame
    <3>9. IsView(v, q)
      BY <3>2 DEF IsView
    <3>10. Reaches(n, v)
      BY <3>7, <3>8, <3>9 DEF found
    <3> QED
      BY <2>1, <3>10 DEF Reaches, v
  <2>3. ExactQuery(n)
    BY <2>1, <2>2 DEF ExactQuery
  <2> QED
    BY <1>4, <2>3, ExactReader DEF ExactInv
<1> QED
  BY <1>3, <1>5, <1>6

\* The eight lookup steps.
LEMMA ExactLookupStep ==
    ASSUME TypeOK, ExactInv, NEW p \in Readers,
           \/ LookupAny(p) \/ LookupExact(p) \/ LookupCNAME(p) \/ LookupTarget(p)
           \/ LookupNegative(p) \/ LookupSOA(p) \/ LookupA(p) \/ LookupAAAA(p)
    PROVE  ExactInv' /\ Nears(p)
<1> DEFINE q0 == query[p]
<1>1. /\ q0 \in Queries /\ ExactQuery(q0)
      /\ q0.question.name \in Names /\ q0.question.type \in LookupTypes
      /\ q0.current \in Names /\ q0.target \in Names /\ q0.zone \in Names
      /\ q0.todo \subseteq Names
      /\ {"ANY", "CNAME", "SOA", "A", "AAAA"} \subseteq LookupTypes
  BY QueryFacts DEF ExactInv, LookupTypes
<1>2. cache' = cache
  BY DEF LookupAny, LookupExact, LookupCNAME, LookupTarget, LookupNegative, LookupSOA,
         LookupA, LookupAAAA, Looked
<1>3. ASSUME NEW name \in Names, NEW type \in LookupTypes, NEW q, q = Noted(q0, name, type)
      PROVE  /\ q \in Queries /\ q.pc = q0.pc /\ q.question = q0.question /\ q.zone = q0.zone
             /\ q.current = q0.current /\ q.target = q0.target /\ q.hops = q0.hops
             /\ q.visited = q0.visited /\ q.todo = q0.todo /\ q.result = q0.result
  BY <1>1, <1>3, NotedFacts DEF LookupTypes
<1>4. CASE LookupAny(p)
  <2> DEFINE name == q0.question.name
  <2>1. PICK q : q = Noted(q0, name, "ANY")
    OBVIOUS
  <2>2. PICK found : found = Find(q0, name, "ANY")
    OBVIOUS
  <2>3. PICK n : n = IF found = {} THEN [q EXCEPT !.pc = "negative"] ELSE Success(q, found)
    OBVIOUS
  <2>4. query' = [query EXCEPT ![p] = n] /\ q0.pc = "any"
    BY <1>4, <2>1, <2>2, <2>3 DEF LookupAny, Looked
  <2>5. LooksUp(p, name, "ANY")
    BY <1>4, LookupAnyStep
  <2>6. q \in Queries /\ q.pc = q0.pc /\ q.question = q0.question
    BY <1>1, <1>3, <2>1
  <2>7. ASSUME NEW v, IsView(v, q), OnWay(q, v), Lookup(v, name, "ANY") = found
        PROVE  Reaches(n, v)
    BY <2>3, <2>4, <2>6, <2>7, AnyReaches
  <2>8. q0.pc \in ResolvingPcs
    BY <2>4 DEF ResolvingPcs
  <2> QED
    BY <1>1, <1>2, <2>1, <2>2, <2>4, <2>5, <2>7, <2>8, ExactLookup
<1>5. CASE LookupExact(p)
  <2> DEFINE name == q0.question.name
             type == q0.question.type
  <2>1. PICK q : q = Noted(q0, name, type)
    OBVIOUS
  <2>2. PICK found : found = Find(q0, name, type)
    OBVIOUS
  <2>3. PICK n : n = IF found = {}
                     THEN [q EXCEPT !.pc = "cname", !.current = name, !.visited = {name},
                                    !.result = Resolution("SUCCESS", {}, {}, {})]
                     ELSE Success(q, found)
    OBVIOUS
  <2>4. query' = [query EXCEPT ![p] = n] /\ q0.pc = "exact"
    BY <1>5, <2>1, <2>2, <2>3 DEF LookupExact, Looked
  <2>5. LooksUp(p, name, type)
    BY <1>5, LookupExactStep
  <2>6. q \in Queries /\ q.pc = q0.pc /\ q.question = q0.question /\ q.hops = q0.hops
    BY <1>1, <1>3, <2>1
  <2>7. q.hops = 0
    BY <1>1, <2>4, <2>6 DEF ExactQuery, LatePcs
  <2>8. ASSUME NEW v, IsView(v, q), OnWay(q, v), Lookup(v, name, type) = found
        PROVE  Reaches(n, v)
    BY <2>3, <2>4, <2>6, <2>7, <2>8, ExactReaches
  <2>9. q0.pc \in ResolvingPcs
    BY <2>4 DEF ResolvingPcs
  <2> QED
    BY <1>1, <1>2, <2>1, <2>2, <2>4, <2>5, <2>8, <2>9, ExactLookup
<1>6. CASE LookupCNAME(p)
  <2> DEFINE name == q0.current
  <2>1. PICK q : q = Noted(q0, name, "CNAME")
    OBVIOUS
  <2>2. PICK found : found = Find(q0, name, "CNAME")
    OBVIOUS
  <2>3. PICK target, linked : /\ target = LastTarget(found)
                              /\ linked = [q EXCEPT !.result.answer = @ \cup RRs(found)]
    OBVIOUS
  <2>4. PICK n : n =
          CASE found = {} /\ q.current = q.question.name -> [q EXCEPT !.pc = "negative"]
            [] found = {} /\ q.current # q.question.name -> [q EXCEPT !.pc = "soa"]
            [] found # {} /\ ~Parsable(found) -> Failed(q)
            [] found # {} /\ Parsable(found) /\ q.question.type # "CNAME"
                 /\ IsSubDomain(q.zone, target) ->
                   [linked EXCEPT !.target = target, !.pc = "target"]
            [] OTHER -> Completed(linked)
    OBVIOUS
  <2>5. query' = [query EXCEPT ![p] = n] /\ q0.pc = "cname"
    BY <1>6, <2>1, <2>2, <2>3, <2>4 DEF LookupCNAME, Looked
  <2>6. LooksUp(p, name, "CNAME")
    BY <1>6, LookupCNAMEStep
  <2>7. q \in Queries /\ q.pc = q0.pc /\ q.current = q0.current
    BY <1>1, <1>3, <2>1
  <2>8. ASSUME NEW v, IsView(v, q), OnWay(q, v), Lookup(v, name, "CNAME") = found
        PROVE  Reaches(n, v)
    BY <2>3, <2>4, <2>5, <2>7, <2>8, CNAMEReaches
  <2>9. q0.pc \in ResolvingPcs
    BY <2>5 DEF ResolvingPcs, LatePcs
  <2> QED
    BY <1>1, <1>2, <2>1, <2>2, <2>5, <2>6, <2>8, <2>9, ExactLookup
<1>7. CASE LookupTarget(p)
  <2> DEFINE name == q0.target
             type == q0.question.type
  <2>1. PICK q : q = Noted(q0, name, type)
    OBVIOUS
  <2>2. PICK found : found = Find(q0, name, type)
    OBVIOUS
  <2>3. q \in Queries /\ q.pc = q0.pc /\ q.target = q0.target /\ q.question = q0.question
    BY <1>1, <1>3, <2>1
  <2>4. PICK n : n =
          CASE found # {} /\ ~Parsable(found) -> Failed(q)
            [] found # {} /\ Parsable(found) ->
                  Completed([q EXCEPT !.result.answer = @ \cup RRs(found)])
            [] found = {} /\ (q.target \in q.visited \/ q.hops + 1 = MaxCNAMEChain) ->
                  ServerFailure(q)
            [] OTHER -> [q EXCEPT !.pc = "cname", !.current = q.target, !.target = Root,
                                  !.visited = @ \cup {q.target}, !.hops = @ + 1]
    OBVIOUS
  <2>5. query' = [query EXCEPT ![p] = n] /\ q0.pc = "target"
    BY <1>7, <2>1, <2>2, <2>3, <2>4 DEF LookupTarget, Looked
  <2>6. LooksUp(p, name, type)
    BY <1>7, LookupTargetStep
  <2>8. ASSUME NEW v, IsView(v, q), OnWay(q, v), Lookup(v, name, type) = found
        PROVE  Reaches(n, v)
    BY <2>3, <2>4, <2>5, <2>8, TargetReaches
  <2>9. q0.pc \in ResolvingPcs
    BY <2>5 DEF ResolvingPcs, LatePcs
  <2> QED
    BY <1>1, <1>2, <2>1, <2>2, <2>5, <2>6, <2>8, <2>9, ExactLookup
<1>8. CASE LookupNegative(p)
  <2> DEFINE name == q0.question.name
  <2>1. PICK q : q = Noted(q0, name, "ANY")
    OBVIOUS
  <2>2. PICK found : found = Find(q0, name, "ANY")
    OBVIOUS
  <2>3. PICK n : n = [q EXCEPT !.pc = "soa",
                               !.result = Resolution(IF found = {} THEN "NXDOMAIN"
                                                                   ELSE "SUCCESS", {}, {}, {})]
    OBVIOUS
  <2>4. query' = [query EXCEPT ![p] = n] /\ q0.pc = "negative"
    BY <1>8, <2>1, <2>2, <2>3 DEF LookupNegative, Looked
  <2>5. LooksUp(p, name, "ANY")
    BY <1>8, LookupNegativeStep
  <2>6. q \in Queries /\ q.pc = q0.pc /\ q.question = q0.question
    BY <1>1, <1>3, <2>1
  <2>7. ASSUME NEW v, IsView(v, q), OnWay(q, v), Lookup(v, name, "ANY") = found
        PROVE  Reaches(n, v)
    BY <2>3, <2>4, <2>6, <2>7, NegativeReaches
  <2>8. q0.pc \in ResolvingPcs
    BY <2>4 DEF ResolvingPcs, LatePcs
  <2> QED
    BY <1>1, <1>2, <2>1, <2>2, <2>4, <2>5, <2>7, <2>8, ExactLookup
<1>9. CASE LookupSOA(p)
  <2> DEFINE name == q0.zone
  <2>1. PICK q : q = Noted(q0, name, "SOA")
    OBVIOUS
  <2>2. PICK found : found = Find(q0, name, "SOA")
    OBVIOUS
  <2>3. PICK n : n = IF ~Parsable(found) THEN Failed(q)
                     ELSE Completed([q EXCEPT !.result.authority = RRs(found)])
    OBVIOUS
  <2>4. query' = [query EXCEPT ![p] = n] /\ q0.pc = "soa"
    BY <1>9, <2>1, <2>2, <2>3 DEF LookupSOA, Looked
  <2>5. LooksUp(p, name, "SOA")
    BY <1>9, LookupSOAStep
  <2>6. q \in Queries /\ q.pc = q0.pc /\ q.zone = q0.zone
    BY <1>1, <1>3, <2>1
  <2>7. ASSUME NEW v, IsView(v, q), OnWay(q, v), Lookup(v, name, "SOA") = found
        PROVE  Reaches(n, v)
    BY <2>3, <2>4, <2>6, <2>7, SOAReaches
  <2>8. q0.pc \in ResolvingPcs
    BY <2>4 DEF ResolvingPcs, LatePcs
  <2> QED
    BY <1>1, <1>2, <2>1, <2>2, <2>4, <2>5, <2>7, <2>8, ExactLookup
<1>10. CASE LookupA(p)
  <2>1. PICK target \in q0.todo :
          LET q     == Noted(query[p], target, "A")
              found == Find(query[p], target, "A")
          IN  /\ q0.pc = "extraA"
              /\ Looked(p, IF Parsable(found)
                           THEN [q EXCEPT !.pc = "extraAAAA", !.target = target,
                                          !.result.extra = @ \cup RRs(found)]
                           ELSE [q EXCEPT !.pc = "extraFail", !.target = target])
    BY <1>10 DEF LookupA
  <2>2. PICK q : q = Noted(q0, target, "A")
    OBVIOUS
  <2>3. PICK found : found = Find(q0, target, "A")
    OBVIOUS
  <2>4. LooksUp(p, target, "A") /\ target \in Names
    BY <1>1, <2>1, LookupAStep
  <2>5. q \in Queries /\ q.pc = q0.pc /\ q.todo = q0.todo
    BY <1>1, <1>3, <2>2, <2>4
  <2>6. PICK x, r : /\ x = q.result.extra \cup RRs(found)
                    /\ r = [q.result EXCEPT !.extra = x]
    OBVIOUS
  <2>7. PICK n : n = IF Parsable(found)
                     THEN [q EXCEPT !.pc = "extraAAAA", !.target = target, !.result = r]
                     ELSE [q EXCEPT !.pc = "extraFail", !.target = target]
    OBVIOUS
  <2>8. query' = [query EXCEPT ![p] = n] /\ q0.pc = "extraA"
    <3>1. [q EXCEPT !.pc = "extraAAAA", !.target = target, !.result.extra = @ \cup RRs(found)]
            = [q EXCEPT !.pc = "extraAAAA", !.target = target, !.result = r]
      BY <2>5, <2>6 DEF Queries
    <3> QED
      BY <2>1, <2>2, <2>3, <2>7, <3>1 DEF Looked
  <2>10. ASSUME NEW v, IsView(v, q), OnWay(q, v), Lookup(v, target, "A") = found
         PROVE  Reaches(n, v)
    BY <2>5, <2>6, <2>7, <2>8, <2>10, AReaches
  <2>11. q0.pc \in ResolvingPcs
    BY <2>8 DEF ResolvingPcs, LatePcs
  <2> QED
    BY <1>1, <1>2, <2>2, <2>3, <2>4, <2>8, <2>10, <2>11, ExactLookup
<1>11. CASE LookupAAAA(p)
  <2> DEFINE name == q0.target
  <2>1. PICK q : q = Noted(q0, name, "AAAA")
    OBVIOUS
  <2>2. PICK found : found = Find(q0, name, "AAAA")
    OBVIOUS
  <2>3. q \in Queries /\ q.pc = q0.pc /\ q.target = q0.target /\ q.todo = q0.todo
    BY <1>1, <1>3, <2>1
  <2>4. PICK todo : todo = q.todo \ {q.target}
    OBVIOUS
  <2>5. PICK x, r, pc : /\ x = (q.result.extra \cup RRs(found)) \ q.result.answer
                        /\ r = [q.result EXCEPT !.extra = x]
                        /\ pc = IF todo = {} THEN "set" ELSE "extraA"
    OBVIOUS
  <2>10. PICK n : n = IF q.pc = "extraFail" \/ ~Parsable(found) THEN Failed(q)
                      ELSE [q EXCEPT !.pc = pc, !.todo = todo, !.target = Root, !.result = r]
    OBVIOUS
  <2>6. query' = [query EXCEPT ![p] = n] /\ q0.pc \in {"extraAAAA", "extraFail"}
    <3>1. [q EXCEPT !.pc = IF todo = {} THEN "set" ELSE "extraA", !.todo = todo, !.target = Root,
                    !.result.extra = (@ \cup RRs(found)) \ q.result.answer]
            = [q EXCEPT !.pc = pc, !.todo = todo, !.target = Root, !.result = r]
      BY <2>3, <2>5 DEF Queries
    <3> QED
      BY <1>11, <2>1, <2>2, <2>3, <2>4, <2>10, <3>1 DEF LookupAAAA, Looked
  <2>7. LooksUp(p, name, "AAAA")
    BY <1>11, LookupAAAAStep
  <2>8. ASSUME NEW v, IsView(v, q), OnWay(q, v), Lookup(v, name, "AAAA") = found
        PROVE  Reaches(n, v)
    BY <2>3, <2>4, <2>5, <2>6, <2>8, <2>10, AAAAReaches
  <2>9. q0.pc \in ResolvingPcs
    BY <2>6 DEF ResolvingPcs, LatePcs
  <2> QED
    BY <1>1, <1>2, <2>1, <2>2, <2>6, <2>7, <2>8, <2>9, ExactLookup
<1> QED
  BY <1>4, <1>5, <1>6, <1>7, <1>8, <1>9, <1>10, <1>11

\* The steps before the first lookup and after the last.
LEMMA ExactOtherStep ==
    ASSUME TypeOK, ExactInv, NEW p \in Readers,
           \/ \E raw \in Questions : Resolve(p, raw)
           \/ UseIndex(p) \/ ScanShard(p) \/ InstallIndex(p) \/ ReadKey(p)
           \/ CacheGet(p) \/ CacheSet(p) \/ Reply(p)
    PROVE  ExactInv'
<1>1. query[p] \in Queries /\ ExactQuery(query[p]) /\ \A e \in cache : ExactEntry(e)
  BY QueryFacts DEF ExactInv
<1> DEFINE q == query[p]
<1>2. ASSUME NEW n, query' = [query EXCEPT ![p] = n], cache' = cache,
             n.pc \notin ResolvingPcs, n.hops = 0
      PROVE  ExactInv'
  BY <1>1, <1>2, ExactOutside, ExactReader
<1>3. ASSUME NEW m, NEW result, query' = [query EXCEPT ![p] = Returned(m, result)], cache' = cache
      PROVE  ExactInv'
  BY <1>1, <1>3, ExactReturned, ExactReader
<1>4. ASSUME q.pc \notin LatePcs, NEW index, cache' = cache,
             \/ query' = [query EXCEPT ![p] = Matched(q, index)]
             \/ query' = [query EXCEPT ![p] = [Matched(q, index) EXCEPT !.seen = {}, !.shard = 0]]
      PROVE  ExactInv'
  <2>1. Matched(q, index).pc \in {"key", "done"} /\ Matched(q, index).hops = 0
    <3>1. q.hops = 0
      BY <1>1, <1>4 DEF ExactQuery
    <3>2. Returned(q, Unanswered("REFUSED")).pc = "done" /\ Returned(q, Unanswered("REFUSED")).hops = 0
      BY DEF Returned, NoQuery
    <3> DEFINE zone == MatchZone(index, q.question.name)
    <3>3. [q EXCEPT !.pc = "key", !.zone = zone].pc = "key"
          /\ [q EXCEPT !.pc = "key", !.zone = zone].hops = 0
      BY <1>1, <3>1 DEF Queries
    <3> QED
      BY <3>2, <3>3 DEF Matched
  <2>2. LET n == [Matched(q, index) EXCEPT !.seen = {}, !.shard = 0]
        IN  n.pc = Matched(q, index).pc /\ n.hops = Matched(q, index).hops
    <3>1. DOMAIN Matched(q, index) = DOMAIN q \/ DOMAIN Matched(q, index) = DOMAIN NoQuery
      BY DEF Matched, Returned
    <3>2. {"pc", "hops"} \subseteq DOMAIN q /\ {"pc", "hops"} \subseteq DOMAIN NoQuery
      BY <1>1 DEF Queries, NoQuery
    <3> QED
      BY <3>1, <3>2
  <2> QED
    BY <1>2, <1>4, <2>1, <2>2 DEF ResolvingPcs, LatePcs
<1>5. ASSUME NEW raw \in Questions, Resolve(p, raw) PROVE ExactInv'
  <2> DEFINE question == [raw EXCEPT !.name = Fold(@)]
             m == [NoQuery EXCEPT !.question = question, !.revision = revision]
  <2>1. cache' = cache /\ (\/ query' = [query EXCEPT ![p] = Returned(m, Unanswered("FORMERR"))]
                          \/ query' = [query EXCEPT ![p] = [m EXCEPT !.pc = "index"]])
    BY <1>5 DEF Resolve
  <2>2. [m EXCEPT !.pc = "index"].pc = "index" /\ [m EXCEPT !.pc = "index"].hops = 0
    BY DEF NoQuery
  <2> HIDE DEF m
  <2> QED
    BY <1>2, <1>3, <2>1, <2>2 DEF ResolvingPcs, LatePcs
<1>6. CASE UseIndex(p)
  <2>1. q.pc = "index" /\ cache' = cache
        /\ (\/ query' = [query EXCEPT ![p] = Matched(q, zoneIndex)]
            \/ query' = [query EXCEPT ![p] = [q EXCEPT !.pc = "scan"]])
    BY <1>6 DEF UseIndex
  <2>2. [q EXCEPT !.pc = "scan"].pc = "scan" /\ [q EXCEPT !.pc = "scan"].hops = q.hops
    BY <1>1 DEF Queries
  <2>3. q.pc \notin LatePcs
    BY <2>1 DEF LatePcs
  <2>4. q.hops = 0
    BY <1>1, <2>3 DEF ExactQuery
  <2> QED
    BY <1>2, <1>4, <2>1, <2>2, <2>3, <2>4 DEF ResolvingPcs, LatePcs
<1>7. CASE ScanShard(p)
  <2> DEFINE pc == IF q.shard + 1 = Shards THEN "install" ELSE "scan"
             n == [q EXCEPT !.seen = q.seen \cup {z \in zones : ShardOf[z] = q.shard},
                            !.shard = q.shard + 1, !.pc = pc]
  <2>1. q.pc = "scan" /\ cache' = cache /\ query' = [query EXCEPT ![p] = n]
    BY <1>7 DEF ScanShard
  <2>2. pc \in {"install", "scan"}
    OBVIOUS
  <2>3. n.pc = pc /\ n.hops = q.hops
    <3> HIDE DEF pc
    <3> QED
      BY <1>1 DEF Queries
  <2>4. q.hops = 0
    BY <1>1, <2>1 DEF ExactQuery, LatePcs
  <2> HIDE DEF n, pc
  <2> QED
    BY <1>2, <2>1, <2>2, <2>3, <2>4 DEF ResolvingPcs, LatePcs
<1>8. CASE InstallIndex(p)
  <2>1. q.pc = "install" /\ cache' = cache
        /\ query' = [query EXCEPT ![p] = [Matched(q, q.seen) EXCEPT !.seen = {}, !.shard = 0]]
    BY <1>8 DEF InstallIndex
  <2> QED
    BY <1>4, <2>1 DEF LatePcs
<1>9. CASE ReadKey(p)
  <2> DEFINE n == [q EXCEPT !.key = revision, !.pc = "get"]
  <2>1. q.pc = "key" /\ cache' = cache /\ query' = [query EXCEPT ![p] = n]
    BY <1>9 DEF ReadKey, TypeOK
  <2>2. n.pc = "get" /\ n.hops = q.hops
    BY <1>1 DEF Queries
  <2>3. q.hops = 0
    BY <1>1, <2>1 DEF ExactQuery, LatePcs
  <2> HIDE DEF n
  <2> QED
    BY <1>2, <2>1, <2>2, <2>3 DEF ResolvingPcs, LatePcs
<1>10. CASE CacheGet(p)
  <2>1. q.pc = "get" /\ cache' = cache
        /\ (\/ \E e \in cache : query' = [query EXCEPT ![p] = Returned(q, e.result)]
            \/ query' = [query EXCEPT ![p] = Missed(q)])
    BY <1>10 DEF CacheGet
  <2>2. ExactQuery(Missed(q))
    <3>1. q.hops = 0
      BY <1>1, <2>1 DEF ExactQuery, LatePcs
    <3>2. PICK r : r = Resolution("NOTIMP", {}, {}, {})
      OBVIOUS
    <3>3. PICK n : n = Missed(q)
      OBVIOUS
    <3>4. CASE q.question.class \notin {"IN", "ANY"}
      <4>1. n = [q EXCEPT !.pc = "set", !.result = r]
        BY <3>2, <3>3, <3>4 DEF Missed
      <4>2. n.pc = "set" /\ n.result = r /\ n.question = q.question
        BY <1>1, <4>1 DEF Queries
      <4>3. ASSUME NEW S PROVE OnWay(n, View(n, S))
        <5>1. View(n, S).question = q.question
          BY <4>2 DEF View
        <5>2. ViewAnswer(View(n, S)) = r
          BY <3>2, <3>4, <5>1, ViewAnswerFacts
        <5> QED
          BY <4>2, <5>2 DEF OnWay
      <4> QED
        BY <3>3, <4>2, <4>3 DEF ExactQuery, LatePcs
    <3>5. CASE q.question.class \in {"IN", "ANY"}
      <4>1. \/ q.question.type = "ANY" /\ n = [q EXCEPT !.pc = "any"]
            \/ q.question.type # "ANY" /\ n = [q EXCEPT !.pc = "exact"]
        BY <3>3, <3>5 DEF Missed
      <4>2. /\ n.question = q.question /\ n.hops = 0
            /\ \/ q.question.type = "ANY" /\ n.pc = "any"
               \/ q.question.type # "ANY" /\ n.pc = "exact"
        BY <1>1, <3>1, <4>1 DEF Queries
      <4>3. ASSUME NEW S PROVE OnWay(n, View(n, S))
        <5>1. View(n, S).question = q.question
          BY <4>2 DEF View
        <5> QED
          BY <3>5, <4>2, <5>1 DEF OnWay, Served
      <4> QED
        BY <3>3, <4>2, <4>3 DEF ExactQuery
    <3> QED
      BY <3>4, <3>5
  <2> QED
    BY <1>1, <1>3, <2>1, <2>2, ExactReader
<1>11. CASE CacheSet(p)
  <2> DEFINE entry == [key |-> q.key, question |-> q.question, zone |-> q.zone,
                       reads |-> q.reads, result |-> q.result]
  <2>1. q.pc = "set" /\ query' = [query EXCEPT ![p] = Returned(q, q.result)]
        /\ cache' \subseteq cache \cup {entry}
    BY <1>11 DEF CacheSet
  <2>2. ExactEntry(entry)
    <3> SUFFICES ASSUME NEW S \in SUBSET Records, Agrees(S, entry)
                 PROVE  entry.result = ZoneAnswer(S, entry.zone, entry.question)
      BY DEF ExactEntry
    <3>1. entry.result = q.result /\ entry.zone = q.zone /\ entry.question = q.question
          /\ entry.reads = q.reads
      OBVIOUS
    <3>2. Agrees(S, q)
      BY <3>1 DEF Agrees
    <3>3. q.result = ViewAnswer(View(q, S))
      BY <1>1, <2>1, <3>2 DEF ExactQuery, OnWay, ResolvingPcs, LatePcs
    <3> HIDE DEF entry
    <3> QED
      BY <3>1, <3>3 DEF ZoneAnswer, View
  <2> HIDE DEF entry
  <2>3. \A e \in cache' : ExactEntry(e)
    BY <1>1, <2>1, <2>2
  <2> QED
    BY <2>1, <2>3, ExactReturned, ExactReader
<1>12. CASE Reply(p)
  BY <1>1, <1>12, ExactReturned, ExactReader DEF Reply
<1> QED
  BY <1>5, <1>6, <1>7, <1>8, <1>9, <1>10, <1>11, <1>12

\* Every step of a query, and its first, keeps the invariant.
LEMMA ExactNextStep ==
    ASSUME TypeOK, ExactInv, NEW p \in Readers,
           (\E raw \in Questions : Resolve(p, raw)) \/ QueryStep(p)
    PROVE  ExactInv'
BY ExactLookupStep, ExactOtherStep DEF QueryStep

\* So do the steps of the store and of the cache itself, and a new resolver satisfies it.
LEMMA ExactKept ==
    /\ ExactInv /\ UNCHANGED <<cache, query>> => ExactInv'
    /\ ExactInv /\ Evict => ExactInv'
    /\ ResolverInit => ExactInv
<1>1. ExactInv /\ UNCHANGED <<cache, query>> => ExactInv'
  BY DEF ExactInv
<1>2. ExactInv /\ Evict => ExactInv'
  BY DEF ExactInv, Evict
<1>3. ResolverInit => ExactInv
  BY ExactReturned DEF ResolverInit, ExactInv
<1> QED
  BY <1>1, <1>2, <1>3

\* An entry whose lookups the store still agrees with is the store's answer.
LEMMA EntryIsExact ==
    ASSUME NEW open, ResolverInv(open), ExactInv, NEW e \in cache,
           e.key = revision, e.zone \notin open
    PROVE  e.result = ZoneAnswer(records, e.zone, e.question)
<1>1. Agrees(records, e)
  BY DEF ResolverInv, EntryInv, StillTrue, Agrees
<1>2. records \in SUBSET Records
  BY DEF ResolverInv, TypeOK, StoreTypeOK
<1> QED
  BY <1>1, <1>2 DEF ExactInv, ExactEntry

-----------------------------------------------------------------------------
(* The resolver over a MemoryStore. *)

\* The invariant of the resolver and the exactness of what it has looked up hold in
\* every reachable state.
LEMMA ExactInvHolds == Spec => [](Inv /\ ExactInv)
<1>1. Init => Inv /\ ExactInv
  BY InitInv, ExactKept DEF Init
<1>2. Inv /\ ExactInv /\ [Next]_vars => Inv' /\ ExactInv'
  <2> SUFFICES ASSUME Inv, ExactInv, [Next]_vars PROVE Inv' /\ ExactInv'
    OBVIOUS
  <2>1. Inv' /\ TypeOK
    BY NextInv, InvConsequences
  <2>2. CASE (StoreNext /\ UNCHANGED resolverVars) \/ UNCHANGED vars
    BY <2>1, <2>2, ExactKept DEF resolverVars, vars
  <2>3. ASSUME NEW p \in Readers, (\E raw \in Questions : Resolve(p, raw)) \/ QueryStep(p)
        PROVE  ExactInv'
    BY <2>1, <2>3, ExactNextStep
  <2>4. CASE Evict
    BY <2>1, <2>4, ExactKept
  <2> QED
    BY <2>1, <2>2, <2>3, <2>4 DEF Next
<1> QED
  BY <1>1, <1>2, PTL DEF Spec

\* A cached response of the current revision is the answer of its zone to its question,
\* section by section, whatever aliases the zone holds and whatever was written while
\* the response was put together, unless a writer is still working on that zone.
THEOREM CacheIsExact == Spec => []CacheExact
<1>1. Inv /\ ExactInv => CacheExact
  <2> SUFFICES ASSUME Inv, ExactInv, NEW e \in cache, e.key = revision, ~Busy(e.zone)
               PROVE  e.result = ZoneAnswer(records, e.zone, e.question)
    BY DEF CacheExact
  <2>1. PICK open \in SUBSET Zones : open = OpenZones /\ ResolverInv(open)
    BY DEF Inv
  <2>2. e.zone \notin open
    BY <2>1 DEF OpenZones
  <2> QED
    BY <2>1, <2>2, EntryIsExact
<1> QED
  BY <1>1, ExactInvHolds, PTL

-----------------------------------------------------------------------------
(***************************************************************************)
(* A query which ran while nothing was written returns the store's answer. *)
(*                                                                         *)
(* The argument.  At one revision the set of open zones only grows, so if  *)
(* none is open now, none was since the query read its revision: the index *)
(* it matched, the entry it hit and the lookups it made are all of the     *)
(* store as it is.  The cache key does not hold the zone that matched, so  *)
(* this is a theorem only for questions that lie under one zone; the run   *)
(* resolver_zone_race shows what happens with two.                         *)
(***************************************************************************)
\* No question lies under two zones.
OneZoneAbove ==
    \A q \in Asked, y \in Zones, z \in Zones :
        IsSubDomain(y, q.name) /\ IsSubDomain(z, q.name) => y = z

\* The pcs of a query that has a cache key, and of one that has a zone.
KeyedPcs == {"get"} \cup ResolvingPcs
PlacedPcs == {"key"} \cup KeyedPcs

\* A zone that matchZone can find for a question.
Located(zone, question) ==
    zone \in Zones /\ zone # NoZone /\ IsSubDomain(zone, question.name)

\* While no zone is open, a query of the current revision has the store's zone and, once
\* it has returned, the store's answer or one of the excused results.
AnswerQuery(q, open, excused) ==
    /\ q.pc \in EarlyPcs \cup KeyedPcs => q.question.name # Root
    /\ q.pc \in PlacedPcs => Located(q.zone, q.question)
    /\ q.pc \in KeyedPcs => q.revision <= q.key
    /\ q.revision = revision /\ open = {} =>
          /\ q.pc \in PlacedPcs => q.zone = MatchZone(zones, q.question.name)
          /\ q.pc = "done" => q.result \in {Answer(zones, records, q.question)} \cup excused

AnswerInv(open, excused) ==
    /\ \A e \in cache : Located(e.zone, e.question)
    /\ \A p \in Readers : AnswerQuery(query[p], open, excused)

-----------------------------------------------------------------------------
(* Steps of writers and readers in general. *)

\* A step of a writer: it announces a change, or it leaves a zone open.
LEMMA AnswerWriter ==
    ASSUME NEW before, NEW after, NEW excused, ResolverInv(before),
           AnswerInv(before, excused),
           Announces \/ Hides(before, after), StoreTypeOK', UNCHANGED resolverVars
    PROVE  AnswerInv(after, excused)'
<1>1. cache' = cache /\ query' = query
  BY DEF resolverVars
<1>2. \A e \in cache' : Located(e.zone, e.question)
  BY <1>1 DEF AnswerInv
<1>3. ASSUME NEW p \in Readers PROVE AnswerQuery(query[p], after, excused)'
  <2>1. PICK q : q = query[p]
    OBVIOUS
  <2>2. AnswerQuery(q, before, excused) /\ q = query'[p]
    BY <1>1, <2>1 DEF AnswerInv
  <2>3. q.revision <= revision /\ q.revision \in Nat /\ revision \in Nat
    BY <2>1 DEF ResolverInv, QueryInv, TypeOK, StoreTypeOK, Queries
  <2>4. CASE Announces
    <3>1. q.revision # revision'
      BY <2>3, <2>4 DEF Announces
    <3> QED
      BY <2>2, <3>1 DEF AnswerQuery
  <2>5. CASE Hides(before, after)
    <3>1. revision' = revision /\ (after = {} => before = {})
      BY <2>5 DEF Hides
    <3>2. ASSUME after = {} PROVE zones' = zones /\ records' = records
      <4>1. \A z : z \in zones' <=> z \in zones
        BY <2>5, <3>2 DEF Hides
      <4>2. \A z : InZone(records', z) = InZone(records, z)
        BY <2>5, <3>2 DEF Hides
      <4>3. \A r : r \in records' <=> r \in records
        <5>1. \A S, r : r \in S <=> r \in InZone(S, r.zone)
          BY DEF InZone
        <5> QED
          BY <4>2, <5>1
      <4> QED
        BY <4>1, <4>3
    <3>3. AnswerQuery(q, after, excused)'
      <4>1. CASE after = {}
        BY <2>2, <3>1, <3>2, <4>1 DEF AnswerQuery
      <4>2. CASE after # {}
        BY <2>2, <4>2 DEF AnswerQuery
      <4> QED
        BY <4>1, <4>2
    <3> QED
      BY <2>2, <3>3
  <2> QED
    BY <2>4, <2>5
<1> QED
  BY <1>2, <1>3 DEF AnswerInv

\* A step of one reader.
LEMMA AnswerReader ==
    ASSUME NEW open, NEW excused, TypeOK, AnswerInv(open, excused),
           NEW p \in Readers, NEW n, AnswerQuery(n, open, excused),
           query' = [query EXCEPT ![p] = n], UNCHANGED storeVars,
           \A e \in cache' : Located(e.zone, e.question)
    PROVE  AnswerInv(open, excused)'
<1>1. zones' = zones /\ records' = records /\ revision' = revision
  BY DEF storeVars
<1>2. ASSUME NEW r \in Readers PROVE AnswerQuery(query[r], open, excused)'
  <2>1. query'[r] = n \/ query'[r] = query[r]
    BY DEF TypeOK
  <2>2. AnswerQuery(query'[r], open, excused)
    BY <2>1 DEF AnswerInv
  <2> QED
    BY <1>1, <2>2 DEF AnswerQuery
<1> QED
  BY <1>2 DEF AnswerInv

\* A query that returns the store's answer, or an excused result.
LEMMA AnswerReturned ==
    ASSUME NEW open, NEW excused, NEW q, NEW result,
           q.revision = revision /\ open = {} =>
               result \in {Answer(zones, records, q.question)} \cup excused
    PROVE  AnswerQuery(Returned(q, result), open, excused)
<1> DEFINE d == Returned(q, result)
<1>1. d.pc = "done" /\ d.question = q.question /\ d.revision = q.revision /\ d.result = result
  BY DEF Returned, NoQuery
<1> HIDE DEF d
<1>2. d.pc \notin EarlyPcs \cup KeyedPcs /\ d.pc \notin PlacedPcs
  BY <1>1 DEF EarlyPcs, PlacedPcs, KeyedPcs, ResolvingPcs, LatePcs
<1>3. d.pc \notin KeyedPcs
  BY <1>2
<1> QED
  BY <1>1, <1>2, <1>3 DEF AnswerQuery, d

\* The reader between two queries.
LEMMA AnswerIdle ==
    ASSUME NEW open, NEW excused
    PROVE  AnswerQuery(NoQuery, open, excused)
<1>1. NoQuery.pc = "idle"
  BY DEF NoQuery
<1> QED
  BY <1>1 DEF AnswerQuery, EarlyPcs, PlacedPcs, KeyedPcs, ResolvingPcs, LatePcs

\* The zone that an index yields is one above the name.
LEMMA MatchZoneAbove ==
    ASSUME NEW index \in SUBSET Zones, NEW name, MatchZone(index, name) # NoZone
    PROVE  MatchZone(index, name) \in Zones /\ IsSubDomain(MatchZone(index, name), name)
<1> DEFINE above == {z \in index : IsSubDomain(z, name)}
<1>1. above # {}
  BY DEF MatchZone
<1>2. \E z \in above : \A y \in above : Len(y) <= Len(z)
  BY <1>1, LongestAssumption
<1>3. MatchZone(index, name) = CHOOSE z \in above : \A y \in above : Len(y) <= Len(z)
  BY <1>1 DEF MatchZone
<1> QED
  BY <1>2, <1>3

\* The answer to a question is that of the zone that matches it.
LEMMA AnswerCases ==
    ASSUME NEW question, question.name # Root
    PROVE  LET zone == MatchZone(zones, question.name)
           IN  /\ zone = NoZone => Answer(zones, records, question) = Unanswered("REFUSED")
               /\ zone # NoZone =>
                     Answer(zones, records, question) = ZoneAnswer(records, zone, question)
<1> DEFINE zone == MatchZone(zones, question.name)
<1>1. CASE zone = NoZone
  BY <1>1 DEF Answer
<1>2. CASE zone # NoZone
  <2>1. Answer(zones, records, question) =
            CASE question.name = Root -> Unanswered("FORMERR")
              [] question.name # Root /\ zone = NoZone -> Unanswered("REFUSED")
              [] OTHER -> ZoneAnswer(records, zone, question)
    BY DEF Answer
  <2> HIDE DEF zone
  <2> QED
    BY <1>2, <2>1 DEF zone
<1> QED
  BY <1>1, <1>2

\* A query of the current revision, with its zone and its key, while no zone is open:
\* its key is current and the store's answer is that of its zone.
LEMMA PlacedAnswer ==
    ASSUME NEW open, NEW excused, ResolverInv(open), AnswerInv(open, excused), open = {},
           NEW p \in Readers, query[p].pc \in KeyedPcs, query[p].revision = revision
    PROVE  /\ query[p].key = revision
           /\ Answer(zones, records, query[p].question)
                 = ZoneAnswer(records, query[p].zone, query[p].question)
<1> DEFINE q == query[p]
<1>1. q \in Queries /\ QueryInv(q, open) /\ AnswerQuery(q, open, excused) /\ revision \in Nat
  BY DEF ResolverInv, TypeOK, StoreTypeOK, AnswerInv
<1>2. q.revision <= q.key /\ q.key <= revision /\ q.key \in Nat
  BY <1>1 DEF QueryInv, AnswerQuery, Queries
<1>3. q.pc \in PlacedPcs
  BY DEF PlacedPcs
<1>4. q.zone = MatchZone(zones, q.question.name) /\ q.zone # NoZone /\ q.question.name # Root
  BY <1>1, <1>3 DEF AnswerQuery, Located
<1>5. q.key = revision
  BY <1>1, <1>2
<1> QED
  BY <1>4, <1>5, AnswerCases

-----------------------------------------------------------------------------
(* The steps of a query. *)

\* Resolve refuses the root at once and reads the revision for everything else.
LEMMA ResolveAnswer ==
    ASSUME NEW open, NEW excused, ResolverInv(open), AnswerInv(open, excused),
           NEW p \in Readers, NEW raw \in Questions, Resolve(p, raw)
    PROVE  AnswerInv(open, excused)'
<1> DEFINE question == [raw EXCEPT !.name = Fold(@)]
           q == [NoQuery EXCEPT !.question = question, !.revision = revision]
<1>1. UNCHANGED storeVars /\ cache' = cache /\ TypeOK
  BY DEF Resolve, ResolverInv
<1>2. CASE question.name = Root
  <2>1. query' = [query EXCEPT ![p] = Returned(q, Unanswered("FORMERR"))]
    BY <1>2 DEF Resolve
  <2>2. Answer(zones, records, question) = Unanswered("FORMERR")
    BY <1>2 DEF Answer
  <2>3. q.question = question
    BY DEF NoQuery
  <2> HIDE DEF question, q
  <2>4. AnswerQuery(Returned(q, Unanswered("FORMERR")), open, excused)
    BY <2>2, <2>3, AnswerReturned
  <2> QED
    BY <1>1, <2>1, <2>4, AnswerReader DEF AnswerInv
<1>3. CASE question.name # Root
  <2> DEFINE n == [q EXCEPT !.pc = "index"]
  <2>1. query' = [query EXCEPT ![p] = n]
    BY <1>3 DEF Resolve
  <2>2. n.pc = "index" /\ n.question = question
    BY DEF NoQuery
  <2> HIDE DEF question, n
  <2>3. AnswerQuery(n, open, excused)
    BY <1>3, <2>2 DEF AnswerQuery, PlacedPcs, KeyedPcs, ResolvingPcs, LatePcs
  <2> QED
    BY <1>1, <2>1, <2>3, AnswerReader DEF AnswerInv
<1> QED
  BY <1>2, <1>3

\* A query that matches in an index which, if its revision is current and no zone is
\* open, lists the zones of the store.
LEMMA MatchedAnswer ==
    ASSUME NEW open, NEW excused, NEW q \in Queries, q.question.name # Root,
           NEW index \in SUBSET Zones, q.revision = revision /\ open = {} => index = zones,
           NEW n, \/ n = Matched(q, index)
                  \/ n = [Matched(q, index) EXCEPT !.seen = {}, !.shard = 0]
    PROVE  AnswerQuery(n, open, excused)
<1> DEFINE zone == MatchZone(index, q.question.name)
           m == Matched(q, index)
<1>1. CASE zone = NoZone
  <2> DEFINE result == Unanswered("REFUSED")
  <2>1. m = Returned(q, result)
    BY <1>1 DEF Matched
  <2>2. result \in Results
    BY ResultFacts
  <2> HIDE DEF result
  <2>3. m \in Queries /\ m.shard = 0 /\ m.seen = {}
    BY <2>1, <2>2, ReturnedFacts
  <2>4. [m EXCEPT !.seen = {}, !.shard = 0] = m
    <3> HIDE DEF m
    <3> QED
      BY <2>3 DEF Queries
  <2>5. q.revision = revision /\ open = {} => Answer(zones, records, q.question) = result
    BY <1>1, AnswerCases DEF result
  <2>6. AnswerQuery(Returned(q, result), open, excused)
    BY <2>5, AnswerReturned
  <2> QED
    BY <2>1, <2>4, <2>6
<1>2. CASE zone # NoZone
  <2>1. m = [q EXCEPT !.pc = "key", !.zone = zone]
    BY <1>2 DEF Matched
  <2>2. Located(zone, q.question)
    BY <1>2, MatchZoneAbove DEF Located
  <2>3. q.revision = revision /\ open = {} => zone = MatchZone(zones, q.question.name)
    OBVIOUS
  <2> HIDE DEF zone
  <2>4. m \in [DOMAIN q -> {m[x] : x \in DOMAIN q}] /\ m.pc = "key" /\ m.zone = zone
        /\ m.question = q.question /\ m.revision = q.revision
        /\ {"pc", "zone", "question", "revision"} \subseteq DOMAIN q
    BY <2>1 DEF Queries
  <2> HIDE DEF m
  <2>5. n.pc = "key" /\ n.zone = zone /\ n.question = q.question /\ n.revision = q.revision
    BY <2>4 DEF m
  <2> QED
    BY <2>2, <2>3, <2>5
    DEF AnswerQuery, EarlyPcs, PlacedPcs, KeyedPcs, ResolvingPcs, LatePcs
<1> QED
  BY <1>1, <1>2

\* The index of the current revision, while no zone is open, is the zone list.
LEMMA UseIndexAnswer ==
    ASSUME NEW open, NEW excused, ResolverInv(open), AnswerInv(open, excused),
           NEW p \in Readers, UseIndex(p)
    PROVE  AnswerInv(open, excused)'
<1> DEFINE q == query[p]
<1>1. UNCHANGED storeVars /\ cache' = cache /\ TypeOK /\ q \in Queries
      /\ q.question.name # Root /\ zoneIndex \in SUBSET Zones /\ zones \in SUBSET Zones
  BY DEF UseIndex, ResolverInv, TypeOK, StoreTypeOK, AnswerInv, AnswerQuery, EarlyPcs
<1>2. CASE zonesVersion = q.revision /\ zonesLoaded
  <2>1. query' = [query EXCEPT ![p] = Matched(q, zoneIndex)]
    BY <1>2 DEF UseIndex
  <2>2. ASSUME q.revision = revision, open = {} PROVE zoneIndex = zones
    <3>1. \A z \in Zones : z \in zoneIndex <=> z \in zones
      BY <1>2, <2>2 DEF ResolverInv, IndexInv
    <3> QED
      BY <1>1, <3>1
  <2>3. AnswerQuery(Matched(q, zoneIndex), open, excused)
    BY <1>1, <2>2, MatchedAnswer
  <2> QED
    BY <1>1, <2>1, <2>3, AnswerReader DEF AnswerInv
<1>3. CASE ~(zonesVersion = q.revision /\ zonesLoaded)
  <2> DEFINE n == [q EXCEPT !.pc = "scan"]
  <2>1. query' = [query EXCEPT ![p] = n]
    BY <1>3 DEF UseIndex
  <2>2. n.pc = "scan" /\ n.question = q.question
    BY <1>1 DEF Queries
  <2> HIDE DEF n
  <2>3. AnswerQuery(n, open, excused)
    BY <1>1, <2>2 DEF AnswerQuery, PlacedPcs, KeyedPcs, ResolvingPcs, LatePcs
  <2> QED
    BY <1>1, <2>1, <2>3, AnswerReader DEF AnswerInv
<1> QED
  BY <1>2, <1>3

\* A shard of the scan.
LEMMA ScanShardAnswer ==
    ASSUME NEW open, NEW excused, ResolverInv(open), AnswerInv(open, excused),
           NEW p \in Readers, ScanShard(p)
    PROVE  AnswerInv(open, excused)'
<1> DEFINE q == query[p]
           pc == IF q.shard + 1 = Shards THEN "install" ELSE "scan"
           seen == q.seen \cup {z \in zones : ShardOf[z] = q.shard}
           n == [q EXCEPT !.seen = seen, !.shard = q.shard + 1, !.pc = pc]
<1>1. UNCHANGED storeVars /\ cache' = cache /\ TypeOK /\ q \in Queries
      /\ q.question.name # Root
  BY DEF ScanShard, ResolverInv, TypeOK, AnswerInv, AnswerQuery, EarlyPcs
<1>2. query' = [query EXCEPT ![p] = n]
  BY DEF ScanShard
<1>3. pc \in {"install", "scan"}
  OBVIOUS
<1> HIDE DEF pc, seen
<1>4. n.pc = pc /\ n.question = q.question
  BY <1>1 DEF Queries
<1> HIDE DEF n
<1>5. AnswerQuery(n, open, excused)
  BY <1>1, <1>3, <1>4 DEF AnswerQuery, PlacedPcs, KeyedPcs, ResolvingPcs, LatePcs
<1> QED
  BY <1>1, <1>2, <1>5, AnswerReader DEF AnswerInv

\* A finished scan of the current revision, while no zone is open, is the zone list.
LEMMA InstallIndexAnswer ==
    ASSUME NEW open, NEW excused, ResolverInv(open), AnswerInv(open, excused),
           NEW p \in Readers, InstallIndex(p)
    PROVE  AnswerInv(open, excused)'
<1> DEFINE q == query[p]
           n == [Matched(q, q.seen) EXCEPT !.seen = {}, !.shard = 0]
<1>1. UNCHANGED storeVars /\ cache' = cache /\ TypeOK /\ q \in Queries /\ QueryInv(q, open)
      /\ q.question.name # Root /\ q.seen \in SUBSET Zones /\ zones \in SUBSET Zones
      /\ q.pc = "install" /\ query' = [query EXCEPT ![p] = n]
  BY DEF InstallIndex, ResolverInv, TypeOK, StoreTypeOK, AnswerInv, AnswerQuery, EarlyPcs, Queries
<1>2. ASSUME q.revision = revision, open = {} PROVE q.seen = zones
  <2>1. q.shard = Shards /\ \A z \in Zones : ShardOf[z] < Shards
    BY <1>1, ResolverAssumption DEF QueryInv
  <2>2. \A z \in Zones : z \in q.seen <=> z \in zones
    BY <1>1, <1>2, <2>1 DEF QueryInv
  <2> QED
    BY <1>1, <2>2
<1>3. AnswerQuery(n, open, excused)
  BY <1>1, <1>2, MatchedAnswer
<1> HIDE DEF n
<1> QED
  BY <1>1, <1>3, AnswerReader DEF AnswerInv

\* The cache key is the revision of the store, which is no older than the query's.
LEMMA ReadKeyAnswer ==
    ASSUME NEW open, NEW excused, ResolverInv(open), AnswerInv(open, excused),
           NEW p \in Readers, ReadKey(p)
    PROVE  AnswerInv(open, excused)'
<1> DEFINE q == query[p]
           n == [q EXCEPT !.key = revision, !.pc = "get"]
<1>1. UNCHANGED storeVars /\ cache' = cache /\ TypeOK /\ q \in Queries /\ q.pc = "key"
      /\ AnswerQuery(q, open, excused) /\ q.revision <= revision
      /\ query' = [query EXCEPT ![p] = n]
  BY DEF ReadKey, ResolverInv, TypeOK, AnswerInv, QueryInv
<1>2. n.pc = "get" /\ n.question = q.question /\ n.zone = q.zone /\ n.revision = q.revision
      /\ n.key = revision
  BY <1>1 DEF Queries
<1> HIDE DEF n
<1>3. AnswerQuery(n, open, excused)
  <2>1. q.question.name # Root /\ Located(q.zone, q.question)
    BY <1>1 DEF AnswerQuery, EarlyPcs, PlacedPcs
  <2>2. q.revision = revision /\ open = {} => q.zone = MatchZone(zones, q.question.name)
    BY <1>1 DEF AnswerQuery, PlacedPcs
  <2> QED
    BY <1>1, <1>2, <2>1, <2>2 DEF AnswerQuery
<1> QED
  BY <1>1, <1>3, AnswerReader DEF AnswerInv

\* A hit: the entry is of the current revision, and of the only zone above the question.
LEMMA CacheGetAnswer ==
    ASSUME OneZoneAbove, NEW open, NEW excused, ResolverInv(open), ExactInv,
           AnswerInv(open, excused), NEW p \in Readers, CacheGet(p)
    PROVE  AnswerInv(open, excused)'
<1> DEFINE q == query[p]
<1>1. UNCHANGED storeVars /\ cache' = cache /\ TypeOK /\ q \in Queries /\ q.pc = "get"
      /\ AnswerQuery(q, open, excused)
  BY DEF CacheGet, ResolverInv, TypeOK, AnswerInv
<1>2. q.pc \in KeyedPcs /\ q.pc \in PlacedPcs
  BY <1>1 DEF KeyedPcs, PlacedPcs
<1>3. q.question.name # Root /\ Located(q.zone, q.question) /\ q.revision <= q.key
  BY <1>1, <1>2 DEF AnswerQuery
<1>4. \/ \E e \in cache : /\ EntryKey(e) = CacheKey(q)
                           /\ query' = [query EXCEPT ![p] = Returned(q, e.result)]
      \/ query' = [query EXCEPT ![p] = Missed(q)]
  BY DEF CacheGet
<1>5. ASSUME NEW e \in cache, EntryKey(e) = CacheKey(q),
             query' = [query EXCEPT ![p] = Returned(q, e.result)]
      PROVE  AnswerInv(open, excused)'
  <2>1. e.key = q.key /\ e.question = q.question
    BY <1>5 DEF EntryKey, CacheKey
  <2>2. e.zone = q.zone
    <3>1. Located(e.zone, q.question) /\ q.question \in Asked
      BY <1>1, <2>1 DEF AnswerInv, Queries
    <3> QED
      BY <1>3, <3>1 DEF OneZoneAbove, Located
  <2>3. ASSUME q.revision = revision, open = {}
        PROVE  e.result = Answer(zones, records, q.question)
    <3>1. q.key = revision
          /\ Answer(zones, records, q.question) = ZoneAnswer(records, q.zone, q.question)
      BY <1>2, <2>3, PlacedAnswer
    <3>2. e.result = ZoneAnswer(records, e.zone, e.question)
      BY <2>1, <2>3, <3>1, EntryIsExact
    <3> QED
      BY <2>1, <2>2, <3>1, <3>2
  <2>4. AnswerQuery(Returned(q, e.result), open, excused)
    BY <2>3, AnswerReturned
  <2> QED
    BY <1>1, <1>5, <2>4, AnswerReader DEF AnswerInv
<1>6. ASSUME query' = [query EXCEPT ![p] = Missed(q)]
      PROVE  AnswerInv(open, excused)'
  <2> DEFINE r == Resolution("NOTIMP", {}, {}, {})
             n == Missed(q)
  <2>1. \/ n = [q EXCEPT !.pc = "set", !.result = r]
        \/ n = [q EXCEPT !.pc = "any"]
        \/ n = [q EXCEPT !.pc = "exact"]
    BY DEF Missed
  <2> HIDE DEF n, r
  <2>2. n.pc \in {"set", "any", "exact"} /\ n.revision = q.revision /\ n.key = q.key
        /\ n.zone = q.zone /\ n.question = q.question
    BY <1>1, <2>1 DEF Queries
  <2>3. q.revision = revision /\ open = {} => q.zone = MatchZone(zones, q.question.name)
    BY <1>1, <1>2 DEF AnswerQuery
  <2>4. n.pc # "done"
    BY <2>2
  <2>5. AnswerQuery(n, open, excused)
    BY <1>3, <2>2, <2>3, <2>4 DEF AnswerQuery
  <2> QED
    BY <1>1, <1>6, <2>5, AnswerReader DEF AnswerInv, n
<1> QED
  BY <1>4, <1>5, <1>6

\* A lookup that ends the query with an error has found what the answer's error is about.
LEMMA LookupAnswer ==
    ASSUME NEW open, NEW excused, ResolverInv(open), ExactInv, AnswerInv(open, excused),
           NEW p \in Readers,
           \/ LookupAny(p) \/ LookupExact(p) \/ LookupCNAME(p) \/ LookupTarget(p)
           \/ LookupNegative(p) \/ LookupSOA(p) \/ LookupA(p) \/ LookupAAAA(p)
    PROVE  AnswerInv(open, excused)'
<1> DEFINE q0 == query[p]
<1>1. TypeOK /\ q0 \in Queries /\ QueryInv(q0, open) /\ AnswerQuery(q0, open, excused)
  BY DEF ResolverInv, TypeOK, AnswerInv
<1>2. q0.pc \in KeyedPcs /\ q0.pc \in PlacedPcs
  BY DEF LookupAny, LookupExact, LookupCNAME, LookupTarget, LookupNegative, LookupSOA,
         LookupA, LookupAAAA, KeyedPcs, PlacedPcs, ResolvingPcs, LatePcs
<1>3. NotesOne(p) /\ UNCHANGED <<storeVars, zoneIndex, zonesLoaded, zonesVersion, cache>>
  BY <1>1, LookupsNoteOne
<1>4. PICK name \in Names, type \in LookupTypes : LooksUp(p, name, type)
  BY <1>3 DEF NotesOne
<1> DEFINE q == Noted(q0, name, type)
<1>5. PICK n \in Queries :
          query' = [query EXCEPT ![p] = n] /\ (n = Failed(q) \/ GoesOn(q, n))
  BY <1>4 DEF LooksUp
<1>6. q \in Queries /\ q.question = q0.question /\ q.revision = q0.revision /\ q.key = q0.key
      /\ q.zone = q0.zone
  BY <1>1, NotedFacts DEF LookupTypes
<1> HIDE DEF q
<1>7. CASE n = Failed(q)
  <2> DEFINE result == Unanswered("SERVFAIL")
  <2>1. n = Returned(q, result) /\ result \in Results
    BY <1>6, <1>7, FailedFacts
  <2>2. n.pc = "done" /\ n.result = result
    BY <2>1 DEF Returned, NoQuery
  <2> HIDE DEF result
  <2>3. ASSUME q0.revision = revision, open = {}
        PROVE  result = Answer(zones, records, q0.question)
    <3>1. q0.key = revision
          /\ Answer(zones, records, q0.question) = ZoneAnswer(records, q0.zone, q0.question)
      BY <1>2, <2>3, PlacedAnswer
    <3>2. Agrees(records, q0)
      BY <1>1, <2>3, <3>1 DEF QueryInv, StillTrue, Agrees
    <3>3. Reaches(query'[p], View(q0, records))
      BY <1>1, <3>2, ExactLookupStep DEF Nears
    <3>4. query'[p] = n
      BY <1>1, <1>5 DEF TypeOK
    <3>5. result = ViewAnswer(View(q0, records))
      BY <2>2, <3>3, <3>4 DEF Reaches
    <3> QED
      BY <3>1, <3>5 DEF ZoneAnswer, View
  <2>4. AnswerQuery(n, open, excused)
    BY <1>6, <2>1, <2>3, AnswerReturned
  <2> QED
    BY <1>1, <1>3, <1>5, <2>4, AnswerReader DEF AnswerInv
<1>8. CASE GoesOn(q, n)
  <2>1. n.pc \in LatePcs /\ n.revision = q0.revision /\ n.key = q0.key
        /\ n.zone = q0.zone /\ n.question = q0.question
    BY <1>6, <1>8 DEF GoesOn
  <2>2. n.pc # "done"
    BY <2>1 DEF LatePcs
  <2>3. q0.question.name # Root /\ Located(q0.zone, q0.question) /\ q0.revision <= q0.key
    BY <1>1, <1>2 DEF AnswerQuery
  <2>4. q0.revision = revision /\ open = {} => q0.zone = MatchZone(zones, q0.question.name)
    BY <1>1, <1>2 DEF AnswerQuery
  <2>5. AnswerQuery(n, open, excused)
    BY <2>1, <2>2, <2>3, <2>4 DEF AnswerQuery
  <2> QED
    BY <1>1, <1>3, <1>5, <2>5, AnswerReader DEF AnswerInv
<1> QED
  BY <1>5, <1>7, <1>8

\* The resolution that is stored and returned is the answer of the store it agrees with.
LEMMA CacheSetAnswer ==
    ASSUME NEW open, NEW excused, ResolverInv(open), ExactInv, AnswerInv(open, excused),
           NEW p \in Readers, CacheSet(p)
    PROVE  AnswerInv(open, excused)'
<1> DEFINE q == query[p]
           entry == [key |-> q.key, question |-> q.question, zone |-> q.zone,
                     reads |-> q.reads, result |-> q.result]
<1>1. TypeOK /\ q \in Queries /\ QueryInv(q, open) /\ AnswerQuery(q, open, excused)
      /\ ExactQuery(q) /\ records \in SUBSET Records
  BY DEF ResolverInv, TypeOK, StoreTypeOK, AnswerInv, ExactInv
<1>2. UNCHANGED storeVars /\ q.pc = "set" /\ cache' \subseteq cache \cup {entry}
      /\ query' = [query EXCEPT ![p] = Returned(q, q.result)]
  BY DEF CacheSet
<1>3. q.pc \in KeyedPcs /\ q.pc \in PlacedPcs
  BY <1>2 DEF KeyedPcs, PlacedPcs, ResolvingPcs, LatePcs
<1>4. \A e \in cache' : Located(e.zone, e.question)
  <2>1. Located(q.zone, q.question)
    BY <1>1, <1>3 DEF AnswerQuery
  <2>2. entry.zone = q.zone /\ entry.question = q.question
    OBVIOUS
  <2> HIDE DEF entry
  <2> QED
    BY <1>2, <2>1, <2>2 DEF AnswerInv
<1>5. ASSUME q.revision = revision, open = {}
      PROVE  q.result = Answer(zones, records, q.question)
  <2>1. q.key = revision
        /\ Answer(zones, records, q.question) = ZoneAnswer(records, q.zone, q.question)
    BY <1>3, <1>5, PlacedAnswer
  <2>2. Agrees(records, q)
    BY <1>1, <1>5, <2>1 DEF QueryInv, StillTrue, Agrees
  <2>3. q.result = ViewAnswer(View(q, records))
    BY <1>1, <1>2, <2>2 DEF ExactQuery, OnWay, ResolvingPcs, LatePcs
  <2> QED
    BY <2>1, <2>3 DEF ZoneAnswer, View
<1>6. AnswerQuery(Returned(q, q.result), open, excused)
  BY <1>5, AnswerReturned
<1> QED
  BY <1>1, <1>2, <1>4, <1>6, AnswerReader

\* Every step of a query, and its first.
LEMMA AnswerNextStep ==
    ASSUME OneZoneAbove, NEW open, NEW excused, ResolverInv(open), ExactInv,
           AnswerInv(open, excused), NEW p \in Readers,
           (\E raw \in Questions : Resolve(p, raw)) \/ QueryStep(p)
    PROVE  AnswerInv(open, excused)'
<1>1. ASSUME NEW raw \in Questions, Resolve(p, raw) PROVE AnswerInv(open, excused)'
  BY <1>1, ResolveAnswer
<1>2. CASE Reply(p)
  BY <1>2, AnswerIdle, AnswerReader DEF Reply, ResolverInv, AnswerInv
<1> QED
  BY <1>1, <1>2, UseIndexAnswer, ScanShardAnswer, InstallIndexAnswer, ReadKeyAnswer,
     CacheGetAnswer, CacheSetAnswer, LookupAnswer DEF QueryStep

\* Steps that leave the store and the queries alone, and a new resolver.
LEMMA AnswerKept ==
    ASSUME NEW open, NEW excused
    PROVE  /\ AnswerInv(open, excused) /\ Evict => AnswerInv(open, excused)'
           /\ AnswerInv(open, excused) /\ UNCHANGED vars => AnswerInv(open, excused)'
           /\ ResolverInit => AnswerInv(open, excused)
<1>1. ASSUME AnswerInv(open, excused), cache' \subseteq cache, query' = query,
             zones' = zones, records' = records, revision' = revision
      PROVE  AnswerInv(open, excused)'
  BY <1>1 DEF AnswerInv, AnswerQuery
<1>2. ResolverInit => AnswerInv(open, excused)
  BY AnswerIdle DEF ResolverInit, AnswerInv
<1> QED
  BY <1>1, <1>2 DEF Evict, vars, storeVars

-----------------------------------------------------------------------------
(* The resolver over a MemoryStore. *)

\* While no writer is busy, no zone is open.
AnswersInv == \E open \in SUBSET Zones : open = OpenZones /\ AnswerInv(open, {})

\* Together with the invariant of the resolver and the exactness of its lookups, it holds
\* in every reachable state.
LEMMA AnswersInvHolds ==
    ASSUME OneZoneAbove
    PROVE  Spec => [](Inv /\ ExactInv /\ AnswersInv)
<1>1. Init => AnswersInv
  <2> SUFFICES ASSUME Init PROVE AnswersInv
    OBVIOUS
  <2>1. PICK open \in SUBSET Zones : open = OpenZones
    BY DEF OpenZones
  <2> QED
    BY <2>1, AnswerKept DEF Init, AnswersInv
<1>2. Inv /\ ExactInv /\ AnswersInv /\ [Next]_vars => AnswersInv'
  <2> SUFFICES ASSUME Inv, ExactInv, AnswersInv, [Next]_vars PROVE AnswersInv'
    OBVIOUS
  <2>1. PICK open \in SUBSET Zones :
            open = OpenZones /\ ResolverInv(open) /\ AnswerInv(open, {})
    BY DEF Inv, AnswersInv
  <2>2. StoreInv
    BY DEF Inv
  <2>3. CASE StoreNext /\ UNCHANGED resolverVars
    <3>1. StoreInv' /\ ((\E zone \in Zones : Touches(zone)) \/ \E p \in Writers : Bump(p))
      BY <2>2, <2>3, StoreNextStep
    <3>2. PICK after \in SUBSET Zones : after = OpenZones'
      BY DEF OpenZones
    <3>3. ASSUME NEW zone \in Zones, Touches(zone) PROVE Hides(open, after)
      BY <2>1, <3>2, <3>3 DEF Touches, Hides, OpenZones
    <3>4. ASSUME NEW p \in Writers, Bump(p) PROVE Announces
      BY <2>2, <3>4, BumpStep
    <3>5. AnswerInv(after, {})'
      BY <2>1, <2>3, <3>1, <3>3, <3>4, AnswerWriter DEF StoreInv
    <3> QED
      BY <3>2, <3>5 DEF AnswersInv
  <2>4. ASSUME AnswerInv(open, {})', call' = call PROVE AnswersInv'
    <3>1. open = OpenZones'
      BY <2>1, <2>4 DEF OpenZones, Busy
    <3> QED
      BY <2>4, <3>1 DEF AnswersInv
  <2>5. ASSUME NEW p \in Readers, (\E raw \in Questions : Resolve(p, raw)) \/ QueryStep(p)
        PROVE  AnswersInv'
    BY <2>1, <2>4, <2>5, AnswerNextStep, QueryNextStep DEF storeVars
  <2>6. CASE Evict \/ UNCHANGED vars
    BY <2>1, <2>4, <2>6, AnswerKept DEF Evict, vars, storeVars
  <2> QED
    BY <2>3, <2>5, <2>6 DEF Next
<1> QED
  BY <1>1, <1>2, ExactInvHolds, PTL DEF Spec

\* A query that ran while no write was under way, and whose revision is still the
\* store's, returned the answer of the store as it is, whatever the index and the cache
\* held from earlier revisions, provided that no question lies under two zones (with two,
\* the run resolver_zone_race refutes it).
THEOREM AnswerIsExact ==
    ASSUME OneZoneAbove
    PROVE  Spec => []AnswerExact
<1>1. Inv /\ ExactInv /\ AnswersInv => AnswerExact
  <2> SUFFICES ASSUME AnswersInv, NEW p \in Readers, query[p].pc = "done", Quiet,
                      query[p].revision = revision
               PROVE  query[p].result = Answer(zones, records, query[p].question)
    BY DEF AnswerExact
  <2>1. PICK open \in SUBSET Zones : open = OpenZones /\ AnswerInv(open, {})
    BY DEF AnswersInv
  <2>2. open = {}
    BY <2>1 DEF OpenZones, Busy, Quiet
  <2> QED
    BY <2>1, <2>2 DEF AnswerInv, AnswerQuery
<1> QED
  BY <1>1, AnswersInvHolds, PTL
=============================================================================

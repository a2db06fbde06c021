--------------------------- MODULE CacheTTLProofs ---------------------------
(***************************************************************************)
(* Proofs about the lifetime of a cached response: what the loop of        *)
(* cacheTTLFor computes for any number of RRs, in any order of a section.  *)
(*                                                                         *)
(* The argument.  After i turns the loop holds the smallest TTL of those   *)
(* that no zero follows among the first i RRs, and zero when there is      *)
(* none.  It is an invariant of the turns, shown for the first turn that   *)
(* could break it; that a cached result holds finitely many RRs with       *)
(* natural TTLs comes from the type invariant of the resolver.             *)
(***************************************************************************)
EXTENDS CacheTTL, ResolutionProofs, FiniteSetTheorems

-----------------------------------------------------------------------------
(* The loop. *)

\* A sequence of RRs as cacheTTLFor gets it.
HasTTLs(all) ==
    /\ Len(all) \in Nat
    /\ DOMAIN all = 1 .. Len(all)
    /\ \A i \in 1 .. Len(all) : all[i].ttl \in Nat

\* minTTL before the first turn and after each of n turns.
IsLoop(f, all, n) ==
    f = [i \in 0 .. n |-> IF i = 0 THEN 0 ELSE Scan(f[i - 1], all[i].ttl)]

\* The loop runs to its end.
LEMMA LoopExists ==
    ASSUME NEW all, Len(all) \in Nat
    PROVE  \A n \in 0 .. Len(all) : \E f : IsLoop(f, all, n)
<1> DEFINE bad == {n \in 0 .. Len(all) : ~ \E f : IsLoop(f, all, n)}
<1>1. ASSUME bad # {} PROVE FALSE
  <2>1. bad \in SUBSET Nat
    OBVIOUS
  <2>2. PICK n \in bad : \A m \in bad : n <= m
    <3> HIDE DEF bad
    <3> QED
      BY <1>1, <2>1, LeastNat
  <2>3. n \in Nat /\ n <= Len(all)
    BY <2>2
  <2>4. CASE n = 0
    <3> DEFINE f == [i \in 0 .. 0 |-> 0]
    <3>1. f = [i \in 0 .. 0 |-> IF i = 0 THEN 0 ELSE Scan(f[i - 1], all[i].ttl)]
      OBVIOUS
    <3> QED
      BY <2>2, <2>4, <3>1 DEF IsLoop
  <2>5. CASE n > 0
    <3>1. PICK g : IsLoop(g, all, n - 1)
      <4>1. n - 1 \in 0 .. Len(all) /\ ~(n <= n - 1)
        BY <2>3, <2>5
      <4>2. n - 1 \notin bad
        <5> HIDE DEF bad
        <5> QED
          BY <2>2, <4>1
      <4> QED
        BY <4>1, <4>2
    <3> DEFINE f == [i \in 0 .. n |-> IF i = n THEN Scan(g[n - 1], all[n].ttl) ELSE g[i]]
    <3>2. IsLoop(f, all, n)
      BY <2>3, <2>5, <3>1 DEF IsLoop
    <3> QED
      BY <2>2, <3>2
  <2> QED
    BY <2>3, <2>4, <2>5
<1> QED
  BY <1>1

\* A turn whose TTL no zero follows among the first i RRs.
After(all, i, j) == j \in 1 .. i /\ \A z \in j .. i : all[z].ttl # 0

\* What minTTL is after i turns.
IsSmallest(all, i, m) ==
    /\ m \in Nat
    /\ m # 0 => \E j \in 1 .. i : After(all, i, j) /\ all[j].ttl = m
    /\ \A j \in 1 .. i : After(all, i, j) => m # 0 /\ m <= all[j].ttl

\* One turn keeps it.
LEMMA TurnKeepsSmallest ==
    ASSUME NEW all, HasTTLs(all), NEW i \in Nat, i + 1 <= Len(all), NEW m,
           IsSmallest(all, i, m)
    PROVE  IsSmallest(all, i + 1, Scan(m, all[i + 1].ttl))
<1> DEFINE t == all[i + 1].ttl
<1>1. t \in Nat /\ m \in Nat /\ \A k \in 1 .. i + 1 : all[k].ttl \in Nat
  BY DEF HasTTLs, IsSmallest
<1>2. CASE t = 0
  <2>1. Scan(m, t) = 0
    BY <1>1, <1>2 DEF Scan
  <2>2. \A j \in 1 .. i + 1 : ~After(all, i + 1, j)
    BY <1>2 DEF After
  <2> QED
    BY <2>1, <2>2 DEF IsSmallest
<1>3. CASE t # 0
  <2>1. After(all, i + 1, i + 1)
    BY <1>3 DEF After
  <2>2. \A j \in 1 .. i : After(all, i + 1, j) <=> After(all, i, j)
    BY <1>3 DEF After
  <2>3. CASE m = 0 \/ t < m
    <3>1. Scan(m, t) = t
      BY <2>3 DEF Scan
    <3>2. \A j \in 1 .. i : ~After(all, i, j) \/ t <= all[j].ttl
      BY <1>1, <2>3 DEF IsSmallest
    <3>3. \A j \in 1 .. i + 1 : After(all, i + 1, j) => t <= all[j].ttl
      BY <1>1, <2>2, <3>2
    <3> QED
      BY <1>1, <1>3, <2>1, <3>1, <3>3 DEF IsSmallest
  <2>4. CASE m # 0 /\ m <= t
    <3>1. Scan(m, t) = m
      BY <1>1, <2>4 DEF Scan
    <3>2. \E j \in 1 .. i + 1 : After(all, i + 1, j) /\ all[j].ttl = m
      BY <2>2, <2>4 DEF IsSmallest
    <3>3. \A j \in 1 .. i + 1 : After(all, i + 1, j) => m <= all[j].ttl
      BY <1>1, <2>2, <2>4 DEF IsSmallest
    <3> QED
      BY <1>1, <2>4, <3>1, <3>2, <3>3 DEF IsSmallest
  <2> QED
    BY <1>1, <2>3, <2>4
<1> QED
  BY <1>2, <1>3

\* What cacheTTLFor returns: the cap of the smallest TTL after the last zero.
LEMMA LoopFacts ==
    ASSUME NEW all, HasTTLs(all)
    PROVE  \E m : IsSmallest(all, Len(all), m) /\ cacheTTLFor(all) = Capped(m)
<1> DEFINE loop == CHOOSE f : IsLoop(f, all, Len(all))
<1>1. Len(all) \in Nat /\ Len(all) \in 0 .. Len(all)
  BY DEF HasTTLs
<1>2. \E f : IsLoop(f, all, Len(all))
  BY <1>1, LoopExists
<1>3. IsLoop(loop, all, Len(all))
  BY <1>2
<1>4. cacheTTLFor(all) = Capped(loop[Len(all)])
  BY DEF cacheTTLFor, IsLoop
<1> HIDE DEF loop
<1>5. loop[0] = 0 /\ \A i \in 1 .. Len(all) : loop[i] = Scan(loop[i - 1], all[i].ttl)
  BY <1>1, <1>3 DEF IsLoop
<1> DEFINE bad == {i \in 0 .. Len(all) : ~IsSmallest(all, i, loop[i])}
<1>6. ASSUME bad # {} PROVE FALSE
  <2>1. bad \in SUBSET Nat
    BY <1>1
  <2>2. PICK n \in bad : \A m \in bad : n <= m
    <3> HIDE DEF bad
    <3> QED
      BY <1>6, <2>1, LeastNat
  <2>3. n \in Nat /\ n <= Len(all)
    BY <1>1, <2>2
  <2>4. CASE n = 0
    BY <1>5, <2>2, <2>4 DEF IsSmallest
  <2>5. CASE n > 0
    <3>1. n - 1 \in 0 .. Len(all) /\ ~(n <= n - 1) /\ n - 1 \in Nat /\ n - 1 + 1 = n
      BY <1>1, <2>3, <2>5
    <3>2. n - 1 \notin bad
      <4> HIDE DEF bad
      <4> QED
        BY <2>2, <3>1
    <3>3. IsSmallest(all, n - 1, loop[n - 1])
      BY <3>1, <3>2
    <3>4. IsSmallest(all, n, Scan(loop[n - 1], all[n].ttl))
      BY <2>3, <3>1, <3>3, TurnKeepsSmallest
    <3> QED
      BY <1>5, <2>2, <2>3, <2>5, <3>4
  <2> QED
    BY <2>3, <2>4, <2>5
<1> QED
  BY <1>1, <1>4, <1>6

-----------------------------------------------------------------------------
(* What is returned. *)

\* The smaller of a TTL and the cap.
LEMMA CapFacts ==
    ASSUME NEW m \in Nat, m # 0
    PROVE  /\ Capped(m) \in {m, MaxCacheTTL}
           /\ Capped(m) <= m
           /\ Capped(m) <= MaxCacheTTL
           /\ Capped(m) \in Nat \ {0}
<1>1. MaxCacheTTL \in Nat \ {0}
  BY TTLAssumption
<1>2. \E x \in {m, MaxCacheTTL} : \A y \in {m, MaxCacheTTL} : x =< y
  BY <1>1
<1>3. Capped(m) = CHOOSE x \in {m, MaxCacheTTL} : \A y \in {m, MaxCacheTTL} : x =< y
  BY DEF Capped, Min
<1> QED
  BY <1>1, <1>2, <1>3

\* The minimum of a set of numbers that has one.
LEMMA MinFacts ==
    ASSUME NEW S \in SUBSET Nat, NEW x \in S, \A y \in S : x <= y
    PROVE  Min(S) = x
<1>1. \A w \in S : (\A y \in S : w =< y) => w = x
  OBVIOUS
<1> QED
  BY <1>1 DEF Min

\* The larger of the two configured TTLs.
LEMMA BoundFacts ==
    /\ Max({MaxCacheTTL, NegativeTTL}) \in Nat
    /\ MaxCacheTTL <= Max({MaxCacheTTL, NegativeTTL})
    /\ NegativeTTL <= Max({MaxCacheTTL, NegativeTTL})
<1> DEFINE S == {MaxCacheTTL, NegativeTTL}
<1>1. MaxCacheTTL \in Nat /\ NegativeTTL \in Nat
  BY TTLAssumption
<1>2. \E x \in S : \A y \in S : x >= y
  BY <1>1
<1>3. Max(S) = CHOOSE x \in S : \A y \in S : x >= y
  BY DEF Max
<1> QED
  BY <1>1, <1>2, <1>3

-----------------------------------------------------------------------------
(* The RRs of a cached response. *)

\* There are finitely many RRs.
LEMMA FiniteRRs == IsFiniteSet(RRs(Records))
<1> DEFINE accepted == {x \in RawRecords : RecordAccepted(x)}
           rr(r) == [name |-> r.name, ttl |-> r.ttl, class |-> r.class,
                     type |-> r.type, data |-> Canon[r.data]]
           f == [x \in accepted |-> NormalizeRecord(x)]
           g == [x \in Records |-> rr(x)]
<1>1. IsFiniteSet(accepted)
  BY FiniteAssumption, FS_Subset, accepted \in SUBSET RawRecords
<1>2. f \in Surjection(accepted, Records)
  BY DEF Surjection, Records
<1>3. IsFiniteSet(Records)
  BY <1>1, <1>2, FS_Surjection
<1>4. RRs(Records) = {rr(x) : x \in Records}
  BY DEF RRs
<1>5. g \in Surjection(Records, RRs(Records))
  <2> HIDE DEF rr
  <2> QED
    BY <1>4 DEF Surjection
<1> QED
  BY <1>3, <1>5, FS_Surjection

\* Every RR has a TTL.
LEMMA RRHasTTL ==
    ASSUME NEW rr \in RRs(Records)
    PROVE  rr.ttl \in Nat
<1>1. PICK r \in Records : rr.ttl = r.ttl
  BY DEF RRs
<1>2. PICK raw \in RawRecords : r = NormalizeRecord(raw)
  BY DEF Records
<1>3. raw.ttl \in Nat /\ raw \in RecordType
  BY RawAssumption DEF RecordType
<1>4. r.ttl = raw.ttl
  BY <1>2, <1>3 DEF NormalizeRecord, RecordType
<1> QED
  BY <1>1, <1>3, <1>4

\* Every order of a section is a sequence of its RRs.
LEMMA SectionOrders ==
    ASSUME NEW section \in Sections, NEW order \in SetToSeqs(section)
    PROVE  order \in Seq(RRs(Records))
<1>1. IsFiniteSet(section)
  BY FiniteRRs, FS_Subset, section \in SUBSET RRs(Records) DEF Sections
<1>2. Cardinality(section) \in Nat
  BY <1>1, FS_CardinalityType
<1>3. order \in [1 .. Cardinality(section) -> section]
  BY DEF SetToSeqs
<1> QED
  BY <1>2, <1>3 DEF Sections

\* The RRs of a cached response have TTLs, in every order of its sections.
LEMMA CachedHasTTLs ==
    ASSUME TypeOK, NEW e \in cache, NEW all \in AllRRs(e.result)
    PROVE  HasTTLs(all)
<1>1. e.result \in Results
  BY DEF TypeOK, Entries
<1>2. e.result.answer \in Sections /\ e.result.authority \in Sections
        /\ e.result.extra \in Sections
  BY <1>1 DEF Results
<1>3. PICK answer \in SetToSeqs(e.result.answer),
           authority \in SetToSeqs(e.result.authority),
           extra \in SetToSeqs(e.result.extra) :
              all = answer \o authority \o extra
  BY DEF AllRRs
<1>4. answer \in Seq(RRs(Records)) /\ authority \in Seq(RRs(Records))
        /\ extra \in Seq(RRs(Records))
  BY <1>2, <1>3, SectionOrders
<1>5. all \in Seq(RRs(Records))
  BY <1>3, <1>4
<1>6. Len(all) \in Nat /\ DOMAIN all = 1 .. Len(all)
        /\ \A i \in 1 .. Len(all) : all[i] \in RRs(Records)
  BY <1>5
<1> QED
  BY <1>6, RRHasTTL DEF HasTTLs

-----------------------------------------------------------------------------
(* The properties. *)

\* A cached response lives for the smallest TTL after the last zero.
LEMMA AfterLastZero == TypeOK => TTLAfterLastZero
<1> SUFFICES ASSUME TypeOK, NEW e \in cache, NEW all \in AllRRs(e.result)
             PROVE  LET zeros == {i \in DOMAIN all : all[i].ttl = 0}
                        kept  == {all[i].ttl : i \in {j \in DOMAIN all :
                                                      \A z \in zeros : j > z}}
                    IN  cacheTTLFor(all) =
                            IF kept = {} THEN NegativeTTL
                            ELSE Min(kept \cup {MaxCacheTTL})
  BY DEF TTLAfterLastZero
<1> DEFINE zeros == {i \in DOMAIN all : all[i].ttl = 0}
           later == {j \in DOMAIN all : \A z \in zeros : j > z}
           kept  == {all[i].ttl : i \in later}
<1>1. HasTTLs(all)
  BY CachedHasTTLs
<1>2. PICK m : IsSmallest(all, Len(all), m) /\ cacheTTLFor(all) = Capped(m)
  BY <1>1, LoopFacts
<1>3. Len(all) \in Nat /\ DOMAIN all = 1 .. Len(all) /\ m \in Nat
        /\ \A i \in DOMAIN all : all[i].ttl \in Nat
  BY <1>1, <1>2 DEF HasTTLs, IsSmallest
<1>4. \A j \in DOMAIN all : j \in later <=> After(all, Len(all), j)
  BY <1>3 DEF After
<1>5. MaxCacheTTL \in Nat
  BY TTLAssumption
<1>6. CASE m = 0
  <2>1. kept = {}
    BY <1>2, <1>3, <1>4, <1>6 DEF IsSmallest
  <2> QED
    BY <1>2, <1>6, <2>1 DEF Capped
<1>7. CASE m # 0
  <2>1. m \in kept /\ \A t \in kept : m <= t /\ t \in Nat
    BY <1>2, <1>3, <1>4, <1>7 DEF IsSmallest
  <2>2. /\ Capped(m) \in kept \cup {MaxCacheTTL}
        /\ \A t \in kept \cup {MaxCacheTTL} : Capped(m) <= t
        /\ kept \cup {MaxCacheTTL} \in SUBSET Nat
    <3> HIDE DEF kept
    <3> QED
      BY <1>3, <1>5, <1>7, <2>1, CapFacts
  <2>3. Min(kept \cup {MaxCacheTTL}) = Capped(m)
    <3> HIDE DEF kept
    <3> QED
      BY <2>2, MinFacts
  <2> QED
    BY <1>2, <2>1, <2>3
<1> QED
  BY <1>6, <1>7

\* A cached response all of whose RRs have a TTL lives no longer than any of them.
LEMMA WithinTTL == TypeOK => ServedWithinTTL
<1> SUFFICES ASSUME TypeOK, NEW e \in cache, NEW all \in AllRRs(e.result), all # <<>>,
                    \A i \in DOMAIN all : all[i].ttl # 0, NEW i \in DOMAIN all
             PROVE  cacheTTLFor(all) <= all[i].ttl
  BY DEF ServedWithinTTL
<1>1. HasTTLs(all)
  BY CachedHasTTLs
<1>2. PICK m : IsSmallest(all, Len(all), m) /\ cacheTTLFor(all) = Capped(m)
  BY <1>1, LoopFacts
<1>3. i \in 1 .. Len(all) /\ After(all, Len(all), i) /\ all[i].ttl \in Nat
  BY <1>1 DEF HasTTLs, After
<1>4. m \in Nat /\ m # 0 /\ m <= all[i].ttl
  BY <1>2, <1>3 DEF IsSmallest
<1> QED
  BY <1>2, <1>3, <1>4, CapFacts

\* Every lifetime is positive and at most the larger configured TTL.
LEMMA WithinBound == TypeOK => ServedWithinBound
<1> SUFFICES ASSUME TypeOK, NEW e \in cache, NEW all \in AllRRs(e.result)
             PROVE  cacheTTLFor(all) \in 1 .. Max({MaxCacheTTL, NegativeTTL})
  BY DEF ServedWithinBound
<1>1. HasTTLs(all)
  BY CachedHasTTLs
<1>2. PICK m : IsSmallest(all, Len(all), m) /\ cacheTTLFor(all) = Capped(m)
  BY <1>1, LoopFacts
<1>3. m \in Nat
  BY <1>2 DEF IsSmallest
<1>4. CASE m = 0
  BY <1>2, <1>4, BoundFacts, TTLAssumption DEF Capped
<1>5. CASE m # 0
  BY <1>2, <1>3, <1>5, CapFacts, BoundFacts, TTLAssumption
<1> QED
  BY <1>4, <1>5

\* However many RRs a response has and however its sections are ordered, cacheTTLFor
\* gives it the smallest TTL after the last zero, or the negative TTL.
THEOREM LastZeroCounts == Spec => []TTLAfterLastZero
<1>1. TypeOK => TTLAfterLastZero
  BY AfterLastZero
<1> QED
  BY <1>1, TypeCorrect, PTL

\* No cached response outlives one of its RRs, unless an RR has no TTL.
THEOREM NothingOutlivesItsTTL == Spec => []ServedWithinTTL
<1>1. TypeOK => ServedWithinTTL
  BY WithinTTL
<1> QED
  BY <1>1, TypeCorrect, PTL

\* Every cached response has a lifetime between one and the larger configured TTL, so
\* that every resolution is stored and none for ever.
THEOREM LifetimeIsBounded == Spec => []ServedWithinBound
<1>1. TypeOK => ServedWithinBound
  BY WithinBound
<1> QED
  BY <1>1, TypeCorrect, PTL
=============================================================================

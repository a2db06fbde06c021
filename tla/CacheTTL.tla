------------------------------ MODULE CacheTTL ------------------------------
(***************************************************************************)
(* How long a response stays in the cache: Resolver.cacheTTLFor, the loop  *)
(* over the TTLs of a resolution's RRs in which zero stands for no TTL so  *)
(* far.  Resolver lets an entry leave the cache at any time; this module   *)
(* says when SetWithTTL makes it leave.  Sections are sets in Resolver, so *)
(* that the loop is taken over every order of each of them.                *)
(*                                                                         *)
(* A uint32 of seconds times time.Second fits the int64 of time.Duration,  *)
(* so that the numbers here have no width.                                 *)
(***************************************************************************)
EXTENDS Resolver, SequencesExt

CONSTANTS
    MaxCacheTTL,    \* Resolver.maxCacheTTL, which no option sets to zero
    NegativeTTL     \* Resolver.negativeTTL, likewise

ASSUME TTLAssumption ==
    /\ MaxCacheTTL \in Nat \ {0}
    /\ NegativeTTL \in Nat \ {0}

\* A store holds finitely many records, and a section finitely many RRs.
ASSUME FiniteAssumption == IsFiniteSet(RawRecords)

\* Mutant: an RR without a TTL is skipped.
ScanSkipping(minTTL, ttl) ==
    IF ttl # 0 /\ (minTTL = 0 \/ ttl < minTTL) THEN ttl ELSE minTTL

\* Mutant: the comparison is the other way round.
ScanLargest(minTTL, ttl) == IF minTTL = 0 \/ ttl > minTTL THEN ttl ELSE minTTL

\* One turn of the loop.
Scan(minTTL, ttl) == IF minTTL = 0 \/ ttl < minTTL THEN ttl ELSE minTTL

\* Mutant: the TTL is not capped.
Uncapped(minTTL) == IF minTTL = 0 THEN NegativeTTL ELSE minTTL

\* What is returned after the loop.
Capped(minTTL) == IF minTTL = 0 THEN NegativeTTL ELSE Min({minTTL, MaxCacheTTL})

cacheTTLFor(all) ==
    LET minTTL[i \in 0 .. Len(all)] ==
            IF i = 0 THEN 0 ELSE Scan(minTTL[i - 1], all[i].ttl)
    IN  Capped(minTTL[Len(all)])

\* The RRs of a resolution, section after section.
AllRRs(result) ==
    {answer \o authority \o extra :
        answer \in SetToSeqs(result.answer),
        authority \in SetToSeqs(result.authority),
        extra \in SetToSeqs(result.extra)}

-----------------------------------------------------------------------------
(* Properties. *)

\* What cacheTTLFor computes for a cached response: a zero makes it forget the TTLs
\* before it, so that the entry lives for the smallest TTL after the last zero, and for
\* the negative TTL when none follows.
TTLAfterLastZero ==
    \A e \in cache : \A all \in AllRRs(e.result) :
        LET zeros == {i \in DOMAIN all : all[i].ttl = 0}
            kept  == {all[i].ttl : i \in {j \in DOMAIN all : \A z \in zeros : j > z}}
        IN  cacheTTLFor(all) =
                IF kept = {} THEN NegativeTTL ELSE Min(kept \cup {MaxCacheTTL})

\* A cached response all of whose RRs have a TTL, additional RRs of other names
\* included, is gone when the smallest of them has run out.
ServedWithinTTL ==
    \A e \in cache : \A all \in AllRRs(e.result) :
        all # <<>> /\ (\A i \in DOMAIN all : all[i].ttl # 0) =>
            \A i \in DOMAIN all : cacheTTLFor(all) <= all[i].ttl

\* No response is served for longer than the larger of the two configured TTLs.
ServedWithinBound ==
    \A e \in cache : \A all \in AllRRs(e.result) :
        cacheTTLFor(all) \in 1 .. Max({MaxCacheTTL, NegativeTTL})
=============================================================================

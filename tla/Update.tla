------------------------------- MODULE Update -------------------------------
(***************************************************************************)
(* The dynamic update handler of Server: a goroutine per message checks    *)
(* the zone section, refuses prerequisites, and makes one Manager call per *)
(* RR of the update section, in order, until one fails.                    *)
(*                                                                         *)
(* A message has a zone, the form of its zone section (one question, IN    *)
(* SOA, or not), prerequisites or none, and a sequence of RRs with their   *)
(* data as RR.String() prints it.                                          *)
(***************************************************************************)
EXTENDS Manager

CONSTANTS
    Messages,       \* the update messages that arrive
    MaxMessages     \* bound on their number

ASSUME UpdateAssumption ==
    /\ MaxMessages \in Nat
    /\ \A m \in Messages : m = [zone |-> m.zone, wellFormed |-> m.wellFormed,
                                prerequisites |-> m.prerequisites, rrs |-> m.rrs]

VARIABLES
    update,     \* the message each goroutine handles
    messages    \* messages so far

updateVars == <<managerVars, update, messages>>

NoMessage == [zone |-> Root, wellFormed |-> FALSE, prerequisites |-> FALSE, rrs |-> <<>>]

\* The RR whose turn it is, the reply's rcode, and, for the properties, whether the store
\* failed (broken) and the records it held when the message arrived.
NoUpdate == [pc |-> "idle", message |-> NoMessage, next |-> 1, rcode |-> "SUCCESS",
             broken |-> FALSE, before |-> {}]

UpdateInit ==
    /\ ManagerInit
    /\ update = [p \in Writers |-> NoUpdate]
    /\ messages = 0

-----------------------------------------------------------------------------
\* The early returns of serveUpdate.
Verdict(m) ==
    CASE ~m.wellFormed \/ ~ZoneAccepted(m.zone) -> "FORMERR"
      [] m.wellFormed /\ ZoneAccepted(m.zone) /\ m.prerequisites -> "NOTIMP"
      [] OTHER -> "SUCCESS"

\* A goroutine takes up a message.
HandleMessage(p, m) ==
    /\ update[p].pc = "idle"
    /\ update' = [update EXCEPT ![p] =
                     [NoUpdate EXCEPT !.pc = IF Verdict(m) = "SUCCESS" THEN "apply" ELSE "reply",
                                      !.message = m, !.rcode = Verdict(m), !.before = records]]
    /\ UNCHANGED managerVars

ServeUpdate(p, m) ==
    /\ messages < MaxMessages
    /\ messages' = messages + 1
    /\ HandleMessage(p, m)

-----------------------------------------------------------------------------
(* applyUpdate. *)

CurrentRR(p) == update[p].message.rrs[update[p].next]

AtRR(p) ==
    /\ update[p].pc = "apply" /\ update[p].next <= Len(update[p].message.rrs)
    /\ task[p].pc = "idle"

RRSetOf(zone, rr) == [zone |-> zone, name |-> rr.name, type |-> rr.type, records |-> {}]

\* RecordFromRR before it normalizes; the RR to delete is taken to be of class IN.
RecordOf(zone, rr) ==
    [zone |-> zone, name |-> rr.name, ttl |-> rr.ttl, type |-> rr.type, data |-> rr.data,
     class |-> IF rr.class = "NONE" THEN "IN" ELSE rr.class]

RRAccepted(zone, rr) ==
    IF rr.class = "ANY" THEN LookupAccepted(RRSetOf(zone, rr))
    ELSE RecordAccepted(RecordOf(zone, rr))

\* Zones and Records contain what the messages name.
RRInUniverse(zone, rr) ==
    IF rr.class = "ANY" THEN RRSetInUniverse(RRSetOf(zone, rr))
    ELSE RecordAccepted(RecordOf(zone, rr)) => NormalizeRecord(RecordOf(zone, rr)) \in Records

ASSUME MessagesAssumption ==
    \A m \in Messages :
        /\ m.zone \in Texts
        /\ Len(m.rrs) \in Nat
        /\ \A i \in 1 .. Len(m.rrs) : RRInUniverse(m.zone, m.rrs[i])

\* applyUpdateRR, down to the Manager's method.
ApplyRR(p) ==
    LET rr   == CurrentRR(p)
        zone == update[p].message.zone
    IN  /\ AtRR(p)
        /\ \/ rr.class = "ANY" /\ rr.type = "ANY" /\ DeleteName(p, RRSetOf(zone, rr))
           \/ rr.class = "ANY" /\ rr.type # "ANY" /\ DeleteRRSet(p, RRSetOf(zone, rr))
           \/ rr.class = "NONE" /\ ManagerDeleteRecord(p, RecordOf(zone, rr))
           \/ rr.class \notin {"ANY", "NONE"} /\ UpsertRecord(p, RecordOf(zone, rr))
        /\ UNCHANGED <<update, messages>>

\* An RR that is outside the zone, or has no data.
RRRefused(p) ==
    /\ AtRR(p)
    /\ ~RRAccepted(update[p].message.zone, CurrentRR(p))
    /\ update' = [update EXCEPT ![p].pc = "reply", ![p].rcode = "SERVFAIL"]
    /\ UNCHANGED <<managerVars, messages>>

\* Mutant: the error of an RR does not end the update, only its reply tells.
RRReturnedAnyway(p) ==
    /\ update[p].pc = "apply"
    /\ Return(p)
    /\ update' = [update EXCEPT ![p].next = @ + 1,
                                ![p].rcode = IF task[p].pc = "failed" THEN "SERVFAIL" ELSE @]
    /\ UNCHANGED messages

RRReturned(p) ==
    /\ update[p].pc = "apply"
    /\ Return(p)
    /\ \/ /\ task[p].pc = "failed"
          /\ update' = [update EXCEPT ![p].pc = "reply", ![p].rcode = "SERVFAIL"]
       \/ /\ task[p].pc # "failed"
          /\ update' = [update EXCEPT ![p].next = @ + 1]
    /\ UNCHANGED messages

\* A transaction of the bbolt store fails within the method for an RR, or is the only one
\* that the RR asks for.
HandlerFails(p) ==
    /\ update[p].pc = "apply"
    /\ \/ StoreFails(p)
       \/ /\ AtRR(p) /\ CurrentRR(p).class = "NONE"
          /\ RRAccepted(update[p].message.zone, CurrentRR(p))
          /\ UNCHANGED managerVars
    /\ update' = [update EXCEPT ![p].pc = "reply", ![p].rcode = "SERVFAIL", ![p].broken = TRUE]
    /\ UNCHANGED messages

\* The update is over and its reply not yet written.
Answered(p) ==
    \/ update[p].pc = "reply"
    \/ update[p].pc = "apply" /\ update[p].next > Len(update[p].message.rrs)

WriteReply(p) ==
    /\ Answered(p)
    /\ update' = [update EXCEPT ![p] = NoUpdate]
    /\ UNCHANGED <<managerVars, messages>>

\* The steps of the handler before it writes the reply.
HandlerStep(p) ==
    \/ ApplyRR(p) \/ RRRefused(p) \/ RRReturned(p)
    \/ WorkStep(p) /\ UNCHANGED <<update, messages>>

-----------------------------------------------------------------------------
(* Properties. *)

\* What RFC 2136 makes of the records of a zone for one RR.
Effect(stored, zone, rr) ==
    CASE rr.class = "ANY" -> stored \ LookupIn(stored, zone, Fold(rr.name), rr.type, "ANY")
      [] rr.class = "NONE" -> Without(stored, NormalizeRecord(RecordOf(zone, rr)))
      [] OTHER -> Put(stored, NormalizeRecord(RecordOf(zone, rr)))

\* The records after each of the RRs of a message.
AfterRRs(stored, m) ==
    LET after[k \in 0 .. Len(m.rrs)] ==
            IF k = 0 THEN stored ELSE Effect(after[k - 1], Fold(m.zone), m.rrs[k])
    IN  after

\* A message that succeeds leaves the effect of all its RRs, one that fails exactly that
\* of the RRs before the failing one, and one that is refused nothing.  Only where the
\* store failed while it was deleting an RRset or a name, a part of that may be gone too.
UpdatePrefix ==
    \A p \in Writers :
        update[p].pc # "idle" /\ task[p].pc = "idle" =>
            LET u     == update[p]
                after == AfterRRs(u.before, u.message)
            IN  \/ records = after[u.next - 1]
                \/ /\ u.broken /\ CurrentRR(p).class = "ANY"
                   /\ after[u.next] \subseteq records /\ records \subseteq after[u.next - 1]
=============================================================================

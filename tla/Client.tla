------------------------------- MODULE Client -------------------------------
(***************************************************************************)
(* The client of Server (server_client.go over dnsclient.Client): each of  *)
(* its methods sends one update message over UDP and waits for the reply   *)
(* until a timeout.  A request or a reply may be lost or late; nothing is  *)
(* sent again, and a request whose exchange has timed out may still be     *)
(* applied, while a later one is.                                          *)
(*                                                                         *)
(* A request names a method and an RRset: its records are the arguments of *)
(* the record methods, and its name and type those of the deletions.       *)
(***************************************************************************)
EXTENDS Update, SequencesExt

CONSTANTS
    Requests,       \* the calls of the client
    MaxExchanges    \* bound on their number

ASSUME ClientAssumption ==
    /\ MaxExchanges \in Nat
    /\ \A request \in Requests :
          /\ request = [op |-> request.op, set |-> request.set]
          /\ request.op \in {"UpsertRecord", "UpsertRRSet", "DeleteRecord", "DeleteRRSet",
                             "DeleteName"}
          /\ request.set.zone \in Texts /\ IsFiniteSet(request.set.records)

VARIABLES
    client,     \* the exchange the client is in, and what it believes
    inFlight,   \* requests on their way
    handling    \* the exchange whose request each server goroutine handles

clientVars == <<updateVars, client, inFlight, handling>>

\* expected, doubtful: the records as the answered requests leave them, and the rows
\* named by a request that got no reply or an error.
NoRequest == [op |-> "none", set |-> [zone |-> Root, name |-> Root, type |-> "none",
                                      records |-> {}]]

ClientInit ==
    /\ UpdateInit
    /\ client = [pc |-> "idle", id |-> 0, request |-> NoRequest, expected |-> records,
                 doubtful |-> {}]
    /\ inFlight = {}
    /\ handling = [p \in Writers |-> 0]

-----------------------------------------------------------------------------
(* Messages. *)

\* Msg.Insert of the library gives every RR the class of the question, Msg.Remove the
\* class NONE and no TTL.
Inserted(rr) == [rr EXCEPT !.class = "IN"]
Removed(rr) == [rr EXCEPT !.class = "NONE", !.ttl = 0]

UpdateMessage(zone, rrs) ==
    [zone |-> Fold(zone), wellFormed |-> TRUE, prerequisites |-> FALSE, rrs |-> rrs]

\* The records that the method normalizes and turns into RRs.
Normalized(request) ==
    IF request.op = "UpsertRRSet"
    THEN Deduped({normalizeRRSetRecord(request.set, r) : r \in request.set.records})
    ELSE {{NormalizeRecord(r) : r \in request.set.records}}

RequestAccepted(request) ==
    CASE request.op = "UpsertRRSet" -> RRSetAccepted(request.set)
      [] request.op \in {"UpsertRecord", "DeleteRecord"} ->
            \A r \in request.set.records : RecordAccepted(r)
      [] OTHER -> ZoneAccepted(request.set.zone)

\* The message that removes an RRset, or, with type ANY, a name.
RemoveAll(set, type) ==
    UpdateMessage(set.zone, <<[name |-> set.name, ttl |-> 0, class |-> "ANY", type |-> type,
                               data |-> <<>>]>>)

\* The messages with these RRs in some order.
InAnyOrder(zone, rrs) == {UpdateMessage(zone, order) : order \in SetToSeqs(rrs)}

RequestMessages(request) ==
    CASE request.op \in {"UpsertRecord", "UpsertRRSet"} ->
            UNION {InAnyOrder(request.set.zone, {Inserted(rr) : rr \in RRs(new)}) :
                      new \in {x \in Normalized(request) : Parsable(x)}}
      [] request.op = "DeleteRecord" ->
            UNION {InAnyOrder(request.set.zone, {Removed(rr) : rr \in RRs(old)}) :
                      old \in {x \in Normalized(request) : Parsable(x)}}
      [] request.op = "DeleteRRSet" -> {RemoveAll(request.set, request.set.type)}
      [] request.op = "DeleteName"  -> {RemoveAll(request.set, "ANY")}

\* Zones and Records contain what the requests name.
ASSUME ExchangesAssumption ==
    \A request \in {r \in Requests : RequestAccepted(r)} :
        /\ request.op \in {"UpsertRecord", "UpsertRRSet", "DeleteRecord"} =>
              UNION Normalized(request) \subseteq Records
        /\ \A m \in RequestMessages(request) :
              \A i \in 1 .. Len(m.rrs) : RRInUniverse(m.zone, m.rrs[i])

-----------------------------------------------------------------------------
(* Exchanges. *)

Exchange(request) ==
    /\ client.pc = "idle"
    /\ client.id < MaxExchanges
    /\ RequestAccepted(request)
    /\ \E m \in RequestMessages(request) :
          inFlight' = inFlight \cup {[id |-> client.id + 1, message |-> m]}
    /\ client' = [client EXCEPT !.pc = "waiting", !.id = @ + 1, !.request = request]
    /\ UNCHANGED <<updateVars, handling>>

\* The server's loop reads a packet and starts a goroutine for it.
Receive(p) ==
    /\ \E packet \in inFlight :
          /\ HandleMessage(p, packet.message)
          /\ handling' = [handling EXCEPT ![p] = packet.id]
          /\ inFlight' = inFlight \ {packet}
    /\ UNCHANGED <<messages, client>>

LoseRequest ==
    /\ \E packet \in inFlight : inFlight' = inFlight \ {packet}
    /\ UNCHANGED <<updateVars, client, handling>>

\* The row a request is about.
Row(request) == <<Fold(request.set.zone), Fold(request.set.name)>>

\* What a method promises of the records.
Promise(stored, request) ==
    LET set == request.set
        new == UNION Normalized(request)
    IN  CASE request.op \in {"UpsertRecord", "UpsertRRSet"} ->
                {r \in stored : \A n \in new : Key(n) # Key(r)} \cup new
          [] request.op = "DeleteRecord" -> {r \in stored : \A n \in new : Key(n) # Key(r)}
          [] request.op = "DeleteRRSet" ->
                stored \ LookupIn(stored, Fold(set.zone), Fold(set.name), set.type, "ANY")
          [] request.op = "DeleteName" -> {r \in stored : RowKey(r) # Row(request)}

\* The exchange is over, and the client knows whether the request was applied.
Concluded(applied) ==
    [client EXCEPT !.pc = "idle", !.request = NoRequest,
                   !.expected = IF applied THEN Promise(@, client.request) ELSE @,
                   !.doubtful = IF applied THEN @ ELSE @ \cup {Row(client.request)}]

\* Mutant: the client takes any reply for its own.
RespondToAnyone(p) ==
    /\ WriteReply(p)
    /\ handling' = [handling EXCEPT ![p] = 0]
    /\ client' = IF client.pc = "waiting" THEN Concluded(update[p].rcode = "SUCCESS") ELSE client
    /\ UNCHANGED inFlight

\* The reply reaches the client that still waits for it, or nobody.
Respond(p) ==
    /\ WriteReply(p)
    /\ handling' = [handling EXCEPT ![p] = 0]
    /\ \/ /\ client.pc = "waiting" /\ client.id = handling[p]
          /\ client' = Concluded(update[p].rcode = "SUCCESS")
       \/ UNCHANGED client
    /\ UNCHANGED inFlight

\* Client.Timeout has passed, or the context is done.
Timeout ==
    /\ client.pc = "waiting"
    /\ client' = Concluded(FALSE)
    /\ UNCHANGED <<updateVars, inFlight, handling>>

ClientRests ==
    /\ client.id = MaxExchanges /\ client.pc = "idle" /\ inFlight = {}
    /\ \A p \in Writers : update[p].pc = "idle"
    /\ UNCHANGED clientVars

ClientNext ==
    \/ \E request \in Requests : Exchange(request)
    \/ LoseRequest \/ Timeout
    \/ \E p \in Writers :
          \/ Receive(p) \/ Respond(p)
          \/ HandlerStep(p) /\ UNCHANGED <<client, inFlight, handling>>
    \/ ClientRests

ClientSpec == ClientInit /\ [][ClientNext]_clientVars

-----------------------------------------------------------------------------
(* Properties. *)

InRow(stored, row) == {r \in stored : RowKey(r) = row}

\* Whatever happens to other exchanges, a name that every request about it was answered
\* SUCCESS holds what those requests promised: a lost or late request disturbs at most
\* the name it is about.
AcknowledgedHolds ==
    \A row \in {RowKey(r) : r \in records \cup client.expected} :
        row \notin client.doubtful \cup {Row(client.request)} =>
            InRow(records, row) = InRow(client.expected, row)
=============================================================================

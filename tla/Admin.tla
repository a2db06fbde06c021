------------------------------- MODULE Admin -------------------------------
(***************************************************************************)
(* The HTTP handler of cmd/server: a goroutine per request decodes it,     *)
(* makes one call of the Manager, and answers with a status.  The store is *)
(* the bbolt one, any transaction of which may fail; its calls are those   *)
(* of MemoryStore, which take finer steps and differ only in when the      *)
(* revision is incremented.  A Manager is always configured.               *)
(*                                                                         *)
(* A request has a method, a path, and an argument: a zone, a record, a    *)
(* seed or a filter, each with decodes FALSE when its text cannot be read. *)
(***************************************************************************)
EXTENDS Manager

CONSTANTS
    HTTPRequests,   \* the requests that arrive
    MaxRequests     \* bound on their number

ASSUME AdminAssumption ==
    /\ MaxRequests \in Nat
    /\ \A r \in HTTPRequests : r = [method |-> r.method, path |-> r.path,
                                    decodes |-> r.decodes, arg |-> r.arg]

VARIABLES
    admin,      \* the request each goroutine handles
    requests    \* requests so far

adminVars == <<managerVars, admin, requests>>

NoHTTPRequest == [method |-> "none", path |-> "none", decodes |-> FALSE, arg |-> Root]

\* The response's status and listing, and, for the properties, whether the store failed
\* (broken) and what it held when the request arrived.
NoExchange == [pc |-> "idle", request |-> NoHTTPRequest, status |-> 200, listing |-> {},
               broken |-> FALSE, zonesBefore |-> {}, recordsBefore |-> {}]

AdminInit ==
    /\ ManagerInit
    /\ admin = [p \in Writers |-> NoExchange]
    /\ requests = 0

-----------------------------------------------------------------------------
(* Decoding. *)

Methods(path) ==
    CASE path \in {"/healthz", "/zones"} -> {"GET"}
      [] path = "/zones/"                -> {"PUT", "DELETE"}
      [] path = "/records"               -> {"GET", "PUT", "DELETE"}
      [] path = "/seed/import"           -> {"POST"}

\* NormalizeRecordFilter; an empty field is the root name or "none".
FilterAccepted(filter) ==
    filter.zone # Root /\ filter.name # Root =>
        IsSubDomain(Fold(filter.zone), Fold(filter.name))

\* RecordMatchesFilter of the normalized filter.
RecordMatchesFilter(record, filter) ==
    /\ filter.zone = Root \/ record.zone = Fold(filter.zone)
    /\ filter.name = Root \/ record.name = Fold(filter.name)
    /\ filter.type \in {"none", "ANY"} \/ record.type = filter.type
    /\ filter.class \in {"none", "ANY"} \/ record.class = filter.class

\* What the Manager's method would not normalize.
ArgumentAccepted(request) ==
    CASE request.path = "/zones/"     -> ZoneAccepted(request.arg)
      [] request.path = "/seed/import" -> SeedAccepted(request.arg)
      [] request.path = "/records" /\ request.method = "GET" -> FilterAccepted(request.arg)
      [] request.path = "/records" /\ request.method # "GET" -> RecordAccepted(request.arg)
      [] OTHER -> TRUE

\* Zones and Records contain what the requests name.
RequestInUniverse(request) ==
    LET arg == request.arg
    IN  /\ request.path = "/zones/" =>
              (ZoneAccepted(arg) => NormalizeZoneName(arg) \in Zones)
        /\ request.path = "/seed/import" => SeedInUniverse(arg)
        /\ request.path = "/records" /\ request.method # "GET" =>
              (RecordAccepted(arg) => NormalizeRecord(arg) \in Records)
        /\ request.path = "/records" /\ request.method = "GET" =>
              arg = [zone |-> arg.zone, name |-> arg.name, type |-> arg.type,
                     class |-> arg.class]

ASSUME RequestsAssumption ==
    \A request \in HTTPRequests : request.decodes => RequestInUniverse(request)

\* The path of a zone is looked at before the method, a body or a filter after it.
EarlyStatus(request) ==
    CASE request.path = "/zones/" /\ request.arg = Root -> 400
      [] ~(request.path = "/zones/" /\ request.arg = Root)
            /\ request.method \notin Methods(request.path) -> 405
      [] OTHER -> IF request.decodes /\ ArgumentAccepted(request) THEN 200 ELSE 400

-----------------------------------------------------------------------------
(* Handlers. *)

\* A request arrives: it is answered at once, or the Manager is called next.
ServeHTTP(p, request) ==
    LET status == EarlyStatus(request)
    IN  /\ admin[p].pc = "idle"
        /\ requests < MaxRequests
        /\ requests' = requests + 1
        /\ admin' = [admin EXCEPT ![p] =
               [NoExchange EXCEPT !.request = request, !.status = status,
                   !.pc = IF status # 200 \/ request.path = "/healthz" THEN "respond" ELSE "call",
                   !.zonesBefore = zones, !.recordsBefore = records]]
        /\ UNCHANGED managerVars

Calling(p, method, path) ==
    /\ admin[p].pc = "call"
    /\ admin[p].request.method = method /\ admin[p].request.path = path

\* The Manager's method has been entered.
Entered(p) ==
    /\ admin' = [admin EXCEPT ![p].pc = "wait"]
    /\ UNCHANGED requests

\* handleZone, handlePutRecord, handleDeleteRecord and handleSeedImport.
HandleWrite(p) ==
    LET arg == admin[p].request.arg
    IN  /\ \/ Calling(p, "PUT", "/zones/") /\ UpsertZone(p, arg)
           \/ Calling(p, "DELETE", "/zones/") /\ ManagerDeleteZone(p, arg)
           \/ Calling(p, "PUT", "/records") /\ UpsertRecord(p, arg)
           \/ Calling(p, "DELETE", "/records") /\ ManagerDeleteRecord(p, arg)
           \/ Calling(p, "POST", "/seed/import") /\ ImportSeedData(p, arg)
        /\ Entered(p)

\* The call returns a validation error before it has written anything.
SeedRefused(p) ==
    /\ Calling(p, "POST", "/seed/import")
    /\ \E kept \in Deduped({NormalizeRecord(r) : r \in admin[p].request.arg.records}) :
          ~validateRecordsByZone(kept, TRUE)
    /\ admin' = [admin EXCEPT ![p].pc = "respond", ![p].status = 400]
    /\ UNCHANGED <<managerVars, requests>>

\* Mutant: the error of the Manager's method is not looked at.
ManagerReturnedAnyway(p) ==
    /\ admin[p].pc = "wait"
    /\ Return(p)
    /\ admin' = [admin EXCEPT ![p].pc = "respond"]
    /\ UNCHANGED requests

ManagerReturned(p) ==
    /\ admin[p].pc = "wait"
    /\ Return(p)
    /\ admin' = [admin EXCEPT ![p].pc = "respond",
                              ![p].status = IF task[p].pc = "failed" THEN 400 ELSE @]
    /\ UNCHANGED requests

\* The store fails and the method ends with an error: for an import or a SaveRecord
\* perhaps after a part of its writes, for DELETE /zones/ after the zone is gone ...
ManagerFails(p) ==
    /\ admin[p].pc = "wait"
    /\ StoreFails(p)
    /\ admin' = [admin EXCEPT ![p].pc = "respond", ![p].status = 400, ![p].broken = TRUE]
    /\ UNCHANGED requests

\* ... or it fails in the transaction that the method begins with.
FirstTransactionFails(p) ==
    /\ \/ Calling(p, "GET", "/zones")
       \/ Calling(p, "PUT", "/zones/") \/ Calling(p, "DELETE", "/zones/")
       \/ Calling(p, "DELETE", "/records")
    /\ admin' = [admin EXCEPT ![p].pc = "respond", ![p].broken = TRUE,
                              ![p].status = IF admin[p].request.path = "/zones" THEN 500 ELSE 400]
    /\ UNCHANGED <<managerVars, requests>>

\* handleZones
HandleListZones(p) ==
    /\ Calling(p, "GET", "/zones")
    /\ admin' = [admin EXCEPT ![p].pc = "respond", ![p].listing = zones]
    /\ UNCHANGED <<managerVars, requests>>

\* handleGetRecords: the rows of the filter's zone and name, or all of them ...
HandleListRecords(p) ==
    LET filter == admin[p].request.arg
        rows   == {RowKey(r) : r \in {x \in records : RecordMatchesFilter(x,
                                         [filter EXCEPT !.type = "ANY", !.class = "ANY"])}}
    IN  /\ Calling(p, "GET", "/records")
        /\ Go(p, [NoTask EXCEPT !.op = "ListRecords", !.pc = "read", !.rows = rows])
        /\ Entered(p)

\* ... and of what they hold, the records that match.
RecordsListed(p) ==
    /\ admin[p].pc = "wait" /\ task[p].op = "ListRecords" /\ task[p].rows = {}
    /\ admin' = [admin EXCEPT ![p].pc = "respond",
                              ![p].listing = {r \in task[p].listed :
                                                 RecordMatchesFilter(r, admin[p].request.arg)}]
    /\ Go(p, NoTask)
    /\ UNCHANGED requests

RespondHTTP(p) ==
    /\ admin[p].pc = "respond"
    /\ admin' = [admin EXCEPT ![p] = NoExchange]
    /\ UNCHANGED <<managerVars, requests>>

\* The steps of a request after it has arrived.
AdminStep(p) ==
    \/ HandleWrite(p) \/ SeedRefused(p) \/ ManagerReturned(p)
    \/ ManagerFails(p) \/ FirstTransactionFails(p)
    \/ HandleListZones(p) \/ HandleListRecords(p) \/ RecordsListed(p)
    \/ RespondHTTP(p)
    \/ WorkStep(p) /\ UNCHANGED <<admin, requests>>

-----------------------------------------------------------------------------
(* Properties. *)

\* The store after a write of one record, of a seed or of a zone, up to TTLs.
Written(a) ==
    LET request == a.request
        raws    == CASE request.path = "/records"     -> {request.arg}
                     [] request.path = "/seed/import" -> request.arg.records
                     [] request.path = "/zones/"      -> {}
        new     == {NormalizeRecord(r) : r \in raws}
        keys    == {Key(r) : r \in new}
        old     == {Key(r) : r \in a.recordsBefore}
        zone    == Fold(request.arg)
    IN  CASE request.method = "DELETE" /\ request.path = "/zones/" ->
                <<a.zonesBefore \ {zone}, {k \in old : k[1] # zone}>>
          [] request.method = "DELETE" /\ request.path = "/records" ->
                <<a.zonesBefore, old \ keys>>
          [] request.method = "PUT" /\ request.path = "/zones/" ->
                <<a.zonesBefore \cup {zone}, old>>
          [] request.path = "/seed/import" ->
                <<a.zonesBefore \cup SeedZones(request.arg), old \cup keys>>
          [] OTHER -> <<a.zonesBefore \cup {r.zone : r \in new}, old \cup keys>>

\* What a write of which a part was made leaves: zones first, records only when the zones
\* are complete, and of the records a part only when it imports a seed.
Interrupted(a, now) ==
    LET old  == <<a.zonesBefore, {Key(r) : r \in a.recordsBefore}>>
        new  == Written(a)
    IN  /\ \A i \in 1 .. 2 : old[i] \cap new[i] \subseteq now[i] /\ now[i] \subseteq old[i] \cup new[i]
        /\ now[2] # old[2] => a.request.path = "/seed/import" /\ now[1] = new[1]

\* The status tells the truth: a write that is answered 200 has taken effect as a whole,
\* any other answer means that nothing has changed, unless the store failed, when the
\* write may have been made in part, in its order; and a listing is the store's.
StatusTruthful ==
    \A p \in Writers : admin[p].pc = "respond" =>
        LET a   == admin[p]
            now == <<zones, {Key(r) : r \in records}>>
        IN  CASE a.request.method # "GET" /\ a.status = 200 -> now = Written(a)
              [] a.request.method # "GET" /\ a.status # 200 /\ a.broken -> Interrupted(a, now)
              [] OTHER ->
                    /\ now = <<a.zonesBefore, {Key(r) : r \in a.recordsBefore}>>
                    /\ a.status = 200 /\ a.request.path = "/zones" => a.listing = zones
                    /\ a.status = 200 /\ a.request.path = "/records" =>
                          a.listing = {r \in records : RecordMatchesFilter(r, a.request.arg)}
=============================================================================

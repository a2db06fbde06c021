----------------------------- MODULE FrontEnds -----------------------------
(***************************************************************************)
(* The two ways into a running server: update messages and HTTP requests   *)
(* change one bbolt store through one Manager.  Every message and every    *)
(* request has a goroutine to itself until it is answered, and any         *)
(* transaction of the store may fail.                                      *)
(***************************************************************************)
EXTENDS Admin, Update

frontVars == <<managerVars, admin, requests, update, messages>>

FrontInit == AdminInit /\ UpdateInit

\* A goroutine serves an HTTP request ...
HTTP(p) ==
    /\ update[p].pc = "idle"
    /\ (\E request \in HTTPRequests : ServeHTTP(p, request)) \/ AdminStep(p)
    /\ UNCHANGED <<update, messages>>

\* ... or an update message.
DNS(p) ==
    /\ admin[p].pc = "idle"
    /\ (\E m \in Messages : ServeUpdate(p, m)) \/ HandlerStep(p) \/ HandlerFails(p) \/ WriteReply(p)
    /\ UNCHANGED <<admin, requests>>

\* Nothing arrives any more within the bounds.
FrontRests ==
    /\ requests = MaxRequests /\ messages = MaxMessages
    /\ \A p \in Writers : admin[p].pc = "idle" /\ update[p].pc = "idle"
    /\ UNCHANGED frontVars

FrontNext == (\E p \in Writers : HTTP(p) \/ DNS(p)) \/ FrontRests

FrontSpec == FrontInit /\ [][FrontNext]_frontVars
=============================================================================

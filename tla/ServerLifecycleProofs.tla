------------------------ MODULE ServerLifecycleProofs ------------------------
(***************************************************************************)
(* Proofs about ServerLifecycle for any number of Start and Stop calls.    *)
(*                                                                         *)
(* The inductive invariant says that only the servers the two fields name  *)
(* can have a socket, a flag, a goroutine or a handler left (and, halfway  *)
(* through Start, the packet connection just opened), and what the         *)
(* Shutdown calls of the Stop that is under way have established so far.   *)
(***************************************************************************)
EXTENDS ServerLifecycle, TLAPS

\* Nothing of the dns.Server is left: neither its socket, its flag, a request nor a
\* goroutine that is still to return.
Quiet(s) ==
    /\ s \notin sockets
    /\ s \notin active
    /\ s \notin handlers
    /\ goroutine[s] \in {"none", "ended"}

\* The dns.Server whose Shutdown has succeeded, or that did not exist.
IsShut(n) == server[n] = 0 \/ Quiet(<<n, server[n]>>)

\* Start sets both fields and Stop clears both, never to a later call's number.
FieldsAgree ==
    /\ server["udp"] = server["tcp"]
    /\ server["udp"] <= starts

\* Halfway through Start the fields are nil and only the packet connection is new.
HalfStarted(s) == control.pc = "listen" /\ s = <<"udp", starts>>

ListensFromNil ==
    control.pc = "listen" =>
        /\ server["udp"] = 0
        /\ starts # 0
        /\ \A s \in Servers : s[2] = starts =>
              s \notin active /\ s \notin handlers /\ goroutine[s] \in {"none", "ended"}

OnlyCurrentLives ==
    \A s \in Servers : Quiet(s) \/ s[2] = server[s[1]] \/ HalfStarted(s)

\* A server with its flag set has been activated, and requests are handled by a
\* goroutine that has not returned.
ActiveWasScheduled ==
    \A s \in active : goroutine[s] \in {"serving", "draining", "ended"}

HandlersAreAwaited ==
    \A s \in handlers : goroutine[s] \in {"serving", "draining"}

\* What a Stop that has not failed so far knows of the servers it is done with.
StopProgress ==
    /\ control.pc \in {"shutdown", "wait"} /\ control.network = "tcp" /\ ~control.failed
          => IsShut("udp")
    /\ control.pc = "return" /\ ~control.failed => IsShut("udp") /\ IsShut("tcp")
    /\ control.pc = "wait" =>
          LET s == <<control.network, server[control.network]>>
          IN  server[control.network] # 0 /\ s \notin active /\ goroutine[s] # "spawned"

LifecycleInv ==
    /\ LifecycleTypeOK
    /\ FieldsAgree
    /\ ListensFromNil
    /\ OnlyCurrentLives
    /\ ActiveWasScheduled
    /\ HandlersAreAwaited
    /\ FindsItsServer
    /\ StopProgress

-----------------------------------------------------------------------------
(* The initial state, and one lemma per action. *)

\* Nothing has been started.
LEMMA InitInv == LifecycleInit => LifecycleInv
BY LifecycleAssumption
DEF LifecycleInit, LifecycleInv, LifecycleTypeOK, Calls, FieldsAgree, ListensFromNil, OnlyCurrentLives,
    ActiveWasScheduled, HandlersAreAwaited, FindsItsServer, StopProgress, Quiet, Result, Networks

\* What a call returns is between two calls, with no Stop under way.
LEMMA ResultType ==
    ASSUME NEW result \in {"none", "already_started", "start_failed", "started", "stopped",
                           "stop_failed"}
    PROVE  Result(result) \in Calls /\ Result(result).pc = "idle"
BY DEF Result, Calls, Networks

\* What Start and Stop may hold.
LEMMA ControlType ==
    ASSUME NEW pc \in {"idle", "listen", "shutdown", "wait", "return"}, NEW n \in Networks,
           NEW failed \in BOOLEAN
    PROVE  /\ Control(pc, n, failed) \in Calls
           /\ Control(pc, n, failed).pc = pc
           /\ Control(pc, n, failed).network = n
           /\ Control(pc, n, failed).failed = failed
BY DEF Control, Calls

\* Start finds the server started.
LEMMA StartRefusedStep == ASSUME LifecycleInv, StartRefused PROVE LifecycleInv'
<1>1. LifecycleTypeOK'
  BY LifecycleAssumption, ResultType DEF StartRefused, LifecycleInv, LifecycleTypeOK
<1>2. control'.pc = "idle"
  BY ResultType DEF StartRefused
<1>3. FieldsAgree' /\ ListensFromNil' /\ StopProgress'
  BY <1>2 DEF StartRefused, LifecycleInv, LifecycleTypeOK, FieldsAgree, ListensFromNil,
              StopProgress, Networks
<1>4. OnlyCurrentLives'
  BY <1>2 DEF StartRefused, LifecycleInv, OnlyCurrentLives, Quiet, HalfStarted
<1>5. ActiveWasScheduled' /\ HandlersAreAwaited' /\ FindsItsServer'
  BY DEF StartRefused, LifecycleInv, ActiveWasScheduled, HandlersAreAwaited, FindsItsServer
<1> QED
  BY <1>1, <1>3, <1>4, <1>5 DEF LifecycleInv

\* Start listens on UDP.
LEMMA ListenUDPStep == ASSUME LifecycleInv, ListenUDP PROVE LifecycleInv'
<1>0. /\ Result("start_failed") \in Calls /\ Result("start_failed").pc = "idle"
      /\ Control("listen", "tcp", FALSE) \in Calls
      /\ Control("listen", "tcp", FALSE).pc = "listen"
  BY DEF Result, Control, Calls, Networks
<1>1. LifecycleTypeOK'
  <2>1. starts' \in 1 .. MaxStarts
    BY LifecycleAssumption DEF ListenUDP, LifecycleInv, LifecycleTypeOK
  <2>2. sockets' \subseteq Servers
    BY <2>1 DEF ListenUDP, LifecycleInv, LifecycleTypeOK, Servers, Networks
  <2>3. control' \in Calls
    BY <1>0 DEF ListenUDP
  <2> QED
    BY LifecycleAssumption, <2>1, <2>2, <2>3 DEF ListenUDP, LifecycleInv, LifecycleTypeOK
<1>2. control'.pc \in {"idle", "listen"}
  BY <1>0 DEF ListenUDP
<1>3. /\ server["udp"] = 0 /\ server["tcp"] = 0
      /\ starts \in Nat /\ starts' = starts + 1
  BY LifecycleAssumption DEF ListenUDP, Networks, LifecycleInv, LifecycleTypeOK
<1>4. \A s \in Servers : Quiet(s)
  BY <1>3 DEF ListenUDP, LifecycleInv, OnlyCurrentLives, Quiet, HalfStarted, Servers, Networks
<1>5. FieldsAgree' /\ StopProgress'
  BY <1>2, <1>3 DEF ListenUDP, LifecycleInv, FieldsAgree, StopProgress
<1>6. ListensFromNil'
  BY <1>3, <1>4 DEF ListenUDP, ListensFromNil, Quiet
<1>7. OnlyCurrentLives'
  <2>1. CASE UNCHANGED sockets
    BY <1>4, <2>1 DEF ListenUDP, OnlyCurrentLives, Quiet
  <2>2. CASE control' = Control("listen", "tcp", FALSE)
                /\ sockets' = sockets \cup {<<"udp", starts'>>}
    BY <1>4, <2>2, ControlType DEF ListenUDP, OnlyCurrentLives, Quiet, HalfStarted, Networks
  <2> QED
    BY <2>1, <2>2 DEF ListenUDP
<1>8. ActiveWasScheduled' /\ HandlersAreAwaited' /\ FindsItsServer'
  BY DEF ListenUDP, LifecycleInv, ActiveWasScheduled, HandlersAreAwaited, FindsItsServer
<1> QED
  BY <1>1, <1>5, <1>6, <1>7, <1>8 DEF LifecycleInv

\* Start listens on TCP, or closes the UDP socket when it cannot.
LEMMA ListenTCPStep == ASSUME LifecycleInv, ListenTCP PROVE LifecycleInv'
<1>1. LifecycleTypeOK'
  BY LifecycleAssumption, ResultType
  DEF ListenTCP, LifecycleInv, LifecycleTypeOK, ListensFromNil, Servers, Networks
<1>2. control'.pc = "idle"
  BY ResultType DEF ListenTCP
<1>3. /\ server["udp"] = 0 /\ server["tcp"] = 0
      /\ starts \in Nat /\ starts' = starts
  BY LifecycleAssumption DEF ListenTCP, LifecycleInv, LifecycleTypeOK, FieldsAgree, ListensFromNil
<1>4. \A s \in Servers : Quiet(s) \/ s = <<"udp", starts>>
  BY <1>3 DEF ListenTCP, LifecycleInv, OnlyCurrentLives, HalfStarted, Servers, Networks
<1>5. \A s \in Servers : s[2] = starts =>
        s \notin active /\ s \notin handlers /\ goroutine[s] \in {"none", "ended"}
  BY DEF ListenTCP, LifecycleInv, ListensFromNil
<1>6. FieldsAgree' /\ ListensFromNil' /\ StopProgress'
  BY <1>2, <1>3 DEF ListenTCP, LifecycleInv, FieldsAgree, ListensFromNil, StopProgress, Networks
<1>7. CASE UNCHANGED <<server, goroutine>> /\ sockets' = sockets \ {<<"udp", starts>>}
  <2>1. \A s \in Servers : Quiet(s)'
    BY <1>4, <1>5, <1>7 DEF ListenTCP, Quiet
  <2> QED
    BY <1>1, <1>6, <1>7, <2>1
    DEF ListenTCP, LifecycleInv, OnlyCurrentLives, ActiveWasScheduled, HandlersAreAwaited,
        FindsItsServer
<1>8. CASE /\ sockets' = sockets \cup {<<"tcp", starts>>}
           /\ server' = [n \in Networks |-> starts]
           /\ goroutine' = [s \in Servers |-> IF s[2] = starts THEN "spawned" ELSE goroutine[s]]
  <2>1. \A s \in Servers : s[2] # starts => Quiet(s)'
    BY <1>4, <1>8 DEF ListenTCP, Quiet
  <2>2. \A s \in Servers : server'[s[1]] = starts
    BY <1>8 DEF Servers
  <2>3. OnlyCurrentLives'
    BY <2>1, <2>2 DEF OnlyCurrentLives
  <2>4. FindsItsServer'
    BY <1>4, <1>8, <2>2 DEF FindsItsServer, Quiet, Networks, Servers
  <2>5. ActiveWasScheduled' /\ HandlersAreAwaited'
    BY <1>5, <1>8
    DEF ListenTCP, LifecycleInv, LifecycleTypeOK, ActiveWasScheduled, HandlersAreAwaited
  <2> QED
    BY <1>1, <1>6, <2>3, <2>4, <2>5 DEF LifecycleInv
<1> QED
  BY <1>7, <1>8 DEF ListenTCP

\* The goroutine that is scheduled finds its own server, not yet activated.
LEMMA ActivateStep ==
    ASSUME LifecycleInv, NEW s \in Servers, Activate(s) PROVE LifecycleInv'
<1>1. goroutine[s] = "spawned"
  BY DEF Activate, Moves
<1>2. server[s[1]] = s[2] /\ s = <<s[1], s[2]>> /\ s[2] # 0 /\ s[1] \in Networks
  BY <1>1, LifecycleAssumption DEF LifecycleInv, FindsItsServer, Servers
<1>3. s \notin active
  BY <1>1 DEF LifecycleInv, ActiveWasScheduled
<1>4. /\ goroutine' = [goroutine EXCEPT ![s] = "serving"]
      /\ active' = active \cup {s}
      /\ UNCHANGED <<server, sockets, handlers, control, starts, stops>>
  BY <1>1, <1>2, <1>3 DEF Activate, Moves
<1>5. goroutine \in [Servers -> {"none", "spawned", "serving", "draining", "ended"}]
  BY DEF LifecycleInv, LifecycleTypeOK
<1>6. LifecycleTypeOK'
  BY <1>4 DEF LifecycleInv, LifecycleTypeOK
<1>7. FieldsAgree' /\ FindsItsServer'
  BY <1>4, <1>5 DEF LifecycleInv, FieldsAgree, FindsItsServer
<1>8. ListensFromNil'
  <2>1. control.pc # "listen"
    BY <1>1, <1>2 DEF LifecycleInv, ListensFromNil, FieldsAgree, Networks
  <2> QED
    BY <1>4, <2>1 DEF ListensFromNil
<1>9. OnlyCurrentLives'
  BY <1>2, <1>4, <1>5 DEF LifecycleInv, OnlyCurrentLives, Quiet, HalfStarted
<1>10. ActiveWasScheduled' /\ HandlersAreAwaited'
  BY <1>4, <1>5 DEF LifecycleInv, LifecycleTypeOK, ActiveWasScheduled, HandlersAreAwaited
<1>11. \A t \in Servers : t # s /\ Quiet(t) => Quiet(t)'
  BY <1>4, <1>5 DEF Quiet
<1>12. ~Quiet(s)
  BY <1>1 DEF Quiet
<1>13. \A n \in Networks : IsShut(n) => IsShut(n)'
  BY <1>4, <1>11, <1>12, LifecycleAssumption
  DEF IsShut, LifecycleInv, LifecycleTypeOK, Servers
<1>14. StopProgress'
  BY <1>1, <1>4, <1>5, <1>13, LifecycleAssumption
  DEF LifecycleInv, LifecycleTypeOK, StopProgress, Calls, Networks, Servers
<1> QED
  BY <1>6, <1>7, <1>8, <1>9, <1>10, <1>14 DEF LifecycleInv

\* A goroutine takes up a query.
LEMMA HandleStep ==
    ASSUME LifecycleInv, NEW s \in Servers, Handle(s) PROVE LifecycleInv'
BY LifecycleAssumption
DEF Handle, LifecycleInv, LifecycleTypeOK, FieldsAgree, ListensFromNil, OnlyCurrentLives,
    ActiveWasScheduled, HandlersAreAwaited, FindsItsServer, StopProgress, Quiet, HalfStarted,
    IsShut, Networks, Servers

\* A goroutine has answered a query.
LEMMA HandledStep ==
    ASSUME LifecycleInv, NEW s \in Servers, Handled(s) PROVE LifecycleInv'
BY LifecycleAssumption
DEF Handled, LifecycleInv, LifecycleTypeOK, FieldsAgree, ListensFromNil, OnlyCurrentLives,
    ActiveWasScheduled, HandlersAreAwaited, FindsItsServer, StopProgress, Quiet, HalfStarted,
    IsShut, Networks, Servers

\* The loop of a goroutine ends, by a shutdown or by a read error.
LEMMA LoopEndsStep ==
    ASSUME LifecycleInv, NEW s \in Servers, LeaveLoop(s) \/ BreakLoop(s) PROVE LifecycleInv'
<1>1. /\ goroutine[s] = "serving"
      /\ goroutine' = [goroutine EXCEPT ![s] = "draining"]
      /\ UNCHANGED <<server, sockets, active, handlers, control, starts, stops>>
  BY DEF LeaveLoop, BreakLoop, Moves
<1>2. LifecycleTypeOK' /\ FieldsAgree'
  BY <1>1 DEF LifecycleInv, LifecycleTypeOK, FieldsAgree
<1>3. goroutine \in [Servers -> {"none", "spawned", "serving", "draining", "ended"}]
  BY DEF LifecycleInv, LifecycleTypeOK
<1>4. \A t \in Servers : Quiet(t) => Quiet(t)'
  BY <1>1, <1>3 DEF Quiet
<1>5. \A n \in Networks : IsShut(n) => IsShut(n)'
  BY <1>1, <1>4, LifecycleAssumption DEF IsShut, LifecycleInv, LifecycleTypeOK, Servers
<1>6. ListensFromNil' /\ FindsItsServer'
  BY <1>1, <1>3 DEF LifecycleInv, ListensFromNil, FindsItsServer
<1>7. OnlyCurrentLives'
  BY <1>1, <1>4 DEF LifecycleInv, OnlyCurrentLives, HalfStarted
<1>8. ActiveWasScheduled' /\ HandlersAreAwaited'
  BY <1>1, <1>3 DEF LifecycleInv, LifecycleTypeOK, ActiveWasScheduled, HandlersAreAwaited
<1>9. StopProgress'
  BY <1>1, <1>3, <1>5, LifecycleAssumption
  DEF LifecycleInv, LifecycleTypeOK, StopProgress, Calls, Networks, Servers
<1> QED
  BY <1>2, <1>6, <1>7, <1>8, <1>9 DEF LifecycleInv

\* The shutdown of one server waits for its queries.
LEMMA DrainedStep ==
    ASSUME LifecycleInv, NEW s \in Servers, Drained(s) PROVE LifecycleInv'
<1>1. /\ goroutine[s] = "draining" /\ s \notin handlers
      /\ goroutine' = [goroutine EXCEPT ![s] = "ended"]
      /\ sockets' \subseteq sockets
      /\ UNCHANGED <<server, active, handlers, control, starts, stops>>
  BY DEF Drained, Moves
<1>2. LifecycleTypeOK' /\ FieldsAgree'
  BY <1>1 DEF LifecycleInv, LifecycleTypeOK, FieldsAgree
<1>3. goroutine \in [Servers -> {"none", "spawned", "serving", "draining", "ended"}]
  BY DEF LifecycleInv, LifecycleTypeOK
<1>4. \A t \in Servers : Quiet(t) => Quiet(t)'
  BY <1>1, <1>3 DEF Quiet
<1>5. \A n \in Networks : IsShut(n) => IsShut(n)'
  BY <1>1, <1>4, LifecycleAssumption DEF IsShut, LifecycleInv, LifecycleTypeOK, Servers
<1>6. ListensFromNil' /\ FindsItsServer'
  BY <1>1, <1>3 DEF LifecycleInv, ListensFromNil, FindsItsServer
<1>7. OnlyCurrentLives'
  BY <1>1, <1>4 DEF LifecycleInv, OnlyCurrentLives, HalfStarted
<1>8. ActiveWasScheduled' /\ HandlersAreAwaited'
  BY <1>1, <1>3 DEF LifecycleInv, LifecycleTypeOK, ActiveWasScheduled, HandlersAreAwaited
<1>9. StopProgress'
  BY <1>1, <1>3, <1>5, LifecycleAssumption
  DEF LifecycleInv, LifecycleTypeOK, StopProgress, Calls, Networks, Servers
<1> QED
  BY <1>2, <1>6, <1>7, <1>8, <1>9 DEF LifecycleInv

\* A Stop starts with nothing established.
LEMMA StopStep == ASSUME LifecycleInv, Stop PROVE LifecycleInv'
<1>0. /\ Control("shutdown", "udp", FALSE) \in Calls
      /\ Control("shutdown", "udp", FALSE).pc = "shutdown"
      /\ Control("shutdown", "udp", FALSE).network = "udp"
  BY DEF Control, Calls, Networks
<1>1. LifecycleTypeOK' /\ FieldsAgree'
  <2>1. control' \in Calls
    BY <1>0, Zenon DEF Stop
  <2>2. stops' = stops + 1 /\ stops < MaxStops
    BY Zenon DEF Stop
  <2>3. UNCHANGED <<server, sockets, active, goroutine, handlers, starts>>
    BY Zenon DEF Stop
  <2> QED
    BY <2>1, <2>2, <2>3, LifecycleAssumption DEF LifecycleInv, LifecycleTypeOK, FieldsAgree
<1>2. ListensFromNil' /\ StopProgress'
  BY <1>0 DEF Stop, ListensFromNil, StopProgress
<1>3. OnlyCurrentLives'
  BY <1>0 DEF Stop, LifecycleInv, OnlyCurrentLives, Quiet, HalfStarted
<1>4. ActiveWasScheduled' /\ HandlersAreAwaited' /\ FindsItsServer'
  BY DEF Stop, LifecycleInv, ActiveWasScheduled, HandlersAreAwaited, FindsItsServer
<1> QED
  BY <1>1, <1>2, <1>3, <1>4 DEF LifecycleInv

\* Where control goes after a Shutdown call: a Stop that is not failing after it was not
\* failing before.
LEMMA NextShutdownType ==
    ASSUME control \in Calls, NEW failed \in BOOLEAN, NextShutdown(failed)
    PROVE  /\ control' \in Calls
           /\ control'.network = "tcp"
           /\ control'.pc = IF control.network = "udp" THEN "shutdown" ELSE "return"
           /\ ~control'.failed => ~control.failed /\ ~failed
<1> DEFINE b == control.failed \/ failed
           next == IF control.network = "udp" THEN "shutdown" ELSE "return"
<1>1. control.failed \in BOOLEAN /\ control.network \in Networks
  BY DEF Calls
<1>2. b \in BOOLEAN
  BY <1>1
<1>3. next \in {"idle", "listen", "shutdown", "wait", "return"} /\ "tcp" \in Networks
  BY DEF Networks
<1>4. control' = Control(next, "tcp", b)
  BY Zenon DEF NextShutdown
<1> HIDE DEF b, next
<1>5. /\ control' \in Calls
      /\ control'.network = "tcp"
      /\ control'.pc = next
      /\ control'.failed = b
  <2>1. /\ Control(next, "tcp", b) \in Calls
        /\ Control(next, "tcp", b).network = "tcp"
        /\ Control(next, "tcp", b).pc = next
        /\ Control(next, "tcp", b).failed = b
    BY <1>2, <1>3, ControlType
  <2> QED
    BY <1>4, <2>1, Zenon
<1>6. b => control'.failed
  <2> SUFFICES ASSUME b PROVE control'.failed
    OBVIOUS
  <2>1. b = TRUE
    OBVIOUS
  <2> QED
    BY <1>5, <2>1, Zenon
<1>7. ~b => ~control.failed /\ ~failed
  BY Zenon DEF b
<1>8. control'.pc = IF control.network = "udp" THEN "shutdown" ELSE "return"
  BY <1>5, Zenon DEF next
<1> QED
  BY <1>5, <1>6, <1>7, <1>8, Zenon

\* A Shutdown call that ends without an error leaves its server quiet, so what the Stop
\* has established grows by one network.
LEMMA ShutdownEnds ==
    ASSUME LifecycleInv, control.pc \in {"shutdown", "wait"}, NEW failed \in BOOLEAN,
           NextShutdown(failed),
           IsShut("udp") => IsShut("udp")',
           NEW CONSTANT n \in Networks, n = control.network, ~failed => IsShut(n)'
    PROVE  /\ control' \in Calls
           /\ control'.pc \in {"shutdown", "return"}
           /\ StopProgress'
<1>1. control \in Calls
  BY DEF LifecycleInv, LifecycleTypeOK
<1>2. /\ control' \in Calls
      /\ control'.network = "tcp"
      /\ control'.pc = IF control.network = "udp" THEN "shutdown" ELSE "return"
      /\ ~control'.failed => ~control.failed /\ ~failed
  BY <1>1, NextShutdownType
<1>3. control.network \in {"udp", "tcp"}
  BY <1>1 DEF Calls, Networks
<1>4. CASE control.network = "udp"
  BY <1>2, <1>4 DEF StopProgress
<1>5. CASE control.network = "tcp"
  <2>1. control'.pc = "return"
    BY <1>2, <1>5
  <2>2. ~control'.failed => IsShut("udp")' /\ IsShut("tcp")'
    BY <1>2, <1>5 DEF LifecycleInv, StopProgress
  <2> QED
    BY <1>2, <2>1, <2>2 DEF StopProgress
<1> QED
  BY <1>3, <1>4, <1>5

\* The rest of the invariant when only sockets and flags go and control leaves "listen".
LEMMA FewerSocketsAndFlags ==
    ASSUME LifecycleInv, control' \in Calls, control.pc # "listen", control'.pc # "listen",
           sockets' \subseteq sockets, active' \subseteq active,
           UNCHANGED <<server, goroutine, handlers, starts, stops>>
    PROVE  /\ LifecycleTypeOK' /\ FieldsAgree' /\ ListensFromNil' /\ OnlyCurrentLives'
           /\ ActiveWasScheduled' /\ HandlersAreAwaited' /\ FindsItsServer'
           /\ IsShut("udp") => IsShut("udp")'
<1>1. LifecycleTypeOK' /\ FieldsAgree' /\ ListensFromNil' /\ FindsItsServer'
  BY DEF LifecycleInv, LifecycleTypeOK, FieldsAgree, ListensFromNil, FindsItsServer
<1>2. \A s : Quiet(s) => Quiet(s)'
  BY DEF Quiet
<1>3. OnlyCurrentLives'
  BY <1>2 DEF LifecycleInv, OnlyCurrentLives, HalfStarted
<1>4. ActiveWasScheduled' /\ HandlersAreAwaited'
  BY DEF LifecycleInv, ActiveWasScheduled, HandlersAreAwaited
<1>5. IsShut("udp") => IsShut("udp")'
  BY <1>2 DEF IsShut
<1> QED
  BY <1>1, <1>3, <1>4, <1>5

\* Stop shuts a server down.
LEMMA ShutdownStep == ASSUME LifecycleInv, Shutdown PROVE LifecycleInv'
<1>0. PICK n \in Networks : n = control.network
  BY DEF LifecycleInv, LifecycleTypeOK, Calls
<1> DEFINE s == <<n, server[n]>>
<1>1. /\ control.pc = "shutdown" /\ control \in Calls
      /\ control.failed \in BOOLEAN
      /\ UNCHANGED <<server, goroutine, handlers, starts, stops>>
  BY DEF Shutdown, LifecycleInv, LifecycleTypeOK, Calls
<1>2. CASE server[n] = 0 /\ NextShutdown(FALSE) /\ UNCHANGED <<sockets, active>>
  <2>1. IsShut("udp") => IsShut("udp")'
    BY <1>1, <1>2 DEF IsShut, Quiet
  <2>2. IsShut(n)'
    BY <1>1, <1>2 DEF IsShut
  <2>3. control' \in Calls /\ control'.pc \in {"shutdown", "return"} /\ StopProgress'
    BY <1>0, <1>1, <1>2, <2>1, <2>2, ShutdownEnds
  <2> QED
    BY <1>1, <1>2, <2>3, FewerSocketsAndFlags DEF LifecycleInv
<1>3. CASE NextShutdown(TRUE) /\ UNCHANGED <<sockets, active>>
  <2>1. IsShut("udp") => IsShut("udp")'
    BY <1>1, <1>3 DEF IsShut, Quiet
  <2>2. control' \in Calls /\ control'.pc \in {"shutdown", "return"} /\ StopProgress'
    BY <1>0, <1>1, <1>3, <2>1, ShutdownEnds
  <2> QED
    BY <1>1, <1>3, <2>2, FewerSocketsAndFlags DEF LifecycleInv
<1>4. CASE /\ s \in active
           /\ active' = active \ {s}
           /\ sockets' = IF n = "tcp" THEN sockets \ {s} ELSE sockets
           /\ control' = Control("wait", n, control.failed)
  <2>1. /\ control' \in Calls /\ control'.pc = "wait" /\ control'.network = n
        /\ control'.failed = control.failed
    BY <1>1, <1>4, ControlType
  <2>2. sockets' \subseteq sockets /\ active' \subseteq active
    BY <1>4
  <2>3. /\ LifecycleTypeOK' /\ FieldsAgree' /\ ListensFromNil' /\ OnlyCurrentLives'
        /\ ActiveWasScheduled' /\ HandlersAreAwaited' /\ FindsItsServer'
        /\ IsShut("udp") => IsShut("udp")'
    BY <1>1, <2>1, <2>2, FewerSocketsAndFlags
  <2>4. server[n] # 0 /\ goroutine[s] # "spawned"
    BY <1>1, <1>4, LifecycleAssumption
    DEF LifecycleInv, LifecycleTypeOK, ActiveWasScheduled, Servers
  <2>5. StopProgress'
    BY <1>0, <1>1, <1>4, <2>1, <2>3, <2>4 DEF LifecycleInv, StopProgress
  <2> QED
    BY <2>3, <2>5 DEF LifecycleInv
<1> QED
  BY <1>0, <1>2, <1>3, <1>4, Zenon DEF Shutdown

\* Stop waits for a serving goroutine.
LEMMA AwaitGoroutineStep == ASSUME LifecycleInv, AwaitGoroutine PROVE LifecycleInv'
<1>0. PICK n \in Networks : n = control.network
  BY DEF LifecycleInv, LifecycleTypeOK, Calls
<1> DEFINE s == <<n, server[n]>>
<1>1. /\ control.pc = "wait" /\ control \in Calls
      /\ goroutine[s] = "ended"
      /\ sockets' = sockets \ {s}
      /\ NextShutdown(FALSE)
      /\ UNCHANGED <<server, active, goroutine, handlers, starts, stops>>
  BY <1>0 DEF AwaitGoroutine, LifecycleInv, LifecycleTypeOK, Calls
<1>2. server[n] # 0 /\ s \notin active
  BY <1>0, <1>1 DEF LifecycleInv, StopProgress
<1>3. s \notin handlers
  BY <1>1 DEF LifecycleInv, HandlersAreAwaited
<1>4. IsShut(n)'
  BY <1>1, <1>2, <1>3 DEF IsShut, Quiet
<1>5. IsShut("udp") => IsShut("udp")'
  BY <1>1 DEF IsShut, Quiet
<1>6. control' \in Calls /\ control'.pc \in {"shutdown", "return"} /\ StopProgress'
  BY <1>0, <1>1, <1>4, <1>5, ShutdownEnds
<1> QED
  BY <1>1, <1>6, FewerSocketsAndFlags DEF LifecycleInv

\* The fields are cleared only when both servers are quiet.
LEMMA StopReturnStep == ASSUME LifecycleInv, StopReturn PROVE LifecycleInv'
<1>1. /\ control.pc = "return" /\ control' \in Calls /\ control'.pc = "idle"
      /\ UNCHANGED <<sockets, active, goroutine, handlers, starts, stops>>
  BY ResultType DEF StopReturn
<1>2. ListensFromNil' /\ StopProgress'
  BY <1>1 DEF ListensFromNil, StopProgress
<1>3. CASE UNCHANGED server
  BY <1>1, <1>2, <1>3, FewerSocketsAndFlags DEF LifecycleInv
<1>4. CASE ~control.failed /\ server' = [m \in Networks |-> 0]
  <2>1. IsShut("udp") /\ IsShut("tcp")
    BY <1>1, <1>4 DEF LifecycleInv, StopProgress
  <2>2. \A s \in Servers : s = <<s[1], s[2]>> /\ s[1] \in Networks /\ s[2] # 0
    BY LifecycleAssumption DEF Servers
  <2>3. \A s \in Servers : Quiet(s)
    BY <1>1, <2>1, <2>2 DEF LifecycleInv, OnlyCurrentLives, HalfStarted, IsShut, Networks
  <2>4. \A s \in Servers : Quiet(s)'
    BY <1>1, <2>3 DEF Quiet
  <2>5. LifecycleTypeOK' /\ FieldsAgree'
    BY <1>1, <1>4, LifecycleAssumption DEF LifecycleInv, LifecycleTypeOK, FieldsAgree, Networks
  <2>6. OnlyCurrentLives' /\ FindsItsServer'
    BY <2>4 DEF OnlyCurrentLives, FindsItsServer, Quiet
  <2>7. ActiveWasScheduled' /\ HandlersAreAwaited'
    BY <1>1 DEF LifecycleInv, ActiveWasScheduled, HandlersAreAwaited
  <2> QED
    BY <1>2, <2>5, <2>6, <2>7 DEF LifecycleInv
<1> QED
  BY <1>3, <1>4, Zenon DEF StopReturn

-----------------------------------------------------------------------------
(* The theorems. *)

\* Every step keeps the invariant.
LEMMA LifecycleNextStep == LifecycleInv /\ [LifecycleNext]_lifecycleVars => LifecycleInv'
<1> SUFFICES ASSUME LifecycleInv, [LifecycleNext]_lifecycleVars PROVE LifecycleInv'
  OBVIOUS
<1>1. ASSUME NEW s \in Servers,
             Activate(s) \/ Handle(s) \/ Handled(s) \/ LeaveLoop(s) \/ BreakLoop(s) \/ Drained(s)
      PROVE  LifecycleInv'
  BY <1>1, ActivateStep, HandleStep, HandledStep, LoopEndsStep, DrainedStep
<1>2. CASE UNCHANGED lifecycleVars
  BY <1>2
  DEF lifecycleVars, LifecycleInv, LifecycleTypeOK, FieldsAgree, ListensFromNil,
      OnlyCurrentLives, ActiveWasScheduled, HandlersAreAwaited, FindsItsServer, StopProgress,
      Quiet, HalfStarted, IsShut
<1>3. CASE CallStep
  BY <1>3, ListenTCPStep, ShutdownStep, AwaitGoroutineStep, StopReturnStep DEF CallStep
<1> QED
  BY <1>1, <1>2, <1>3, StartRefusedStep, ListenUDPStep, StopStep
  DEF LifecycleNext, LifecycleRest

\* The invariant holds in every reachable state.
LEMMA LifecycleInvariant == LifecycleSpec => []LifecycleInv
BY InitInv, LifecycleNextStep, PTL DEF LifecycleSpec

\* For any number of Start and Stop calls, the state is well typed: in particular no
\* goroutine has panicked on a field that Stop had cleared.
THEOREM LifecycleTypeCorrect == LifecycleSpec => []LifecycleTypeOK
<1>1. LifecycleInv => LifecycleTypeOK
  BY DEF LifecycleInv
<1> QED
  BY <1>1, LifecycleInvariant, PTL

\* However late a goroutine of Start is scheduled, the field it reads holds its server.
THEOREM GoroutineFindsItsServer == LifecycleSpec => []FindsItsServer
<1>1. LifecycleInv => FindsItsServer
  BY DEF LifecycleInv
<1> QED
  BY <1>1, LifecycleInvariant, PTL

\* Between two calls with nil fields nothing of any earlier server is left.
THEOREM StoppedServerIsQuiet == LifecycleSpec => []StoppedIsQuiet
<1>1. LifecycleInv => StoppedIsQuiet
  <2> SUFFICES ASSUME LifecycleInv, control.pc = "idle", \A n \in Networks : server[n] = 0
               PROVE  /\ sockets = {} /\ active = {} /\ handlers = {}
                      /\ \A s \in Servers : goroutine[s] \in {"none", "ended"}
    BY DEF StoppedIsQuiet
  <2>1. \A s \in Servers : s[1] \in Networks /\ s[2] # 0
    BY LifecycleAssumption DEF Servers
  <2>2. \A s \in Servers : Quiet(s)
    BY <2>1 DEF LifecycleInv, OnlyCurrentLives, HalfStarted
  <2> QED
    BY <2>2 DEF Quiet, LifecycleInv, LifecycleTypeOK
<1> QED
  BY <1>1, LifecycleInvariant, PTL
=============================================================================

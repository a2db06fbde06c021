--------------------------- MODULE ServerLifecycle ---------------------------
(***************************************************************************)
(* Server.Start and Server.Stop against the two goroutines that Start      *)
(* spawns.  The application calls Start and Stop one after the other.  A   *)
(* goroutine looks its dns.Server up in the Server's fields when it is     *)
(* first scheduled, which may be long after Start has returned.            *)
(*                                                                         *)
(* A dns.Server is named by its network and by the number of the Start     *)
(* call that made it; a field that is nil holds 0.  The server has a       *)
(* handler: ensureHandler provides one whenever there is a repository.     *)
(***************************************************************************)
EXTENDS Naturals

CONSTANTS
    MaxStarts,      \* bound on the number of Start calls
    MaxStops        \* bound on the number of Stop calls

ASSUME LifecycleAssumption == MaxStarts \in Nat /\ MaxStops \in Nat

VARIABLES
    server,       \* Server.udpServer and Server.tcpServer
    sockets,      \* the packet connections and listeners that are open
    active,       \* the dns.Servers whose started flag is set
    goroutine,    \* the goroutine of every dns.Server
    handlers,     \* the dns.Servers that are in the middle of a request
    control,      \* the call of the application, or the result of the last one
    starts,       \* Start calls so far
    stops         \* Stop calls so far

lifecycleVars == <<server, sockets, active, goroutine, handlers, control, starts, stops>>

Networks == {"udp", "tcp"}

Servers == Networks \X (1 .. MaxStarts)

\* failed: one of the Shutdown calls of this Stop has returned an error.
Control(pc, network, failed) ==
    [pc |-> pc, network |-> network, failed |-> failed, result |-> "none"]

Result(result) == [pc |-> "idle", network |-> "udp", failed |-> FALSE, result |-> result]

LifecycleInit ==
    /\ server = [n \in Networks |-> 0]
    /\ sockets = {}
    /\ active = {}
    /\ goroutine = [s \in Servers |-> "none"]
    /\ handlers = {}
    /\ control = Result("none")
    /\ starts = 0
    /\ stops = 0

-----------------------------------------------------------------------------
(* Start. *)

\* The system lets one socket listen on an address.
AddressFree(network) == \A s \in sockets : s[1] # network

StartRefused ==
    /\ control.pc = "idle" /\ starts < MaxStarts
    /\ \E n \in Networks : server[n] # 0
    /\ starts' = starts + 1
    /\ control' = Result("already_started")
    /\ UNCHANGED <<server, sockets, active, goroutine, handlers, stops>>

\* listenPacket, which may fail for any reason.
ListenUDP ==
    /\ control.pc = "idle" /\ starts < MaxStarts
    /\ \A n \in Networks : server[n] = 0
    /\ starts' = starts + 1
    /\ \/ /\ AddressFree("udp")
          /\ sockets' = sockets \cup {<<"udp", starts'>>}
          /\ control' = Control("listen", "tcp", FALSE)
       \/ /\ control' = Result("start_failed")
          /\ UNCHANGED sockets
    /\ UNCHANGED <<server, active, goroutine, handlers, stops>>

\* Mutant: the packet connection stays open when the listener fails.
ListenTCPOnly ==
    /\ control.pc = "listen"
    /\ control' = Result("start_failed")
    /\ UNCHANGED <<server, sockets, active, goroutine, handlers, starts, stops>>

\* listen, and the rest of Start.
ListenTCP ==
    /\ control.pc = "listen"
    /\ \/ /\ AddressFree("tcp")
          /\ sockets' = sockets \cup {<<"tcp", starts>>}
          /\ server' = [n \in Networks |-> starts]
          /\ goroutine' = [s \in Servers |-> IF s[2] = starts THEN "spawned" ELSE goroutine[s]]
          /\ control' = Result("started")
       \/ /\ sockets' = sockets \ {<<"udp", starts>>}
          /\ control' = Result("start_failed")
          /\ UNCHANGED <<server, goroutine>>
    /\ UNCHANGED <<active, handlers, starts, stops>>

-----------------------------------------------------------------------------
(* The goroutines: ActivateAndServe of the dns.Server in the field. *)

Moves(s, from, to) ==
    /\ goroutine[s] = from
    /\ goroutine' = [goroutine EXCEPT ![s] = to]
    /\ UNCHANGED <<server, handlers, control, starts, stops>>

Activate(s) ==
    LET found == <<s[1], server[s[1]]>>
    IN  CASE server[s[1]] = 0 ->
                Moves(s, "spawned", "panicked") /\ UNCHANGED <<sockets, active>>
          [] server[s[1]] # 0 /\ found \in active ->
                Moves(s, "spawned", "ended") /\ UNCHANGED <<sockets, active>>
          [] OTHER ->
                /\ Moves(s, "spawned", "serving")
                /\ active' = active \cup {found}
                /\ UNCHANGED sockets

\* The loop reads a request and starts its handler, or a handler returns.
Handle(s) ==
    /\ goroutine[s] = "serving" /\ s \notin handlers
    /\ handlers' = handlers \cup {s}
    /\ UNCHANGED <<server, sockets, active, goroutine, control, starts, stops>>

Handled(s) ==
    /\ s \in handlers
    /\ handlers' = handlers \ {s}
    /\ UNCHANGED <<server, sockets, active, goroutine, control, starts, stops>>

\* The loop ends because the server was shut down, or by a read error.
LeaveLoop(s) ==
    /\ s \notin active
    /\ Moves(s, "serving", "draining")
    /\ UNCHANGED <<sockets, active>>

BreakLoop(s) ==
    /\ s \in active
    /\ Moves(s, "serving", "draining")
    /\ UNCHANGED <<sockets, active>>

\* It waits for its handlers, and a listener is closed.
Drained(s) ==
    /\ s \notin handlers
    /\ Moves(s, "draining", "ended")
    /\ sockets' = IF s[1] = "tcp" THEN sockets \ {s} ELSE sockets
    /\ UNCHANGED active

-----------------------------------------------------------------------------
(* Stop: Shutdown of the one server, then of the other. *)

Stop ==
    /\ control.pc = "idle" /\ stops < MaxStops
    /\ stops' = stops + 1
    /\ control' = Control("shutdown", "udp", FALSE)
    /\ UNCHANGED <<server, sockets, active, goroutine, handlers, starts>>

\* The Shutdown call of the network at hand is over.
NextShutdown(failed) ==
    control' = IF control.network = "udp"
               THEN Control("shutdown", "tcp", control.failed \/ failed)
               ELSE Control("return", "tcp", control.failed \/ failed)

\* Mutant: Shutdown waits for a server that has not been started, too.
ShutdownPatiently ==
    LET n == control.network
    IN  /\ control.pc = "shutdown"
        /\ IF server[n] = 0 THEN NextShutdown(FALSE)
           ELSE control' = Control("wait", n, control.failed)
        /\ active' = active \ {<<n, server[n]>>}
        /\ UNCHANGED <<server, sockets, goroutine, handlers, starts, stops>>

\* Shutdown of dns.Server returns an error when the server has not been started; else
\* it clears the flag, closes a listener and makes pending reads return.
Shutdown ==
    LET n == control.network
        s == <<n, server[n]>>
    IN  /\ control.pc = "shutdown"
        /\ \/ server[n] = 0 /\ NextShutdown(FALSE) /\ UNCHANGED <<sockets, active>>
           \/ /\ server[n] # 0 /\ s \notin active
              /\ NextShutdown(TRUE)
              /\ UNCHANGED <<sockets, active>>
           \/ /\ s \in active
              /\ active' = active \ {s}
              /\ sockets' = IF n = "tcp" THEN sockets \ {s} ELSE sockets
              /\ control' = Control("wait", n, control.failed)
        /\ UNCHANGED <<server, goroutine, handlers, starts, stops>>

\* It waits for the goroutine to return and closes the packet connection.
AwaitGoroutine ==
    LET s == <<control.network, server[control.network]>>
    IN  /\ control.pc = "wait"
        /\ goroutine[s] = "ended"
        /\ sockets' = sockets \ {s}
        /\ NextShutdown(FALSE)
        /\ UNCHANGED <<server, active, goroutine, handlers, starts, stops>>

\* Mutant: the fields are cleared whether or not the servers could be shut down.
StopReturnCleared ==
    /\ control.pc = "return"
    /\ control' = Result(IF control.failed THEN "stop_failed" ELSE "stopped")
    /\ server' = [n \in Networks |-> 0]
    /\ UNCHANGED <<sockets, active, goroutine, handlers, starts, stops>>

StopReturn ==
    /\ control.pc = "return"
    /\ \/ /\ control.failed
          /\ control' = Result("stop_failed")
          /\ UNCHANGED server
       \/ /\ ~control.failed
          /\ control' = Result("stopped")
          /\ server' = [n \in Networks |-> 0]
    /\ UNCHANGED <<sockets, active, goroutine, handlers, starts, stops>>

\* No call is left within the bounds.
LifecycleRest ==
    /\ control.pc = "idle" /\ starts = MaxStarts /\ stops = MaxStops
    /\ UNCHANGED lifecycleVars

-----------------------------------------------------------------------------
\* The steps of a call after the first.
CallStep == ListenTCP \/ Shutdown \/ AwaitGoroutine \/ StopReturn

LifecycleNext ==
    \/ StartRefused \/ ListenUDP \/ Stop \/ CallStep
    \/ \E s \in Servers : Activate(s) \/ Handle(s) \/ Handled(s) \/ LeaveLoop(s)
                             \/ BreakLoop(s) \/ Drained(s)
    \/ LifecycleRest

LifecycleSpec == LifecycleInit /\ [][LifecycleNext]_lifecycleVars

\* Goroutines are scheduled and handlers return; requests and read errors need not come.
LifecycleFairSpec ==
    /\ LifecycleSpec
    /\ WF_lifecycleVars(CallStep)
    /\ \A s \in Servers :
          /\ WF_lifecycleVars(Activate(s) \/ LeaveLoop(s) \/ Drained(s))
          /\ WF_lifecycleVars(Handled(s))

-----------------------------------------------------------------------------
(* Properties. *)

\* The calls of the application, and between two calls the result of the last one.
Calls ==
    [pc : {"idle", "listen", "shutdown", "wait", "return"}, network : Networks, failed : BOOLEAN,
     result : {"none", "already_started", "start_failed", "started", "stopped", "stop_failed"}]

\* The type invariant; a goroutine that dereferenced nil would have panicked.
LifecycleTypeOK ==
    /\ server \in [Networks -> 0 .. MaxStarts]
    /\ sockets \subseteq Servers
    /\ active \subseteq Servers
    /\ goroutine \in [Servers -> {"none", "spawned", "serving", "draining", "ended"}]
    /\ handlers \subseteq Servers
    /\ control \in Calls
    /\ starts \in 0 .. MaxStarts
    /\ stops \in 0 .. MaxStops

\* A goroutine that has not run yet will find in the field the dns.Server it was
\* spawned for, however late it is scheduled and whatever Stop and Start calls come
\* first: it neither dereferences nil nor serves another server's socket.
FindsItsServer ==
    \A s \in Servers : goroutine[s] = "spawned" => server[s[1]] = s[2]

\* When the fields are nil between two calls, after a Stop that succeeded or a Start
\* that failed halfway, nothing of any earlier server is left: no socket that would make
\* the next Start fail, no goroutine, and no handler that still uses the repository,
\* which the application closes next.
StoppedIsQuiet ==
    control.pc = "idle" /\ (\A n \in Networks : server[n] = 0) =>
        /\ sockets = {}
        /\ active = {}
        /\ handlers = {}
        /\ \A s \in Servers : goroutine[s] \in {"none", "ended"}

\* Every Stop returns, whichever goroutine it overtakes.
StopReturns ==
    control.pc = "shutdown" ~> control.pc = "idle"

\* A Start that is refused because the server has been started is refused while one of
\* its networks is served, or is about to be.
AlreadyStartedServes ==
    control.result = "already_started" =>
        \E n \in Networks :
            LET s == <<n, server[n]>>
            IN  server[n] # 0 /\ (s \in active \/ goroutine[s] = "spawned")
=============================================================================

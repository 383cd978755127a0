--------------------------- MODULE ServerShutdown ---------------------------
(***************************************************************************)
(* Serving and stopping (main.py run_server over the standard library's    *)
(* socketserver).  serve_forever accepts connections in the thread that    *)
(* called it and handles each in a daemon thread of its own; shutdown sets *)
(* a flag and waits until serve_forever has seen it.  run_server calls     *)
(* shutdown from a signal handler, which Python runs in the main thread,   *)
(* on top of serve_forever; the tests call it from another thread.         *)
(***************************************************************************)
EXTENDS Naturals

CONSTANTS
    Requests,   \* connections that may come in
    InHandler   \* is shutdown called from the signal handler (run_server) or
                \* from a thread other than the server's (the tests)?

ASSUME ShutdownAssumption == InHandler \in BOOLEAN

VARIABLES
    loop,       \* serve_forever: "starting", "serving", "stopped"
    flag,       \* the shutdown request
    isShutDown, \* the event that serve_forever sets when it leaves
    caller,     \* shutdown: "idle", "waiting", "returned"
    request     \* what became of each connection

vars == <<loop, flag, isShutDown, caller, request>>

Init ==
    /\ loop = "starting"
    /\ flag = FALSE
    /\ isShutDown = FALSE
    /\ caller = "idle"
    /\ request = [r \in Requests |-> "none"]

\* The main thread can go on with serve_forever: no handler runs on top.
MainFree == ~(InHandler /\ caller = "waiting")

\* serve_forever enters its loop.
Serve ==
    /\ loop = "starting" /\ MainFree
    /\ loop' = "serving"
    /\ isShutDown' = FALSE
    /\ UNCHANGED <<flag, caller, request>>

\* A client connects; the listening socket is there from the start.
Connect(r) ==
    /\ request[r] = "none"
    /\ loop # "stopped"
    /\ request' = [request EXCEPT ![r] = "queued"]
    /\ UNCHANGED <<loop, flag, isShutDown, caller>>

\* The loop takes a connection and starts a thread for it.
Accept(r) ==
    /\ loop = "serving" /\ MainFree /\ ~flag
    /\ request[r] = "queued"
    /\ request' = [request EXCEPT ![r] = "handled"]
    /\ UNCHANGED <<loop, flag, isShutDown, caller>>

\* The request's thread sends the response.
Respond(r) ==
    /\ request[r] = "handled"
    /\ request' = [request EXCEPT ![r] = "answered"]
    /\ UNCHANGED <<loop, flag, isShutDown, caller>>

\* Mutants: the loop takes everybody who waits before it leaves; it leaves
\* without having been told.
DrainingStop ==
    /\ loop = "serving" /\ MainFree /\ flag
    /\ \A r \in Requests : request[r] # "queued"
    /\ loop' = "stopped"
    /\ flag' = FALSE
    /\ isShutDown' = TRUE
    /\ UNCHANGED <<caller, request>>

SpontaneousStop ==
    /\ loop = "serving" /\ MainFree
    /\ loop' = "stopped"
    /\ flag' = FALSE
    /\ isShutDown' = TRUE
    /\ UNCHANGED <<caller, request>>

\* The loop sees the flag, clears it and leaves.
Stop ==
    /\ loop = "serving" /\ MainFree /\ flag
    /\ loop' = "stopped"
    /\ flag' = FALSE
    /\ isShutDown' = TRUE
    /\ UNCHANGED <<caller, request>>

\* shutdown is called: SIGINT or SIGTERM arrives, or a test tears down.
Shutdown ==
    /\ caller = "idle"
    /\ loop # "stopped"
    /\ InHandler \/ loop = "serving"
    /\ caller' = "waiting"
    /\ flag' = TRUE
    /\ UNCHANGED <<loop, isShutDown, request>>

\* shutdown's wait is over.
Return ==
    /\ caller = "waiting"
    /\ isShutDown
    /\ caller' = "returned"
    /\ UNCHANGED <<loop, flag, isShutDown, request>>

Next ==
    \/ Serve \/ Stop \/ Shutdown \/ Return
    \/ \E r \in Requests : Connect(r) \/ Accept(r) \/ Respond(r)

\* The threads are scheduled; nobody has to connect or to stop the server.
Spec ==
    /\ Init /\ [][Next]_vars
    /\ WF_vars(Serve) /\ WF_vars(Stop) /\ WF_vars(Return)
    /\ \A r \in Requests : SF_vars(Accept(r)) /\ WF_vars(Respond(r))

-----------------------------------------------------------------------------
\* The shutdown request is there only as long as somebody waits for it to be
\* granted.
TypeOK ==
    /\ loop \in {"starting", "serving", "stopped"}
    /\ flag \in BOOLEAN /\ isShutDown \in BOOLEAN
    /\ caller \in {"idle", "waiting", "returned"}
    /\ request \in [Requests -> {"none", "queued", "handled", "answered"}]
    /\ flag => caller = "waiting"

\* shutdown returns only after the accept loop has ended, so that the tests,
\* which close the socket next, take it from nobody.
ReturnsAfterLoop == caller = "returned" => loop = "stopped"

\* A call of shutdown ends the server ("Graceful shutdown").
ShutdownEnds == caller = "waiting" ~> loop = "stopped"

\* A connection in the queue is taken unless the server is told to stop.
QueuedServed ==
    \A r \in Requests : request[r] = "queued" ~> request[r] # "queued" \/ caller # "idle"
=============================================================================

---------------------------- MODULE HttpGateway ----------------------------
(***************************************************************************)
(* The way of a request through api.py, from the connection to the answer, *)
(* with the callers of scripts/run_voice_console.py at the other end, who  *)
(* send one request at a time and give up waiting after 30 seconds.  All   *)
(* callers come from one address, so that one deque of RateLimiter judges  *)
(* them; a thread of RateLimiter is a handler thread.  The steps are cut   *)
(* where the limiter, the service or the caller is involved; what the      *)
(* operations do is the business of the other modules, here they are       *)
(* carried out or not.                                                     *)
(***************************************************************************)
EXTENDS RateLimiter

CONSTANTS
    Callers,     \* programs that call the server
    NoThread,    \* not a handler thread
    NoCaller,    \* not a caller
    MaxRequests, \* bound on the requests
    MaxTimeouts  \* bound on the times a caller gives up

ASSUME GatewayAssumption ==
    /\ NoThread \notin Clients /\ NoCaller \notin Callers
    /\ IsFiniteSet(Clients)   \* a thread per open connection
    /\ MaxRequests \in Nat /\ MaxTimeouts \in Nat

VARIABLES
    waiting,     \* per caller: the thread whose answer it waits for, or NoThread
    gaveUp,      \* history, per caller: times it did not wait for the end
    sent,        \* history: requests sent
    caller,      \* per thread: whom it serves, or NoCaller
    kind,        \* per thread: what its request is like
    stage,       \* per thread: "free", "received", "limit", "check", "work", "answer", "apology"
    status,      \* per thread: the class of the answer, or "none"
    carriedOut   \* history, per thread: has the operation done something?

callerVars == <<waiting, gaveUp, sent>>
requestVars == <<caller, kind, stage, status, carriedOut>>
limiterVars == vars
gatewayVars == <<limiterVars, callerVars, requestVars>>

\* A POST that is as it should be; one without TLS; one with a key, a path, an
\* identifier, a body or a field that is refused; a GET.
Kinds == {"post", "no tls", "malformed", "get"}

GatewayInit ==
    /\ Init
    /\ waiting = [k \in Callers |-> NoThread]
    /\ gaveUp = [k \in Callers |-> 0]
    /\ sent = 0
    /\ caller = [c \in Clients |-> NoCaller]
    /\ kind = [c \in Clients |-> "get"]
    /\ stage = [c \in Clients |-> "free"]
    /\ status = [c \in Clients |-> "none"]
    /\ carriedOut = [c \in Clients |-> FALSE]

GoTo(c, s) == stage' = [stage EXCEPT ![c] = s]

\* The answer of c is decided.
Answers(c, s) ==
    /\ GoTo(c, "answer")
    /\ status' = [status EXCEPT ![c] = s]

\* send_voice_turn: a request on a connection, hence a thread, of its own.
Send(k, c, r) ==
    /\ waiting[k] = NoThread
    /\ stage[c] = "free"
    /\ sent < MaxRequests
    /\ sent' = sent + 1
    /\ waiting' = [waiting EXCEPT ![k] = c]
    /\ caller' = [caller EXCEPT ![c] = k]
    /\ kind' = [kind EXCEPT ![c] = r]
    /\ GoTo(c, "received")
    /\ UNCHANGED <<limiterVars, gaveUp, status, carriedOut>>

\* _do_get_impl: none of the GET routes is limited or changes anything a
\* caller could see; TLS, a role, a key or the thing asked for may be missing.
Get(c) ==
    /\ stage[c] = "received" /\ kind[c] = "get"
    /\ Answers(c, "ok") \/ Answers(c, "refused")
    /\ UNCHANGED <<limiterVars, callerVars, caller, kind, carriedOut>>

\* _do_post_impl: TLS is asked for before anything else, ...
Tls(c) ==
    /\ stage[c] = "received" /\ kind[c] # "get"
    /\ IF kind[c] = "no tls" THEN Answers(c, "refused") ELSE GoTo(c, "limit") /\ UNCHANGED status
    /\ UNCHANGED <<limiterVars, callerVars, caller, kind, carriedOut>>

\* ... then the limiter, which reads the clock ...
Arrive(c) ==
    /\ stage[c] = "limit"
    /\ Read(c)
    /\ UNCHANGED <<callerVars, requestVars>>

\* ... and decides, also about requests that are refused below, ...
Limit429(c) ==
    /\ stage[c] = "limit"
    /\ Decide(c)
    /\ IF refused' = -1 THEN GoTo(c, "check") /\ UNCHANGED status ELSE Answers(c, "refused")
    /\ UNCHANGED <<callerVars, caller, kind, carriedOut>>

\* Mutant: a field is looked at when the operation has begun.
LateCheck(c) ==
    /\ stage[c] = "check"
    /\ IF kind[c] = "malformed"
       THEN Answers(c, "refused") /\ carriedOut' = [carriedOut EXCEPT ![c] = TRUE]
       ELSE GoTo(c, "work") /\ UNCHANGED <<status, carriedOut>>
    /\ UNCHANGED <<limiterVars, callerVars, caller, kind>>

\* ... then the key, the route with its identifier, the body and its fields.
Check(c) ==
    /\ stage[c] = "check"
    /\ IF kind[c] = "malformed" THEN Answers(c, "refused") ELSE GoTo(c, "work") /\ UNCHANGED status
    /\ UNCHANGED <<limiterVars, callerVars, caller, kind, carriedOut>>

\* The operation returns: the call is not there, ...
NotFound(c) ==
    /\ stage[c] = "work"
    /\ Answers(c, "refused")
    /\ UNCHANGED <<limiterVars, callerVars, caller, kind, carriedOut>>

\* Mutant: the caller is told as soon as its request is through the gates.
EarlyWork(c) ==
    /\ stage[c] = "work"
    /\ Answers(c, "ok")
    /\ carriedOut' = [carriedOut EXCEPT ![c] = TRUE]
    /\ waiting' = [k \in Callers |-> IF waiting[k] = c THEN NoThread ELSE waiting[k]]
    /\ UNCHANGED <<limiterVars, gaveUp, sent, caller, kind>>

\* ... or all has been done; ...
Work(c) ==
    /\ stage[c] = "work"
    /\ Answers(c, "ok")
    /\ carriedOut' = [carriedOut EXCEPT ![c] = TRUE]
    /\ UNCHANGED <<limiterVars, callerVars, caller, kind>>

\* ... or it raises with a part done: a 500, or a 502 of the media route.
Raise(c) ==
    /\ stage[c] = "work"
    /\ Answers(c, "failed")
    /\ carriedOut' \in {carriedOut, [carriedOut EXCEPT ![c] = TRUE]}
    /\ UNCHANGED <<limiterVars, callerVars, caller, kind>>

\* The thread ends with the connection.
Ends(c) ==
    /\ GoTo(c, "free")
    /\ caller' = [caller EXCEPT ![c] = NoCaller]
    /\ kind' = [kind EXCEPT ![c] = "get"]
    /\ status' = [status EXCEPT ![c] = "none"]
    /\ carriedOut' = [carriedOut EXCEPT ![c] = FALSE]

\* The answer reaches the caller that waits for it ...
Respond(c) ==
    /\ stage[c] = "answer"
    /\ waiting[caller[c]] = c
    /\ waiting' = [waiting EXCEPT ![caller[c]] = NoThread]
    /\ Ends(c)
    /\ UNCHANGED <<limiterVars, gaveUp, sent>>

\* ... or the closed connection of one that gave up: the socket takes it, or
\* raises, which is answered with a 500 on the same socket.
RespondToNobody(c) ==
    /\ stage[c] \in {"answer", "apology"}
    /\ waiting[caller[c]] # c
    /\ \/ Ends(c)
       \/ /\ stage[c] = "answer"
          /\ GoTo(c, "apology") /\ status' = [status EXCEPT ![c] = "failed"]
          /\ UNCHANGED <<caller, kind, carriedOut>>
    /\ UNCHANGED <<limiterVars, callerVars>>

\* urlopen's timeout: the console prints the exception and prompts for the
\* next turn; nobody tells the handler.
Timeout(k) ==
    /\ waiting[k] # NoThread
    /\ gaveUp[k] < MaxTimeouts
    /\ waiting' = [waiting EXCEPT ![k] = NoThread]
    /\ gaveUp' = [gaveUp EXCEPT ![k] = gaveUp[k] + 1]
    /\ UNCHANGED <<limiterVars, requestVars, sent>>

\* Time passes.
Later == Tick /\ UNCHANGED <<callerVars, requestVars>>

Gates(c) == Get(c) \/ Tls(c) \/ Arrive(c) \/ Limit429(c) \/ Check(c)

Operation(c) == NotFound(c) \/ Work(c) \/ Raise(c)

GatewayNext ==
    \/ \E k \in Callers, c \in Clients, r \in Kinds : Send(k, c, r)
    \/ \E c \in Clients : Gates(c) \/ Operation(c) \/ Respond(c) \/ RespondToNobody(c)
    \/ \E k \in Callers : Timeout(k)
    \/ Later

GatewaySpec == GatewayInit /\ [][GatewayNext]_gatewayVars

-----------------------------------------------------------------------------
(***************************************************************************)
(* Properties.                                                             *)
(***************************************************************************)

\* Who is told that the request was refused may send it again: nothing has
\* been done.  Who is told that it went well need not: all has.
AnswerTellsWhatWasDone ==
    \A c \in Clients :
        /\ status[c] = "refused" => ~carriedOut[c]
        /\ status[c] = "ok" /\ kind[c] # "get" => carriedOut[c]

\* A caller's requests overlap only after it gave up on one: on every other
\* occasion the server is through with the last request when the next one
\* comes, which is what a session without a lock relies on.
OverlapNeedsTimeout ==
    \A k \in Callers : Cardinality({c \in Clients : caller[c] = k}) <= 1 + gaveUp[k]
=============================================================================

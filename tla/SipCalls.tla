------------------------------ MODULE SipCalls ------------------------------
(***************************************************************************)
(* SIP calls under concurrent requests (sip.py, and the routes of api.py   *)
(* that lead there).  A call is an object in a dictionary under its call   *)
(* id; every request looks it up under a lock and then works on the object *)
(* without one.  Starting a call opens a session of its own, so the call   *)
(* object stands for its session, too.  The steps are cut at the calls a   *)
(* thread may be switched out in; `hold` and `status` are assigned with no *)
(* call in between.  A media request runs the voice pipeline of VoiceTurn. *)
(* Timestamps, DTMF (which writes nothing else) and the text of errors are *)
(* left out; what a turn does is SessionService's.                         *)
(***************************************************************************)
EXTENDS VoiceTurn, Integers, FiniteSets

CONSTANTS
    CallIds,      \* what callers name calls by; a caller may use one twice
    Calls,        \* call objects
    NoCall,       \* not a call
    MaxRequests   \* bound on the number of requests

ASSUME CallsAssumption ==
    /\ NoCall \notin Calls /\ CallIds # {}
    /\ IsFiniteSet(Clients)   \* a thread per open connection
    /\ MaxRequests \in Nat

VARIABLES
    registry,   \* _calls: call id -> call object
    status,     \* of each call: "active", "on_hold", "transferred"
    hold,       \* of each call
    retries,    \* of each call: retry_count
    gateway,    \* of each call: failover_gateway
    row,        \* of each call's session, in the database: "none", "bare", "context"
    pc,         \* where each request's thread is
    target,     \* the call id it is about
    object,     \* the call object it works on
    requested,  \* history: requests made
    failed,     \* history: media requests of each call that raised
    paused      \* history, per thread: has its call been on hold since the lookup?

callVars == <<status, hold, retries, gateway>>
threadVars == <<pc, target, object>>
mediaVars == <<paused, voiceVars>>
vars == <<registry, callVars, row, threadVars, requested, failed, mediaVars>>

Operations == {"media", "hold", "resume", "transfer"}

Init ==
    /\ registry = [i \in CallIds |-> NoCall]
    /\ status = [o \in Calls |-> "active"]
    /\ hold = [o \in Calls |-> FALSE]
    /\ retries = [o \in Calls |-> 0]
    /\ gateway = [o \in Calls |-> "primary"]
    /\ row = [o \in Calls |-> "none"]
    /\ pc = [c \in Clients |-> "idle"]
    /\ target = [c \in Clients |-> CHOOSE i \in CallIds : TRUE]
    /\ object = [c \in Clients |-> NoCall]
    /\ requested = 0
    /\ failed = [o \in Calls |-> 0]
    /\ paused = [c \in Clients |-> FALSE]
    /\ VoiceInit

GoTo(c, label) == pc' = [pc EXCEPT ![c] = label]

\* The request is over; its thread lets the call object go.
Leave(c) ==
    /\ GoTo(c, "idle")
    /\ object' = [object EXCEPT ![c] = NoCall]

Accepts(c) == pc[c] = "idle" /\ requested < MaxRequests

\* start_call: a session with an identifier never seen before ...
Start(c, i, o) ==
    /\ Accepts(c)
    /\ row[o] = "none" /\ \A d \in Clients : object[d] # o
    /\ target' = [target EXCEPT ![c] = i]
    /\ object' = [object EXCEPT ![c] = o]
    /\ GoTo(c, "create")
    /\ requested' = requested + 1
    /\ UNCHANGED <<registry, callVars, row, failed, mediaVars>>

\* ... is created and stored, ...
Create(c) ==
    /\ pc[c] = "create"
    /\ row' = [row EXCEPT ![object[c]] = "bare"]
    /\ GoTo(c, "context")
    /\ UNCHANGED <<registry, callVars, target, object, requested, failed>>

\* ... given the context of the SIP headers and stored again, ...
ApplyContext(c) ==
    /\ pc[c] = "context"
    /\ row' = [row EXCEPT ![object[c]] = "context"]
    /\ GoTo(c, "register")
    /\ UNCHANGED <<registry, callVars, target, object, requested, failed>>

\* Mutant: a database that refuses the context does not stop the call.
LenientStoreFails(c) ==
    /\ pc[c] \in {"create", "context"}
    /\ GoTo(c, "register")
    /\ UNCHANGED <<registry, callVars, row, target, object, requested, failed>>

\* ... unless the database refuses one of the two: the request ends with a 500.
StoreFails(c) ==
    /\ pc[c] \in {"create", "context"}
    /\ Leave(c)
    /\ UNCHANGED <<registry, callVars, row, target, requested, failed>>

\* The call goes into the dictionary, in place of a call of the same name.
Register(c) ==
    /\ pc[c] = "register"
    /\ registry' = [registry EXCEPT ![target[c]] = object[c]]
    /\ Leave(c)
    /\ UNCHANGED <<callVars, row, target, requested, failed>>

\* Mutant: the 404 is forgotten.
UncheckedLookup(c, i, op) ==
    /\ Accepts(c)
    /\ target' = [target EXCEPT ![c] = i]
    /\ object' = [object EXCEPT ![c] = registry[i]]
    /\ GoTo(c, op)
    /\ requested' = requested + 1
    /\ UNCHANGED <<registry, callVars, row, failed, mediaVars>>

\* A media, hold, resume or transfer request: get_call, or a 404.
Lookup(c, i, op) ==
    /\ Accepts(c)
    /\ target' = [target EXCEPT ![c] = i]
    /\ object' = [object EXCEPT ![c] = registry[i]]
    /\ GoTo(c, IF registry[i] = NoCall THEN "idle" ELSE op)
    /\ requested' = requested + 1
    /\ paused' = [paused EXCEPT ![c] = op = "media" /\ registry[i] # NoCall /\ hold[registry[i]]]
    /\ UNCHANGED <<registry, callVars, row, failed, voiceVars>>

\* Mutant: the flag is looked at when the audio has been processed.
ForgottenCheckHold(c) ==
    /\ pc[c] = "media"
    /\ GoTo(c, "bridge") /\ Enter(c)
    /\ UNCHANGED <<registry, callVars, row, target, object, requested, failed, paused>>

\* process_media asks once whether the call is on hold.
CheckHold(c) ==
    /\ pc[c] = "media"
    /\ \/ /\ hold[object[c]]
          /\ Leave(c)
          /\ paused' = [paused EXCEPT ![c] = FALSE]
          /\ UNCHANGED voiceVars
       \/ /\ ~hold[object[c]]
          /\ GoTo(c, "bridge") /\ Enter(c)
          /\ UNCHANGED <<object, paused>>
    /\ UNCHANGED <<registry, callVars, row, target, requested, failed>>

\* The stages of the voice turn.
Bridge(c) ==
    /\ pc[c] = "bridge"
    /\ Pipeline(c)
    /\ UNCHANGED <<registry, callVars, row, threadVars, requested, failed, paused>>

\* Mutant: a turn that went well forgives the failures before it.
ForgivingTurn(c) ==
    /\ pc[c] = "bridge" /\ phase[c] = "answer"
    /\ retries' = [retries EXCEPT ![object[c]] = 0]
    /\ Leave(c) /\ Drop(c)
    /\ paused' = [paused EXCEPT ![c] = FALSE]
    /\ UNCHANGED <<registry, status, hold, gateway, row, target, requested, failed>>

\* The voice turn has gone through; the call object is left as it is ...
Turn(c) ==
    /\ pc[c] = "bridge" /\ phase[c] = "answer"
    /\ Leave(c) /\ Drop(c)
    /\ paused' = [paused EXCEPT ![c] = FALSE]
    /\ UNCHANGED <<registry, callVars, row, target, requested, failed>>

\* ... or something in it raises: the base64 text, the recogniser, the turn.
TurnFails(c) ==
    /\ pc[c] = "bridge" /\ MayRaise(c)
    /\ failed' = [failed EXCEPT ![object[c]] = failed[object[c]] + 1]
    /\ GoTo(c, "record") /\ Drop(c)
    /\ paused' = [paused EXCEPT ![c] = FALSE]
    /\ UNCHANGED <<registry, callVars, row, target, object, requested>>

\* The handler counts the failure ...
Record(c) ==
    /\ pc[c] = "record"
    /\ retries' = [retries EXCEPT ![object[c]] = retries[object[c]] + 1]
    /\ GoTo(c, "judge")
    /\ UNCHANGED <<registry, status, hold, gateway, row, target, object, requested, failed>>

\* Mutant: the gateway is switched when the count is exactly two.
ExactJudge(c) ==
    /\ pc[c] = "judge"
    /\ gateway' = [gateway EXCEPT ![object[c]] =
                        IF retries[object[c]] = 2 THEN "secondary" ELSE "primary"]
    /\ Leave(c)
    /\ UNCHANGED <<registry, status, hold, retries, row, target, requested, failed>>

\* ... and, having formatted the error, looks at the count again.
Judge(c) ==
    /\ pc[c] = "judge"
    /\ gateway' = [gateway EXCEPT ![object[c]] =
                        IF retries[object[c]] >= 2 THEN "secondary" ELSE gateway[object[c]]]
    /\ Leave(c)
    /\ UNCHANGED <<registry, status, hold, retries, row, target, requested, failed>>

Hold(c) ==
    /\ pc[c] = "hold"
    /\ hold' = [hold EXCEPT ![object[c]] = TRUE]
    /\ status' = [status EXCEPT ![object[c]] = "on_hold"]
    /\ Leave(c)
    /\ UNCHANGED <<registry, retries, gateway, row, target, requested, failed>>

\* The history of a resume: nobody waits for this call any more.
Unpause(o) == paused' = [d \in Clients |-> paused[d] /\ object[d] # o]

\* Mutant: resume takes the call back from hold in its status only.
StatusResume(c) ==
    /\ pc[c] = "resume"
    /\ status' = [status EXCEPT ![object[c]] = "active"]
    /\ Leave(c) /\ Unpause(object[c])
    /\ UNCHANGED <<registry, hold, retries, gateway, row, target, requested, failed, voiceVars>>

Resume(c) ==
    /\ pc[c] = "resume"
    /\ hold' = [hold EXCEPT ![object[c]] = FALSE]
    /\ status' = [status EXCEPT ![object[c]] = "active"]
    /\ Leave(c) /\ Unpause(object[c])
    /\ UNCHANGED <<registry, retries, gateway, row, target, requested, failed, voiceVars>>

\* handoff_payload: a call on hold is handed over with its hold flag set.
Transfer(c) ==
    /\ pc[c] = "transfer"
    /\ status' = [status EXCEPT ![object[c]] = "transferred"]
    /\ Leave(c)
    /\ UNCHANGED <<registry, hold, retries, gateway, row, target, requested, failed>>

\* The process dies and is started again: the calls are gone, the sessions
\* they opened are not.
Restart ==
    /\ registry' = [i \in CallIds |-> NoCall]
    /\ status' = [o \in Calls |-> "active"]
    /\ hold' = [o \in Calls |-> FALSE]
    /\ retries' = [o \in Calls |-> 0]
    /\ gateway' = [o \in Calls |-> "primary"]
    /\ pc' = [c \in Clients |-> "idle"]
    /\ object' = [c \in Clients |-> NoCall]
    /\ failed' = [o \in Calls |-> 0]
    /\ paused' = [c \in Clients |-> FALSE]
    /\ phase' = [c \in Clients |-> "none"]
    /\ reason' = [c \in Clients |-> ""]
    /\ missed' = [c \in Clients |-> {}]
    /\ UNCHANGED <<row, target, requested, engines>>

\* Steps that do without the media bridge.
Plain(step) == step /\ UNCHANGED mediaVars

StartStep(c) == Plain(Create(c) \/ ApplyContext(c) \/ StoreFails(c) \/ Register(c))

MediaStep(c) ==
    \/ CheckHold(c) \/ Bridge(c) \/ Turn(c) \/ TurnFails(c)
    \/ Plain(Record(c) \/ Judge(c))

ControlStep(c) == Resume(c) \/ Plain(Hold(c) \/ Transfer(c))

Next ==
    \/ \E c \in Clients, i \in CallIds, o \in Calls : Start(c, i, o)
    \/ \E c \in Clients, i \in CallIds, op \in Operations : Lookup(c, i, op)
    \/ \E c \in Clients : StartStep(c) \/ MediaStep(c) \/ ControlStep(c)
    \/ Restart

Spec == Init /\ [][Next]_vars

-----------------------------------------------------------------------------
(***************************************************************************)
(* Properties.                                                             *)
(***************************************************************************)

\* Every field in its range; only a thread at work holds a call object.
TypeOK ==
    /\ registry \in [CallIds -> Calls \cup {NoCall}]
    /\ status \in [Calls -> {"active", "on_hold", "transferred"}]
    /\ hold \in [Calls -> BOOLEAN]
    /\ retries \in [Calls -> Nat]
    /\ gateway \in [Calls -> {"primary", "secondary"}]
    /\ row \in [Calls -> {"none", "bare", "context"}]
    /\ pc \in [Clients -> Operations \cup {"idle", "create", "context", "register",
                                           "bridge", "record", "judge"}]
    /\ target \in [Clients -> CallIds]
    /\ object \in [Clients -> Calls \cup {NoCall}]
    /\ \A c \in Clients : pc[c] = "idle" <=> object[c] = NoCall
    /\ requested \in 0..MaxRequests
    /\ failed \in [Calls -> Nat]
    /\ paused \in [Clients -> BOOLEAN]
    /\ VoiceTypeOK
    /\ \A c \in Clients : phase[c] # "none" <=> pc[c] = "bridge"

\* What GET shows as the status and what process_media tests agree, however
\* hold, resume and transfer requests interleave; only a call handed over
\* may carry either value of the flag.
HoldIsShown ==
    \A o \in Calls : status[o] # "transferred" => (hold[o] <=> status[o] = "on_hold")

\* Media that came in while the call was on hold waits for a resume: it is
\* never processed before one, however long its thread takes.
HoldIsObeyed == \A c \in Clients : pc[c] = "bridge" => ~paused[c]

\* The second failure of a call, and none before, switches its gateway, also
\* when failing media requests overlap between counting and judging; no call
\* goes back.
FailoverAtTwo ==
    \A o \in Calls :
        /\ gateway[o] = "secondary" => retries[o] >= 2
        /\ retries[o] >= 2 /\ gateway[o] = "primary" =>
                \E c \in Clients : pc[c] = "judge" /\ object[c] = o

\* The count of a call is exact: failures that overlap are not lost, and
\* those after a duplicate start took the name stay with the old call.
FailuresCounted ==
    \A o \in Calls :
        failed[o] = retries[o] + Cardinality({c \in Clients : pc[c] = "record" /\ object[c] = o})

\* A call that can be found has its session in the database with what the SIP
\* headers said: no failure or restart on the way leaves a call without.
FoundCallHasContext ==
    \A i \in CallIds : registry[i] # NoCall => row[registry[i]] = "context"
=============================================================================

--------------------------- MODULE SessionService ---------------------------
(***************************************************************************)
(* The session store under concurrent requests (assistant.py: SessionStore *)
(* and the steps of handle_turn and handle_voice_turn; storage.py and      *)
(* db.py: upsert_session, get_session, append_turn).                       *)
(*                                                                         *)
(* The HTTP server runs every request in a thread of its own.  The store   *)
(* keeps a SessionState object per session in a dictionary; threads mutate *)
(* the object they got in place, and only the dictionary and the database  *)
(* are locked, each by itself.  The steps below are cut where a thread may *)
(* be switched out with an effect on others: at the lock-protected         *)
(* sections and between the three groups of assignments of a turn (inside  *)
(* a group CPython 3.11 does not switch: there is no call in it).          *)
(***************************************************************************)
EXTENDS SessionRecord, FiniteSets

CONSTANTS
    Sessions,      \* session ids
    Clients,       \* request threads, each with one request at a time
    Objects,       \* identities of SessionState objects
    NoObject,      \* not an object
    NoRecord,      \* no row in the database
    NoSession,     \* an idle thread's session
    OneAtATime,    \* do callers send one request per session at a time?
    StoreMayFail,  \* may a database operation raise?
    MaxRequests    \* bound on the number of turns requested

ASSUME ServiceAssumption ==
    /\ NoObject \notin Objects
    /\ NoRecord \notin Record
    /\ NoSession \notin Sessions
    /\ IsFiniteSet(Clients)   \* a thread per open connection
    /\ OneAtATime \in BOOLEAN
    /\ StoreMayFail \in BOOLEAN
    /\ MaxRequests \in Nat

VARIABLES
    heap,      \* the SessionState objects
    cache,     \* SessionStore._sessions: session -> object
    rows,      \* the sessions table, committed
    log,       \* rows per session in the turns table, committed
    pc,        \* where each request's thread is
    session,   \* the session of its request
    kind,      \* its kind: "text" and "voice" turns, "open" and "look" (POST, GET)
    words,     \* its utterance
    object,    \* the thread's variable state
    escalate,  \* the thread's variable escalate
    answer,    \* the escalation flag of the last answer given
    before,    \* history: the object before the turn's first assignment
    requested, \* history: turns requested
    acked      \* history: turns answered, per session

threadVars == <<pc, session, kind, words, object, escalate, answer, before>>
storeVars == <<heap, cache, rows, log>>
vars == <<storeVars, threadVars, requested, acked>>

\* What an idle thread has heard.
Silence == [understood |-> TRUE, wantsHuman |-> FALSE]

Busy(s) == \E c \in Clients : pc[c] # "idle" /\ session[c] = s

\* Objects that no variable of the program refers to.
Free == Objects \ ({cache[s] : s \in Sessions} \cup {object[c] : c \in Clients})

Init ==
    /\ heap = [o \in Objects |-> Fresh]
    /\ cache = [s \in Sessions |-> NoObject]
    /\ rows = [s \in Sessions |-> NoRecord]
    /\ log = [s \in Sessions |-> 0]
    /\ pc = [c \in Clients |-> "idle"]
    /\ session = [c \in Clients |-> NoSession]
    /\ kind = [c \in Clients |-> "text"]
    /\ words = [c \in Clients |-> Silence]
    /\ object = [c \in Clients |-> NoObject]
    /\ escalate = [c \in Clients |-> FALSE]
    /\ answer = [c \in Clients |-> FALSE]
    /\ before = [c \in Clients |-> Fresh]
    /\ requested = 0
    /\ acked = [s \in Sessions |-> 0]

GoTo(c, label) == pc' = [pc EXCEPT ![c] = label]

\* A request of kind k arrives at thread c.  Nobody knows the identifier of a
\* session that is being opened.
Arrive(c, s, k) ==
    /\ pc[c] = "idle"
    /\ OneAtATime => ~Busy(s)
    /\ \A d \in Clients : kind[d] = "open" => session[d] # s
    /\ session' = [session EXCEPT ![c] = s]
    /\ kind' = [kind EXCEPT ![c] = k]
    /\ answer' = [answer EXCEPT ![c] = FALSE]
    /\ UNCHANGED <<storeVars, object, escalate, before, acked>>

\* A turn is posted, as text or as speech that was recognised.
Request(c, s, k, u) ==
    /\ requested < MaxRequests
    /\ Arrive(c, s, k)
    /\ GoTo(c, "get")
    /\ words' = [words EXCEPT ![c] = u]
    /\ requested' = requested + 1

\* POST /v1/sessions creates a session with an identifier never used before.
Open(c, s) ==
    /\ ~Busy(s) /\ cache[s] = NoObject /\ rows[s] = NoRecord
    /\ Arrive(c, s, "open")
    /\ GoTo(c, "create")
    /\ UNCHANGED <<words, requested>>

\* GET /v1/sessions/{session_id} uses the same SessionStore.get as a turn.
Look(c, s) ==
    /\ Arrive(c, s, "look")
    /\ GoTo(c, "get")
    /\ UNCHANGED <<words, requested>>

\* After the object was found, loaded or created: a turn goes on, the other
\* requests answer.
Found(c) == IF kind[c] \in {"text", "voice"} THEN "count" ELSE "done"

\* SessionStore.get, its first locked section.
Get(c) ==
    /\ pc[c] = "get"
    /\ object' = [object EXCEPT ![c] = cache[session[c]]]
    /\ GoTo(c, IF cache[session[c]] = NoObject THEN "load" ELSE Found(c))
    /\ UNCHANGED <<storeVars, session, kind, words, escalate, answer, before, requested, acked>>

\* Mutant: a column is not read back.
ForgetfulLoad(c) ==
    /\ pc[c] = "load"
    /\ IF rows[session[c]] = NoRecord
       THEN GoTo(c, IF kind[c] = "look" THEN "done" ELSE "create") /\ UNCHANGED <<object, heap>>
       ELSE \E o \in Free :
                /\ object' = [object EXCEPT ![c] = o]
                /\ heap' = [heap EXCEPT ![o] = [rows[session[c]] EXCEPT !.retries = 0]]
                /\ GoTo(c, "fill")
    /\ UNCHANGED <<cache, rows, log, session, kind, words, escalate, answer, before, requested, acked>>

\* The miss: store.get_session makes an object of the row, if there is one.
Load(c) ==
    /\ pc[c] = "load"
    /\ IF rows[session[c]] = NoRecord
       THEN GoTo(c, IF kind[c] = "look" THEN "done" ELSE "create") /\ UNCHANGED <<object, heap>>
       ELSE \E o \in Free :
                /\ object' = [object EXCEPT ![c] = o]
                /\ heap' = [heap EXCEPT ![o] = rows[session[c]]]
                /\ GoTo(c, "fill")
    /\ UNCHANGED <<cache, rows, log, session, kind, words, escalate, answer, before, requested, acked>>

\* SessionStore.get, its second locked section: without looking again.
Fill(c) ==
    /\ pc[c] = "fill"
    /\ cache' = [cache EXCEPT ![session[c]] = object[c]]
    /\ GoTo(c, Found(c))
    /\ UNCHANGED <<heap, rows, log, session, kind, words, object, escalate, answer, before, requested, acked>>

\* Mutant: create leaves the dictionary to save.
UncachedCreate(c) ==
    /\ pc[c] = "create"
    /\ \E o \in Free :
            /\ object' = [object EXCEPT ![c] = o]
            /\ heap' = [heap EXCEPT ![o] = Fresh]
    /\ GoTo(c, "insert")
    /\ UNCHANGED <<cache, rows, log, session, kind, words, escalate, answer, before, requested, acked>>

\* SessionStore.create: a fresh object goes into the dictionary ...
Create(c) ==
    /\ pc[c] = "create"
    /\ \E o \in Free :
            /\ object' = [object EXCEPT ![c] = o]
            /\ heap' = [heap EXCEPT ![o] = Fresh]
            /\ cache' = [cache EXCEPT ![session[c]] = o]
    /\ GoTo(c, "insert")
    /\ UNCHANGED <<rows, log, session, kind, words, escalate, answer, before, requested, acked>>

\* ... and then into the database.
Insert(c) ==
    /\ pc[c] = "insert"
    /\ rows' = [rows EXCEPT ![session[c]] = heap[object[c]]]
    /\ GoTo(c, Found(c))
    /\ UNCHANGED <<heap, cache, log, session, kind, words, object, escalate, answer, before, requested, acked>>

\* handle_turn up to the decision: the counters are written in place.
Count(c) ==
    /\ pc[c] = "count"
    /\ LET r == Counted(heap[object[c]], words[c])
       IN /\ heap' = [heap EXCEPT ![object[c]] = r]
          /\ escalate' = [escalate EXCEPT ![c] = MustEscalate(r, words[c])]
    /\ before' = [before EXCEPT ![c] = heap[object[c]]]
    /\ GoTo(c, "tally")
    /\ UNCHANGED <<cache, rows, log, session, kind, words, object, answer, requested, acked>>

\* handle_turn after the reply is composed: the turn is counted ...
Tally(c) ==
    /\ pc[c] = "tally"
    /\ heap' = [heap EXCEPT ![object[c]] = Tallied(heap[object[c]])]
    /\ GoTo(c, "mark")
    /\ UNCHANGED <<cache, rows, log, session, kind, words, object, escalate, answer, before, requested, acked>>

\* ... and, after the journey is worked out, the outcome noted.
Mark(c) ==
    /\ pc[c] = "mark"
    /\ heap' = [heap EXCEPT ![object[c]] = Marked(heap[object[c]], escalate[c])]
    /\ GoTo(c, "save")
    /\ UNCHANGED <<cache, rows, log, session, kind, words, object, escalate, answer, before, requested, acked>>

\* SessionStore.save: the dictionary ...
Save(c) ==
    /\ pc[c] = "save"
    /\ cache' = [cache EXCEPT ![session[c]] = object[c]]
    /\ GoTo(c, "upsert")
    /\ UNCHANGED <<heap, rows, log, session, kind, words, object, escalate, answer, before, requested, acked>>

\* Mutant: save is satisfied with the dictionary.
SkippedUpsert(c) ==
    /\ pc[c] = "upsert"
    /\ GoTo(c, "append")
    /\ UNCHANGED <<storeVars, session, kind, words, object, escalate, answer, before, requested, acked>>

\* ... and the database, with what the object holds by now.
Upsert(c) ==
    /\ pc[c] = "upsert"
    /\ rows' = [rows EXCEPT ![session[c]] = heap[object[c]]]
    /\ GoTo(c, "append")
    /\ UNCHANGED <<heap, cache, log, session, kind, words, object, escalate, answer, before, requested, acked>>

\* append_turn.
Append(c) ==
    /\ pc[c] = "append"
    /\ log' = [log EXCEPT ![session[c]] = log[session[c]] + 1]
    /\ GoTo(c, "answer")
    /\ UNCHANGED <<heap, cache, rows, session, kind, words, object, escalate, answer, before, requested, acked>>

\* The request is over, its thread's variables are gone.
Leave(c) ==
    /\ GoTo(c, "idle")
    /\ session' = [session EXCEPT ![c] = NoSession]
    /\ kind' = [kind EXCEPT ![c] = "text"]
    /\ words' = [words EXCEPT ![c] = Silence]
    /\ object' = [object EXCEPT ![c] = NoObject]
    /\ escalate' = [escalate EXCEPT ![c] = FALSE]
    /\ before' = [before EXCEPT ![c] = Fresh]

\* The answer: a text turn returns its own decision, a voice turn looks the
\* flag up again in the session it finds in the dictionary.
Answer(c) ==
    /\ pc[c] = "answer"
    /\ answer' = [answer EXCEPT ![c] =
                    IF kind[c] = "voice" THEN heap[cache[session[c]]].escalated ELSE escalate[c]]
    /\ acked' = [acked EXCEPT ![session[c]] = acked[session[c]] + 1]
    /\ Leave(c)
    /\ UNCHANGED <<storeVars, requested>>

\* The answer to a POST or GET: 201, 200 or 404.
Done(c) ==
    /\ pc[c] = "done"
    /\ Leave(c)
    /\ UNCHANGED <<storeVars, answer, requested, acked>>

\* Mutant: a failing append_turn is logged and forgotten.
SwallowedFail(c) ==
    /\ StoreMayFail
    /\ pc[c] = "append"
    /\ GoTo(c, "answer")
    /\ UNCHANGED <<storeVars, session, kind, words, object, escalate, answer, before, requested, acked>>

\* A database operation raises; the request ends with a 500 and whatever it
\* did to the shared object stays done.
Fail(c) ==
    /\ StoreMayFail
    /\ pc[c] \in {"load", "insert", "upsert", "append"}
    /\ Leave(c)
    /\ UNCHANGED <<storeVars, answer, requested, acked>>

\* The process dies and is started again: threads, dictionary and objects
\* are gone, the database is not.
Restart ==
    /\ heap' = [o \in Objects |-> Fresh]
    /\ cache' = [s \in Sessions |-> NoObject]
    /\ pc' = [c \in Clients |-> "idle"]
    /\ session' = [c \in Clients |-> NoSession]
    /\ kind' = [c \in Clients |-> "text"]
    /\ words' = [c \in Clients |-> Silence]
    /\ object' = [c \in Clients |-> NoObject]
    /\ escalate' = [c \in Clients |-> FALSE]
    /\ answer' = [c \in Clients |-> FALSE]
    /\ before' = [c \in Clients |-> Fresh]
    /\ UNCHANGED <<rows, log, requested, acked>>

Step(c) ==
    \/ Get(c) \/ Load(c) \/ Fill(c) \/ Create(c) \/ Insert(c)
    \/ Count(c) \/ Tally(c) \/ Mark(c) \/ Save(c) \/ Upsert(c) \/ Append(c) \/ Answer(c) \/ Done(c)

Next ==
    \/ \E c \in Clients, s \in Sessions, k \in {"text", "voice"}, u \in Utterances : Request(c, s, k, u)
    \/ \E c \in Clients, s \in Sessions : Open(c, s) \/ Look(c, s)
    \/ \E c \in Clients : Step(c)
    \/ \E c \in Clients : Fail(c)
    \/ Restart

Spec == Init /\ [][Next]_vars

-----------------------------------------------------------------------------
(***************************************************************************)
(* Properties.                                                             *)
(***************************************************************************)
Labels == {"idle", "get", "load", "fill", "create", "insert", "count", "tally",
           "mark", "save", "upsert", "append", "answer", "done"}

\* Every field in its range: what the dictionary, the rows and the threads
\* hold are session records, also after a load or a failure.
TypeOK ==
    /\ heap \in [Objects -> Record]
    /\ cache \in [Sessions -> Objects \cup {NoObject}]
    /\ rows \in [Sessions -> Record \cup {NoRecord}]
    /\ log \in [Sessions -> Nat]
    /\ pc \in [Clients -> Labels]
    /\ session \in [Clients -> Sessions \cup {NoSession}]
    /\ kind \in [Clients -> {"text", "voice", "open", "look"}]
    /\ words \in [Clients -> Utterances]
    /\ object \in [Clients -> Objects \cup {NoObject}]
    /\ escalate \in [Clients -> BOOLEAN]
    /\ answer \in [Clients -> BOOLEAN]
    /\ before \in [Clients -> Record]
    /\ requested \in 0..MaxRequests
    /\ acked \in [Sessions -> Nat]

SavedTurns(s) == IF rows[s] = NoRecord THEN 0 ELSE rows[s].turns

\* No answered turn is missing from the history and no turn of the history
\* from the session's durable count: save comes before append, append before
\* the answer, and neither a failing database nor a restart changes that.
NothingLost == \A s \in Sessions : acked[s] <= log[s] /\ log[s] <= SavedTurns(s)

\* The object a turn works on is the one the next request would find: loading
\* and creating never leave the dictionary with another copy.
OneObject ==
    \A c \in Clients : pc[c] \in {"count", "tally", "mark", "save", "upsert", "append", "answer"} =>
        cache[session[c]] = object[c]

\* A voice turn answers with its own decision, although it reads the flag
\* again from the shared session.
VoiceAnswersItsTurn ==
    [][\A c \in Clients : acked' # acked /\ pc[c] = "answer" /\ pc'[c] = "idle" =>
        answer'[c] = escalate[c]]_vars

\* No turn is counted twice, however requests interleave.
NoDoubleCount ==
    \A s \in Sessions : SavedTurns(s) <= requested

\* However requests interleave, an answered turn is in the history.
AnsweredIsLogged == \A s \in Sessions : acked[s] <= log[s]

\* A turn of the session is between its first and its last assignment.
AtWork(c, s) == pc[c] \in {"tally", "mark"} /\ session[c] = s

\* The session as the next turn would find it.
Current(s) ==
    IF \E c \in Clients : AtWork(c, s) THEN before[CHOOSE c \in Clients : AtWork(c, s)]
    ELSE IF cache[s] # NoObject THEN heap[cache[s]] ELSE rows[s]

Ledger == INSTANCE SessionLedger WITH
    value <- [s \in Sessions |-> Current(s)], durable <- rows, logged <- log

\* One conversation at a time, the service is the ledger.
ImplementsLedger == Ledger!Spec

\* "total turns": what GET returns of an idle session counts every turn
\* of its history.
TotalTurns == \A s \in Sessions : ~Busy(s) => log[s] <= SavedTurns(s)
=============================================================================

------------------------ MODULE SessionServiceProofs ------------------------
(***************************************************************************)
(* The session service for any number of sessions, threads and requests.   *)
(* However requests interleave, an answered turn is in the history and no  *)
(* turn is counted twice; one request per session at a time, the session   *)
(* has one live object, its durable count covers its history, a voice turn *)
(* answers with its own decision, and the service implements the ledger.   *)
(***************************************************************************)
EXTENDS SessionService, FiniteSetTheorems, TLAPS

\* The steps of one thread.
ThreadStep(c) ==
    \/ \E s \in Sessions, k \in {"text", "voice"}, u \in Utterances : Request(c, s, k, u)
    \/ \E s \in Sessions : Open(c, s) \/ Look(c, s)
    \/ Step(c) \/ Fail(c)

LEMMA StepOfAThread == Next => Restart \/ \E c \in Clients : ThreadStep(c)
BY DEF Next, ThreadStep

-----------------------------------------------------------------------------
(***************************************************************************)
(* Types.                                                                  *)
(***************************************************************************)

\* The assignments of a turn leave a session record.
LEMMA RecordTypes ==
    ASSUME NEW r \in Record, NEW u \in Utterances, NEW e \in BOOLEAN
    PROVE  /\ Counted(r, u) \in Record /\ Counted(r, u).turns = r.turns
           /\ Tallied(r) \in Record /\ Tallied(r).turns = r.turns + 1
           /\ Marked(r, e) \in Record /\ Marked(r, e).turns = r.turns /\ Marked(r, e).escalated = e
           /\ MustEscalate(r, u) \in BOOLEAN
<1>1. Counted(r, u) \in Record /\ Counted(r, u).turns = r.turns
  <2> DEFINE asked == r.clarifications + (IF u.understood THEN 0 ELSE 1)
  <2>1. asked \in Nat /\ r.retries + 1 \in Nat
      BY DEF Record
  <2>2. \/ Counted(r, u) = [r EXCEPT !.clarifications = 0, !.retries = r.retries + 1]
        \/ Counted(r, u) = [r EXCEPT !.clarifications = asked]
      BY DEF Counted
  <2> HIDE DEF asked
  <2>3. [r EXCEPT !.clarifications = asked] \in Record
        /\ [r EXCEPT !.clarifications = asked].turns = r.turns
      BY <2>1 DEF Record
  <2> DEFINE tried == r.retries + 1
  <2>4. tried \in Nat
      BY <2>1
  <2> HIDE DEF tried
  <2>5. [r EXCEPT !.clarifications = 0, !.retries = tried] \in Record
        /\ [r EXCEPT !.clarifications = 0, !.retries = tried].turns = r.turns
      BY <2>4 DEF Record
  <2> QED
      BY <2>2, <2>3, <2>5 DEF tried
<1>2. Tallied(r) \in Record /\ Tallied(r).turns = r.turns + 1
    BY DEF Record, Tallied
<1>3. Marked(r, e) \in Record /\ Marked(r, e).turns = r.turns /\ Marked(r, e).escalated = e
    BY DEF Record, Marked
<1>4. MustEscalate(r, u) \in BOOLEAN
    BY DEF Record, Utterances, MustEscalate
<1> QED
    BY <1>1, <1>2, <1>3, <1>4

LEMMA FreshRecord == Fresh \in Record /\ Fresh.turns = 0
BY DEF Fresh, Record

\* A thread at work has a session, past the lookup an object, and once it has
\* saved the dictionary has one.
Located ==
    \A c \in Clients :
        /\ pc[c] # "idle" => session[c] \in Sessions
        /\ pc[c] \in {"fill", "insert", "count", "tally", "mark", "save", "upsert", "append", "answer"} =>
                object[c] \in Objects
        /\ pc[c] \in {"upsert", "append", "answer"} => cache[session[c]] \in Objects

TypeInv == TypeOK /\ Located

LEMMA TypeInit == Init => TypeInv
<1> SUFFICES ASSUME Init
             PROVE  TypeInv
    OBVIOUS
<1>1. Silence \in Utterances /\ requested \in 0..MaxRequests
    BY ServiceAssumption DEF Init, Silence, Utterances
<1>2. TypeOK
    BY <1>1, FreshRecord DEF Init, TypeOK, Labels
<1>3. Located
    BY DEF Init, Located
<1> QED
    BY <1>2, <1>3 DEF TypeInv

LEMMA TypeStep == TypeInv /\ [Next]_vars => TypeInv'
<1> SUFFICES ASSUME TypeInv, [Next]_vars
             PROVE  TypeInv'
    OBVIOUS
<1>0. Silence \in Utterances
    BY DEF Silence, Utterances
<1> USE DEF TypeInv, TypeOK, Located
<1>1. CASE UNCHANGED vars
    BY <1>1 DEF vars, storeVars, threadVars
<1>2. CASE Restart
    BY <1>2, <1>0, FreshRecord DEF Restart, Labels
<1>3. ASSUME NEW c \in Clients, ThreadStep(c)
      PROVE  TypeInv'
  <2> USE DEF storeVars, GoTo, Labels
  <2>1. ASSUME NEW s \in Sessions, NEW k \in {"text", "voice"}, NEW u \in Utterances,
               Request(c, s, k, u)
        PROVE  TypeInv'
    <3>1. requested' \in 0..MaxRequests
        BY <2>1, ServiceAssumption DEF Request
    <3> QED
        BY <2>1, <3>1 DEF Request, Arrive
  <2>2. ASSUME NEW s \in Sessions, Open(c, s) \/ Look(c, s)
        PROVE  TypeInv'
    <3>1. CASE Open(c, s)
        BY <3>1 DEF Open, Arrive
    <3>2. CASE Look(c, s)
        BY <3>2 DEF Look, Arrive
    <3> QED
        BY <2>2, <3>1, <3>2
  <2>3. CASE Get(c)
      BY <2>3 DEF Get, Found
  <2>4. CASE Load(c)
      BY <2>4 DEF Load, Free
  <2>5. CASE Fill(c)
      BY <2>5 DEF Fill, Found
  <2>6. CASE Create(c)
      BY <2>6, FreshRecord DEF Create, Free
  <2>7. CASE Insert(c)
      BY <2>7 DEF Insert, Found
  <2>8. CASE Count(c)
    <3>1. /\ pc[c] = "count" /\ heap[object[c]] \in Record /\ words[c] \in Utterances
          /\ object[c] \in Objects
        BY <2>8 DEF Count
    <3>2. Counted(heap[object[c]], words[c]) \in Record
          /\ MustEscalate(Counted(heap[object[c]], words[c]), words[c]) \in BOOLEAN
        BY <3>1, RecordTypes
    <3> QED
        BY <2>8, <3>1, <3>2 DEF Count
  <2>9. CASE Tally(c)
    <3>1. Tallied(heap[object[c]]) \in Record
        BY <2>9, RecordTypes, <1>0 DEF Tally
    <3> QED
        BY <2>9, <3>1 DEF Tally
  <2>10. CASE Mark(c)
    <3>1. Marked(heap[object[c]], escalate[c]) \in Record
        BY <2>10, RecordTypes, <1>0 DEF Mark
    <3> QED
        BY <2>10, <3>1 DEF Mark
  <2>11. CASE Save(c)
      BY <2>11 DEF Save
  <2>12. CASE Upsert(c)
      BY <2>12 DEF Upsert
  <2>13. CASE Append(c)
    <3>1. log' \in [Sessions -> Nat]
        BY <2>13 DEF Append
    <3> QED
        BY <2>13, <3>1 DEF Append
  <2>14. CASE Answer(c)
    <3>1. acked' \in [Sessions -> Nat]
        BY <2>14 DEF Answer
    <3>2. heap[cache[session[c]]].escalated \in BOOLEAN
        BY <2>14 DEF Answer, Record
    <3>3. answer' \in [Clients -> BOOLEAN]
        BY <2>14, <3>2 DEF Answer
    <3> QED
        BY <2>14, <3>1, <3>3, <1>0, FreshRecord DEF Answer, Leave
  <2>15. CASE Done(c)
      BY <2>15, <1>0, FreshRecord DEF Done, Leave
  <2>16. CASE Fail(c)
      BY <2>16, <1>0, FreshRecord DEF Fail, Leave
  <2> QED
      BY <1>3, <2>1, <2>2, <2>3, <2>4, <2>5, <2>6, <2>7, <2>8, <2>9, <2>10, <2>11, <2>12, <2>13,
         <2>14, <2>15, <2>16
      DEF ThreadStep, Step
<1> QED
    BY <1>1, <1>2, <1>3, StepOfAThread

\* Every field stays in its range, also after a load, a failure or a restart.
THEOREM ServiceTypeCorrect == Spec => []TypeOK
<1>1. TypeInv => TypeOK
    BY DEF TypeInv
<1> QED
    BY TypeInit, TypeStep, <1>1, PTL DEF Spec

-----------------------------------------------------------------------------
(***************************************************************************)
(* However requests interleave: what is answered is in the history.        *)
(***************************************************************************)

\* Turns of session s whose rows are in and whose callers do not know yet.
Answering(s) == {c \in Clients : pc[c] = "answer" /\ session[c] = s}

LogInv == \A s \in Sessions : acked[s] + Cardinality(Answering(s)) <= log[s]

LEMMA AnsweringFinite ==
    \A s \in Sessions : IsFiniteSet(Answering(s)) /\ Cardinality(Answering(s)) \in Nat
<1>1. \A s \in Sessions : Answering(s) \in SUBSET Clients
    BY DEF Answering
<1> QED
    BY <1>1, ServiceAssumption, FS_Subset, FS_CardinalityType

LEMMA LogInit == Init => LogInv
<1> SUFFICES ASSUME Init, NEW s \in Sessions
             PROVE  acked[s] + Cardinality(Answering(s)) <= log[s]
    BY DEF LogInv
<1>1. Answering(s) = {}
    BY DEF Init, Answering
<1>2. Cardinality(Answering(s)) = 0
    BY <1>1, FS_EmptySet
<1> QED
    BY <1>2 DEF Init

\* Where nobody else begins to answer.
LEMMA FewerAnswers ==
    ASSUME TypeInv, LogInv, UNCHANGED <<acked, log>>,
           \A s \in Sessions : Answering(s)' \subseteq Answering(s)
    PROVE  LogInv'
<1> SUFFICES ASSUME NEW s \in Sessions
             PROVE  acked'[s] + Cardinality(Answering(s)') <= log'[s]
    BY DEF LogInv
<1>1. Cardinality(Answering(s)') <= Cardinality(Answering(s)) /\ Cardinality(Answering(s)') \in Nat
    BY AnsweringFinite, FS_Subset, FS_CardinalityType
<1>2. acked[s] + Cardinality(Answering(s)) <= log[s] /\ acked[s] \in Nat /\ log[s] \in Nat
    BY DEF LogInv, TypeInv, TypeOK
<1> QED
    BY <1>1, <1>2, AnsweringFinite

LEMMA LogStep == TypeInv /\ LogInv /\ [Next]_vars => LogInv'
<1> SUFFICES ASSUME TypeInv, LogInv, [Next]_vars
             PROVE  LogInv'
    OBVIOUS
<1>0. /\ DOMAIN pc = Clients /\ DOMAIN session = Clients
      /\ \A s \in Sessions : acked[s] \in Nat /\ log[s] \in Nat
      /\ DOMAIN log = Sessions /\ DOMAIN acked = Sessions
      /\ \A c \in Clients : pc[c] # "idle" => session[c] \in Sessions
    BY DEF TypeInv, TypeOK, Located
<1>1. CASE UNCHANGED vars \/ Restart
  <2>1. \A s \in Sessions : Answering(s)' \subseteq Answering(s)
      BY <1>1 DEF Restart, vars, threadVars, Answering
  <2> QED
      BY <1>1, <2>1, FewerAnswers DEF Restart, vars, storeVars
<1>2. ASSUME NEW c \in Clients, ThreadStep(c)
      PROVE  LogInv'
  <2> USE DEF GoTo, Leave, storeVars
  <2>1. CASE Append(c)
    <3>1. /\ session[c] \in Sessions /\ pc[c] = "append"
          /\ log' = [log EXCEPT ![session[c]] = log[session[c]] + 1]
          /\ pc' = [pc EXCEPT ![c] = "answer"] /\ UNCHANGED <<session, acked>>
        BY <2>1, <1>0 DEF Append
    <3> SUFFICES ASSUME NEW s \in Sessions
                 PROVE  acked'[s] + Cardinality(Answering(s)') <= log'[s]
        BY DEF LogInv
    <3>2. acked[s] + Cardinality(Answering(s)) <= log[s]
        BY DEF LogInv
    <3>3. CASE s = session[c]
      <4>1. Answering(s)' = Answering(s) \cup {c} /\ c \notin Answering(s)
          BY <3>1, <3>3, <1>0 DEF Answering
      <4>2. Cardinality(Answering(s)') = Cardinality(Answering(s)) + 1
          BY <4>1, AnsweringFinite, FS_AddElement
      <4>3. log'[s] = log[s] + 1
          BY <3>1, <3>3, <1>0
      <4> QED
          BY <3>1, <3>2, <4>2, <4>3, <1>0, AnsweringFinite
    <3>4. CASE s # session[c]
      <4>1. Answering(s)' = Answering(s) /\ log'[s] = log[s]
          BY <3>1, <3>4, <1>0 DEF Answering
      <4> QED
          BY <3>1, <3>2, <4>1
    <3> QED
        BY <3>3, <3>4
  <2>2. CASE Answer(c)
    <3>1. /\ session[c] \in Sessions /\ pc[c] = "answer" /\ log' = log
          /\ acked' = [acked EXCEPT ![session[c]] = acked[session[c]] + 1]
          /\ pc' = [pc EXCEPT ![c] = "idle"] /\ session' = [session EXCEPT ![c] = NoSession]
        BY <2>2, <1>0 DEF Answer
    <3> SUFFICES ASSUME NEW s \in Sessions
                 PROVE  acked'[s] + Cardinality(Answering(s)') <= log'[s]
        BY DEF LogInv
    <3>2. acked[s] + Cardinality(Answering(s)) <= log[s]
        BY DEF LogInv
    <3>3. CASE s = session[c]
      <4>1. Answering(s)' = Answering(s) \ {c} /\ c \in Answering(s)
          BY <3>1, <3>3, <1>0 DEF Answering
      <4>2. Cardinality(Answering(s)') = Cardinality(Answering(s)) - 1
          BY <4>1, AnsweringFinite, FS_RemoveElement
      <4>3. acked'[s] = acked[s] + 1
          BY <3>1, <3>3, <1>0
      <4> QED
          BY <3>1, <3>2, <4>2, <4>3, <1>0, AnsweringFinite
    <3>4. CASE s # session[c]
      <4>1. Answering(s)' = Answering(s) /\ acked'[s] = acked[s]
          BY <3>1, <3>4, <1>0 DEF Answering
      <4> QED
          BY <3>1, <3>2, <4>1
    <3> QED
        BY <3>3, <3>4
  <2>3. CASE ~Append(c) /\ ~Answer(c)
    <3>1. UNCHANGED <<acked, log>>
        BY <1>2, <2>3
        DEF ThreadStep, Request, Arrive, Open, Look, Step, Get, Load, Fill, Create, Insert, Count,
            Tally, Mark, Save, Upsert, Done, Fail
    <3>2. pc'[c] # "answer"
        BY <1>2, <2>3, <1>0
        DEF ThreadStep, Request, Open, Look, Step, Get, Load, Fill, Create, Insert, Count,
            Tally, Mark, Save, Upsert, Done, Fail, Found
    <3>3. \A d \in Clients \ {c} : pc'[d] = pc[d] /\ session'[d] = session[d]
      <4>1. \A d \in Clients \ {c} : pc'[d] = pc[d]
          BY <1>2, <2>3, <1>0
          DEF ThreadStep, Request, Open, Look, Step, Get, Load, Fill, Create, Insert, Count,
              Tally, Mark, Save, Upsert, Done, Fail
      <4>2. \A d \in Clients \ {c} : session'[d] = session[d]
          BY <1>2, <2>3, <1>0
          DEF ThreadStep, Request, Arrive, Open, Look, Step, Get, Load, Fill, Create, Insert,
              Count, Tally, Mark, Save, Upsert, Done, Fail
      <4> QED
          BY <4>1, <4>2
    <3>4. \A s \in Sessions : Answering(s)' \subseteq Answering(s)
        BY <3>2, <3>3 DEF Answering
    <3> QED
        BY <3>1, <3>4, FewerAnswers
  <2> QED
      BY <2>1, <2>2, <2>3
<1> QED
    BY <1>1, <1>2, StepOfAThread

\* No interleaving, failure or restart loses the history of an answered turn.
THEOREM AnswersAreLogged == Spec => []AnsweredIsLogged
<1>1. TypeInv /\ LogInv => AnsweredIsLogged
  <2> SUFFICES ASSUME TypeInv, LogInv, NEW s \in Sessions
               PROVE  acked[s] <= log[s]
      BY DEF AnsweredIsLogged
  <2>1. acked[s] \in Nat /\ log[s] \in Nat /\ acked[s] + Cardinality(Answering(s)) <= log[s]
      BY DEF TypeInv, TypeOK, LogInv
  <2> QED
      BY <2>1, AnsweringFinite
<1> QED
    BY TypeInit, TypeStep, LogInit, LogStep, <1>1, PTL DEF Spec

-----------------------------------------------------------------------------
(***************************************************************************)
(* However requests interleave: no turn is counted twice.                  *)
(***************************************************************************)

\* Turns that were requested and have not been counted yet.
Pending == {c \in Clients :
    \/ pc[c] \in {"count", "tally"}
    \/ pc[c] \in {"get", "load", "fill", "create", "insert"} /\ kind[c] \in {"text", "voice"}}

\* No object and no row counts a turn that is pending, or one twice.
CountInv ==
    /\ \A o \in Objects : heap[o].turns + Cardinality(Pending) <= requested
    /\ \A s \in Sessions : SavedTurns(s) + Cardinality(Pending) <= requested

LEMMA PendingFinite == IsFiniteSet(Pending) /\ Cardinality(Pending) \in Nat
<1>1. Pending \in SUBSET Clients
    BY DEF Pending
<1> QED
    BY <1>1, ServiceAssumption, FS_Subset, FS_CardinalityType

LEMMA SavedTypes ==
    ASSUME TypeOK
    PROVE  \A s \in Sessions : SavedTurns(s) \in Nat
BY DEF TypeOK, SavedTurns, Record

LEMMA CountInit == Init => CountInv
<1> SUFFICES ASSUME Init
             PROVE  CountInv
    OBVIOUS
<1>1. Pending = {}
    BY DEF Init, Pending
<1>2. Cardinality(Pending) = 0
    BY <1>1, FS_EmptySet
<1> QED
    BY <1>2, FreshRecord DEF Init, CountInv, SavedTurns

\* Where no turn is counted and none begins: objects and rows are old ones,
\* copies of each other, or new.
LEMMA NothingCounted ==
    ASSUME TypeInv, CountInv, requested' = requested, Pending' \subseteq Pending,
           \A o \in Objects : \/ heap'[o].turns = 0
                              \/ \E q \in Objects : heap'[o].turns = heap[q].turns
                              \/ \E s \in Sessions : heap'[o].turns = SavedTurns(s),
           \A s \in Sessions : \/ SavedTurns(s)' = SavedTurns(s)
                               \/ \E q \in Objects : SavedTurns(s)' = heap[q].turns
    PROVE  CountInv'
<1>1. Cardinality(Pending') <= Cardinality(Pending) /\ Cardinality(Pending') \in Nat
    BY PendingFinite, FS_Subset, FS_CardinalityType
<1>2. requested \in Nat /\ Cardinality(Pending) \in Nat
    BY PendingFinite, ServiceAssumption DEF TypeInv, TypeOK
<1>3. /\ \A q \in Objects : heap[q].turns \in Nat /\ heap[q].turns + Cardinality(Pending) <= requested
      /\ \A s \in Sessions : SavedTurns(s) \in Nat /\ SavedTurns(s) + Cardinality(Pending) <= requested
    BY SavedTypes DEF TypeInv, TypeOK, Record, CountInv
<1>4. CASE Objects = {} /\ Sessions = {}
    BY <1>4 DEF CountInv
<1>5. CASE Objects # {} \/ Sessions # {}
  <2>1. Cardinality(Pending) <= requested
      BY <1>2, <1>3, <1>5
  <2>2. ASSUME NEW o \in Objects
        PROVE  heap'[o].turns + Cardinality(Pending') <= requested
    <3>1. heap'[o].turns \in Nat /\ heap'[o].turns + Cardinality(Pending) <= requested
        BY <1>2, <1>3, <2>1
    <3> QED
        BY <1>1, <1>2, <3>1
  <2>3. ASSUME NEW s \in Sessions
        PROVE  SavedTurns(s)' + Cardinality(Pending') <= requested
    <3>1. SavedTurns(s)' \in Nat /\ SavedTurns(s)' + Cardinality(Pending) <= requested
        BY <1>3
    <3> QED
        BY <1>1, <1>2, <3>1
  <2> QED
      BY <2>2, <2>3 DEF CountInv
<1> QED
    BY <1>4, <1>5

LEMMA CountStep == TypeInv /\ CountInv /\ [Next]_vars => CountInv'
<1> SUFFICES ASSUME TypeInv, CountInv, [Next]_vars
             PROVE  CountInv'
    OBVIOUS
<1>0. /\ DOMAIN pc = Clients /\ DOMAIN kind = Clients /\ DOMAIN rows = Sessions
      /\ heap \in [Objects -> Record]
      /\ requested \in Nat
      /\ \A c \in Clients : pc[c] # "idle" => session[c] \in Sessions
      /\ \A c \in Clients : pc[c] \in {"insert", "count", "tally", "mark", "upsert"} => object[c] \in Objects
    BY ServiceAssumption DEF TypeInv, TypeOK, Located
<1>1. CASE UNCHANGED vars \/ Restart
  <2>1. Pending' \subseteq Pending
      BY <1>1 DEF Restart, vars, threadVars, Pending
  <2>2. \A o \in Objects : heap'[o].turns = 0 \/ heap'[o].turns = heap[o].turns
      BY <1>1, FreshRecord DEF Restart, vars, storeVars
  <2>3. \A s \in Sessions : SavedTurns(s)' = SavedTurns(s)
      BY <1>1 DEF Restart, vars, storeVars, SavedTurns
  <2> QED
      BY <1>1, <2>1, <2>2, <2>3, NothingCounted DEF Restart, vars
<1>2. ASSUME NEW c \in Clients, ThreadStep(c)
      PROVE  CountInv'
  <2> USE DEF GoTo, storeVars
  <2>1. ASSUME NEW s \in Sessions, NEW k \in {"text", "voice"}, NEW u \in Utterances,
               Request(c, s, k, u)
        PROVE  CountInv'
    <3>1. /\ pc[c] = "idle" /\ pc' = [pc EXCEPT ![c] = "get"] /\ kind' = [kind EXCEPT ![c] = k]
          /\ requested' = requested + 1 /\ UNCHANGED <<heap, rows>>
        BY <2>1 DEF Request, Arrive
    <3>2. Pending' = Pending \cup {c} /\ c \notin Pending
        BY <3>1, <1>0 DEF Pending
    <3>3. Cardinality(Pending') = Cardinality(Pending) + 1
        BY <3>2, PendingFinite, FS_AddElement
    <3>4. \A o \in Objects : heap[o].turns \in Nat
        BY <1>0 DEF Record
    <3>5. \A t \in Sessions : SavedTurns(t)' = SavedTurns(t) /\ SavedTurns(t) \in Nat
        BY <3>1, SavedTypes DEF SavedTurns, TypeInv
    <3> QED
        BY <3>1, <3>3, <3>4, <3>5, <1>0, PendingFinite DEF CountInv
  <2>2. CASE Tally(c)
    <3>1. /\ pc[c] = "tally" /\ pc' = [pc EXCEPT ![c] = "mark"] /\ object[c] \in Objects
          /\ heap' = [heap EXCEPT ![object[c]] = Tallied(heap[object[c]])]
          /\ UNCHANGED <<kind, rows, requested>>
        BY <2>2, <1>0 DEF Tally
    <3>2. Pending' = Pending \ {c} /\ c \in Pending
        BY <3>1, <1>0 DEF Pending
    <3>3. Cardinality(Pending') = Cardinality(Pending) - 1
        BY <3>2, PendingFinite, FS_RemoveElement
    <3>4. \A o \in Objects : heap[o].turns \in Nat
        BY <1>0 DEF Record
    <3>5. \A t \in Sessions : SavedTurns(t)' = SavedTurns(t) /\ SavedTurns(t) \in Nat
        BY <3>1, SavedTypes DEF SavedTurns, TypeInv
    <3>6. Tallied(heap[object[c]]).turns = heap[object[c]].turns + 1
        BY <3>1, <1>0 DEF Tallied, Record
    <3>7. \A o \in Objects : heap'[o].turns = heap[o].turns + 1 \/ heap'[o].turns = heap[o].turns
        BY <3>1, <3>6, <1>0
    <3> QED
        BY <3>1, <3>3, <3>4, <3>5, <3>7, <1>0, PendingFinite DEF CountInv
  <2>3. CASE \/ \E s \in Sessions : Open(c, s) \/ Look(c, s)
             \/ (Step(c) /\ ~Tally(c)) \/ Fail(c)
    <3>1. requested' = requested
        BY <2>3
        DEF Open, Look, Step, Get, Load, Fill, Create, Insert, Count, Mark, Save, Upsert,
            Append, Answer, Done, Fail
    <3>2. Pending' \subseteq Pending
      <4>1. \A d \in Clients \ {c} : pc'[d] = pc[d] /\ kind'[d] = kind[d]
          BY <2>3, <1>0
          DEF Open, Look, Arrive, Step, Get, Load, Fill, Create, Insert, Count, Mark, Save, Upsert,
              Append, Answer, Done, Fail, Leave
      <4>2. c \in Pending' => c \in Pending
          BY <2>3, <1>0
          DEF Open, Look, Arrive, Step, Get, Load, Fill, Create, Insert, Count, Mark, Save, Upsert,
              Append, Answer, Done, Fail, Leave, Found, Pending
      <4> QED
          BY <4>1, <4>2 DEF Pending
    <3>3. CASE Load(c)
      <4>1. rows' = rows /\ session[c] \in Sessions
          BY <3>3, <1>0 DEF Load
      <4>2. \/ heap' = heap
            \/ /\ rows[session[c]] # NoRecord
               /\ \E o \in Objects : heap' = [heap EXCEPT ![o] = rows[session[c]]]
          BY <3>3 DEF Load, Free
      <4>3. ASSUME NEW q \in Objects
            PROVE  heap'[q].turns = heap[q].turns \/ heap'[q].turns = SavedTurns(session[c])
          BY <4>2, <1>0 DEF SavedTurns
      <4>4. \A s \in Sessions : SavedTurns(s)' = SavedTurns(s)
          BY <4>1 DEF SavedTurns
      <4> QED
          BY <3>1, <3>2, <4>1, <4>3, <4>4, NothingCounted
    <3>4. CASE Create(c)
      <4>1. rows' = rows /\ \E o \in Objects : heap' = [heap EXCEPT ![o] = Fresh]
          BY <3>4 DEF Create, Free
      <4>2. \A q \in Objects : heap'[q].turns = 0 \/ heap'[q].turns = heap[q].turns
          BY <4>1, <1>0, FreshRecord
      <4>3. \A s \in Sessions : SavedTurns(s)' = SavedTurns(s)
          BY <4>1 DEF SavedTurns
      <4> QED
          BY <3>1, <3>2, <4>2, <4>3, NothingCounted
    <3>5. CASE Count(c) \/ Mark(c)
      <4>1. rows' = rows /\ object[c] \in Objects
          BY <3>5, <1>0 DEF Count, Mark
      <4>2. \E r \in Record : heap' = [heap EXCEPT ![object[c]] = r]
                              /\ r.turns = heap[object[c]].turns
        <5>1. heap[object[c]] \in Record /\ words[c] \in Utterances /\ escalate[c] \in BOOLEAN
            BY <4>1, <1>0 DEF TypeInv, TypeOK
        <5> QED
            BY <3>5, <5>1, RecordTypes DEF Count, Mark
      <4>3. \A q \in Objects : heap'[q].turns = heap[q].turns
          BY <4>1, <4>2, <1>0
      <4>4. \A s \in Sessions : SavedTurns(s)' = SavedTurns(s)
          BY <4>1 DEF SavedTurns
      <4> QED
          BY <3>1, <3>2, <4>3, <4>4, NothingCounted
    <3>6. CASE Insert(c) \/ Upsert(c)
      <4>1. /\ heap' = heap /\ object[c] \in Objects /\ session[c] \in Sessions
            /\ rows' = [rows EXCEPT ![session[c]] = heap[object[c]]]
          BY <3>6, <1>0 DEF Insert, Upsert
      <4>2. heap[object[c]] # NoRecord
          BY <4>1, <1>0, ServiceAssumption
      <4>3. \A s \in Sessions : SavedTurns(s)' = SavedTurns(s) \/ SavedTurns(s)' = heap[object[c]].turns
          BY <4>1, <4>2, <1>0 DEF SavedTurns
      <4> QED
          BY <3>1, <3>2, <4>1, <4>3, NothingCounted
    <3>7. CASE UNCHANGED <<heap, rows>>
      <4>1. \A s \in Sessions : SavedTurns(s)' = SavedTurns(s)
          BY <3>7 DEF SavedTurns
      <4> QED
          BY <3>1, <3>2, <3>7, <4>1, NothingCounted
    <3> QED
        BY <2>3, <3>3, <3>4, <3>5, <3>6, <3>7
        DEF Open, Look, Arrive, Step, Get, Fill, Save, Append, Answer, Done, Fail
  <2> QED
      BY <1>2, <2>1, <2>2, <2>3 DEF ThreadStep
<1> QED
    BY <1>1, <1>2, StepOfAThread

\* No session ever counts more turns than were requested, failures and
\* restarts included.
THEOREM CountedOnce == Spec => []NoDoubleCount
<1>1. TypeInv /\ CountInv => NoDoubleCount
  <2> SUFFICES ASSUME TypeInv, CountInv, NEW s \in Sessions
               PROVE  SavedTurns(s) <= requested
      BY DEF NoDoubleCount
  <2>1. SavedTurns(s) \in Nat /\ requested \in Nat /\ SavedTurns(s) + Cardinality(Pending) <= requested
      BY SavedTypes, ServiceAssumption DEF TypeInv, TypeOK, CountInv
  <2> QED
      BY <2>1, PendingFinite
<1> QED
    BY TypeInit, TypeStep, CountInit, CountStep, <1>1, PTL DEF Spec

-----------------------------------------------------------------------------
(***************************************************************************)
(* One request per session at a time.                                      *)
(***************************************************************************)

Working == {"insert", "count", "tally", "mark", "save", "upsert", "append", "answer"}

\* The threads at work have different sessions ...
Alone == \A c, d \in Clients :
    c # d /\ pc[c] # "idle" /\ pc[d] # "idle" => session[c] # session[d]

\* ... and work on what the dictionary has for theirs, ...
OnCached == \A c \in Clients : pc[c] \in Working => cache[session[c]] = object[c]

\* ... which it has for no other; what is being loaded it has for none.
Apart ==
    /\ \A s, t \in Sessions : s # t /\ cache[s] # NoObject => cache[s] # cache[t]
    /\ \A c \in Clients : pc[c] = "fill" => \A s \in Sessions : cache[s] # object[c]
    /\ \A c, d \in Clients : c # d /\ pc[c] = "fill" /\ pc[d] = "fill" => object[c] # object[d]

SessionInv == Alone /\ OnCached /\ Apart

LEMMA SessionInit == Init => SessionInv
BY DEF Init, SessionInv, Alone, OnCached, Apart, Working

LEMMA SessionStep == OneAtATime /\ TypeInv /\ SessionInv /\ [Next]_vars => SessionInv'
<1> SUFFICES ASSUME OneAtATime, TypeInv, SessionInv, [Next]_vars
             PROVE  SessionInv'
    OBVIOUS
<1>0. /\ DOMAIN pc = Clients /\ DOMAIN session = Clients /\ DOMAIN object = Clients
      /\ cache \in [Sessions -> Objects \cup {NoObject}]
      /\ \A c \in Clients : pc[c] # "idle" => session[c] \in Sessions
      /\ \A c \in Clients : pc[c] \in Working \cup {"fill"} => object[c] \in Objects
      /\ NoObject \notin Objects
    BY ServiceAssumption DEF TypeInv, TypeOK, Located, Working
<1>1. CASE UNCHANGED vars
    BY <1>1 DEF SessionInv, Alone, OnCached, Apart, vars, storeVars, threadVars
<1>2. CASE Restart
    BY <1>2 DEF SessionInv, Alone, OnCached, Apart, Restart, Working
<1>3. ASSUME NEW c \in Clients, ThreadStep(c)
      PROVE  SessionInv'
  <2> USE DEF SessionInv, GoTo, storeVars
  <2>1. Alone'
    <3>1. ASSUME NEW s \in Sessions, NEW k, Arrive(c, s, k), pc' = [pc EXCEPT ![c] = pc'[c]]
          PROVE  Alone'
        BY <3>1, <1>0 DEF Arrive, Busy, Alone
    <3>2. CASE \/ \E s \in Sessions, k \in {"text", "voice"}, u \in Utterances : Request(c, s, k, u)
               \/ \E s \in Sessions : Open(c, s) \/ Look(c, s)
        BY <3>1, <3>2, <1>0 DEF Request, Open, Look
    <3>3. CASE Step(c) \/ Fail(c)
      <4>1. \A d \in Clients : pc'[d] # "idle" => pc[d] # "idle" /\ session'[d] = session[d]
          BY <3>3, <1>0
          DEF Step, Get, Load, Fill, Create, Insert, Count, Tally, Mark, Save, Upsert, Append,
              Answer, Done, Fail, Leave
      <4> QED
          BY <4>1 DEF Alone
    <3> QED
        BY <1>3, <3>2, <3>3 DEF ThreadStep
  <2>2. CASE UNCHANGED cache /\ pc'[c] \notin Working \cup {"fill"}
    <3>1. \A d \in Clients \ {c} : pc'[d] = pc[d] /\ session'[d] = session[d] /\ object'[d] = object[d]
      <4>1. \A d \in Clients \ {c} : pc'[d] = pc[d] /\ session'[d] = session[d]
          BY <1>3, <1>0
          DEF ThreadStep, Request, Arrive, Open, Look, Step, Get, Load, Fill, Create, Insert,
              Count, Tally, Mark, Save, Upsert, Append, Answer, Done, Fail, Leave
      <4>2. \A d \in Clients \ {c} : object'[d] = object[d]
          BY <1>3, <1>0
          DEF ThreadStep, Request, Arrive, Open, Look, Step, Get, Load, Fill, Create, Insert,
              Count, Tally, Mark, Save, Upsert, Append, Answer, Done, Fail, Leave
      <4> QED
          BY <4>1, <4>2
    <3> QED
        BY <2>1, <2>2, <3>1 DEF OnCached, Apart
  <2>3. CASE Get(c)
      BY <2>1, <2>2, <2>3, <1>0 DEF Get, OnCached, Apart, Found, Working
  <2>4. CASE Load(c)
      BY <2>1, <2>2, <2>4, <1>0 DEF Load, Free, OnCached, Apart, Working
  <2>5. CASE Fill(c)
    <3>1. /\ pc[c] = "fill" /\ session[c] \in Sessions /\ object[c] \in Objects
          /\ cache' = [cache EXCEPT ![session[c]] = object[c]]
          /\ pc' = [pc EXCEPT ![c] = Found(c)] /\ UNCHANGED <<session, object>>
        BY <2>5, <1>0 DEF Fill
    <3>2. Found(c) \in {"count", "done"}
        BY DEF Found
    <3>3. OnCached'
        BY <3>1, <3>2, <1>0 DEF OnCached, Alone, Working
    <3>4. Apart'
        BY <3>1, <3>2, <1>0 DEF Apart
    <3> QED
        BY <2>1, <3>3, <3>4
  <2>6. CASE Create(c)
    <3>1. PICK o \in Free : /\ object' = [object EXCEPT ![c] = o]
                            /\ cache' = [cache EXCEPT ![session[c]] = o]
        BY <2>6 DEF Create
    <3>2. /\ pc[c] = "create" /\ session[c] \in Sessions
          /\ pc' = [pc EXCEPT ![c] = "insert"] /\ session' = session
        BY <2>6, <1>0 DEF Create
    <3>3. /\ o \in Objects /\ \A s \in Sessions : cache[s] # o
          /\ \A d \in Clients : object[d] # o
        BY DEF Free
    <3>4. OnCached'
        BY <3>1, <3>2, <3>3, <1>0 DEF OnCached, Alone, Working
    <3>5. Apart'
        BY <3>1, <3>2, <3>3, <1>0 DEF Apart
    <3> QED
        BY <2>1, <3>4, <3>5
  <2>7. CASE Insert(c) \/ Count(c) \/ Tally(c) \/ Mark(c) \/ Upsert(c) \/ Append(c)
    <3>1. /\ UNCHANGED <<cache, session, object>> /\ pc[c] \in Working
          /\ pc' = [pc EXCEPT ![c] = pc'[c]] /\ pc'[c] # "fill"
        BY <2>7, <1>0
        DEF Insert, Count, Tally, Mark, Upsert, Append, Working, Found
    <3> QED
        BY <2>1, <3>1, <1>0 DEF OnCached, Apart
  <2>8. CASE Save(c)
    <3>1. /\ pc[c] = "save" /\ session[c] \in Sessions /\ UNCHANGED <<session, object>>
          /\ cache' = [cache EXCEPT ![session[c]] = object[c]] /\ pc' = [pc EXCEPT ![c] = "upsert"]
        BY <2>8, <1>0 DEF Save
    <3>2. cache' = cache
        BY <3>1, <1>0 DEF OnCached, Working
    <3> QED
        BY <2>1, <3>1, <3>2, <1>0 DEF OnCached, Apart, Working
  <2>9. CASE \/ \E s \in Sessions, k \in {"text", "voice"}, u \in Utterances : Request(c, s, k, u)
             \/ \E s \in Sessions : Open(c, s) \/ Look(c, s)
             \/ Answer(c) \/ Done(c) \/ Fail(c)
    <3>1. UNCHANGED cache
        BY <2>9 DEF Request, Arrive, Open, Look, Answer, Done, Fail
    <3>2. pc'[c] \notin Working \cup {"fill"}
        BY <2>9, <1>0 DEF Request, Open, Look, Answer, Done, Fail, Leave, Working
    <3> QED
        BY <2>2, <3>1, <3>2
  <2> QED
      BY <1>3, <2>3, <2>4, <2>5, <2>6, <2>7, <2>8, <2>9 DEF ThreadStep, Step
<1> QED
    BY <1>1, <1>2, <1>3, StepOfAThread

\* One request per session at a time, the object a turn works on is the one
\* the next request finds: loads and creations never leave another.
THEOREM LiveObjectIsOne == ASSUME OneAtATime PROVE Spec => []OneObject
<1>1. SessionInv => OneObject
    BY DEF SessionInv, OnCached, OneObject, Working
<1>2. OneAtATime
    OBVIOUS
<1>3. TypeInv /\ SessionInv /\ [Next]_vars => SessionInv'
    BY <1>2, SessionStep
<1> QED
    BY TypeInit, TypeStep, SessionInit, <1>1, <1>3, PTL DEF Spec

-----------------------------------------------------------------------------
(***************************************************************************)
(* What is durable, and what a voice turn answers.                         *)
(***************************************************************************)

\* A session that is being created has no row yet.
NewHasNoRow ==
    \A c \in Clients : pc[c] \in {"create", "insert"} => rows[session[c]] = NoRecord

\* The object has every turn of the row; one being loaded has the row's.
SavedInObject ==
    /\ \A s \in Sessions : cache[s] # NoObject => SavedTurns(s) <= heap[cache[s]].turns
    /\ \A c \in Clients : pc[c] = "fill" => SavedTurns(session[c]) <= heap[object[c]].turns

\* The row counts the history, and the turn about to enter it, too.
LoggedIsSaved ==
    /\ \A s \in Sessions : log[s] <= SavedTurns(s)
    /\ \A c \in Clients :
        /\ pc[c] \in {"mark", "save", "upsert"} => log[session[c]] + 1 <= heap[object[c]].turns
        /\ pc[c] = "append" => log[session[c]] + 1 <= SavedTurns(session[c])

\* The flag of the session is the decision of the turn at work on it.
FlagIsDecision ==
    \A c \in Clients : pc[c] \in {"save", "upsert", "append", "answer"} =>
        heap[object[c]].escalated = escalate[c]

DurableInv == NewHasNoRow /\ SavedInObject /\ LoggedIsSaved /\ FlagIsDecision

LEMMA DurableInit == Init => DurableInv
<1> SUFFICES ASSUME Init
             PROVE  DurableInv
    OBVIOUS
<1>1. \A s \in Sessions : SavedTurns(s) = 0 /\ cache[s] = NoObject /\ log[s] = 0
    BY DEF Init, SavedTurns
<1>2. \A c \in Clients : pc[c] = "idle"
    BY DEF Init
<1> QED
    BY <1>1, <1>2 DEF DurableInv, NewHasNoRow, SavedInObject, LoggedIsSaved, FlagIsDecision

\* Steps that write neither objects nor rows nor the history, and after which
\* the thread is where nothing is promised.
LEMMA PromisesKept ==
    ASSUME TypeInv, DurableInv, NEW c \in Clients, UNCHANGED <<heap, rows, log>>,
           \A s \in Sessions : cache'[s] \in {cache[s], NoObject},
           pc'[c] \in {"idle", "get", "load", "count", "tally", "done"},
           \A d \in Clients \ {c} : /\ pc'[d] = pc[d] /\ session'[d] = session[d]
                                    /\ object'[d] = object[d] /\ escalate'[d] = escalate[d]
    PROVE  DurableInv'
<1>1. \A s : SavedTurns(s)' = SavedTurns(s)
    BY DEF SavedTurns
<1>2. NewHasNoRow' /\ FlagIsDecision'
    BY DEF DurableInv, NewHasNoRow, FlagIsDecision
<1>3. SavedInObject'
    BY <1>1 DEF DurableInv, SavedInObject
<1>4. LoggedIsSaved'
    BY <1>1 DEF DurableInv, LoggedIsSaved
<1> QED
    BY <1>2, <1>3, <1>4 DEF DurableInv

\* A thread goes on and changes nothing that is promised.
LEMMA OthersApart ==
    ASSUME TypeInv, SessionInv, NEW c \in Clients, NEW d \in Clients \ {c},
           pc[c] # "idle", pc[d] # "idle"
    PROVE  /\ session[d] # session[c] /\ session[c] \in Sessions /\ session[d] \in Sessions
           /\ pc[c] \in Working /\ pc[d] \in Working \cup {"fill"} => object[d] # object[c]
<1>1. session[d] # session[c] /\ session[c] \in Sessions /\ session[d] \in Sessions
    BY DEF TypeInv, Located, SessionInv, Alone
<1>2. ASSUME pc[c] \in Working
      PROVE  cache[session[c]] = object[c] /\ object[c] # NoObject
    BY <1>2, ServiceAssumption DEF SessionInv, OnCached, TypeInv, Located, Working
<1>3. CASE pc[d] \in Working
    BY <1>1, <1>2, <1>3 DEF SessionInv, OnCached, Apart
<1>4. CASE pc[d] = "fill"
    BY <1>1, <1>2, <1>4 DEF SessionInv, Apart
<1> QED
    BY <1>1, <1>3, <1>4

\* A turn writes to its object and to nobody else's.
LEMMA OwnObject ==
    ASSUME TypeInv, SessionInv, DurableInv, NEW c \in Clients, NEW r \in Record,
           pc[c] \in {"count", "tally", "mark"}, pc'[c] \in {"tally", "mark", "save"},
           heap' = [heap EXCEPT ![object[c]] = r], r.turns >= heap[object[c]].turns,
           pc'[c] # "tally" => log[session[c]] + 1 <= r.turns,
           pc'[c] = "save" => r.escalated = escalate'[c],
           UNCHANGED <<cache, rows, log, session, object>>,
           \A d \in Clients \ {c} : pc'[d] = pc[d] /\ escalate'[d] = escalate[d]
    PROVE  DurableInv'
<1>0. /\ heap \in [Objects -> Record] /\ object[c] \in Objects
      /\ \A q \in Objects : heap[q].turns \in Nat /\ heap'[q].turns \in Nat
      /\ \A s \in Sessions : log[s] \in Nat /\ SavedTurns(s) \in Nat /\ SavedTurns(s)' = SavedTurns(s)
    BY SavedTypes DEF TypeInv, TypeOK, Located, Record, SavedTurns
<1>1. \A q \in Objects : heap'[q].turns >= heap[q].turns
    BY <1>0
<1>2. NewHasNoRow'
    BY DEF DurableInv, NewHasNoRow
<1>3. SavedInObject'
  <2>1. ASSUME NEW s \in Sessions, cache[s] # NoObject
        PROVE  SavedTurns(s) <= heap'[cache[s]].turns
    <3>1. cache[s] \in Objects /\ SavedTurns(s) <= heap[cache[s]].turns
        BY <2>1 DEF DurableInv, SavedInObject, TypeInv, TypeOK
    <3> QED
        BY <3>1, <1>0, <1>1
  <2>2. ASSUME NEW d \in Clients, pc'[d] = "fill"
        PROVE  SavedTurns(session[d]) <= heap'[object[d]].turns
    <3>1. /\ object[d] \in Objects /\ session[d] \in Sessions
          /\ SavedTurns(session[d]) <= heap[object[d]].turns
        BY <2>2 DEF DurableInv, SavedInObject, TypeInv, Located
    <3> QED
        BY <3>1, <1>0, <1>1
  <2> QED
      BY <2>1, <2>2, <1>0 DEF SavedInObject, TypeInv, Located
<1>4. LoggedIsSaved'
  <2>1. ASSUME NEW d \in Clients \ {c}, pc[d] \in {"mark", "save", "upsert"}
        PROVE  log[session[d]] + 1 <= heap'[object[d]].turns
    <3>1. /\ object[d] \in Objects /\ session[d] \in Sessions
          /\ log[session[d]] + 1 <= heap[object[d]].turns
        BY <2>1 DEF DurableInv, LoggedIsSaved, TypeInv, Located
    <3> QED
        BY <3>1, <1>0, <1>1
  <2>2. pc'[c] \in {"mark", "save", "upsert"} => log[session[c]] + 1 <= heap'[object[c]].turns
      BY <1>0
  <2>3. \A d \in Clients : pc'[d] = "append" => log[session[d]] + 1 <= SavedTurns(session[d])'
      BY <1>0 DEF DurableInv, LoggedIsSaved, TypeInv, Located
  <2> QED
      BY <2>1, <2>2, <2>3, <1>0 DEF LoggedIsSaved, DurableInv
<1>5. FlagIsDecision'
  <2>1. ASSUME NEW d \in Clients \ {c}, pc[d] \in {"save", "upsert", "append", "answer"}
        PROVE  heap'[object[d]].escalated = escalate[d]
    <3>1. object[d] # object[c] /\ object[d] \in Objects
        BY <2>1, OthersApart DEF Working, TypeInv, Located
    <3> QED
        BY <2>1, <3>1, <1>0 DEF DurableInv, FlagIsDecision
  <2>2. pc'[c] \in {"save", "upsert", "append", "answer"} => heap'[object[c]].escalated = escalate'[c]
      BY <1>0
  <2> QED
      BY <2>1, <2>2 DEF FlagIsDecision
<1> QED
    BY <1>2, <1>3, <1>4, <1>5 DEF DurableInv

\* A new object is made, of the row or fresh, that nobody knows.
LEMMA NewObject ==
    ASSUME TypeInv, DurableInv, NEW c \in Clients, NEW o \in Free, NEW r \in Record,
           heap' = [heap EXCEPT ![o] = r],
           UNCHANGED <<rows, log, session, escalate>>,
           object' = [object EXCEPT ![c] = o],
           pc' = [pc EXCEPT ![c] = pc'[c]],
           pc[c] \in {"load", "create"}, pc'[c] \in {"fill", "insert"},
           r.turns >= SavedTurns(session[c]),
           pc'[c] = "insert" => rows[session[c]] = NoRecord,
           cache' = cache \/ cache' = [cache EXCEPT ![session[c]] = o]
    PROVE  DurableInv'
<1>0. /\ heap \in [Objects -> Record] /\ o \in Objects /\ session[c] \in Sessions
      /\ cache \in [Sessions -> Objects \cup {NoObject}]
      /\ \A d \in Clients : object[d] # o
      /\ \A s \in Sessions : cache[s] # o
      /\ \A s \in Sessions : SavedTurns(s)' = SavedTurns(s)
      /\ DOMAIN pc = Clients /\ DOMAIN object = Clients
    BY DEF TypeInv, TypeOK, Located, Free, SavedTurns
<1>1. NewHasNoRow'
    BY <1>0 DEF DurableInv, NewHasNoRow
<1>2. \A q \in Objects : q # o => heap'[q] = heap[q]
    BY <1>0
<1>3. heap'[o] = r
    BY <1>0
<1>4. SavedInObject'
  <2>1. ASSUME NEW s \in Sessions, cache'[s] # NoObject
        PROVE  SavedTurns(s) <= heap'[cache'[s]].turns
    <3>1. CASE cache'[s] = o
      <4>1. s = session[c]
          BY <3>1, <1>0
      <4>2. SavedTurns(s) \in Nat /\ r.turns \in Nat
          BY SavedTypes DEF TypeInv, Record
      <4> QED
          BY <3>1, <4>1, <4>2, <1>3
    <3>2. CASE cache'[s] # o
      <4>1. cache'[s] = cache[s] /\ cache[s] \in Objects
          BY <2>1, <3>2, <1>0
      <4> QED
          BY <2>1, <3>2, <4>1, <1>2 DEF DurableInv, SavedInObject
    <3> QED
        BY <3>1, <3>2
  <2>2. ASSUME NEW d \in Clients, pc'[d] = "fill"
        PROVE  SavedTurns(session[d]) <= heap'[object'[d]].turns
    <3>1. CASE d = c
      <4>1. SavedTurns(session[c]) \in Nat /\ r.turns \in Nat /\ object'[d] = o
          BY <3>1, <1>0, SavedTypes DEF TypeInv, Record
      <4> QED
          BY <3>1, <4>1, <1>3
    <3>2. CASE d # c
      <4>1. pc[d] = "fill" /\ object'[d] = object[d] /\ object[d] \in Objects
          BY <2>2, <3>2, <1>0 DEF TypeInv, Located
      <4> QED
          BY <4>1, <1>0, <1>2 DEF DurableInv, SavedInObject
    <3> QED
        BY <3>1, <3>2
  <2>3. \A d \in Clients : pc'[d] = "fill" => session'[d] \in Sessions
      BY <1>0 DEF TypeInv, Located
  <2> QED
      BY <2>1, <2>2, <2>3, <1>0 DEF SavedInObject
<1>5. LoggedIsSaved' /\ FlagIsDecision'
  <2>1. ASSUME NEW d \in Clients, pc'[d] \in {"mark", "save", "upsert", "append", "answer"}
        PROVE  /\ pc'[d] = pc[d] /\ object'[d] = object[d] /\ heap'[object[d]] = heap[object[d]]
               /\ SavedTurns(session[d])' = SavedTurns(session[d])
      BY <2>1, <1>0, <1>2 DEF TypeInv, Located
  <2>2. LoggedIsSaved'
      BY <2>1, <1>0 DEF DurableInv, LoggedIsSaved
  <2>3. FlagIsDecision'
      BY <2>1 DEF DurableInv, FlagIsDecision
  <2> QED
      BY <2>2, <2>3
<1> QED
    BY <1>1, <1>4, <1>5 DEF DurableInv

\* The row is written.
LEMMA RowWritten ==
    ASSUME TypeInv, SessionInv, DurableInv, NEW c \in Clients, Insert(c) \/ Upsert(c)
    PROVE  DurableInv'
<1>0. /\ pc[c] \in {"insert", "upsert"} /\ object[c] \in Objects /\ session[c] \in Sessions
      /\ heap \in [Objects -> Record] /\ heap[object[c]] \in Record
      /\ rows \in [Sessions -> Record \cup {NoRecord}]
      /\ NoRecord \notin Record /\ cache[session[c]] = object[c]
      /\ DOMAIN pc = Clients
    BY ServiceAssumption
    DEF Insert, Upsert, TypeInv, TypeOK, Located, SessionInv, OnCached, Working
<1>1. /\ rows' = [rows EXCEPT ![session[c]] = heap[object[c]]]
      /\ UNCHANGED <<heap, cache, log, session, object, escalate>>
      /\ \A d \in Clients \ {c} : pc'[d] = pc[d]
    BY <1>0 DEF Insert, Upsert, GoTo
<1>2. /\ pc[c] = "insert" => pc'[c] \in {"count", "done"}
      /\ pc[c] = "upsert" => pc'[c] = "append"
    BY <1>0 DEF Insert, Upsert, GoTo, Found
<1>3. /\ SavedTurns(session[c])' = heap[object[c]].turns
      /\ \A s \in Sessions \ {session[c]} : SavedTurns(s)' = SavedTurns(s)
    BY <1>0, <1>1 DEF SavedTurns
<1>4. \A d \in Clients \ {c} : pc[d] # "idle" => session[d] \in Sessions \ {session[c]}
    BY <1>0, OthersApart
<1>5. NewHasNoRow'
    BY <1>0, <1>1, <1>2, <1>4 DEF DurableInv, NewHasNoRow
<1>6. SavedInObject'
  <2>1. heap[object[c]].turns \in Nat
      BY <1>0 DEF Record
  <2>2. ASSUME NEW s \in Sessions, cache[s] # NoObject
        PROVE  SavedTurns(s)' <= heap[cache[s]].turns
    <3>1. CASE s = session[c]
        BY <3>1, <1>0, <1>1, <1>3, <2>1 DEF SavedTurns
    <3>2. CASE s # session[c]
      <4>1. SavedTurns(s)' = SavedTurns(s)
          BY <3>2, <1>3
      <4> QED
          BY <2>2, <4>1 DEF DurableInv, SavedInObject
    <3> QED
        BY <3>1, <3>2
  <2>3. \A d \in Clients : pc'[d] = "fill" => SavedTurns(session[d])' <= heap[object[d]].turns
      BY <1>0, <1>1, <1>2, <1>3, <1>4 DEF DurableInv, SavedInObject
  <2> QED
      BY <2>2, <2>3, <1>1 DEF SavedInObject
<1>7. LoggedIsSaved'
  <2>1. log[session[c]] \in Nat /\ heap[object[c]].turns \in Nat
      BY <1>0 DEF TypeInv, TypeOK, Record
  <2>2. log[session[c]] <= heap[object[c]].turns
    <3>1. CASE pc[c] = "insert"
      <4>1. SavedTurns(session[c]) = 0
          BY <3>1 DEF DurableInv, NewHasNoRow, SavedTurns
      <4> QED
          BY <4>1, <1>0, <2>1 DEF DurableInv, LoggedIsSaved
    <3>2. CASE pc[c] = "upsert"
      <4>1. log[session[c]] + 1 <= heap[object[c]].turns
          BY <3>2 DEF DurableInv, LoggedIsSaved
      <4> QED
          BY <4>1, <2>1
    <3> QED
        BY <1>0, <3>1, <3>2
  <2>3. ASSUME NEW s \in Sessions
        PROVE  log[s] <= SavedTurns(s)'
    <3>1. CASE s = session[c]
        BY <3>1, <1>1, <1>3, <2>2 DEF SavedTurns
    <3>2. CASE s # session[c]
      <4>1. SavedTurns(s)' = SavedTurns(s)
          BY <3>2, <1>3
      <4> QED
          BY <4>1 DEF DurableInv, LoggedIsSaved
    <3> QED
        BY <3>1, <3>2
  <2>4. pc'[c] = "append" => log[session[c]] + 1 <= SavedTurns(session[c])'
      BY <1>0, <1>2, <1>3 DEF DurableInv, LoggedIsSaved
  <2>5. ASSUME NEW d \in Clients
        PROVE  /\ pc'[d] \in {"mark", "save", "upsert"} => log[session[d]] + 1 <= heap[object[d]].turns
               /\ pc'[d] = "append" => log[session[d]] + 1 <= SavedTurns(session[d])'
    <3>1. CASE d = c
        BY <3>1, <2>4, <1>0, <1>2
    <3>2. CASE d # c
        BY <3>2, <1>1, <1>3, <1>4 DEF DurableInv, LoggedIsSaved
    <3> QED
        BY <3>1, <3>2
  <2> QED
      BY <2>3, <2>5, <1>1 DEF LoggedIsSaved
<1>8. FlagIsDecision'
    BY <1>0, <1>1, <1>2 DEF DurableInv, FlagIsDecision
<1> QED
    BY <1>5, <1>6, <1>7, <1>8 DEF DurableInv

LEMMA DurableStep == OneAtATime /\ TypeInv /\ SessionInv /\ DurableInv /\ [Next]_vars => DurableInv'
<1> SUFFICES ASSUME OneAtATime, TypeInv, SessionInv, DurableInv, [Next]_vars
             PROVE  DurableInv'
    OBVIOUS
<1> DEFINE Quiet == {"idle", "get", "load", "count", "tally", "done"}
<1>0. /\ DOMAIN pc = Clients /\ DOMAIN session = Clients /\ DOMAIN object = Clients
      /\ DOMAIN escalate = Clients
      /\ \A c \in Clients : pc[c] # "idle" => session[c] \in Sessions
    BY DEF TypeInv, TypeOK, Located
<1>1. CASE UNCHANGED vars
    BY <1>1
    DEF DurableInv, NewHasNoRow, SavedInObject, LoggedIsSaved, FlagIsDecision, SavedTurns,
        vars, storeVars, threadVars
<1>2. CASE Restart
  <2>1. \A s : SavedTurns(s)' = SavedTurns(s)
      BY <1>2 DEF Restart, SavedTurns
  <2>2. (\A c \in Clients : pc'[c] = "idle") /\ (\A s \in Sessions : cache'[s] = NoObject) /\ log' = log
      BY <1>2 DEF Restart
  <2> QED
      BY <2>1, <2>2 DEF DurableInv, NewHasNoRow, SavedInObject, LoggedIsSaved, FlagIsDecision
<1>3. ASSUME NEW c \in Clients, ThreadStep(c)
      PROVE  DurableInv'
  <2> USE DEF GoTo, storeVars
  <2>0. \A d \in Clients \ {c} : /\ pc'[d] = pc[d] /\ session'[d] = session[d]
                                 /\ object'[d] = object[d] /\ escalate'[d] = escalate[d]
    <3>1. \A d \in Clients \ {c} : pc'[d] = pc[d] /\ session'[d] = session[d]
        BY <1>3, <1>0
        DEF ThreadStep, Request, Arrive, Open, Look, Step, Get, Load, Fill, Create, Insert,
            Count, Tally, Mark, Save, Upsert, Append, Answer, Done, Fail, Leave
    <3>2. \A d \in Clients \ {c} : object'[d] = object[d] /\ escalate'[d] = escalate[d]
        BY <1>3, <1>0
        DEF ThreadStep, Request, Arrive, Open, Look, Step, Get, Load, Fill, Create, Insert,
            Count, Tally, Mark, Save, Upsert, Append, Answer, Done, Fail, Leave
    <3> QED
        BY <3>1, <3>2
  <2>1. CASE UNCHANGED <<heap, cache, rows, log>> /\ pc'[c] \in Quiet
      BY <2>0, <2>1, PromisesKept
  <2>2. CASE \/ \E s \in Sessions, k \in {"text", "voice"}, u \in Utterances : Request(c, s, k, u)
             \/ \E s \in Sessions : Look(c, s)
             \/ Get(c) \/ Answer(c) \/ Done(c) \/ Fail(c)
    <3>1. UNCHANGED <<heap, cache, rows, log>>
        BY <2>2 DEF Request, Arrive, Look, Get, Answer, Done, Fail
    <3>2. pc'[c] \in Quiet
        BY <2>2, <1>0 DEF Request, Look, Get, Found, Answer, Done, Fail, Leave
    <3> QED
        BY <2>1, <3>1, <3>2
  <2>3. ASSUME NEW s \in Sessions, Open(c, s)
        PROVE  DurableInv'
    <3>1. /\ UNCHANGED <<heap, cache, rows, log>> /\ rows[s] = NoRecord
          /\ pc'[c] = "create" /\ session'[c] = s
        BY <2>3, <1>0 DEF Open, Arrive
    <3>2. \A t : SavedTurns(t)' = SavedTurns(t)
        BY <3>1 DEF SavedTurns
    <3> QED
        BY <2>0, <3>1, <3>2
        DEF DurableInv, NewHasNoRow, SavedInObject, LoggedIsSaved, FlagIsDecision
  <2>4. CASE Load(c)
    <3>1. pc[c] = "load" /\ session' = session /\ escalate' = escalate /\ UNCHANGED <<cache, rows, log>>
        BY <2>4 DEF Load
    <3>2. CASE rows[session[c]] = NoRecord
      <4>1. pc'[c] \in {"done", "create"} /\ heap' = heap
          BY <2>4, <3>2, <1>0 DEF Load
      <4>2. CASE pc'[c] = "done"
          BY <2>1, <3>1, <4>1, <4>2
      <4>3. CASE pc'[c] = "create"
        <5>1. \A t : SavedTurns(t)' = SavedTurns(t)
            BY <3>1 DEF SavedTurns
        <5> QED
            BY <2>0, <3>1, <3>2, <4>1, <4>3, <5>1
            DEF DurableInv, NewHasNoRow, SavedInObject, LoggedIsSaved, FlagIsDecision
      <4> QED
          BY <4>1, <4>2, <4>3
    <3>3. CASE rows[session[c]] # NoRecord
      <4>1. PICK o \in Free : /\ object' = [object EXCEPT ![c] = o]
                              /\ heap' = [heap EXCEPT ![o] = rows[session[c]]]
                              /\ pc' = [pc EXCEPT ![c] = "fill"]
          BY <2>4, <3>3 DEF Load
      <4>2. rows[session[c]] \in Record /\ SavedTurns(session[c]) = rows[session[c]].turns
          BY <3>1, <3>3, <1>0 DEF TypeInv, TypeOK, SavedTurns
      <4>3. rows[session[c]].turns >= SavedTurns(session[c])
          BY <4>2 DEF Record
      <4>4. pc'[c] = "fill" /\ pc' = [pc EXCEPT ![c] = pc'[c]]
          BY <4>1, <1>0
      <4> QED
          BY <3>1, <4>1, <4>2, <4>3, <4>4, NewObject
    <3> QED
        BY <3>2, <3>3
  <2>5. CASE Fill(c)
    <3>1. /\ pc[c] = "fill" /\ session[c] \in Sessions /\ UNCHANGED <<heap, rows, log, session, object>>
          /\ cache' = [cache EXCEPT ![session[c]] = object[c]] /\ pc'[c] \in {"count", "done"}
        BY <2>5, <1>0 DEF Fill, Found
    <3>2. \A t : SavedTurns(t)' = SavedTurns(t)
        BY <3>1 DEF SavedTurns
    <3>3. SavedInObject'
        BY <2>0, <3>1, <3>2 DEF DurableInv, SavedInObject, TypeInv, TypeOK
    <3> QED
        BY <2>0, <3>1, <3>2, <3>3 DEF DurableInv, NewHasNoRow, LoggedIsSaved, FlagIsDecision
  <2>6. CASE Create(c)
    <3>1. /\ pc[c] = "create" /\ pc' = [pc EXCEPT ![c] = "insert"]
          /\ UNCHANGED <<rows, log, session, escalate>>
        BY <2>6 DEF Create
    <3>2. PICK o \in Free : /\ object' = [object EXCEPT ![c] = o]
                            /\ heap' = [heap EXCEPT ![o] = Fresh]
                            /\ cache' = [cache EXCEPT ![session[c]] = o]
        BY <2>6 DEF Create
    <3>3. rows[session[c]] = NoRecord /\ SavedTurns(session[c]) = 0
        BY <3>1 DEF DurableInv, NewHasNoRow, SavedTurns
    <3>4. pc'[c] = "insert" /\ pc' = [pc EXCEPT ![c] = pc'[c]] /\ Fresh.turns >= SavedTurns(session[c])
        BY <3>1, <3>3, <1>0, FreshRecord
    <3> QED
        BY <3>1, <3>2, <3>3, <3>4, FreshRecord, NewObject
  <2>7. CASE Insert(c) \/ Upsert(c)
      BY <2>7, RowWritten
  <2>8. CASE Count(c) \/ Tally(c) \/ Mark(c)
    <3>0. /\ pc[c] \in {"count", "tally", "mark"} /\ session[c] \in Sessions
          /\ UNCHANGED <<cache, rows, log, session, object>>
          /\ heap[object[c]] \in Record /\ words[c] \in Utterances /\ escalate[c] \in BOOLEAN
          /\ cache[session[c]] = object[c] /\ object[c] # NoObject
        BY <2>8, <1>0, ServiceAssumption
        DEF Count, Tally, Mark, TypeInv, TypeOK, Located, SessionInv, OnCached, Working
    <3>1. CASE Count(c)
      <4>1. /\ Counted(heap[object[c]], words[c]) \in Record
            /\ Counted(heap[object[c]], words[c]).turns >= heap[object[c]].turns
          BY <3>0, RecordTypes DEF Record
      <4>2. pc'[c] = "tally" /\ heap' = [heap EXCEPT ![object[c]] = Counted(heap[object[c]], words[c])]
          BY <3>1, <1>0 DEF Count
      <4> QED
          BY <2>0, <3>0, <4>1, <4>2, OwnObject
    <3>2. CASE Tally(c)
      <4>1. /\ Tallied(heap[object[c]]) \in Record /\ heap[object[c]].turns \in Nat
            /\ Tallied(heap[object[c]]).turns = heap[object[c]].turns + 1
          BY <3>0, RecordTypes DEF Record
      <4>2. log[session[c]] <= heap[object[c]].turns
        <5>1. log[session[c]] <= SavedTurns(session[c]) /\ SavedTurns(session[c]) <= heap[object[c]].turns
            BY <3>0 DEF DurableInv, LoggedIsSaved, SavedInObject
        <5>2. log[session[c]] \in Nat /\ SavedTurns(session[c]) \in Nat
            BY <3>0, SavedTypes DEF TypeInv, TypeOK
        <5> QED
            BY <4>1, <5>1, <5>2
      <4>3. log[session[c]] \in Nat
          BY <3>0 DEF TypeInv, TypeOK
      <4>4. /\ log[session[c]] + 1 <= Tallied(heap[object[c]]).turns
            /\ Tallied(heap[object[c]]).turns >= heap[object[c]].turns
          BY <4>1, <4>2, <4>3
      <4>5. pc'[c] = "mark" /\ heap' = [heap EXCEPT ![object[c]] = Tallied(heap[object[c]])]
          BY <3>2, <1>0 DEF Tally
      <4> QED
          BY <2>0, <3>0, <4>1, <4>4, <4>5, OwnObject
    <3>3. CASE Mark(c)
      <4>1. /\ Marked(heap[object[c]], escalate[c]) \in Record /\ heap[object[c]].turns \in Nat
            /\ Marked(heap[object[c]], escalate[c]).turns = heap[object[c]].turns
            /\ Marked(heap[object[c]], escalate[c]).escalated = escalate[c]
          BY <3>0, RecordTypes DEF Record
      <4>2. /\ pc'[c] = "save" /\ escalate'[c] = escalate[c] /\ pc[c] = "mark"
            /\ heap' = [heap EXCEPT ![object[c]] = Marked(heap[object[c]], escalate[c])]
          BY <3>3, <1>0 DEF Mark
      <4>3. /\ log[session[c]] + 1 <= Marked(heap[object[c]], escalate[c]).turns
            /\ Marked(heap[object[c]], escalate[c]).turns >= heap[object[c]].turns
          BY <4>1, <4>2 DEF DurableInv, LoggedIsSaved
      <4> QED
          BY <2>0, <3>0, <4>1, <4>2, <4>3, OwnObject
    <3> QED
        BY <2>8, <3>1, <3>2, <3>3
  <2>9. CASE Save(c)
    <3>1. /\ pc[c] = "save" /\ pc'[c] = "upsert" /\ UNCHANGED <<heap, rows, log, session, object, escalate>>
          /\ cache' = [cache EXCEPT ![session[c]] = object[c]]
        BY <2>9, <1>0 DEF Save
    <3>2. cache' = cache
        BY <3>1 DEF SessionInv, OnCached, Working, TypeInv, TypeOK
    <3>3. \A t : SavedTurns(t)' = SavedTurns(t)
        BY <3>1 DEF SavedTurns
    <3> QED
        BY <2>0, <3>1, <3>2, <3>3
        DEF DurableInv, NewHasNoRow, SavedInObject, LoggedIsSaved, FlagIsDecision
  <2>10. CASE Append(c)
    <3>1. /\ pc[c] = "append" /\ pc'[c] = "answer" /\ session[c] \in Sessions
          /\ log' = [log EXCEPT ![session[c]] = log[session[c]] + 1]
          /\ UNCHANGED <<heap, cache, rows, session, object, escalate>>
        BY <2>10, <1>0 DEF Append
    <3>2. \A t : SavedTurns(t)' = SavedTurns(t)
        BY <3>1 DEF SavedTurns
    <3>3. \A d \in Clients \ {c} : pc[d] # "idle" => session[d] \in Sessions \ {session[c]}
        BY <3>1, OthersApart
    <3>4. /\ log'[session[c]] = log[session[c]] + 1
          /\ \A t \in Sessions \ {session[c]} : log'[t] = log[t]
        BY <3>1 DEF TypeInv, TypeOK
    <3>5. LoggedIsSaved'
        BY <2>0, <3>1, <3>2, <3>3, <3>4 DEF DurableInv, LoggedIsSaved
    <3> QED
        BY <2>0, <3>1, <3>2, <3>5 DEF DurableInv, NewHasNoRow, SavedInObject, FlagIsDecision
  <2> QED
      BY <1>3, <2>2, <2>3, <2>4, <2>5, <2>6, <2>7, <2>8, <2>9, <2>10 DEF ThreadStep, Step
<1> QED
    BY <1>1, <1>2, <1>3, StepOfAThread

\* One request per session at a time: what was answered is in the history, and
\* the history in the session's durable count, whatever fails or restarts.
THEOREM NothingIsLost == ASSUME OneAtATime PROVE Spec => []NothingLost
<1>1. OneAtATime
    OBVIOUS
<1>2. TypeInv /\ SessionInv /\ [Next]_vars => SessionInv'
    BY <1>1, SessionStep
<1>3. TypeInv /\ SessionInv /\ DurableInv /\ [Next]_vars => DurableInv'
    BY <1>1, DurableStep
<1>4. DurableInv /\ AnsweredIsLogged => NothingLost
    BY DEF DurableInv, LoggedIsSaved, AnsweredIsLogged, NothingLost
<1> QED
    BY TypeInit, TypeStep, SessionInit, DurableInit, <1>2, <1>3, <1>4, AnswersAreLogged, PTL DEF Spec

\* One request per session at a time: a voice turn, which reads the flag of
\* the shared session once more, answers with its own decision.
THEOREM VoiceAnswersOwnTurn == ASSUME OneAtATime PROVE Spec => VoiceAnswersItsTurn
<1>1. OneAtATime
    OBVIOUS
<1>2. TypeInv /\ SessionInv /\ [Next]_vars => SessionInv'
    BY <1>1, SessionStep
<1>3. TypeInv /\ SessionInv /\ DurableInv /\ [Next]_vars => DurableInv'
    BY <1>1, DurableStep
<1>4. ASSUME TypeInv, SessionInv, DurableInv, [Next]_vars
      PROVE  [\A c \in Clients : acked' # acked /\ pc[c] = "answer" /\ pc'[c] = "idle" =>
                answer'[c] = escalate[c]]_vars
  <2> SUFFICES ASSUME NEW c \in Clients, acked' # acked, pc[c] = "answer", pc'[c] = "idle"
               PROVE  answer'[c] = escalate[c]
      OBVIOUS
  <2>1. PICK d \in Clients : Answer(d)
      BY <1>4
      DEF Next, Request, Arrive, Open, Look, Step, Get, Load, Fill, Create, Insert, Count, Tally,
          Mark, Save, Upsert, Append, Done, Fail, Restart, vars
  <2>2. d = c
      BY <2>1, <1>4 DEF Answer, Leave, GoTo, TypeInv, TypeOK
  <2>3. heap[cache[session[c]]].escalated = escalate[c]
      BY <1>4 DEF SessionInv, OnCached, Working, DurableInv, FlagIsDecision
  <2> QED
      BY <2>1, <2>2, <2>3, <1>4 DEF Answer, TypeInv, TypeOK
<1> QED
    BY TypeInit, TypeStep, SessionInit, DurableInit, <1>2, <1>3, <1>4, PTL DEF Spec, VoiceAnswersItsTurn

-----------------------------------------------------------------------------
(***************************************************************************)
(* One request per session at a time, the service is the ledger: a turn    *)
(* takes effect at its last assignment, and as a whole.                    *)
(***************************************************************************)

\* What a lookup that missed will put into the dictionary is not in it yet;
\* an object being loaded holds the row.
Missing ==
    /\ \A c \in Clients : pc[c] \in {"load", "fill", "create"} => cache[session[c]] = NoObject
    /\ \A c \in Clients : pc[c] = "fill" => heap[object[c]] = rows[session[c]]

\* Between a turn's assignments its object is the one it found, as far as the
\* turn has changed it, and the decision is the one of the counters.
Midway ==
    \A c \in Clients :
        /\ pc[c] = "tally" => heap[object[c]] = Counted(before[c], words[c])
        /\ pc[c] = "mark" => heap[object[c]] = Tallied(Counted(before[c], words[c]))
        /\ pc[c] \in {"tally", "mark"} =>
               escalate[c] = MustEscalate(Counted(before[c], words[c]), words[c])

WholeInv == Missing /\ Midway

LEMMA WholeInit == Init => WholeInv
BY DEF Init, WholeInv, Missing, Midway

\* Every other thread keeps its place and what is its own.
LEMMA OthersStay ==
    ASSUME TypeInv, NEW c \in Clients, ThreadStep(c)
    PROVE  \A d \in Clients \ {c} :
               /\ pc'[d] = pc[d] /\ session'[d] = session[d] /\ object'[d] = object[d]
               /\ escalate'[d] = escalate[d] /\ words'[d] = words[d] /\ before'[d] = before[d]
<1>0. /\ DOMAIN pc = Clients /\ DOMAIN session = Clients /\ DOMAIN object = Clients
      /\ DOMAIN escalate = Clients /\ DOMAIN words = Clients /\ DOMAIN before = Clients
    BY DEF TypeInv, TypeOK
<1>1. \A d \in Clients \ {c} : pc'[d] = pc[d] /\ session'[d] = session[d]
    BY <1>0
    DEF ThreadStep, Request, Arrive, Open, Look, Step, Get, Load, Fill, Create, Insert, Count,
        Tally, Mark, Save, Upsert, Append, Answer, Done, Fail, Leave, GoTo
<1>2. \A d \in Clients \ {c} : object'[d] = object[d] /\ escalate'[d] = escalate[d]
    BY <1>0
    DEF ThreadStep, Request, Arrive, Open, Look, Step, Get, Load, Fill, Create, Insert, Count,
        Tally, Mark, Save, Upsert, Append, Answer, Done, Fail, Leave
<1>3. \A d \in Clients \ {c} : words'[d] = words[d] /\ before'[d] = before[d]
    BY <1>0
    DEF ThreadStep, Request, Arrive, Open, Look, Step, Get, Load, Fill, Create, Insert, Count,
        Tally, Mark, Save, Upsert, Append, Answer, Done, Fail, Leave
<1> QED
    BY <1>1, <1>2, <1>3

\* No step of another thread touches the session or the object of one at work
\* or of one that looks for its session.
LEMMA OthersUntouched ==
    ASSUME TypeInv, SessionInv, NEW c \in Clients, ThreadStep(c),
           NEW d \in Clients \ {c}, pc[d] # "idle"
    PROVE  /\ cache'[session[d]] = cache[session[d]] /\ rows'[session[d]] = rows[session[d]]
           /\ pc[d] \in Working \cup {"fill"} => heap'[object[d]] = heap[object[d]]
<1>0. /\ heap \in [Objects -> Record] /\ cache \in [Sessions -> Objects \cup {NoObject}]
      /\ DOMAIN rows = Sessions /\ session[d] \in Sessions
      /\ pc[d] \in Working \cup {"fill"} => object[d] \in Objects
    BY DEF TypeInv, TypeOK, Located, Working
<1>1. CASE UNCHANGED <<heap, cache, rows>>
    BY <1>1
<1>2. CASE pc[c] # "idle" /\ ~UNCHANGED <<heap, cache, rows>>
  <2>1. session[d] # session[c]
      BY <1>2, OthersApart
  <2>2. cache'[session[d]] = cache[session[d]] /\ rows'[session[d]] = rows[session[d]]
      BY <2>1, <1>0, <1>2
      DEF ThreadStep, Request, Arrive, Open, Look, Step, Get, Load, Fill, Create, Insert, Count,
          Tally, Mark, Save, Upsert, Append, Answer, Done, Fail, storeVars
  <2>3. CASE Load(c) \/ Create(c)
    <3>1. heap' = heap \/ \E o \in Free : \E r : heap' = [heap EXCEPT ![o] = r]
        BY <2>3 DEF Load, Create
    <3>2. object[d] \notin Free
        BY DEF Free
    <3> QED
        BY <3>1, <3>2, <2>2, <1>0
  <2>4. CASE Count(c) \/ Tally(c) \/ Mark(c)
    <3>1. pc[c] \in Working /\ \E r : heap' = [heap EXCEPT ![object[c]] = r]
        BY <2>4 DEF Count, Tally, Mark, Working
    <3>2. pc[d] \in Working \cup {"fill"} => object[d] # object[c]
        BY <3>1, <1>2, OthersApart
    <3> QED
        BY <3>1, <3>2, <2>2, <1>0
  <2>5. CASE heap' = heap
      BY <2>2, <2>5
  <2> QED
      BY <2>3, <2>4, <2>5
      DEF ThreadStep, Request, Arrive, Open, Look, Step, Get, Load, Fill, Create, Insert, Count,
          Tally, Mark, Save, Upsert, Append, Answer, Done, Fail, storeVars
<1>3. CASE pc[c] = "idle"
    BY <1>1, <1>3
    DEF ThreadStep, Request, Arrive, Open, Look, Step, Get, Load, Fill, Create, Insert, Count,
        Tally, Mark, Save, Upsert, Append, Answer, Done, Fail, storeVars
<1> QED
    BY <1>1, <1>2, <1>3

LEMMA WholeStep ==
    OneAtATime /\ TypeInv /\ SessionInv /\ WholeInv /\ [Next]_vars => WholeInv'
<1> SUFFICES ASSUME OneAtATime, TypeInv, SessionInv, WholeInv, [Next]_vars
             PROVE  WholeInv'
    OBVIOUS
<1>1. CASE UNCHANGED vars
    BY <1>1 DEF WholeInv, Missing, Midway, vars, storeVars, threadVars
<1>2. CASE Restart
    BY <1>2 DEF WholeInv, Missing, Midway, Restart
<1>3. ASSUME NEW c \in Clients, ThreadStep(c)
      PROVE  WholeInv'
  <2>0. /\ DOMAIN pc = Clients /\ DOMAIN session = Clients /\ DOMAIN object = Clients
        /\ DOMAIN before = Clients /\ DOMAIN escalate = Clients
        /\ heap \in [Objects -> Record] /\ cache \in [Sessions -> Objects \cup {NoObject}]
        /\ pc[c] # "idle" => session[c] \in Sessions
        /\ pc[c] \in Working \cup {"fill"} => object[c] \in Objects
      BY DEF TypeInv, TypeOK, Located, Working
  <2> DEFINE Whole(d) ==
        /\ pc[d] \in {"load", "fill", "create"} => cache[session[d]] = NoObject
        /\ pc[d] = "fill" => heap[object[d]] = rows[session[d]]
        /\ pc[d] = "tally" => heap[object[d]] = Counted(before[d], words[d])
        /\ pc[d] = "mark" => heap[object[d]] = Tallied(Counted(before[d], words[d]))
        /\ pc[d] \in {"tally", "mark"} =>
               escalate[d] = MustEscalate(Counted(before[d], words[d]), words[d])
  <2>1. \A d \in Clients : Whole(d)
      BY DEF WholeInv, Missing, Midway
  <2>2. ASSUME NEW d \in Clients \ {c}
        PROVE  Whole(d)'
    <3>1. /\ pc'[d] = pc[d] /\ session'[d] = session[d] /\ object'[d] = object[d]
          /\ escalate'[d] = escalate[d] /\ words'[d] = words[d] /\ before'[d] = before[d]
        BY <1>3, OthersStay
    <3>2. CASE pc[d] = "idle"
        BY <3>1, <3>2
    <3>3. CASE pc[d] # "idle"
      <4>1. /\ cache'[session[d]] = cache[session[d]] /\ rows'[session[d]] = rows[session[d]]
            /\ pc[d] \in Working \cup {"fill"} => heap'[object[d]] = heap[object[d]]
          BY <1>3, <3>3, OthersUntouched
      <4> QED
          BY <2>1, <3>1, <4>1 DEF Working
    <3> QED
        BY <3>2, <3>3
  <2>3. Whole(c)'
    <3> USE DEF GoTo, storeVars
    <3>1. CASE Get(c)
        BY <3>1, <2>0 DEF Get, Found
    <3>2. CASE Load(c)
      <4>1. pc[c] = "load" /\ UNCHANGED <<cache, rows, session>> /\ session[c] \in Sessions
            /\ cache[session[c]] = NoObject
          BY <3>2, <2>0, <2>1 DEF Load
      <4>2. CASE rows[session[c]] = NoRecord
          BY <3>2, <4>1, <4>2, <2>0 DEF Load
      <4>3. CASE rows[session[c]] # NoRecord
        <5>1. PICK o \in Free : object' = [object EXCEPT ![c] = o]
                                /\ heap' = [heap EXCEPT ![o] = rows[session[c]]]
                                /\ pc' = [pc EXCEPT ![c] = "fill"]
            BY <3>2, <4>3 DEF Load
        <5>2. o \in Objects
            BY DEF Free
        <5> QED
            BY <4>1, <5>1, <5>2, <2>0
      <4> QED
          BY <4>2, <4>3
    <3>3. CASE Count(c)
      <4>1. object[c] \in Objects /\ pc[c] = "count"
          BY <3>3, <2>0 DEF Count, Working
      <4> QED
          BY <3>3, <4>1, <2>0 DEF Count
    <3>4. CASE Tally(c)
      <4>1. object[c] \in Objects /\ pc[c] = "tally"
          BY <3>4, <2>0 DEF Tally, Working
      <4>2. heap'[object[c]] = Tallied(Counted(before[c], words[c]))
          BY <3>4, <4>1, <2>0, <2>1 DEF Tally
      <4> QED
          BY <3>4, <4>1, <4>2, <2>0, <2>1 DEF Tally
    <3>5. CASE \E s \in Sessions, k \in {"text", "voice"}, u \in Utterances : Request(c, s, k, u)
        BY <3>5, <2>0 DEF Request
    <3>6. CASE \E s \in Sessions : Open(c, s) \/ Look(c, s)
        BY <3>6, <2>0 DEF Open, Look, Arrive
    <3>7. CASE \/ Fill(c) \/ Create(c) \/ Insert(c) \/ Mark(c) \/ Save(c) \/ Upsert(c)
               \/ Append(c) \/ Answer(c) \/ Done(c) \/ Fail(c)
      <4>1. pc'[c] \notin {"load", "fill", "create", "tally", "mark"}
          BY <3>7, <2>0
          DEF Fill, Create, Insert, Mark, Save, Upsert, Append, Answer, Done, Fail, Leave, Found
      <4> QED
          BY <4>1
    <3> QED
        BY <1>3, <3>1, <3>2, <3>3, <3>4, <3>5, <3>6, <3>7 DEF ThreadStep, Step
  <2>4. \A d \in Clients : Whole(d)'
      BY <2>2, <2>3
  <2> QED
      BY <2>4 DEF WholeInv, Missing, Midway
<1> QED
    BY <1>1, <1>2, <1>3, StepOfAThread

\* A turn at work hides its session's object; otherwise it is what the
\* dictionary has, and the row if it has none.
LEMMA CurrentOf ==
    ASSUME TypeInv, SessionInv, NEW s \in Sessions
    PROVE  /\ \A c \in Clients : AtWork(c, s) => Current(s) = before[c]
           /\ (\A c \in Clients : ~AtWork(c, s)) =>
                  Current(s) = IF cache[s] # NoObject THEN heap[cache[s]] ELSE rows[s]
<1>1. ASSUME NEW c \in Clients, AtWork(c, s)
      PROVE  Current(s) = before[c]
  <2>1. \A d \in Clients : AtWork(d, s) => d = c
      BY <1>1 DEF SessionInv, Alone, AtWork
  <2>2. (CHOOSE d \in Clients : AtWork(d, s)) = c
      BY <1>1, <2>1
  <2> QED
      BY <1>1, <2>2 DEF Current
<1>2. ASSUME \A c \in Clients : ~AtWork(c, s)
      PROVE  Current(s) = IF cache[s] # NoObject THEN heap[cache[s]] ELSE rows[s]
    BY <1>2 DEF Current
<1> QED
    BY <1>1, <1>2

\* The same one step later.
LEMMA CurrentOfNext ==
    ASSUME TypeInv', SessionInv', NEW s \in Sessions
    PROVE  /\ \A c \in Clients : AtWork(c, s)' => Current(s)' = before'[c]
           /\ (\A c \in Clients : ~AtWork(c, s)') =>
                  Current(s)' = IF cache'[s] # NoObject THEN heap'[cache'[s]] ELSE rows'[s]
<1>1. ASSUME NEW c \in Clients, AtWork(c, s)'
      PROVE  Current(s)' = before'[c]
  <2>1. \A d \in Clients : AtWork(d, s)' => d = c
      BY <1>1 DEF SessionInv, Alone, AtWork
  <2>2. (CHOOSE d \in Clients : AtWork(d, s)') = c
      BY <1>1, <2>1
  <2> QED
      BY <1>1, <2>2 DEF Current
<1>2. ASSUME \A c \in Clients : ~AtWork(c, s)'
      PROVE  Current(s)' = IF cache'[s] # NoObject THEN heap'[cache'[s]] ELSE rows'[s]
    BY <1>2 DEF Current
<1> QED
    BY <1>1, <1>2

\* A step at whose ends the thread is not at work on session s, and that keeps
\* what the dictionary has of it, keeps its value.
LEMMA ValueKept ==
    ASSUME TypeInv, SessionInv, TypeInv', SessionInv', NEW c \in Clients, ThreadStep(c),
           NEW s \in Sessions, ~AtWork(c, s), ~AtWork(c, s)',
           cache'[s] = cache[s], cache[s] = NoObject => rows'[s] = rows[s],
           cache[s] # NoObject => heap'[cache[s]] = heap[cache[s]]
    PROVE  Current(s)' = Current(s)
<1>1. \A d \in Clients \ {c} : (AtWork(d, s)' <=> AtWork(d, s)) /\ before'[d] = before[d]
    BY OthersStay DEF AtWork
<1>2. CASE \E d \in Clients : AtWork(d, s)
  <2>1. PICK d \in Clients \ {c} : AtWork(d, s)
      BY <1>2
  <2> QED
      BY <2>1, <1>1, CurrentOf, CurrentOfNext
<1>3. CASE \A d \in Clients : ~AtWork(d, s)
  <2>1. \A d \in Clients : ~AtWork(d, s)'
      BY <1>1, <1>3
  <2> QED
      BY <1>3, <2>1, CurrentOf, CurrentOfNext
<1> QED
    BY <1>2, <1>3

\* Nobody else is at work on a thread's session.
LEMMA AloneAtWork ==
    ASSUME SessionInv, NEW c \in Clients, pc[c] # "idle"
    PROVE  \A d \in Clients \ {c} : ~AtWork(d, session[c])
BY DEF SessionInv, Alone, AtWork

\* The steps of a turn's object and of a lookup's, on the session's value.
LEMMA ValueOfOwn ==
    ASSUME TypeInv, SessionInv, WholeInv, DurableInv, TypeInv', SessionInv',
           NEW c \in Clients, ThreadStep(c), NEW s \in Sessions, pc[c] # "idle", session[c] = s
    PROVE  /\ Fill(c) \/ Count(c) \/ Tally(c) => Current(s)' = Current(s)
           /\ Create(c) => Current(s) = NoRecord /\ Current(s)' = Fresh
           /\ Mark(c) => /\ Current(s) \in Record /\ words[c] \in Utterances
                         /\ Current(s)' = Advanced(Current(s), words[c])
<1>0. /\ DOMAIN pc = Clients /\ DOMAIN object = Clients /\ DOMAIN before = Clients
      /\ heap \in [Objects -> Record] /\ cache \in [Sessions -> Objects \cup {NoObject}]
      /\ NoObject \notin Objects /\ before \in [Clients -> Record] /\ words \in [Clients -> Utterances]
      /\ pc[c] # "idle" => session[c] \in Sessions
      /\ pc[c] \in Working \cup {"fill"} => object[c] \in Objects
      /\ pc[c] \in Working => cache[session[c]] = object[c]
    BY ServiceAssumption DEF TypeInv, TypeOK, Located, Working, SessionInv, OnCached
<1>1. /\ \A d \in Clients \ {c} : ~AtWork(d, s) /\ ~AtWork(d, s)'
      /\ ~AtWork(c, s) => \A d \in Clients : ~AtWork(d, s)
      /\ ~AtWork(c, s)' => \A d \in Clients : ~AtWork(d, s)'
  <2>1. \A d \in Clients \ {c} : ~AtWork(d, s)
      BY AloneAtWork
  <2>2. \A d \in Clients \ {c} : ~AtWork(d, s)'
      BY <2>1, OthersStay DEF AtWork
  <2> QED
      BY <2>1, <2>2
<1> USE DEF GoTo
<1>2. CASE Fill(c)
  <2>1. /\ pc[c] = "fill" /\ pc'[c] \notin {"tally", "mark"} /\ session[c] \in Sessions
        /\ cache[session[c]] = NoObject /\ heap[object[c]] = rows[session[c]]
        /\ cache'[session[c]] = object[c] /\ heap' = heap /\ session' = session
      BY <1>2, <1>0 DEF Fill, Found, WholeInv, Missing
  <2> QED
      BY <1>2, <2>1, <1>0, <1>1, CurrentOf, CurrentOfNext DEF AtWork, Fill, Create, Mark
<1>3. CASE Count(c)
  <2>1. /\ pc[c] = "count" /\ pc'[c] = "tally" /\ before'[c] = heap[object[c]] /\ session' = session
        /\ session[c] \in Sessions /\ cache[session[c]] = object[c] /\ object[c] \in Objects
      BY <1>3, <1>0 DEF Count, Working
  <2> QED
      BY <1>3, <2>1, <1>0, <1>1, CurrentOf, CurrentOfNext DEF AtWork, Count, Create, Mark
<1>4. CASE Tally(c)
  <2>1. /\ pc[c] = "tally" /\ pc'[c] = "mark" /\ UNCHANGED <<before, session>>
        /\ session[c] \in Sessions
      BY <1>4, <1>0 DEF Tally
  <2> QED
      BY <1>4, <2>1, CurrentOf, CurrentOfNext DEF AtWork, Tally, Create, Mark
<1>5. CASE Create(c)
  <2>1. PICK o \in Free : /\ heap' = [heap EXCEPT ![o] = Fresh]
                          /\ cache' = [cache EXCEPT ![session[c]] = o]
      BY <1>5 DEF Create
  <2>2. /\ pc[c] = "create" /\ pc'[c] = "insert" /\ session' = session /\ session[c] \in Sessions
        /\ cache[session[c]] = NoObject /\ rows[session[c]] = NoRecord
        /\ cache'[session[c]] = o /\ o \in Objects /\ heap'[o] = Fresh
      BY <1>5, <2>1, <1>0 DEF Create, Free, WholeInv, Missing, DurableInv, NewHasNoRow
  <2> QED
      BY <1>5, <2>2, <1>0, <1>1, CurrentOf, CurrentOfNext DEF AtWork, Create, Fill, Count, Tally, Mark
<1>6. CASE Mark(c)
  <2>1. /\ pc[c] = "mark" /\ pc'[c] = "save" /\ UNCHANGED <<cache, session>> /\ session[c] \in Sessions
        /\ cache[session[c]] = object[c] /\ object[c] \in Objects
        /\ heap' = [heap EXCEPT ![object[c]] = Marked(heap[object[c]], escalate[c])]
      BY <1>6, <1>0 DEF Mark, Working
  <2>2. Current(s) = before[c] /\ before[c] \in Record /\ words[c] \in Utterances
      BY <2>1, <1>0, CurrentOf DEF AtWork
  <2>3. Current(s)' = heap'[object[c]]
      BY <2>1, <1>0, <1>1, CurrentOfNext DEF AtWork
  <2>4. heap'[object[c]] = Advanced(before[c], words[c])
      BY <2>1, <1>0 DEF WholeInv, Midway, Advanced
  <2> QED
      BY <1>6, <2>1, <2>2, <2>3, <2>4 DEF Mark, Fill, Count, Tally, Create
<1> QED
    BY <1>2, <1>3, <1>4, <1>5, <1>6

\* A step that keeps every session's value, the rows and the history of turns.
LEMMA Stutter ==
    ASSUME \A s \in Sessions : Current(s)' = Current(s), UNCHANGED <<rows, log, acked>>
    PROVE  UNCHANGED Ledger!vars
BY DEF Ledger!vars

\* A step that changes one session's value.
LEMMA ValueChanged ==
    ASSUME NEW s \in Sessions, NEW v, Current(s)' = v,
           \A t \in Sessions \ {s} : Current(t)' = Current(t)
    PROVE  [t \in Sessions |-> Current(t)]' = [[t \in Sessions |-> Current(t)] EXCEPT ![s] = v]
OBVIOUS

LEMMA LedgerStep ==
    ASSUME OneAtATime, TypeInv, SessionInv, DurableInv, WholeInv, LogInv, TypeInv', SessionInv',
           [Next]_vars
    PROVE  [Ledger!Next]_(Ledger!vars)
<1>0. /\ DOMAIN pc = Clients /\ rows \in [Sessions -> Record \cup {NoRecord}]
      /\ NoRecord \notin Record /\ NoObject \notin Objects
      /\ heap \in [Objects -> Record] /\ cache \in [Sessions -> Objects \cup {NoObject}]
      /\ log \in [Sessions -> Nat] /\ acked \in [Sessions -> Nat]
      /\ \A c \in Clients : /\ pc[c] # "idle" => session[c] \in Sessions
                            /\ pc[c] \in Working \cup {"fill"} => object[c] \in Objects
                            /\ pc[c] \in Working => cache[session[c]] = object[c]
    BY ServiceAssumption DEF TypeInv, TypeOK, Located, Working, SessionInv, OnCached
<1>1. CASE UNCHANGED vars
  <2>1. \A s \in Sessions : Current(s)' = Current(s)
      BY <1>1 DEF vars, storeVars, threadVars, Current, AtWork
  <2> QED
      BY <1>1, <2>1, Stutter DEF vars, storeVars
<1>2. CASE Restart
  <2>1. \A s \in Sessions : Current(s)' = rows[s]
    <3>1. \A s \in Sessions : cache'[s] = NoObject /\ \A c \in Clients : ~AtWork(c, s)'
        BY <1>2 DEF Restart, AtWork
    <3> QED
        BY <1>2, <3>1, CurrentOfNext DEF Restart
  <2>2. [s \in Sessions |-> Current(s)]' = rows
      BY <2>1, <1>0
  <2>3. Ledger!Crash
      BY <1>2, <2>2 DEF Ledger!Crash, Restart
  <2> QED
      BY <2>3 DEF Ledger!Next
<1>3. ASSUME NEW c \in Clients, ThreadStep(c)
      PROVE  [Ledger!Next]_(Ledger!vars)
  <2> USE DEF GoTo, storeVars
  <2>1. ASSUME NEW t \in Sessions, pc[c] # "idle" => t # session[c]
        PROVE  Current(t)' = Current(t)
    <3>1. ~AtWork(c, t)
        BY <2>1 DEF AtWork
    <3>2. ~AtWork(c, t)'
        BY <1>3, <2>1, <1>0
        DEF ThreadStep, Request, Open, Look, Step, Get, Load, Fill, Create, Insert, Count, Tally,
            Mark, Save, Upsert, Append, Answer, Done, Fail, Leave, Found, AtWork
    <3>3. cache'[t] = cache[t] /\ rows'[t] = rows[t]
        BY <1>3, <2>1, <1>0
        DEF ThreadStep, Request, Arrive, Open, Look, Step, Get, Load, Fill, Create, Insert, Count,
            Tally, Mark, Save, Upsert, Append, Answer, Done, Fail
    <3>4. ASSUME cache[t] # NoObject
          PROVE  heap'[cache[t]] = heap[cache[t]]
      <4>1. cache[t] \in Objects /\ cache[t] \notin Free
          BY <3>4, <1>0 DEF Free
      <4>2. CASE Load(c) \/ Create(c)
        <5>1. heap' = heap \/ \E o \in Free : \E r : heap' = [heap EXCEPT ![o] = r]
            BY <4>2 DEF Load, Create
        <5> QED
            BY <4>1, <5>1, <1>0
      <4>3. CASE Count(c) \/ Tally(c) \/ Mark(c)
        <5>1. pc[c] \in Working /\ pc[c] # "idle" /\ \E r : heap' = [heap EXCEPT ![object[c]] = r]
            BY <4>3 DEF Count, Tally, Mark, Working
        <5>2. object[c] # cache[t]
            BY <5>1, <2>1, <3>4, <1>0 DEF SessionInv, Apart
        <5> QED
            BY <4>1, <5>1, <5>2, <1>0
      <4>4. CASE heap' = heap
          BY <4>4
      <4> QED
          BY <1>3, <4>2, <4>3, <4>4
          DEF ThreadStep, Request, Arrive, Open, Look, Step, Get, Load, Fill, Create, Insert,
              Count, Tally, Mark, Save, Upsert, Append, Answer, Done, Fail
    <3> QED
        BY <1>3, <2>1, <3>1, <3>2, <3>3, <3>4, ValueKept
  <2>2. CASE pc[c] = "idle"
    <3>1. UNCHANGED <<rows, log, acked>>
        BY <1>3, <2>2
        DEF ThreadStep, Request, Arrive, Open, Look, Step, Get, Load, Fill, Create, Insert, Count,
            Tally, Mark, Save, Upsert, Append, Answer, Done, Fail
    <3> QED
        BY <2>1, <2>2, <3>1, Stutter
  <2>3. ASSUME NEW s \in Sessions, pc[c] # "idle", session[c] = s
        PROVE  [Ledger!Next]_(Ledger!vars)
    <3>0. \A t \in Sessions \ {s} : Current(t)' = Current(t)
        BY <2>1, <2>3
    <3>1. CASE Fill(c) \/ Count(c) \/ Tally(c)
      <4>1. UNCHANGED <<rows, log, acked>>
          BY <3>1 DEF Fill, Count, Tally
      <4> QED
          BY <1>3, <2>3, <3>0, <3>1, <4>1, ValueOfOwn, Stutter
    <3>2. CASE Create(c)
      <4>1. Current(s) = NoRecord /\ Current(s)' = Fresh
          BY <1>3, <2>3, <3>2, ValueOfOwn
      <4>2. [t \in Sessions |-> Current(t)]' = [[t \in Sessions |-> Current(t)] EXCEPT ![s] = Fresh]
          BY <3>0, <4>1, ValueChanged
      <4>3. Ledger!Open(s)
          BY <3>2, <4>1, <4>2 DEF Ledger!Open, Create, Fresh, Ledger!Fresh
      <4> QED
          BY <4>3 DEF Ledger!Next
    <3>3. CASE Mark(c)
      <4>1. /\ Current(s) \in Record /\ words[c] \in Utterances
            /\ Current(s)' = Advanced(Current(s), words[c])
          BY <1>3, <2>3, <3>3, ValueOfOwn
      <4>2. [t \in Sessions |-> Current(t)]'
                = [[t \in Sessions |-> Current(t)] EXCEPT ![s] = Advanced(Current(s), words[c])]
          BY <3>0, <4>1, ValueChanged
      <4>3. Ledger!Apply(s, words[c])
          BY <3>3, <4>1, <4>2, <1>0
          DEF Ledger!Apply, Mark, Advanced, Ledger!Advanced, Counted, Ledger!Counted,
              Tallied, Ledger!Tallied, Marked, Ledger!Marked, MustEscalate, Ledger!MustEscalate
      <4>4. words[c] \in Ledger!Utterances
          BY <4>1 DEF Utterances, Ledger!Utterances
      <4> QED
          BY <4>3, <4>4 DEF Ledger!Next
    <3>4. CASE ~(Fill(c) \/ Count(c) \/ Tally(c) \/ Create(c) \/ Mark(c))
      <4>1. pc[c] \notin {"tally", "mark"} /\ pc'[c] \notin {"tally", "mark"}
          BY <1>3, <2>3, <3>4, <1>0
          DEF ThreadStep, Request, Arrive, Open, Look, Step, Get, Load, Insert,
              Save, Upsert, Append, Answer, Done, Fail, Leave, Found
      <4>2. cache' = cache
        <5>1. Save(c) => pc[c] \in Working
            BY DEF Save, Working
        <5>2. Save(c) => cache' = cache
            BY <5>1, <1>0 DEF Save
        <5> QED
            BY <1>3, <3>4, <5>2
            DEF ThreadStep, Request, Arrive, Open, Look, Step, Get, Load, Insert,
                Upsert, Append, Answer, Done, Fail
      <4>3. cache[s] # NoObject => heap'[cache[s]] = heap[cache[s]]
        <5>1. heap' = heap \/ \E o \in Free : \E r : heap' = [heap EXCEPT ![o] = r]
            BY <1>3, <3>4
            DEF ThreadStep, Request, Arrive, Open, Look, Step, Get, Load, Insert,
                Save, Upsert, Append, Answer, Done, Fail
        <5> QED
            BY <5>1, <1>0 DEF Free
      <4>4. cache[s] = NoObject => rows'[s] = rows[s]
        <5>1. Insert(c) \/ Upsert(c) => pc[c] \in Working
            BY DEF Insert, Upsert, Working
        <5>2. Insert(c) \/ Upsert(c) => cache[s] # NoObject
            BY <5>1, <2>3, <1>0
        <5> QED
            BY <1>3, <3>4, <5>2
            DEF ThreadStep, Request, Arrive, Open, Look, Step, Get, Load, Save, Append, Answer, Done, Fail
      <4>5. Current(s)' = Current(s)
          BY <1>3, <4>1, <4>2, <4>3, <4>4, ValueKept DEF AtWork
      <4>6. [t \in Sessions |-> Current(t)]' = [t \in Sessions |-> Current(t)]
          BY <3>0, <4>5
      <4>7. CASE Insert(c) \/ Upsert(c)
        <5>1. pc[c] \in Working
            BY <4>7 DEF Insert, Upsert, Working
        <5>2. Current(s) = heap[object[c]] /\ heap[object[c]] \in Record
          <6>1. \A d \in Clients : ~AtWork(d, s)
              BY <2>3, <4>1, AloneAtWork DEF AtWork
          <6> QED
              BY <5>1, <6>1, <2>3, <1>0, CurrentOf
        <5>3. Ledger!Persist(s)
            BY <4>6, <4>7, <5>2, <2>3, <1>0 DEF Ledger!Persist, Insert, Upsert
        <5> QED
            BY <5>3 DEF Ledger!Next
      <4>8. CASE Append(c)
        <5>1. log[s] + 1 <= SavedTurns(s) /\ log[s] \in Nat
            BY <4>8, <2>3, <1>0 DEF DurableInv, LoggedIsSaved, Append
        <5>2. rows[s] # NoRecord /\ log[s] < rows[s].turns
          <6>1. rows[s] # NoRecord
              BY <5>1 DEF SavedTurns
          <6>2. rows[s].turns \in Nat
              BY <6>1, <1>0 DEF Record
          <6> QED
              BY <5>1, <6>1, <6>2 DEF SavedTurns
        <5>3. Ledger!Log(s)
            BY <4>6, <4>8, <5>2, <2>3 DEF Ledger!Log, Append
        <5> QED
            BY <5>3 DEF Ledger!Next
      <4>9. CASE Answer(c)
        <5>1. c \in Answering(s)
            BY <4>9, <2>3 DEF Answering, Answer
        <5>2. Cardinality(Answering(s)) \in Nat /\ Cardinality(Answering(s)) # 0
            BY <5>1, AnsweringFinite, FS_EmptySet
        <5>3. acked[s] < log[s]
            BY <5>2, <1>0 DEF LogInv
        <5>4. Ledger!Acknowledge(s)
            BY <4>6, <4>9, <5>3, <2>3 DEF Ledger!Acknowledge, Answer
        <5> QED
            BY <5>4 DEF Ledger!Next
      <4>10. CASE ~(Insert(c) \/ Upsert(c) \/ Append(c) \/ Answer(c))
        <5>1. UNCHANGED <<rows, log, acked>>
            BY <1>3, <3>4, <4>10
            DEF ThreadStep, Request, Arrive, Open, Look, Step, Get, Load, Save, Done, Fail
        <5> QED
            BY <3>0, <4>5, <5>1, Stutter
      <4> QED
          BY <4>7, <4>8, <4>9, <4>10
    <3> QED
        BY <3>1, <3>2, <3>3, <3>4
  <2> QED
      BY <2>2, <2>3, <1>0
<1> QED
    BY <1>1, <1>2, <1>3, StepOfAThread

\* One request per session at a time, the threads, objects, dictionary and
\* tables together do what the ledger does: a turn takes effect as a whole, is
\* durable before it is in the history and in the history before it is
\* answered, and a restart goes back to the durable state.
THEOREM ServiceIsLedger == ASSUME OneAtATime PROVE Spec => ImplementsLedger
<1>1. OneAtATime
    OBVIOUS
<1>2. TypeInv /\ SessionInv /\ [Next]_vars => SessionInv'
    BY <1>1, SessionStep
<1>3. TypeInv /\ SessionInv /\ DurableInv /\ [Next]_vars => DurableInv'
    BY <1>1, DurableStep
<1>4. TypeInv /\ SessionInv /\ WholeInv /\ [Next]_vars => WholeInv'
    BY <1>1, WholeStep
<1>5. Init => Ledger!Init
  <2> SUFFICES ASSUME Init
               PROVE  Ledger!Init
      OBVIOUS
  <2>1. \A s \in Sessions : Current(s) = NoRecord
      BY DEF Init, Current, AtWork
  <2> QED
      BY <2>1 DEF Ledger!Init, Init
<1>6. TypeInv /\ SessionInv /\ DurableInv /\ WholeInv /\ LogInv /\ TypeInv' /\ SessionInv' /\ [Next]_vars
        => [Ledger!Next]_(Ledger!vars)
    BY <1>1, LedgerStep
<1> QED
    BY TypeInit, TypeStep, SessionInit, DurableInit, WholeInit, LogInit, LogStep,
       <1>2, <1>3, <1>4, <1>5, <1>6, PTL DEF Spec, ImplementsLedger, Ledger!Spec
=============================================================================

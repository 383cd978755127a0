------------------------ MODULE ObservabilityProofs ------------------------
(***************************************************************************)
(* The counters for any number of requests, handled at once: the two locks *)
(* lose no count, a snapshot is in the order of the counts, and who asks   *)
(* after a turn was answered finds it counted.                             *)
(***************************************************************************)
EXTENDS Observability, FiniteSetTheorems, TLAPS

\* What a handler goes through: no count twice, and what a turn raises are
\* counts.
LEMMA StepsOf ==
    ASSUME NEW r \in Requests
    PROVE  /\ Len(Steps(r)) \in Nat
           /\ \A i, j \in 1..Len(Steps(r)) : Steps(r)[i] = Steps(r)[j] => i = j
           /\ IsTurn(r) => \A i \in 1..Len(Steps(r)) : Steps(r)[i] \in Names
<1>1. CASE Kind[r] = "turn"
    BY <1>1 DEF Steps, IsTurn, Names
<1>2. CASE Kind[r] = "transfer"
    BY <1>2 DEF Steps, IsTurn, Names
<1>3. CASE Kind[r] = "metrics"
    BY <1>3 DEF Steps, IsTurn, Names
<1> QED
    BY <1>1, <1>2, <1>3, ObservabilityAssumption

\* A turn that came to a later count has been through the earlier ones.
LEMMA StepOrder ==
    ASSUME NEW r \in Requests, IsTurn(r), NEW k \in 0..Len(Steps(r))
    PROVE  /\ (\E i \in 1..k : Steps(r)[i] = "turn_total") => \E i \in 1..k : Steps(r)[i] = "turn_count"
           /\ (\E i \in 1..k : Steps(r)[i] = "escalations_total") =>
                  \E i \in 1..k : Steps(r)[i] = "turn_total"
           /\ k = Len(Steps(r)) => /\ \E i \in 1..k : Steps(r)[i] = "turn_total"
                                   /\ \E i \in 1..k : Steps(r)[i] = "drift"
<1>1. CASE Kind[r] = "turn"
  <2>1. /\ Len(Steps(r)) = 3 /\ Steps(r)[1] = "turn_count" /\ Steps(r)[2] = "turn_total"
        /\ Steps(r)[3] = "drift"
      BY <1>1 DEF Steps
  <2> QED
      BY <2>1
<1>2. CASE Kind[r] = "transfer"
  <2>1. /\ Len(Steps(r)) = 4 /\ Steps(r)[1] = "turn_count" /\ Steps(r)[2] = "turn_total"
        /\ Steps(r)[3] = "escalations_total" /\ Steps(r)[4] = "drift"
      BY <1>2 DEF Steps
  <2> QED
      BY <2>1
<1> QED
    BY <1>1, <1>2, ObservabilityAssumption DEF IsTurn

-----------------------------------------------------------------------------
(***************************************************************************)
(* Types, and the locks.                                                   *)
(***************************************************************************)
Begun == {r \in Requests : request[r] # "none"}

\* Every field in its range; a handler works between the acceptance of its
\* request and its answer.
HandlerTypes ==
    /\ request \in [Requests -> {"none", "queued", "handled", "answered"}]
    /\ counts \in [Names -> Nat]
    /\ step \in [Requests -> Nat]
    /\ held \in [Requests -> Nat \cup {Nothing}]
    /\ seen \in [Requests -> [Names -> Nat]]
    /\ answeredBy \in [Requests -> Nat]
    /\ IsFiniteSet(Begun)
    /\ \A r \in Requests :
        /\ step[r] \in 0..Len(Steps(r))
        /\ request[r] \in {"none", "queued"} => step[r] = 0
        /\ request[r] = "answered" => step[r] = Len(Steps(r))

\* A handler that has read a count and not yet raised it holds the count's
\* lock, and the count is still what it read.
Locked ==
    /\ \A r \in Requests : held[r] # Nothing => IsTurn(r) /\ AtWork(r) /\ held[r] = counts[At(r)]
    /\ \A r, q \in Requests :
        r # q /\ held[r] # Nothing /\ held[q] # Nothing => Lock(At(r)) # Lock(At(q))

\* The turns that came as far as count n.
Reached(n) == {r \in Requests : IsTurn(r) /\ \E i \in 1..step[r] : Steps(r)[i] = n}

AnsweredTurns == {r \in Requests : IsTurn(r) /\ request[r] = "answered"}

LEMMA ReachedFinite ==
    ASSUME HandlerTypes
    PROVE  /\ \A n \in Names : IsFiniteSet(Reached(n)) /\ Cardinality(Reached(n)) \in Nat
           /\ IsFiniteSet(AnsweredTurns) /\ Cardinality(AnsweredTurns) \in Nat
<1>1. \A n \in Names : Reached(n) \subseteq Begun
    BY DEF HandlerTypes, Reached, Begun
<1>2. AnsweredTurns \subseteq Begun
    BY DEF AnsweredTurns, Begun
<1> QED
    BY <1>1, <1>2, FS_Subset, FS_CardinalityType DEF HandlerTypes

\* The turns of a later count are turns of the earlier one, and a turn that was
\* answered has been through all of its counts.
LEMMA ReachedInOrder ==
    ASSUME HandlerTypes
    PROVE  /\ Reached("turn_total") \subseteq Reached("turn_count")
           /\ Reached("escalations_total") \subseteq Reached("turn_total")
           /\ AnsweredTurns \subseteq Reached("turn_total")
           /\ AnsweredTurns \subseteq Reached("drift")
<1>1. \A r \in Requests : step[r] \in 0..Len(Steps(r))
    BY DEF HandlerTypes
<1> QED
    BY <1>1, StepOrder DEF HandlerTypes, Reached, AnsweredTurns

HandlerInv == HandlerTypes /\ Locked /\ CountsAreExact

LEMMA CountsInOrder ==
    ASSUME HandlerInv
    PROVE  /\ counts["turn_count"] >= counts["turn_total"]
           /\ counts["turn_total"] >= counts["escalations_total"]
           /\ counts["turn_total"] >= Cardinality(AnsweredTurns)
           /\ counts["drift"] >= Cardinality(AnsweredTurns)
<1>1. \A n \in Names : counts[n] = Cardinality(Reached(n))
    BY DEF HandlerInv, CountsAreExact, Reached
<1>2. {"turn_count", "turn_total", "escalations_total", "drift"} \subseteq Names
    BY DEF Names
<1>3. \A n \in Names : \A S : S \subseteq Reached(n) => Cardinality(S) <= Cardinality(Reached(n))
    BY ReachedFinite, FS_Subset DEF HandlerInv
<1>4. HandlerTypes /\ \A n \in Names : counts[n] \in Nat
    BY DEF HandlerInv, HandlerTypes
<1> QED
    BY <1>1, <1>2, <1>3, <1>4, ReachedInOrder, ReachedFinite

LEMMA HandlerInit == ObsInit => HandlerInv
<1> SUFFICES ASSUME ObsInit
             PROVE  HandlerInv
    OBVIOUS
<1>1. Begun = {}
    BY DEF ObsInit, Init, Begun
<1>2. HandlerTypes
    BY <1>1, FS_EmptySet, StepsOf DEF ObsInit, Init, HandlerTypes, NoCounts, Nothing
<1>3. Locked
    BY DEF ObsInit, Locked
<1>4. \A n \in Names : Reached(n) = {}
    BY DEF ObsInit, Reached
<1>5. CountsAreExact
    BY <1>4, FS_EmptySet DEF ObsInit, CountsAreExact, NoCounts, Reached
<1> QED
    BY <1>2, <1>3, <1>5 DEF HandlerInv

\* The server takes a connection in, or a handler answers that is through.
LEMMA RequestMoves ==
    ASSUME HandlerInv, NEW r \in Requests,
           Connect(r) \/ Accept(r) \/ (Respond(r) /\ step[r] = Len(Steps(r))),
           UNCHANGED <<counts, step, held, seen>>, answeredBy' \in [Requests -> Nat]
    PROVE  HandlerInv'
<1>1. /\ request' \in [Requests -> {"none", "queued", "handled", "answered"}]
      /\ \A q \in Requests \ {r} : request'[q] = request[q]
      /\ \/ request[r] = "none" /\ request'[r] = "queued"
         \/ request[r] = "queued" /\ request'[r] = "handled"
         \/ request[r] = "handled" /\ request'[r] = "answered" /\ step[r] = Len(Steps(r))
    BY DEF HandlerInv, HandlerTypes, Connect, Accept, Respond
<1>2. IsFiniteSet(Begun')
  <2>1. Begun' = Begun \cup {r}
      BY <1>1 DEF Begun
  <2> QED
      BY <2>1, FS_AddElement DEF HandlerInv, HandlerTypes
<1>3. HandlerTypes'
    BY <1>1, <1>2, StepsOf DEF HandlerInv, HandlerTypes
<1>4. Locked'
    BY <1>1 DEF HandlerInv, Locked, AtWork, At
<1>5. CountsAreExact'
    BY DEF HandlerInv, CountsAreExact
<1> QED
    BY <1>3, <1>4, <1>5 DEF HandlerInv

\* A handler takes a lock and reads its count.
LEMMA CountRead == ASSUME HandlerInv, NEW r \in Requests, Load(r) PROVE HandlerInv'
<1>1. /\ IsTurn(r) /\ AtWork(r) /\ Free(At(r))
      /\ held' = [held EXCEPT ![r] = counts[At(r)]]
      /\ UNCHANGED <<vars, counts, step, seen, answeredBy>>
    BY DEF Load
<1>2. At(r) \in Names
    BY <1>1, StepsOf DEF HandlerInv, HandlerTypes, AtWork, At
<1>3. HandlerTypes'
    BY <1>1, <1>2 DEF HandlerInv, HandlerTypes, Begun, vars
<1>4. Locked'
  <2>1. \A q \in Requests : AtWork(q)' = AtWork(q) /\ At(q)' = At(q)
      BY <1>1 DEF AtWork, At, vars
  <2>2. \A q \in Requests \ {r} : held'[q] = held[q]
      BY <1>1 DEF HandlerInv, HandlerTypes
  <2>3. held'[r] = counts[At(r)]
      BY <1>1 DEF HandlerInv, HandlerTypes
  <2>4. \A q \in Requests \ {r} : held[q] # Nothing => Lock(At(q)) # Lock(At(r))
      BY <1>1 DEF Free
  <2> QED
      BY <1>1, <2>1, <2>2, <2>3, <2>4 DEF HandlerInv, Locked
<1>5. CountsAreExact'
    BY <1>1 DEF HandlerInv, CountsAreExact
<1> QED
    BY <1>3, <1>4, <1>5 DEF HandlerInv

\* It raises the count by itself alone, and releases the lock.
LEMMA CountRaised ==
    ASSUME HandlerInv, NEW r \in Requests, Store(r), NEW n, n = At(r)
    PROVE  HandlerInv'
<1>1. /\ held[r] # Nothing
      /\ counts' = [counts EXCEPT ![n] = held[r] + 1]
      /\ held' = [held EXCEPT ![r] = Nothing]
      /\ step' = [step EXCEPT ![r] = step[r] + 1]
      /\ UNCHANGED <<vars, seen, answeredBy>>
    BY DEF Store
<1>2. IsTurn(r) /\ AtWork(r) /\ held[r] = counts[n] /\ request[r] = "handled"
    BY <1>1 DEF HandlerInv, Locked, AtWork
<1>3. n \in Names /\ step[r] \in Nat /\ step[r] + 1 \in 1..Len(Steps(r)) /\ counts[n] \in Nat
    BY <1>2, StepsOf DEF HandlerInv, HandlerTypes, AtWork, At
<1>4. /\ \A q \in Requests \ {r} : held'[q] = held[q] /\ step'[q] = step[q]
      /\ held'[r] = Nothing /\ step'[r] = step[r] + 1
      /\ counts'[n] = counts[n] + 1 /\ \A m \in Names \ {n} : counts'[m] = counts[m]
    BY <1>1, <1>2, <1>3 DEF HandlerInv, HandlerTypes
<1>5. HandlerTypes'
  <2>1. counts' \in [Names -> Nat] /\ step' \in [Requests -> Nat]
        /\ held' \in [Requests -> Nat \cup {Nothing}]
      BY <1>1, <1>2, <1>3 DEF HandlerInv, HandlerTypes
  <2>2. \A q \in Requests :
            /\ step'[q] \in 0..Len(Steps(q))
            /\ request[q] \in {"none", "queued"} => step'[q] = 0
            /\ request[q] = "answered" => step'[q] = Len(Steps(q))
      BY <1>2, <1>3, <1>4 DEF HandlerInv, HandlerTypes
  <2> QED
      BY <1>1, <2>1, <2>2 DEF HandlerInv, HandlerTypes, Begun, vars
<1>6. Locked'
  <2>1. ASSUME NEW q \in Requests, held'[q] # Nothing
        PROVE  /\ IsTurn(q) /\ AtWork(q)' /\ held'[q] = counts'[At(q)'] /\ At(q)' = At(q)
               /\ held[q] # Nothing /\ q # r
    <3>1. q # r /\ held[q] # Nothing /\ held'[q] = held[q]
        BY <2>1, <1>4
    <3>2. AtWork(q)' = AtWork(q) /\ At(q)' = At(q)
        BY <3>1, <1>1, <1>4 DEF AtWork, At, vars
    <3>3. Lock(At(q)) # Lock(n) /\ IsTurn(q) /\ AtWork(q) /\ held[q] = counts[At(q)]
        BY <3>1, <1>1 DEF HandlerInv, Locked
    <3>4. At(q) \in Names
        BY <3>3, StepsOf DEF HandlerInv, HandlerTypes, AtWork, At
    <3>5. counts'[At(q)] = counts[At(q)]
        BY <3>3, <3>4, <1>4
    <3> QED
        BY <3>1, <3>2, <3>3, <3>5
  <2> QED
      BY <2>1 DEF HandlerInv, Locked
<1>7. CountsAreExact'
  <2>1. \A m \in Names : counts[m] = Cardinality(Reached(m))
      BY DEF HandlerInv, CountsAreExact, Reached
  <2>2. Reached(n)' = Reached(n) \cup {r}
    <3>1. \A q \in Requests \ {r} : q \in Reached(n)' <=> q \in Reached(n)
        BY <1>4 DEF Reached
    <3>2. r \in Reached(n)'
      <4>1. step'[r] \in 1..step'[r] /\ Steps(r)[step'[r]] = n
          BY <1>3, <1>4 DEF At
      <4> QED
          BY <4>1, <1>2 DEF Reached
    <3> QED
        BY <3>1, <3>2 DEF Reached
  <2>3. r \notin Reached(n)
    <3>1. ASSUME NEW i \in 1..step[r]
          PROVE  Steps(r)[i] # n
      <4>1. i \in 1..Len(Steps(r)) /\ i # step[r] + 1
          BY <1>3
      <4> QED
          BY <4>1, <1>3, StepsOf DEF At
    <3> QED
        BY <3>1 DEF Reached
  <2>4. ASSUME NEW m \in Names \ {n}
        PROVE  Reached(m)' = Reached(m)
    <3>1. \A q \in Requests \ {r} : q \in Reached(m)' <=> q \in Reached(m)
        BY <1>4 DEF Reached
    <3>2. \A i \in 1..step'[r] : i \in 1..step[r] \/ Steps(r)[i] = n
        BY <1>3, <1>4 DEF At
    <3>3. 1..step[r] \subseteq 1..step'[r]
        BY <1>3, <1>4
    <3>4. r \in Reached(m)' <=> r \in Reached(m)
        BY <3>2, <3>3 DEF Reached
    <3> QED
        BY <3>1, <3>4 DEF Reached
  <2>5. Cardinality(Reached(n)') = Cardinality(Reached(n)) + 1
      BY <2>2, <2>3, <1>3, ReachedFinite, FS_AddElement DEF HandlerInv
  <2>6. \A m \in Names : counts'[m] = Cardinality(Reached(m)')
      BY <2>1, <2>4, <2>5, <1>3, <1>4
  <2> QED
      BY <2>6 DEF CountsAreExact, Reached
<1> QED
    BY <1>5, <1>6, <1>7 DEF HandlerInv

\* A snapshot raises nothing.
LEMMA CountsShown == ASSUME HandlerInv, NEW r \in Requests, Snapshot(r) PROVE HandlerInv'
<1>1. /\ ~IsTurn(r) /\ AtWork(r)
      /\ step' = [step EXCEPT ![r] = step[r] + 1]
      /\ UNCHANGED <<vars, counts, held, answeredBy>>
    BY DEF Snapshot
<1>2. seen' \in [Requests -> [Names -> Nat]]
  <2>1. [counts EXCEPT !["drift"] = 0] \in [Names -> Nat]
        /\ [seen[r] EXCEPT !["drift"] = counts["drift"]] \in [Names -> Nat]
      BY DEF HandlerInv, HandlerTypes, Names
  <2> QED
      BY <2>1 DEF Snapshot, HandlerInv, HandlerTypes
<1>3. /\ \A q \in Requests \ {r} : step'[q] = step[q]
      /\ step'[r] = step[r] + 1 /\ step[r] + 1 \in 1..Len(Steps(r))
    BY <1>1, StepsOf DEF HandlerInv, HandlerTypes, AtWork
<1>4. HandlerTypes'
  <2>1. \A q \in Requests :
            /\ step'[q] \in 0..Len(Steps(q))
            /\ request[q] \in {"none", "queued"} => step'[q] = 0
            /\ request[q] = "answered" => step'[q] = Len(Steps(q))
      BY <1>1, <1>3 DEF HandlerInv, HandlerTypes, AtWork
  <2>2. step' \in [Requests -> Nat]
      BY <1>1 DEF HandlerInv, HandlerTypes
  <2> QED
      BY <1>1, <1>2, <2>1, <2>2 DEF HandlerInv, HandlerTypes, Begun, vars
<1>5. Locked'
  <2>1. \A q \in Requests : held[q] # Nothing => q # r
      BY <1>1 DEF HandlerInv, Locked
  <2> QED
      BY <1>1, <1>3, <2>1 DEF HandlerInv, Locked, AtWork, At, vars
<1>6. CountsAreExact'
  <2>1. \A n \in Names : Reached(n)' = Reached(n)
      BY <1>1, <1>3 DEF Reached
  <2> QED
      BY <1>1, <2>1 DEF HandlerInv, CountsAreExact, Reached
<1> QED
    BY <1>4, <1>5, <1>6 DEF HandlerInv

\* The server's other steps, the reporter's, and none at all.
LEMMA HandlersApart ==
    ASSUME HandlerInv, UNCHANGED <<request, handlers>>
    PROVE  HandlerInv'
BY DEF HandlerInv, HandlerTypes, Locked, CountsAreExact, Begun, AtWork, At, handlers

\* A new process has counted nothing.
LEMMA HandlersAfterRestart == ASSUME HandlerInv, Restart PROVE HandlerInv'
<1>1. Begun' = {} /\ \A n \in Names : Reached(n)' = {}
    BY DEF Restart, Begun, Reached
<1>2. HandlerTypes'
    BY <1>1, FS_EmptySet, StepsOf DEF Restart, HandlerTypes, NoCounts, Nothing
<1>3. Locked'
    BY DEF Restart, Locked
<1>4. CountsAreExact'
    BY <1>1, FS_EmptySet DEF Restart, CountsAreExact, NoCounts, Reached
<1> QED
    BY <1>2, <1>3, <1>4 DEF HandlerInv

\* The steps of the server with its handlers, each of which is one of these.
LEMMA StepsOfServer ==
    ASSUME [ObsNext]_allVars
    PROVE  \/ UNCHANGED <<request, handlers>>
           \/ Restart
           \/ \E r \in Requests : Server(Connect(r)) \/ Take(r) \/ Handle(r) \/ Answer(r)
<1>1. CASE UNCHANGED allVars
    BY <1>1 DEF allVars, vars
<1>2. CASE Server(Serve \/ Stop \/ Shutdown \/ Return)
    BY <1>2 DEF Server, Serve, Stop, Shutdown, Return
<1>3. CASE Report
    BY <1>3 DEF Report, Wake, Write, WriteFails, vars
<1> QED
    BY <1>1, <1>2, <1>3 DEF ObsNext

LEMMA HandlerStep == HandlerInv /\ [ObsNext]_allVars => HandlerInv'
<1> SUFFICES ASSUME HandlerInv, [ObsNext]_allVars
             PROVE  HandlerInv'
    OBVIOUS
<1>1. CASE UNCHANGED <<request, handlers>>
    BY <1>1, HandlersApart
<1>2. CASE Restart
    BY <1>2, HandlersAfterRestart
<1>3. ASSUME NEW r \in Requests, Server(Connect(r)) \/ Take(r) \/ Answer(r)
      PROVE  HandlerInv'
  <2>0. answeredBy \in [Requests -> Nat]
      BY DEF HandlerInv, HandlerTypes
  <2>1. CASE Server(Connect(r))
    <3>1. Connect(r) /\ UNCHANGED <<counts, step, held, seen>> /\ answeredBy' = answeredBy
        BY <2>1 DEF Server, handlers
    <3> QED
        BY <3>1, <2>0, RequestMoves
  <2>2. CASE Take(r)
    <3>1. Cardinality(AnsweredTurns) \in Nat
        BY ReachedFinite DEF HandlerInv
    <3>2. answeredBy' \in [Requests -> Nat]
        BY <2>2, <3>1 DEF Take, AnsweredTurns, HandlerInv, HandlerTypes
    <3>3. Accept(r) /\ UNCHANGED <<counts, step, held, seen>>
        BY <2>2 DEF Take
    <3> QED
        BY <3>2, <3>3, RequestMoves
  <2>3. CASE Answer(r)
    <3>1. /\ Respond(r) /\ step[r] = Len(Steps(r))
          /\ UNCHANGED <<counts, step, held, seen>> /\ answeredBy' = answeredBy
        BY <2>3 DEF Answer, handlers
    <3> QED
        BY <3>1, <2>0, RequestMoves
  <2> QED
      BY <1>3, <2>1, <2>2, <2>3
<1>4. ASSUME NEW r \in Requests, Handle(r)
      PROVE  HandlerInv'
    BY <1>4, CountRead, CountRaised, CountsShown DEF Handle
<1> QED
    BY <1>1, <1>2, <1>3, <1>4, StepsOfServer

\* Whatever order the handlers run in, no count is lost and none is made up.
THEOREM NoCountIsLost == ObsSpec => []CountsAreExact
<1>1. HandlerInv => CountsAreExact
    BY DEF HandlerInv
<1> QED
    BY HandlerInit, HandlerStep, <1>1, PTL DEF ObsSpec

-----------------------------------------------------------------------------
(***************************************************************************)
(* What a snapshot shows.                                                  *)
(***************************************************************************)

\* Nobody was accepted after more turns were answered than have been by now;
\* a snapshot is in order, and has the turns answered before it was asked for.
ShownInv ==
    /\ SnapshotsInOrder
    /\ \A r \in Requests :
        /\ answeredBy[r] <= Cardinality(AnsweredTurns)
        /\ ~IsTurn(r) /\ step[r] >= 1 => seen[r]["turn_total"] >= answeredBy[r]
        /\ ~IsTurn(r) /\ step[r] >= 2 => seen[r]["drift"] >= answeredBy[r]

LEMMA ShownInit == ObsInit => ShownInv
<1> SUFFICES ASSUME ObsInit
             PROVE  ShownInv
    OBVIOUS
<1>1. AnsweredTurns = {}
    BY DEF ObsInit, Init, AnsweredTurns
<1>2. Cardinality(AnsweredTurns) = 0
    BY <1>1, FS_EmptySet
<1> QED
    BY <1>2 DEF ObsInit, ShownInv, SnapshotsInOrder, NoCounts, Names

\* The answer of a turn is one more, any other answer none.
LEMMA AnsweredGrow ==
    ASSUME HandlerInv, NEW r \in Requests, Connect(r) \/ Accept(r) \/ Respond(r)
    PROVE  /\ Cardinality(AnsweredTurns') \in Nat
           /\ Cardinality(AnsweredTurns') >= Cardinality(AnsweredTurns)
           /\ ~Respond(r) => AnsweredTurns' = AnsweredTurns
<1>1. /\ \A q \in Requests \ {r} : request'[q] = request[q]
      /\ Respond(r) => request[r] = "handled" /\ request'[r] = "answered"
      /\ ~Respond(r) => request[r] # "answered" /\ request'[r] # "answered"
    BY DEF HandlerInv, HandlerTypes, Connect, Accept, Respond
<1>2. AnsweredTurns' = AnsweredTurns \/ AnsweredTurns' = AnsweredTurns \cup {r}
    BY <1>1 DEF AnsweredTurns
<1>3. ~Respond(r) => AnsweredTurns' = AnsweredTurns
    BY <1>1 DEF AnsweredTurns
<1>4. IsFiniteSet(AnsweredTurns) /\ Cardinality(AnsweredTurns) \in Nat
    BY ReachedFinite DEF HandlerInv
<1> QED
    BY <1>2, <1>3, <1>4, FS_AddElement

LEMMA ShownStep == HandlerInv /\ ShownInv /\ [ObsNext]_allVars => ShownInv'
<1> SUFFICES ASSUME HandlerInv, ShownInv, [ObsNext]_allVars
             PROVE  ShownInv'
    OBVIOUS
<1>0. /\ step \in [Requests -> Nat] /\ answeredBy \in [Requests -> Nat]
      /\ seen \in [Requests -> [Names -> Nat]] /\ counts \in [Names -> Nat]
      /\ Cardinality(AnsweredTurns) \in Nat
      /\ {"turn_count", "turn_total", "escalations_total", "drift"} \subseteq Names
    BY ReachedFinite DEF HandlerInv, HandlerTypes, Names
<1>1. CASE UNCHANGED <<request, handlers>>
    BY <1>1 DEF ShownInv, SnapshotsInOrder, AnsweredTurns, handlers
<1>2. CASE Restart
  <2>1. AnsweredTurns' = {}
      BY <1>2 DEF Restart, AnsweredTurns
  <2>2. Cardinality(AnsweredTurns') = 0
      BY <2>1, FS_EmptySet
  <2> QED
      BY <1>2, <2>2 DEF Restart, ShownInv, SnapshotsInOrder, NoCounts, Names
<1>3. ASSUME NEW r \in Requests, Server(Connect(r)) \/ Answer(r)
      PROVE  ShownInv'
  <2>1. UNCHANGED handlers /\ (Connect(r) \/ Respond(r))
      BY <1>3 DEF Server, Answer
  <2>2. Cardinality(AnsweredTurns') \in Nat /\ Cardinality(AnsweredTurns') >= Cardinality(AnsweredTurns)
      BY <2>1, AnsweredGrow
  <2> QED
      BY <2>1, <2>2, <1>0 DEF ShownInv, SnapshotsInOrder, handlers
<1>4. ASSUME NEW r \in Requests, Take(r)
      PROVE  ShownInv'
  <2>1. /\ Accept(r) /\ request[r] = "queued" /\ UNCHANGED <<counts, step, held, seen>>
        /\ answeredBy' = [answeredBy EXCEPT ![r] = Cardinality(AnsweredTurns)]
      BY <1>4 DEF Take, Accept, AnsweredTurns
  <2>2. AnsweredTurns' = AnsweredTurns
      BY <2>1, AnsweredGrow DEF Accept, Respond
  <2>3. step[r] = 0
      BY <2>1 DEF HandlerInv, HandlerTypes
  <2> QED
      BY <2>1, <2>2, <2>3, <1>0 DEF ShownInv, SnapshotsInOrder
<1>5. ASSUME NEW r \in Requests, Load(r) \/ Store(r)
      PROVE  ShownInv'
  <2>1. IsTurn(r)
      BY <1>5 DEF Load, Store, HandlerInv, Locked
  <2>2. /\ UNCHANGED <<request, seen, answeredBy>>
        /\ \A q \in Requests \ {r} : step'[q] = step[q]
      BY <1>5, <1>0 DEF Load, Store, vars
  <2>3. AnsweredTurns' = AnsweredTurns
      BY <2>2 DEF AnsweredTurns
  <2> QED
      BY <2>1, <2>2, <2>3 DEF ShownInv, SnapshotsInOrder
<1>6. ASSUME NEW r \in Requests, Snapshot(r)
      PROVE  ShownInv'
  <2>1. /\ ~IsTurn(r) /\ AtWork(r)
        /\ step' = [step EXCEPT ![r] = step[r] + 1]
        /\ UNCHANGED <<request, counts, answeredBy>>
      BY <1>6 DEF Snapshot, vars
  <2>2. \A q \in Requests \ {r} : step'[q] = step[q] /\ seen'[q] = seen[q]
      BY <1>6, <1>0 DEF Snapshot
  <2>3. AnsweredTurns' = AnsweredTurns
      BY <2>1 DEF AnsweredTurns
  <2>4. Len(Steps(r)) = 2 /\ Steps(r)[1] = "counters" /\ Steps(r)[2] = "drift"
      BY <2>1, ObservabilityAssumption DEF IsTurn, Steps
  <2>5. /\ counts["turn_count"] >= counts["turn_total"]
        /\ counts["turn_total"] >= counts["escalations_total"]
        /\ counts["turn_total"] >= answeredBy[r] /\ counts["drift"] >= answeredBy[r]
      BY <1>0, CountsInOrder DEF ShownInv
  <2>6. ASSUME /\ seen'[r]["turn_count"] >= seen'[r]["turn_total"]
               /\ seen'[r]["turn_total"] >= seen'[r]["escalations_total"]
               /\ step'[r] >= 1 => seen'[r]["turn_total"] >= answeredBy[r]
               /\ step'[r] >= 2 => seen'[r]["drift"] >= answeredBy[r]
        PROVE  ShownInv'
    <3>1. SnapshotsInOrder'
        BY <2>2, <2>6 DEF ShownInv, SnapshotsInOrder
    <3>2. ASSUME NEW q \in Requests
          PROVE  /\ answeredBy'[q] <= Cardinality(AnsweredTurns')
                 /\ ~IsTurn(q) /\ step'[q] >= 1 => seen'[q]["turn_total"] >= answeredBy'[q]
                 /\ ~IsTurn(q) /\ step'[q] >= 2 => seen'[q]["drift"] >= answeredBy'[q]
      <4>1. answeredBy' = answeredBy
          BY <2>1
      <4>2. CASE q = r
          BY <2>3, <2>6, <4>1, <4>2 DEF ShownInv
      <4>3. CASE q # r
          BY <2>2, <2>3, <4>1, <4>3 DEF ShownInv
      <4> QED
          BY <4>2, <4>3
    <3> QED
        BY <3>1, <3>2 DEF ShownInv
  <2>7. CASE step[r] = 0
    <3>1. step'[r] = 1 /\ seen'[r] = [counts EXCEPT !["drift"] = 0]
        BY <1>6, <2>1, <2>4, <2>7, <1>0 DEF Snapshot, At
    <3>2. /\ seen'[r]["turn_count"] = counts["turn_count"]
          /\ seen'[r]["turn_total"] = counts["turn_total"]
          /\ seen'[r]["escalations_total"] = counts["escalations_total"]
        BY <3>1, <1>0
    <3> QED
        BY <2>5, <2>6, <3>1, <3>2 DEF ShownInv, SnapshotsInOrder
  <2>8. CASE step[r] = 1
    <3>1. step'[r] = 2 /\ seen'[r] = [seen[r] EXCEPT !["drift"] = counts["drift"]]
        BY <1>6, <2>1, <2>4, <2>8, <1>0 DEF Snapshot, At
    <3>2. /\ seen'[r]["turn_count"] = seen[r]["turn_count"]
          /\ seen'[r]["turn_total"] = seen[r]["turn_total"]
          /\ seen'[r]["escalations_total"] = seen[r]["escalations_total"]
          /\ seen'[r]["drift"] = counts["drift"]
        BY <3>1, <1>0
    <3> QED
        BY <2>1, <2>5, <2>6, <2>8, <3>1, <3>2 DEF ShownInv, SnapshotsInOrder
  <2>9. step[r] = 0 \/ step[r] = 1
    <3>1. step[r] \in Nat /\ step[r] < 2
        BY <2>1, <2>4, <1>0 DEF AtWork
    <3> QED
        BY <3>1
  <2> QED
      BY <2>7, <2>8, <2>9
<1> QED
    BY <1>1, <1>2, <1>3, <1>4, <1>5, <1>6, StepsOfServer DEF Handle

\* No snapshot shows more of a later count than of an earlier one, wherever the
\* turns being counted were when it was taken.
THEOREM SnapshotsAreInOrder == ObsSpec => []SnapshotsInOrder
<1>1. ShownInv => SnapshotsInOrder
    BY DEF ShownInv
<1> QED
    BY HandlerInit, HandlerStep, ShownInit, ShownStep, <1>1, PTL DEF ObsSpec

\* The answer to a request for the metrics has every turn answered before the
\* request was accepted, in both of its parts.
THEOREM AnsweredTurnsAreCounted == ObsSpec => []AnsweredIsCounted
<1>1. HandlerInv /\ ShownInv => AnsweredIsCounted
  <2> SUFFICES ASSUME HandlerInv, ShownInv, NEW r \in Requests, ~IsTurn(r), request[r] = "answered"
               PROVE  seen[r]["turn_total"] >= answeredBy[r] /\ seen[r]["drift"] >= answeredBy[r]
      BY DEF AnsweredIsCounted
  <2>1. Len(Steps(r)) = 2
      BY ObservabilityAssumption DEF IsTurn, Steps
  <2>2. step[r] = 2
      BY <2>1 DEF HandlerInv, HandlerTypes
  <2> QED
      BY <2>2 DEF ShownInv
<1> QED
    BY HandlerInit, HandlerStep, ShownInit, ShownStep, <1>1, PTL DEF ObsSpec
=============================================================================

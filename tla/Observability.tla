--------------------------- MODULE Observability ---------------------------
(***************************************************************************)
(* What the server tells about itself (observability.py, the end of        *)
(* handle_turn, the drift reporter of assistant.py and the GET routes that *)
(* show both), composed with the server that runs the handlers: the        *)
(* handler threads of ServerShutdown count their turns, or read the counts *)
(* of the others, before they respond.  The counters and the drift counts  *)
(* have a lock each.  The reporter appends a line to a file and has no     *)
(* handler for an exception.  Of the four latencies, counted alike one     *)
(* after the other, the model has the first; sums and shares computed from *)
(* the counts are left out.                                                *)
(***************************************************************************)
EXTENDS ServerShutdown, Integers, Sequences, FiniteSets

CONSTANTS
    Kind,       \* what each request is
    MaxStarts   \* bound on the times the process is started

\* A turn, a turn that is escalated, GET /metrics.
ASSUME ObservabilityAssumption ==
    /\ Kind \in [Requests -> {"turn", "transfer", "metrics"}]
    /\ MaxStarts \in Nat \ {0}

VARIABLES
    counts,     \* the counters, and the number of intents the drift monitor recorded
    step,       \* per request: how many of its steps the handler has done
    held,       \* per request: the count it read and is about to raise, or Nothing
    seen,       \* per request: the counts its answer shows
    answeredBy, \* history: turns answered before the request was accepted
    reporter,   \* its thread: "asleep", "writing", "dead"
    lastLine,   \* of the report file: "none", "whole", "garbled"
    openLine,   \* does the file end within a line?
    starts      \* times the process was started

handlers == <<counts, step, held, seen, answeredBy>>
reports == <<reporter, lastLine, openLine>>
allVars == <<vars, handlers, reports, starts>>

Names == {"turn_count", "turn_total", "escalations_total", "drift"}

NoCounts == [n \in Names |-> 0]
Nothing == -1

\* Mutant: escalations are counted before the total.
EagerSteps(r) ==
    CASE Kind[r] = "turn" -> <<"turn_count", "turn_total", "drift">>
      [] Kind[r] = "transfer" -> <<"turn_count", "escalations_total", "turn_total", "drift">>
      [] Kind[r] = "metrics" -> <<"counters", "drift">>

\* What the handler counts or reads, in the order of handle_turn and of the
\* GET route.
Steps(r) ==
    CASE Kind[r] = "turn" -> <<"turn_count", "turn_total", "drift">>
      [] Kind[r] = "transfer" -> <<"turn_count", "turn_total", "escalations_total", "drift">>
      [] Kind[r] = "metrics" -> <<"counters", "drift">>

IsTurn(r) == Kind[r] # "metrics"

ObsInit ==
    /\ Init
    /\ counts = NoCounts
    /\ step = [r \in Requests |-> 0]
    /\ held = [r \in Requests |-> Nothing]
    /\ seen = [r \in Requests |-> NoCounts]
    /\ answeredBy = [r \in Requests |-> 0]
    /\ reporter = "asleep"
    /\ lastLine = "none"
    /\ openLine = FALSE
    /\ starts = 1

AtWork(r) == request[r] = "handled" /\ step[r] < Len(Steps(r))

At(r) == Steps(r)[step[r] + 1]

Lock(n) == IF n = "drift" THEN "drift monitor" ELSE "metric store"

Free(n) == \A q \in Requests : held[q] # Nothing => Lock(At(q)) # Lock(n)

\* Mutant: the counter is read without its lock.
UnlockedLoad(r) ==
    /\ IsTurn(r) /\ AtWork(r) /\ held[r] = Nothing
    /\ held' = [held EXCEPT ![r] = counts[At(r)]]
    /\ UNCHANGED <<vars, counts, step, seen, answeredBy, reports, starts>>

\* inc, observe_latency and record take the lock and read the count ...
Load(r) ==
    /\ IsTurn(r) /\ AtWork(r) /\ held[r] = Nothing
    /\ Free(At(r))
    /\ held' = [held EXCEPT ![r] = counts[At(r)]]
    /\ UNCHANGED <<vars, counts, step, seen, answeredBy, reports, starts>>

\* ... and store it again, raised by one.
Store(r) ==
    /\ held[r] # Nothing
    /\ counts' = [counts EXCEPT ![At(r)] = held[r] + 1]
    /\ held' = [held EXCEPT ![r] = Nothing]
    /\ step' = [step EXCEPT ![r] = step[r] + 1]
    /\ UNCHANGED <<vars, seen, answeredBy, reports, starts>>

\* GET /metrics: metrics.snapshot() first, drift.snapshot() at a later moment,
\* each under its lock.
Snapshot(r) ==
    /\ ~IsTurn(r) /\ AtWork(r)
    /\ Free(At(r))
    /\ seen' = [seen EXCEPT ![r] =
                    IF At(r) = "counters" THEN [counts EXCEPT !["drift"] = 0]
                    ELSE [seen[r] EXCEPT !["drift"] = counts["drift"]]]
    /\ step' = [step EXCEPT ![r] = step[r] + 1]
    /\ UNCHANGED <<vars, counts, held, answeredBy, reports, starts>>

\* Mutant: the answer is sent before the turn is counted.
HastyAnswer(r) ==
    /\ Respond(r)
    /\ held[r] = Nothing
    /\ UNCHANGED <<handlers, reports, starts>>

\* The answer is sent when the handler is through.
Answer(r) ==
    /\ step[r] = Len(Steps(r))
    /\ Respond(r)
    /\ UNCHANGED <<handlers, reports, starts>>

\* A request is accepted; how many turns have been answered by now?
Take(r) ==
    /\ Accept(r)
    /\ answeredBy' = [answeredBy EXCEPT ![r] =
                          Cardinality({q \in Requests : IsTurn(q) /\ request[q] = "answered"})]
    /\ UNCHANGED <<counts, step, held, seen, reports, starts>>

\* A step of the server alone.
Server(action) == action /\ UNCHANGED <<handlers, reports, starts>>

\* The reporter wakes up and takes its snapshot.
Wake ==
    /\ reporter = "asleep"
    /\ reporter' = "writing"
    /\ UNCHANGED <<vars, handlers, lastLine, openLine, starts>>

\* Mutant: the line has no end.
EndlessWrite ==
    /\ reporter = "writing"
    /\ reporter' = "asleep"
    /\ lastLine' = IF lastLine = "none" THEN "whole" ELSE "garbled"
    /\ openLine' = TRUE
    /\ UNCHANGED <<vars, handlers, starts>>

\* The line is appended, after whatever an earlier write left without an end.
Write ==
    /\ reporter = "writing"
    /\ reporter' = "asleep"
    /\ lastLine' = IF openLine THEN "garbled" ELSE "whole"
    /\ openLine' = FALSE
    /\ UNCHANGED <<vars, handlers, starts>>

\* The directory, the file or the disk refuses; a part of the line may be
\* written.  The exception ends the thread.
WriteFails ==
    /\ reporter = "writing"
    /\ reporter' = "dead"
    /\ \/ UNCHANGED <<lastLine, openLine>>
       \/ lastLine' = "garbled" /\ openLine' = TRUE
    /\ UNCHANGED <<vars, handlers, starts>>

\* The process ends or dies, and is started again: all is gone but the file.
Restart ==
    /\ starts < MaxStarts
    /\ caller # "waiting"
    /\ starts' = starts + 1
    /\ loop' = "starting" /\ flag' = FALSE /\ isShutDown' = FALSE /\ caller' = "idle"
    /\ request' = [r \in Requests |-> "none"]
    /\ counts' = NoCounts
    /\ step' = [r \in Requests |-> 0]
    /\ held' = [r \in Requests |-> Nothing]
    /\ seen' = [r \in Requests |-> NoCounts]
    /\ answeredBy' = [r \in Requests |-> 0]
    /\ reporter' = "asleep"
    /\ UNCHANGED <<lastLine, openLine>>

\* _load_latest_drift_report: what GET /v1/admin/drift-report says of the file.
DriftReport ==
    CASE lastLine = "none" -> "no drift reports yet"
      [] lastLine = "garbled" -> "drift report unreadable"
      [] lastLine = "whole" -> "ok"

\* A bound: a process that was restarted knows as little as the first, so that
\* requests come to the first one only.
FirstProcess == starts = 1

Handle(r) == Load(r) \/ Store(r) \/ Snapshot(r)

Report == Wake \/ Write \/ WriteFails

ObsNext ==
    \/ Server(Serve \/ Stop \/ Shutdown \/ Return)
    \/ \E r \in Requests : Server(Connect(r)) /\ FirstProcess
    \/ \E r \in Requests : Take(r) \/ Handle(r) \/ Answer(r)
    \/ Report
    \/ Restart

\* The threads are scheduled; nobody has to connect, stop or restart the server.
ObsSpec ==
    /\ ObsInit /\ [][ObsNext]_allVars
    /\ WF_allVars(Server(Serve)) /\ WF_allVars(Server(Stop)) /\ WF_allVars(Server(Return))
    /\ \A r \in Requests :
          SF_allVars(Take(r)) /\ WF_allVars(Handle(r)) /\ WF_allVars(Answer(r))
    /\ WF_allVars(Report)

-----------------------------------------------------------------------------
(***************************************************************************)
(* Properties.                                                             *)
(***************************************************************************)

\* Handlers that overlap lose no count of each other: a counter is the number
\* of turns that came as far as it.
CountsAreExact ==
    \A n \in Names :
        counts[n] = Cardinality({r \in Requests :
            IsTurn(r) /\ \E i \in 1..step[r] : Steps(r)[i] = n})

\* A snapshot taken while turns are being counted shows no more of a later
\* count than of an earlier one: no rate computed from it exceeds one.
SnapshotsInOrder ==
    \A r \in Requests :
        /\ seen[r]["turn_count"] >= seen[r]["turn_total"]
        /\ seen[r]["turn_total"] >= seen[r]["escalations_total"]

\* Who asks for the metrics after a turn was answered finds it counted, in the
\* counters and in the drift.
AnsweredIsCounted ==
    \A r \in Requests :
        ~IsTurn(r) /\ request[r] = "answered" =>
            seen[r]["turn_total"] >= answeredBy[r] /\ seen[r]["drift"] >= answeredBy[r]

\* An unreadable drift report is followed by a readable one, also when the
\* process is restarted after the failure, unless the thread has ended.
ReportRecovers ==
    DriftReport = "drift report unreadable" ~> DriftReport = "ok" \/ reporter = "dead"
=============================================================================

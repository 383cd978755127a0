# A verification development for CallCentreVoiceBot

TLA+ models of the call-centre bot in `src/callcentre_bot/` (below: the
package), the TLC runs that check them on small instances, and theorems that
hold for every value of the constants, checked by TLAPS. Line numbers refer to
the commit the models were written from. `PROJECT.json` maps every definition
to the lines it stands for and lists the hazards that motivated the properties.

Contents: 1 the system, 2 the modules, 3 what each run checks, 4 bounds,
5 fairness, 6 proofs, 7 what disagrees with the documentation, 8 known limits,
9 what is not modelled, 10 the plan.

## 1. The system

The program is one multi-threaded HTTP server (`ThreadingHTTPServer`: a daemon
thread per connection). A request carries a customer's turn as text, or as SIP
media; the server answers with the bot's reply. Several server processes may
share one database.

| part | files | state | operations |
|---|---|---|---|
| turn handling | `assistant.py`, `flows.py`, `models.py` | the fields of a `SessionState`: counters, journey, campaign, escalation flag | `handle_turn` |
| brain, policy | `brain.py`, `policy.py` | one memory per session, in the process only | plan, memory, reflection, safety, sales strategy, reranking |
| NLU | `nlu.py`, `ml.py` | a calibrated threshold per intent | detect language, classify, compare with the threshold |
| knowledge | `knowledge.py` | constant | FAQ and product lookup |
| session store | `assistant.py`, `storage.py`, `db.py` | a dictionary of session objects, the table `sessions` | `create`, `get`, `save` |
| turn history | `storage.py`, `db.py`, `assistant.py` | tables `turns`, `turns_archive`; a connection with an open transaction per process; the archival thread | `append_turn`, `archive_turns_older_than` |
| voice | `voice.py`, `assistant.py` | the engines chosen at the start | voice activity, recognition, `handle_voice_turn`, synthesis, each with its fallback |
| SIP | `sip.py`, `api.py` | a dictionary of call objects: status, hold flag, retries, gateway | start, media, hold, resume, transfer, DTMF, look up |
| rate limiter | `rate_limit.py` | a deque of times per client address | `allow` |
| gateway | `api.py` | none of its own | TLS, rate and API-key gates, routes, error codes |
| server | `main.py` and the standard library | the accept loop, the shutdown request | serve, shut down on a signal |
| observability | `observability.py`, `assistant.py`, `api.py` | counters and drift counts, each under a lock; a reporter thread and its file | count, snapshot, report; audit, redaction |
| callers | `scripts/run_voice_console.py`, `scripts/load_test.py` | the answer they wait for | one request at a time, with a timeout |

How they interact. A request passes the gates, then calls `handle_turn` (or,
for media, the SIP service, which calls `handle_voice_turn`, which calls
`handle_turn`). `handle_turn` takes the session object from the session store,
lets the NLU and the brain decide, mutates the object **in place and without a
lock**, saves the session, appends the turn, counts metrics and answers. The
dictionary, the database connection, the limiter's deques and the metrics each
have a lock of their own; nothing holds two of them. Two daemon threads, the
archival worker and the drift reporter, run beside the requests.

What is hard here, and what each part must guarantee:

- **Turn handling.** The decision to hand the customer to a human is taken in
  four places and written in three; two counters interact, one of which is
  reset on the way to the limit of the other; three different tests decide
  whether an utterance was understood. *Correct* means: patience runs out when
  the policy says so and never comes back; reply, journey and session agree; no
  reply promises a transfer that is not made, and none leaves an utterance that
  was not understood without a question.
- **Session store.** Two requests of one session share the object; a miss loads
  or creates outside the lock; the database may fail between any two steps, and
  the process may die. *Correct* means: what was answered is durable and
  counted once, and a conversation that sends one request at a time sees a
  turn as one step.
- **Turn history.** The archive run is SELECT, INSERTs, DELETE, commit on a
  connection whose earlier operation may have left a transaction open; a second
  process runs the same at the same time. *Correct* means: a turn once appended
  is never lost and never in both tables; old turns leave.
- **SIP.** Requests of one call overlap. *Correct* means: the shown status and
  the hold flag agree, the failover happens at the second failure, a call that
  can be found has its session's context in the database.
- **Voice.** Three stages may fail, two of them in a program outside the process;
  what fails is answered with a fallback or an exception. *Correct* means: the
  answer names the stage that failed first.
- **Rate limiter.** The clock is read before the lock is taken.
- **Gateway.** Requests are refused at six places, before or after the limiter
  has counted them, and callers stop waiting without anybody noticing.
  *Correct* means: the class of an answer tells whether something was done, and
  a sequential caller's requests overlap only after it gave up on one.
- **Observability.** The counts of a turn are raised one after the other, the
  snapshot is taken in two sections. *Correct* means: nothing is lost, a
  snapshot is in the order of the counts, and who was answered is counted.
- **Calibration.** The planner's notion of "understood" is chosen from data; the
  reflection's is a constant. They must fit (see `UnsureReplyAsks`).
- **Shutdown.** The signal handler runs on top of the loop it stops.

## 2. The modules

| module | models | state and actions |
|---|---|---|
| `NluThresholds` | `nlu.py:148-181` | operators only: `Threshold`, `Understood` |
| `Conversation` | `handle_turn` with brain, policy, flows | the session's fields; `Turn(u)` is one whole turn, `Restart` drops the brain memory |
| `MCConversation` | | two products, two campaigns, the calibrated thresholds, utterances for every branch |
| `ConversationProofs` | | theorems about `Conversation` |
| `SessionRecord` | the fields a turn depends on | the three groups of assignments of a turn as operators |
| `SessionLedger` | what the session service promises | abstract: `Open`, `Apply`, `Persist`, `Log`, `Acknowledge`, `Crash` |
| `SessionService`, `MCSessionService` | `SessionStore`, `handle_turn`, `handle_voice_turn` thread by thread | heap of objects, dictionary, rows, log, and each thread's program counter and locals |
| `SessionServiceProofs` | | theorems about `SessionService` |
| `TurnStore` | `append_turn`, `archive_turns_older_than`, the archival worker | committed tables, each process's open transaction, each worker's position |
| `TurnStoreProofs` | | theorems about `TurnStore` |
| `VoiceTurn` | `voice.py`, `handle_voice_turn` | engines; per thread the stage, the reason of the fallback |
| `SipCalls`, `MCSipCalls` | `sip.py` and its routes, over `VoiceTurn` | registry, call objects, each request's position |
| `SipProofs` | | theorems about `SipCalls` with `VoiceTurn` |
| `RateLimiter` | `rate_limit.py` | clock, deque, each thread's reading of the clock |
| `HttpGateway`, `MCHttpGateway` | `api.py` from connection to answer, over `RateLimiter`, with the callers | per thread the request's stage, the answer's class; per caller what it waits for |
| `GatewayProofs` | | theorems about `HttpGateway` with `RateLimiter` |
| `Calibration`, `MCCalibration` | `nlu.py:118-141` | the validation rows, the loop's threshold and its best so far |
| `CalibrationProofs` | | theorems about `Calibration` |
| `ServerShutdown` | `run_server` over `socketserver` | accept loop, shutdown request, connections |
| `ServerShutdownProofs` | | theorems about `ServerShutdown` |
| `Observability`, `MCObservability` | `observability.py`, the end of `handle_turn`, the drift reporter, over `ServerShutdown` | counts, what each handler has read; the reporter and the end of its file |
| `ObservabilityProofs` | | theorems about `Observability` |

Three compositions: `SipCalls` EXTENDS `VoiceTurn` (a media request runs the
pipeline in its thread), `HttpGateway` EXTENDS `RateLimiter` (its handler threads
are the limiter's), `Observability` EXTENDS `ServerShutdown` (its handlers are
the threads the accept loop starts). Their next-state relations use the actions
of the module below, so that its properties are checked in the runs of the
composition.

**Conversation.** An utterance is a record of what the NLU engine, the
knowledge lookup and the regular expressions make of a text; a reply is the
name of the template it was built from, and what its text does (asks, mentions
the account, names a product). `Candidates`, `Score` and `Picked` keep the
order in which `decide_response` appends and the rule that the first of equal
scores wins; the term of the score that is the same for every candidate is left
out. A reply's additions and the cut at 360 characters are abstracted: no template
with all its additions is that long, and a customer's name is taken not to be a
word the code looks for (a customer called "Account" is not asked for the
account). `Restart` between two turns is there because the memory of preferences
is not persisted and the session is. The turn is one step; what interleaving
does to it is the subject of `SessionService`.

**SessionService.** A step ends where a thread can be switched out with an
effect on others: at the locked sections, at the database calls, and between
the three groups of assignments of a turn (`Count`, `Tally`, `Mark`). CPython
3.11, the oldest version `pyproject.toml` admits, checks for a switch only at
calls and backward jumps, and within one group there is none. `Upsert` writes
what the object holds at that moment, which under racing requests need not be
what this turn computed. `Fail` leaves the shared object as it is, as the code
does. Object identities that nobody refers to are used again. Besides turns
there are `Open` (POST, a new identifier) and `Look` (GET), because a GET fills
the dictionary like a turn. A row is built from the object's fields in one step;
under racing requests the real one may mix fields of two moments, which no
property of the racing runs relates.

**TurnStore.** A process's connection is shared by its threads under the store's
lock. No operation rolls back, so that what a failed one leaves open is part of
the state (`inserts`, `dirty`, `copies`, `deletes`, `aborted`), and the next
commit takes it along: that of `Append`, of an archive run, or of an
`upsert_session`, which uses the same connection (`Upsert`). `StatementFails` is the database's part: PostgreSQL aborts the
transaction; SQLite may refuse the first write, roll back all of it, or (with
`KeepsRest`) give up one statement and keep the rest. `Select`, `Copy`,
`Delete` and `Commit` are the archive run; the worker holds the lock over all
four, another process's statements fall in between.

**VoiceTurn.** One step per stage: `Listen` (base64 text and voice activity),
`Transcribe`, `TakeTurn`, `Speak`. `Deployments` is what `build_asr_adapter` and
`build_tts_adapter` come up with over all modes, fallback settings and installed
programs, except those in which the service does not start. A stage that does not
deliver sends the turn on to the synthesizer with a request to repeat;
`MayRaise` is where an exception leaves instead. The offline engines are
deterministic and never fail.

**SipCalls.** A call and the session it opened have the same lifetime and are one
object here. `Start`/`Create`/`ApplyContext`/`Register` are `start_call`;
`CheckHold`, then `Bridge` (the stages of `VoiceTurn`), then `Turn` or
`TurnFails`/`Record`/`Judge` are `process_media`, cut between the test of the
flag and the turn, and between counting a failure and judging the count.
`paused` is a history variable: the call was on hold when the request looked it
up, and has not been resumed since.

**RateLimiter.** One client address: the deques of different addresses do not
touch each other. `Read` is the clock, `Decide` the locked section. `admitted` is
a history variable: the times of all admitted requests, in the order of the
decisions; the deque is what is left of it (`Suffix`, proved). The clock
does not go backwards (`time.time()` may, when the host's clock is set; that is
left out).

**HttpGateway.** `Tls`, `Limit429`, `Check` are the gates in the order of the code:
what lacks TLS is refused before the limiter counts it, what lacks a key, a route
or a field after that. `Check` stands for all tests behind the limiter that
precede the operation, since none of them changes anything. The operation is one
step here (`Work`, `NotFound`, `Raise`); what it does is the business of the
other modules. `Raise` may leave something done. A caller's `Timeout` frees the
caller and nothing else: the handler goes on and finds the socket closed
(`RespondToNobody`).

**Calibration.** A score is kept as the two counts F1 is a quotient of, so that
comparisons are exact; `Rounded` is the choice the floats leave between equal
scores of different counts. The rows and their confidences are chosen in `Init`
and stay.

**ServerShutdown.** The accept loop and `shutdown` are the standard library's,
external to the package and modelled from its use in `main.py` and the tests:
`InHandler` says whether `shutdown` runs in the signal handler (`run_server`) or
in a thread of its own (the tests).

**Observability.** `Load` and `Store` are the read and the write of `+= 1` under
the lock; `Snapshot` is one of the two sections of `GET /metrics`. A handler
answers when it has done its steps. Of the four latencies, counted alike one
after the other, the model has the first. The report file is represented by the
class of its last line and by whether it ends within a line. `Restart` starts
another process on the file; the bound `FirstProcess` sends requests to the first
process only, since another one starts from the same state.

## 3. The runs

| run | question | result |
|---|---|---|
| `conversation` | do policy, journey, plan and reply agree over every conversation of five turns? | holds |
| `service_serial` | one request per session at a time, with failures and restarts: is anything lost, are there two objects, does the service implement the ledger? | holds |
| `service_racing` | what remains true when two requests of a session race? | no double count, every answered turn is in the history |
| `store` | one or two processes on one database: is a turn lost, in both tables, archived twice? do old turns leave? | holds, on both databases |
| `observability` | is a count lost, a snapshot out of order, an answered turn missing? does shutdown from another thread end and lose nobody early? does the drift report recover? | holds |
| `sip_calls` | hold, failover, context and fallback reason under three overlapping requests | holds |
| `gateway` | is the window exact without overtaking, and how far off with it? what does an answer tell? when do a caller's requests overlap? | exact; off by less than the number of threads; holds; only after a timeout |
| `calibration` | is the threshold that is chosen the best, and why is it not the lowest? | the best; because of a mistake |
| `campaign_ignored` | is an offer always one the campaign allows? | no, see 7 |
| `service_total_turns` | does the session's row count every turn of its history? | no, see 7 |
| `store_stuck` | does a process's store recover from an error? | no, see 7 |
| `shutdown_signal` | does a signal end the server? | no, see 7 |

Every property of a passing run has a mutant in `PROJECT.json`: a plausible bug
in one mapped definition with which TLC finds the property violated.

Some properties, and why they are not obvious:

- `PatienceRunsOut` relates the two counters to the number of misunderstood
  turns, which the code keeps nowhere.
- `UnsureReplyAsks` relates the planner's calibrated thresholds to the constant
  0.45 in `brain.py:125`. It holds because calibration chose thresholds of at
  most 0.45 for every intent; see `UnsureAsked` in 6.
- `NothingLost` relates what callers were told, the history and the sessions
  table through failures and restarts.
- `ImplementsLedger` refines: `value` is the object as it was before the turn at
  work began (`before`, a history variable), so a turn takes effect at its last
  assignment; `durable` and `logged` are the database.
- `NoTurnDisappears` holds although another operation's commit may publish half
  an archive run, and although rows age between SELECT and DELETE: the cutoff
  is computed once (the mutant `LateDelete` computes it twice).
- `ArchivedOnce` bounds the copies of a row by the number of processes: a worker
  that has selected a row another one is moving copies it again, but none does so
  twice, although aborted runs and restarts repeat the SELECT.
- `HoldIsObeyed` relates what a media request saw at its lookup to what it does
  later: hold, test, resume and hold again may come in between.
- `AnsweredIsCounted` relates a snapshot to the turns answered before its request
  was accepted; it depends on the turn being counted before its answer is sent,
  and on the snapshot being taken after its request came in.
- `OverlapNeedsTimeout` is what `OneAtATime` of `SessionService` stands on: see
  `service_racing` for what remains when it is not met.
- `AnswerTellsWhatWasDone` depends on every test of the request being made before
  the operation begins.
- `FirstFailureNamed` covers every combination of stages that failed before and
  after a fallback.
- `ReportRecovers`: the line that makes an unreadable report readable again is
  appended to a file that may end within a line, and is then unreadable itself;
  the next one is not.
- `FailoverAtTwo` says both that the gateway never switches early and that a
  call with two failures is switched, or a request is just about to do it.

## 4. Bounds

- `conversation`: `MaxTurns = 5`, `MaxNegativeTurns = 2`,
  `MaxClarifications = 1`, `MaxRetries = 2`. Running out of retries takes
  (1 + 1) * 2 = 4 misunderstood turns, so that five turns reach the limit and
  one turn after it, with a turn that went well in between. Confidences are one
  value from each side of every threshold in use. `UnsafeTemplates` and
  `RestrictedTemplates` are empty, as they are for the knowledge base in the
  repository; the theorems leave them open.
- `service_*`: two threads suffice for a race; three requests are a race and one
  request that meets what it left. Two sessions show that they do not mix.
  `Objects` has one identity more than threads, and unreferenced ones return.
- `store`: `running` is one of the two processes or both, chosen in `Init`, on
  either database. Two rows: one that is being moved and one that ages meanwhile
  or is in an open transaction; two workers overlap.
- `observability`: a turn, an escalated turn and a request for the metrics: two
  handlers that count the same thing and one that reads in between. `MaxStarts = 2`:
  one restart, after a failed report.
- `sip_calls`: two calls under two names (one name may be used twice), three
  threads (two that fail, one that changes the call), six requests.
- `gateway`: two threads, so that one may overtake the other, and two callers of
  one address; a limit of two, a window of one tick, times up to four (two
  disjoint windows, and an overtaken request that has missed one), five requests
  and one timeout per caller (`MaxRequests`, `MaxTimeouts`).
- `calibration`: four rows, whose confidences are below the grid, at its lowest
  two points, in the middle, at its last point and above; the theorems cover all
  other data.
- `shutdown_signal`: one connection; the counterexample needs none.
- Symmetry is used over interchangeable identities only, and in no run with a
  liveness property. `service_serial` uses it with two temporal properties:
  both are about single steps, and say the same after a permutation of objects,
  threads or sessions.

`CHECK_DEADLOCK FALSE` is set where the system stops: `observability` and
`shutdown_signal` (the server does stop), `calibration` (the loop ends) and
`gateway` (requests and time run out at their bounds).

`OneAtATime` (one request per session at a time) is how the clients in the
repository behave: `scripts/load_test.py` and `scripts/run_voice_console.py`
wait for an answer before they send the next turn. The server does not enforce
it, and run_voice_console.py breaks it when it gives up after 30 seconds
(`OverlapNeedsTimeout`), which is why `service_racing` and
`service_total_turns` drop it.

## 5. Fairness

- `TurnStore` (`FairSpec`): strong fairness of the worker's four steps. The
  thread is scheduled and the loop in `assistant.py:133-142` always comes back
  to its SELECT; *strong*, because a restart in the middle of a run disables
  the next step, and another process's transaction may. A process that is
  restarted for ever in the middle of every run is excluded; one that is
  restarted any number of times is not. A worker whose connection is aborted
  wakes up, too, and dies of it. Nothing makes a statement succeed: failures
  are never assumed away, and `OldTurnsLeave` allows for the worker's death.
- `ServerShutdown`: weak fairness of the loop's and the caller's steps (threads
  run); strong fairness of `Accept`, since the loop takes waiting connections in
  turn. Nobody has to connect, and nobody has to stop the server.
- `Observability` (`ObsSpec`): the same, and weak fairness of each handler's steps
  and answer and of the reporter as a whole. Which of its outcomes a write has is
  left open, so that failures are never assumed away; nobody has to restart the
  process.
- All other specifications have no fairness; their properties are safety.

## 6. Proofs

`ConversationProofs` (for every knowledge base, set of campaigns, set of
utterances, and every limit):

- `TypeCorrect`: `Spec => []TypeOK`. The work is in the candidates: `Picked`
  is a `CHOOSE` of the first best candidate, which exists because a finite
  non-empty sequence has one (`LeastNatural`, from the library's
  well-foundedness of `<`, then `PickedEligible`).
- `TransferPolicy`: `[]PatienceRunsOut`. `PatienceRunsOut` is not inductive:
  the clarification counter is reset. The invariant `CounterLaw` says what the
  reset preserves: every misunderstood turn is a pending clarification or one
  of the `MaxClarifications + 1` turns a retry stands for. `TransferInv` adds
  that the flag, the journey state and the last reply agree and that either
  counter at its limit implies the flag. `PatienceFromLaw` is the arithmetic.
- `TransferConsistent`: `[]TransferAgrees`; `HandoffsAreMade`: `[]HandoffIsKept`;
  `TransferSticks`: the action property `StickyTransfer`; all from `TransferInv`.
- `OrdersEligible`, `AccountAsked`: every turn re-establishes them
  (`FromEveryTurn`), from the eligibility of the candidates.
- `UnsureAsked`: under the assumption `Calibrated` (every adjusted threshold is
  at most 0.45). This is what the calibration in `nlu.py` must deliver for
  reflection and planner to agree, and nothing in the code enforces it: the
  search may choose up to 0.85. `CalibrationProofs` says when it stays low.

`TurnStoreProofs` (for any number of processes and rows, either database, with
or without failures, `KeepsRest` either way):

- `StoreTypeCorrect` and `TurnsAreKept`: `[]TypeOK`, `[]NoTurnDisappears`. The
  inductive invariant `StoreInv` adds: rows enter the table young
  (`YoungInserts`), what a transaction deletes it has copied (`DeletesCopied`),
  and what the worker will delete it has selected, then copied
  (`CutoffCovered`). The last needs the first: a row in an open transaction is
  not yet old, so that no commit can slip a row under a cutoff that is already
  computed. `CommitKeeps`, `CommitTypes` and `CommitCovers` are the lemmas about
  one commit, whichever operation makes it.

- `TurnsMoveWhole`: `[]NeverInBoth` if `~KeepsRest`. `MoveInv` adds to `StoreInv`
  that what an open transaction copied it deletes, at the latest with the DELETE
  to come (`CopiesDeleted`), and that only old rows are copied and an archived
  row has left the table (`MovedAreGone`).
- `ArchivedOncePerProcess`: `[]ArchivedOnce` if `~KeepsRest`. What is inductive
  is `HoldersBound`: the copies a row has, and the processes that hold it
  (selected it or copied it without a commit), are together no more than the
  processes that run. A holder appears only while the row is in the table, where
  it has no copies yet (`MovedAreGone`), and a commit that adds a copy ends one.
- `RefusedForGood`: from the moment PostgreSQL refuses the transaction of a
  process it refuses it until the process is restarted (`RefusalInv`: SQLite
  never does). `RecoversOnlyUnhurt`: so `StoreRecovers` can only be true of a
  process that is not restarted if nothing was refused. `store_stuck` shows one
  counterexample; these say that a refusal without a restart always is one.

`CalibrationProofs` (for every set of rows and confidences):

- `CalibrationTypeCorrect`, `BestOfTheGrid`, `RaisedForAReason`: `[]TypeOK`,
  `[]BestIsChosen`, `[]RaisedByMistakes`. The loop invariant `CalInv`: no
  threshold tried so far is better than `score` (`BestSoFar`), and if the best
  one is not the first, a mistake lies between them (`MistakeSoFar`: with no
  mistake between two thresholds the lower one has at least the agreements and
  at most the errors of the higher). `UnlearntTrusted`: an intent that is never
  predicted right with 0.35 ends at 0.35.

`SessionServiceProofs` (for any number of sessions, threads and objects; a thread
that takes a step changes nothing of another thread's variables,
`StepOfAThread`):

- `ServiceTypeCorrect`: with the invariant `Located` that says which threads have
  a session and an object.
- `AnswersAreLogged`: `[]AnsweredIsLogged`. `LogInv` counts the turns whose row
  is in and whose answer is not out (`Answering`).
- `CountedOnce`: `[]NoDoubleCount`. `CountInv`: no object and no row has counted
  more than was requested, less what is `Pending`. It holds for racing requests
  although objects are lost and overwritten, since copying never adds.
- Under `OneAtATime`: `LiveObjectIsOne`, `NothingIsLost`, `VoiceAnswersOwnTurn`.
  `SessionInv`: threads at work have different sessions (`Alone`), work on the
  dictionary's object (`OnCached`), and no object serves two sessions (`Apart`).
  `DurableInv`, on top of it: the object has every turn of the row, the row
  counts the history and, once saved, the turn about to enter it; after `Mark`
  the object's flag is the turn's decision.
- Under `OneAtATime`: `ServiceIsLedger`, `Spec => ImplementsLedger`, the
  refinement step by step. `WholeInv` says what a session is worth in the middle
  of a lookup or a turn: an object being loaded holds the row (`Missing`), and
  between two groups of assignments the object is the one the turn found, as far
  as the turn has changed it (`Midway`). `AloneAtWork` makes the `CHOOSE` in
  `Current` unique; `CurrentOfNext` says what each step makes of a session's
  value, `ValueKept` that no step of another session's thread touches it; every
  step is then `Open`, `Apply`, `Persist`, `Log`, `Acknowledge`, `Crash` or a
  stutter of the ledger (`LedgerStep`).

`SipProofs` (for any number of call ids, calls and threads): `SipTypeCorrect`;
`HoldShown` and `HoldObeyed` from `HoldInv` (a request that saw its call on hold
and whose call was not resumed finds it on hold at the test, `HoldSeen`); `FailoverInTime` and
`FailuresAreCounted` from `FailureInv`, by the number of threads between raising
and counting; `ContextIsThere` from `ContextInv` (a call being started is worked
on by one thread and found by none, and is registered with its context);
`FirstReason` from `ReasonInv` (only stages that were passed can have been missed).

`GatewayProofs` (for any number of threads and callers, every limit and window):

- `DequeIsBounded`: filtering drops a head of the deque (`KeptIs`, from the
  cardinality of an initial set of indices), and one event is appended only below
  the limit.
- `LimitHolds`, `RefusalsAreDue`: `[]WindowLimit`, `[]RefusedWhenFull`. The
  invariant `OrderInv`: the deque is the end of the history (`Suffix`), threads
  have read the clock before (`ReadBefore`), and without overtaking the history
  is sorted and what was dropped is older than the last window (`InOrder`).
  `Decision` is what one decision does to deque and history. A window that takes
  in a new request then counts only what the deque still has, which is at most
  the limit; and what is left in a full deque is all in the window of the
  request refused.
- `OvershootHasABound`: `[]OvershootIsBounded`, whoever overtakes whom. For each
  window (`OvershootInv`): either the deque has all it counts (`StillHeld`), or
  the window is over and what it counts, with the threads still to decide that
  read a time in it (`Late`), is less than limit and threads together
  (`Settled`). Something of a window is dropped only by a thread that read a
  later time, so that at least this one is not late.
- `AnswersTell`: nothing is done and no answer decided before the operation
  (`GatesComeFirst`), which a GET never reaches. `OverlapsAreOwed`: every request
  of a caller that it does not wait for was given up on once (`GivenUp`).

`ObservabilityProofs` (for any number of requests): `NoCountIsLost`,
`SnapshotsAreInOrder`, `AnsweredTurnsAreCounted`. `Locked`: who has read a count
and not yet raised it holds the count's lock, and the count is still what it
read; so each count is the number of turns that have been through it
(`Reached`). The sets of turns are nested in the order of the counts
(`ReachedInOrder`), and what a snapshot's first section saw bounds what its
second one can see (`ShownInv`). That only finitely many requests have come in is
part of the invariant, not an assumption.

`ServerShutdownProofs`: `ShutdownTypeCorrect`, `ClosesAfterLoop`, for both places
`shutdown` is called from; no run repeats them. For the signal handler:
`SignalNeverEnds` (the loop leaves only on request, and whoever made it waits on
top of the loop, so that from the signal on neither of them moves) and
`GracefulOnlyUnasked` (`ShutdownEnds` is true only of runs without a signal).
They turn the counterexample of `shutdown_signal` into a statement about all runs.

The assumptions are those the modules name (`...Assumption`): constants are of
their types, not-values are not values, and threads and processes are finitely
many (a thread has an open connection). Nothing else is assumed but `Calibrated`,
`~KeepsRest` and `OneAtATime` where a theorem names them.

Only model-checked: liveness (`OldTurnsLeave`, `ShutdownEnds` for another
thread, `QueuedServed`, `ReportRecovers`), since TLAPS does not reason about
fairness here. Every invariant, action property and refinement of a passing run
is a theorem, under the conditions named above: `ArchivedOnce` and `NeverInBoth`
need `~KeepsRest` (which their run sets), `UnsureReplyAsks` needs `Calibrated`,
the properties of `service_serial` need `OneAtATime`.

## 7. Where the code disagrees with its documentation

Each is a run that TLC refutes.

- **Campaigns** (`campaign_ignored`). `docs/implementation-checklist.md:16` speaks
  of "campaign-aware flow constraints". For a product the campaign does not
  allow, `policy.py:32` gives the eligibility answer a score of -0.2 unless the
  customer is angry, and the strategist's closing question, which names the
  product and never looked at the campaign, wins with 0.
- **Total turns** (`service_total_turns`). Two first requests of a session miss the
  dictionary together; each makes an object, and the row of the last one to
  save loses the other's turn, which the history has.
- **Aborted transactions** (`store_stuck`). No operation of `PostgresStore`
  rolls back. After one error the shared connection refuses every statement
  until the process is restarted.
- **Shutdown** (`shutdown_signal`). The handler calls `server.shutdown()` in the
  thread that runs `serve_forever`, and waits for the loop it interrupts.

## 8. Known limits seen in the models

Not separate runs; each can be read off the model.

- An escalation that comes from the retry counter alone keeps the decision's
  text (`Draft` looks at `ForceEscalation` only), so that the customer is not
  told; `docs/implementation-checklist.md:22` promises "transparent human
  handoff language".
- `account` never changes: `_extract_context` has no expression for account
  numbers, although `docs/production-readiness.md:15` lists `account_id`.
- The escalation flag is overwritten by every turn (`Marked`).
- Two PostgreSQL processes may each archive a row: both workers select it before
  either deletes it. `ArchivedOnce` states the bound.
- With `KeepsRest`, `NeverInBoth` fails: the copies can be committed without
  the deletion. `NoTurnDisappears` does not (it is proved).
- An exception ends the archival worker, or the drift reporter, for the life of
  the process. An unfinished line of the drift report makes the next one
  unreadable, too.
- A hold request that is answered after `CheckHold` does not stop the turn that is
  under way: its reply goes out while the call is on hold.
- A call that was transferred can be resumed, and is active again.
- An intent the classifier has not learnt gets the lowest threshold
  (`UnlearntIsTrusted`): whatever it guesses counts as understood.
- The limiter refuses nothing to requests without TLS and to GETs; they are not
  counted either.
- `VoiceAnswersItsTurn` and `OneObject` fail when requests of a session race,
  which a sequential caller brings about by giving up (`Timeout`).
- A turn that raised after its upsert is counted; a client that repeats it is
  counted again. There is no idempotency key.

## 9. What is not modelled

The naive Bayes arithmetic and the training, similarity scores, wording, language
detection and normalisation, redaction, logging and the audit file, JSON, the
configuration reader and the audio codecs: numerical or textual code whose
outcome is a choice in the models. Latencies, rates and the drift's shares are
computed from the counts and left out. SIP header mapping is text; the campaign in
a transfer's payload is a copy made at the start of the call, beside the session's
own (`SipCalls` has no campaign). Which route asks for which role, key or field
is one choice (`malformed`). The evaluation and quality scripts read files and
print; the load test is a sequential client. `dialog.py` and `sentiment.py`
cannot be reached from the server. DTMF writes only a timestamp.
A database that cannot be opened at the start ends the process, and is left out.

## 10. Plan

Done, in this order: `NluThresholds`, `Conversation`, `ConversationProofs`;
`SessionRecord`, `SessionLedger`, `SessionService`; `TurnStore`,
`TurnStoreProofs`; `ServerShutdown`; `SipCalls`; `RateLimiter`; `VoiceTurn`;
`HttpGateway`; `Observability`; `Calibration`, `CalibrationProofs`;
`ServerShutdownProofs`; `SipProofs`; `GatewayProofs`; `SessionServiceProofs`;
`ObservabilityProofs`; then the refinement of the ledger, `ArchivedOnce` and the
limiter's window as theorems.

Left, in order of worth:

1. Which threads of a racing session can still lose a turn of the durable count:
   a bound on the difference that `service_total_turns` shows, by the number of
   requests at work.
2. The safety halves of the liveness properties: what a worker that is alive has
   left in the table, what an open report line costs.
3. A call composed with its session, should the transfer's payload ever follow
   the session's campaign.

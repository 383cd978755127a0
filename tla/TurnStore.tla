----------------------------- MODULE TurnStore -----------------------------
(***************************************************************************)
(* The turn history and its archival (storage.py SqliteStore, db.py        *)
(* PostgresStore, the archival worker of assistant.py).  Every server      *)
(* process has one connection that all its threads share under a lock, and *)
(* one worker that moves turns older than the cutoff to turns_archive.  No *)
(* operation ever rolls back: what a failed one leaves in the connection's *)
(* transaction is decided by the database.                                 *)
(***************************************************************************)
EXTENDS Naturals, FiniteSets

CONSTANTS
    Turns,         \* turn rows, by identity
    Processes,     \* server processes on one database
    Backends,      \* values settings.db_backend may have: "sqlite", "postgres"
    StoreMayFail,  \* may statements and commits raise?
    KeepsRest      \* may SQLite give up one statement and keep the rest of a transaction?

ASSUME StoreAssumption ==
    /\ IsFiniteSet(Processes)
    /\ Backends \subseteq {"sqlite", "postgres"}
    /\ StoreMayFail \in BOOLEAN
    /\ KeepsRest \in BOOLEAN

VARIABLES
    backend,    \* settings.db_backend, read once at the start
    running,    \* the processes that somebody starts
    turns,      \* committed rows of turns
    archive,    \* committed copies of each row in turns_archive
    aged,       \* committed rows that are older than the retention period by now
    used,       \* rows somebody has tried to append
    appended,   \* history: rows whose append_turn returned
    inserts,    \* per process: rows inserted in the open transaction
    dirty,      \* per process: does the open transaction hold a session row?
    copies,     \* per process: archive rows inserted in the open transaction
    deletes,    \* per process: rows deleted in the open transaction
    aborted,    \* per process: does the database refuse the transaction?
    worker,     \* per process: where the archival worker is
    cutoff,     \* per process: the rows older than the worker's cutoff
    selected    \* per process: the rows its SELECT returned

tables == <<turns, archive, aged>>
txn == <<inserts, dirty, copies, deletes, aborted>>
workers == <<worker, cutoff, selected>>
vars == <<backend, running, tables, used, appended, txn, workers>>

Init ==
    /\ backend \in Backends
    /\ running \in (SUBSET Processes) \ {{}}
    /\ turns = {}
    /\ archive = [t \in Turns |-> 0]
    /\ aged = {}
    /\ used = {}
    /\ appended = {}
    /\ inserts = [p \in Processes |-> {}]
    /\ dirty = [p \in Processes |-> FALSE]
    /\ copies = [p \in Processes |-> {}]
    /\ deletes = [p \in Processes |-> {}]
    /\ aborted = [p \in Processes |-> FALSE]
    /\ worker = [p \in Processes |-> "asleep"]
    /\ cutoff = [p \in Processes |-> {}]
    /\ selected = [p \in Processes |-> {}]

\* The store's lock is free: the worker holds it for the whole of an
\* archive_turns_older_than.
Unlocked(p) == worker[p] \in {"asleep", "dead"}

Writing(p) == dirty[p] \/ inserts[p] \cup copies[p] \cup deletes[p] # {}

\* SQLite admits one writing transaction to the file at a time.
MayWrite(p) ==
    /\ ~aborted[p]
    /\ backend = "sqlite" => \A q \in Processes \ {p} : ~Writing(q)

\* The transaction of p becomes permanent, with ins rows, cop copies and del
\* deletions in it.
Committed(p, ins, cop, del) ==
    /\ turns' = (turns \cup ins) \ del
    /\ archive' = [t \in Turns |-> archive[t] + (IF t \in cop THEN 1 ELSE 0)]
    /\ inserts' = [inserts EXCEPT ![p] = {}]
    /\ dirty' = [dirty EXCEPT ![p] = FALSE]
    /\ copies' = [copies EXCEPT ![p] = {}]
    /\ deletes' = [deletes EXCEPT ![p] = {}]
    /\ UNCHANGED <<aged, aborted>>

\* A statement raises.  SQLite refuses the first write of a transaction (the
\* file is busy), rolls the transaction back (the disk is full) or, as its
\* manual allows, gives up just the statement; PostgreSQL drops the
\* transaction and refuses every further statement until a rollback, which
\* nobody sends.
StatementFails(p) ==
    /\ \/ backend = "sqlite" /\ (KeepsRest \/ ~Writing(p)) /\ UNCHANGED txn
       \/ /\ inserts' = [inserts EXCEPT ![p] = {}]
          /\ dirty' = [dirty EXCEPT ![p] = FALSE]
          /\ copies' = [copies EXCEPT ![p] = {}]
          /\ deletes' = [deletes EXCEPT ![p] = {}]
          /\ aborted' = [aborted EXCEPT ![p] = (backend = "postgres")]
    /\ UNCHANGED tables

\* Mutant: the same row may be appended again.
RepeatableAppend(p, t) ==
    /\ Unlocked(p) /\ MayWrite(p)
    /\ appended' = appended \cup {t}
    /\ Committed(p, inserts[p] \cup {t}, copies[p], deletes[p])
    /\ UNCHANGED <<used, workers>>

\* append_turn: the INSERT and the commit, which takes along what an earlier
\* operation left open.
Append(p, t) ==
    /\ Unlocked(p) /\ MayWrite(p)
    /\ t \notin used
    /\ used' = used \cup {t}
    /\ appended' = appended \cup {t}
    /\ Committed(p, inserts[p] \cup {t}, copies[p], deletes[p])
    /\ UNCHANGED workers

\* append_turn's INSERT raises ...
AppendFails(p, t) ==
    /\ StoreMayFail
    /\ Unlocked(p)
    /\ t \notin used
    /\ used' = used \cup {t}
    /\ StatementFails(p)
    /\ UNCHANGED <<appended, workers>>

\* ... or its commit does, because SQLite finds the file busy: the row stays
\* in the open transaction.
AppendCommitFails(p, t) ==
    /\ StoreMayFail /\ backend = "sqlite"
    /\ Unlocked(p) /\ MayWrite(p)
    /\ t \notin used
    /\ used' = used \cup {t}
    /\ inserts' = [inserts EXCEPT ![p] = inserts[p] \cup {t}]
    /\ UNCHANGED <<tables, appended, dirty, copies, deletes, aborted, workers>>

\* upsert_session uses the same connection: its commit, too, takes along what
\* is open.  A get_session or an upsert_session may raise, and so may the commit.
Upsert(p) ==
    /\ Unlocked(p) /\ MayWrite(p)
    /\ Committed(p, inserts[p], copies[p], deletes[p])
    /\ UNCHANGED <<used, appended, workers>>

SessionFails(p) ==
    /\ StoreMayFail
    /\ Unlocked(p)
    /\ StatementFails(p)
    /\ UNCHANGED <<used, appended, workers>>

UpsertCommitFails(p) ==
    /\ StoreMayFail /\ backend = "sqlite"
    /\ Unlocked(p) /\ MayWrite(p)
    /\ dirty' = [dirty EXCEPT ![p] = TRUE]
    /\ UNCHANGED <<tables, used, appended, inserts, copies, deletes, aborted, workers>>

\* The retention period of a row passes.
Age(t) ==
    /\ t \in turns \ aged
    /\ aged' = aged \cup {t}
    /\ UNCHANGED <<turns, archive, used, appended, txn, workers>>

\* The worker wakes up, fixes the cutoff, takes the lock and selects.
Select(p) ==
    /\ worker[p] = "asleep"
    /\ ~aborted[p]
    /\ cutoff' = [cutoff EXCEPT ![p] = aged]
    /\ selected' = [selected EXCEPT ![p] = (turns \ deletes[p]) \cap aged]
    /\ worker' = [worker EXCEPT ![p] = "copy"]
    /\ UNCHANGED <<tables, used, appended, txn>>

\* Mutant: the copies are committed on their own.
CommittedCopy(p) ==
    /\ worker[p] = "copy"
    /\ MayWrite(p)
    /\ Committed(p, inserts[p], copies[p] \cup selected[p], deletes[p])
    /\ worker' = [worker EXCEPT ![p] = "delete"]
    /\ UNCHANGED <<used, appended, cutoff, selected>>

\* The loop of INSERTs into turns_archive.
Copy(p) ==
    /\ worker[p] = "copy"
    /\ MayWrite(p)
    /\ copies' = [copies EXCEPT ![p] = copies[p] \cup selected[p]]
    /\ worker' = [worker EXCEPT ![p] = "delete"]
    /\ UNCHANGED <<tables, used, appended, inserts, dirty, deletes, aborted, cutoff, selected>>

\* Mutants: the DELETE computes the cutoff anew, or finds nothing.
LateDelete(p) ==
    /\ worker[p] = "delete"
    /\ MayWrite(p)
    /\ deletes' = [deletes EXCEPT ![p] = deletes[p] \cup (turns \cap aged)]
    /\ worker' = [worker EXCEPT ![p] = "commit"]
    /\ UNCHANGED <<tables, used, appended, inserts, dirty, copies, aborted, cutoff, selected>>

EmptyDelete(p) ==
    /\ worker[p] = "delete"
    /\ MayWrite(p)
    /\ worker' = [worker EXCEPT ![p] = "commit"]
    /\ UNCHANGED <<tables, used, appended, txn, cutoff, selected>>

\* DELETE with the same cutoff; it waits for rows another transaction is
\* deleting and then finds them gone.
Delete(p) ==
    /\ worker[p] = "delete"
    /\ MayWrite(p)
    /\ \A q \in Processes \ {p} : deletes[q] \cap cutoff[p] = {}
    /\ deletes' = [deletes EXCEPT ![p] = deletes[p] \cup (turns \cap cutoff[p])]
    /\ worker' = [worker EXCEPT ![p] = "commit"]
    /\ UNCHANGED <<tables, used, appended, inserts, dirty, copies, aborted, cutoff, selected>>

\* Mutant: the archive run is left to the next operation's commit.
ForgottenCommit(p) ==
    /\ worker[p] = "commit"
    /\ worker' = [worker EXCEPT ![p] = "asleep"]
    /\ cutoff' = [cutoff EXCEPT ![p] = {}]
    /\ selected' = [selected EXCEPT ![p] = {}]
    /\ UNCHANGED <<tables, used, appended, txn>>

\* The commit; the worker releases the lock and sleeps.
Commit(p) ==
    /\ worker[p] = "commit"
    /\ Committed(p, inserts[p], copies[p], deletes[p])
    /\ worker' = [worker EXCEPT ![p] = "asleep"]
    /\ cutoff' = [cutoff EXCEPT ![p] = {}]
    /\ selected' = [selected EXCEPT ![p] = {}]
    /\ UNCHANGED <<used, appended>>

\* An exception ends the worker's thread: its loop has no handler.
WorkerDies(p) ==
    /\ worker' = [worker EXCEPT ![p] = "dead"]
    /\ cutoff' = [cutoff EXCEPT ![p] = {}]
    /\ selected' = [selected EXCEPT ![p] = {}]
    /\ UNCHANGED <<used, appended>>

ArchiveFails(p) ==
    /\ StoreMayFail \/ aborted[p]
    /\ worker[p] \in {"asleep", "copy", "delete"}
    /\ StatementFails(p)
    /\ WorkerDies(p)

ArchiveCommitFails(p) ==
    /\ StoreMayFail /\ backend = "sqlite"
    /\ worker[p] = "commit"
    /\ UNCHANGED <<tables, txn>>
    /\ WorkerDies(p)

\* A process dies and is started again: its connection's transaction is lost.
Restart(p) ==
    /\ inserts' = [inserts EXCEPT ![p] = {}]
    /\ dirty' = [dirty EXCEPT ![p] = FALSE]
    /\ copies' = [copies EXCEPT ![p] = {}]
    /\ deletes' = [deletes EXCEPT ![p] = {}]
    /\ aborted' = [aborted EXCEPT ![p] = FALSE]
    /\ worker' = [worker EXCEPT ![p] = "asleep"]
    /\ cutoff' = [cutoff EXCEPT ![p] = {}]
    /\ selected' = [selected EXCEPT ![p] = {}]
    /\ UNCHANGED <<tables, used, appended>>

Session(p) == Upsert(p) \/ SessionFails(p) \/ UpsertCommitFails(p)

Archive(p) == Select(p) \/ Copy(p) \/ Delete(p) \/ Commit(p)

Next ==
    /\ \/ \E p \in running, t \in Turns : Append(p, t) \/ AppendFails(p, t) \/ AppendCommitFails(p, t)
       \/ \E t \in Turns : Age(t)
       \/ \E p \in running : Session(p)
       \/ \E p \in running : Archive(p) \/ ArchiveFails(p) \/ ArchiveCommitFails(p) \/ Restart(p)
    /\ UNCHANGED <<backend, running>>

Spec == Init /\ [][Next]_vars

\* A step of the worker of a process that was started.
Works(p, step) == p \in running /\ step /\ UNCHANGED <<backend, running>>

\* The worker's thread gets to run (a refused transaction makes its SELECT
\* raise), and a process does not restart for ever in the middle of an
\* archive run.
FairSpec ==
    /\ Spec
    /\ \A p \in Processes :
          /\ SF_vars(Works(p, Select(p) \/ (aborted[p] /\ ArchiveFails(p))))
          /\ SF_vars(Works(p, Copy(p)))
          /\ SF_vars(Works(p, Delete(p)))
          /\ SF_vars(Works(p, Commit(p)))

-----------------------------------------------------------------------------
(***************************************************************************)
(* Properties.                                                             *)
(***************************************************************************)
\* The rows are rows, and whatever is stored or reported stored was appended.
TypeOK ==
    /\ backend \in Backends /\ running \subseteq Processes
    /\ turns \subseteq Turns /\ aged \subseteq Turns /\ used \subseteq Turns
    /\ appended \subseteq used
    /\ archive \in [Turns -> Nat]
    /\ inserts \in [Processes -> SUBSET Turns]
    /\ dirty \in [Processes -> BOOLEAN]
    /\ copies \in [Processes -> SUBSET Turns]
    /\ deletes \in [Processes -> SUBSET Turns]
    /\ aborted \in [Processes -> BOOLEAN]
    /\ worker \in [Processes -> {"asleep", "copy", "delete", "commit", "dead"}]
    /\ cutoff \in [Processes -> SUBSET Turns]
    /\ selected \in [Processes -> SUBSET Turns]

\* A turn whose append_turn returned is in one of the two tables for ever,
\* whatever fails or restarts while it is being moved.
NoTurnDisappears == \A t \in appended : t \in turns \/ archive[t] > 0

\* A row is never in both tables: copy and delete become visible together,
\* also when another operation's commit makes them permanent.
NeverInBoth == \A t \in turns : archive[t] = 0

\* A turn is archived at most once by each process: only a worker that had
\* selected the row before another one took it archives it again, and no
\* worker does so twice, however its runs fail and its process restarts.
ArchivedOnce == \A t \in Turns : archive[t] <= Cardinality(running)

\* Retention: where one process has the database to itself, a turn that is
\* older than the cutoff leaves the turns table, however often the process
\* restarts, unless an exception ends the worker.
OldTurnsLeave ==
    \A t \in Turns :
        t \in aged /\ t \in turns /\ Cardinality(running) = 1 ~>
            t \notin turns \/ \E p \in running : worker[p] = "dead"

\* Durable persistence: a process whose store refuses a statement can use it
\* again some time.
StoreRecovers == \A p \in Processes : aborted[p] ~> ~aborted[p]
=============================================================================

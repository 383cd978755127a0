-------------------------- MODULE TurnStoreProofs --------------------------
(***************************************************************************)
(* No turn disappears, for any number of processes and rows, on both       *)
(* backends and whatever fails.  The invariant says why: a transaction     *)
(* deletes only rows it copies, because between the worker's SELECT and    *)
(* its DELETE no row older than the cutoff can enter the turns table.      *)
(* Besides: a row moves whole, no process archives it twice, and what the  *)
(* database refused stays refused until a restart.                         *)
(***************************************************************************)
EXTENDS TurnStore, FiniteSetTheorems, TLAPS

\* Rows enter the table young: a row in an open transaction is nowhere else.
YoungInserts ==
    /\ aged \subseteq used /\ turns \subseteq used
    /\ \A p \in Processes : inserts[p] \subseteq used /\ inserts[p] \cap (aged \cup turns) = {}
    /\ \A p, q \in Processes : p # q => inserts[p] \cap inserts[q] = {}

\* What a transaction deletes it has copied.
DeletesCopied == \A p \in Processes : deletes[p] \subseteq copies[p]

\* What the worker will delete it has selected, and then copied.
CutoffCovered ==
    \A p \in Processes :
        /\ cutoff[p] \subseteq aged
        /\ worker[p] = "copy" => turns \cap cutoff[p] \subseteq selected[p] \cup deletes[p]
        /\ worker[p] = "delete" => turns \cap cutoff[p] \subseteq copies[p]

StoreInv == TypeOK /\ YoungInserts /\ DeletesCopied /\ CutoffCovered /\ NoTurnDisappears

LEMMA StoreInit == Init => StoreInv
BY StoreAssumption
DEF Init, StoreInv, TypeOK, YoungInserts, DeletesCopied, CutoffCovered, NoTurnDisappears

\* A commit of young rows and of deletions that were copied keeps every turn.
LEMMA CommitKeeps ==
    ASSUME StoreInv, NEW p \in Processes, NEW ins \in SUBSET Turns,
           ins \cap aged = {},
           Committed(p, ins, copies[p], deletes[p])
    PROVE  /\ \A t \in Turns : t \in turns \/ archive[t] > 0 => t \in turns' \/ archive'[t] > 0
           /\ turns' \subseteq Turns /\ archive' \in [Turns -> Nat]
           /\ \A t \in ins : t \in turns' \/ archive'[t] > 0
           /\ \A c \in SUBSET aged : turns' \cap c \subseteq turns \cap c
<1>1. archive' \in [Turns -> Nat]
    BY DEF StoreInv, TypeOK, Committed
<1>2. \A t \in Turns : t \in deletes[p] => archive'[t] > 0
  <2> SUFFICES ASSUME NEW t \in Turns, t \in deletes[p]
               PROVE  archive'[t] > 0
    OBVIOUS
  <2>1. t \in copies[p] /\ archive[t] \in Nat
    BY DEF StoreInv, DeletesCopied, TypeOK
  <2> QED
    BY <2>1 DEF Committed
<1>3. \A t \in Turns : archive'[t] >= archive[t] /\ archive[t] \in Nat /\ archive'[t] \in Nat
    BY DEF StoreInv, TypeOK, Committed
<1>4. turns' = (turns \cup ins) \ deletes[p] /\ turns \subseteq Turns
    BY DEF Committed, StoreInv, TypeOK
<1>5. \A t \in Turns : t \in turns \/ archive[t] > 0 => t \in turns' \/ archive'[t] > 0
    BY <1>2, <1>3, <1>4
<1>6. \A t \in ins : t \in turns' \/ archive'[t] > 0
    BY <1>2, <1>4
<1>7. \A c \in SUBSET aged : turns' \cap c \subseteq turns \cap c
    BY <1>4
<1> QED
    BY <1>1, <1>4, <1>5, <1>6, <1>7

\* A commit leaves every transaction well-formed, its own empty.
LEMMA CommitTypes ==
    ASSUME TypeOK, NEW p \in Processes, NEW ins, NEW cop, NEW del,
           Committed(p, ins, cop, del)
    PROVE  /\ inserts' \in [Processes -> SUBSET Turns]
           /\ dirty' \in [Processes -> BOOLEAN]
           /\ copies' \in [Processes -> SUBSET Turns]
           /\ deletes' \in [Processes -> SUBSET Turns]
           /\ aborted' \in [Processes -> BOOLEAN]
           /\ aged' \subseteq Turns
BY DEF TypeOK, Committed

\* A commit takes nothing that a worker is about to delete from what it has
\* selected or copied: no row older than a cutoff comes into the table, and
\* only the process that commits loses its copies.
LEMMA CommitCovers ==
    ASSUME StoreInv, NEW p \in Processes, NEW ins \in SUBSET Turns,
           ins \cap aged = {},
           Committed(p, ins, copies[p], deletes[p]),
           worker'[p] \notin {"copy", "delete"}, cutoff'[p] \subseteq aged,
           \A q \in Processes \ {p} : /\ worker'[q] = worker[q]
                                       /\ cutoff'[q] = cutoff[q]
                                       /\ selected'[q] = selected[q]
    PROVE  CutoffCovered'
<1> SUFFICES ASSUME NEW q \in Processes
             PROVE  /\ cutoff'[q] \subseteq aged'
                    /\ worker'[q] = "copy" => turns' \cap cutoff'[q] \subseteq selected'[q] \cup deletes'[q]
                    /\ worker'[q] = "delete" => turns' \cap cutoff'[q] \subseteq copies'[q]
    BY DEF CutoffCovered
<1>1. aged' = aged
    BY DEF Committed
<1>2. CASE q = p
    BY <1>1, <1>2
<1>3. CASE q # p
  <2>1. copies'[q] = copies[q] /\ deletes'[q] = deletes[q]
    BY <1>3 DEF Committed, StoreInv, TypeOK
  <2>2. cutoff[q] \in SUBSET aged
    BY DEF StoreInv, CutoffCovered
  <2>3. turns' \cap cutoff[q] \subseteq turns \cap cutoff[q]
    BY <2>2, CommitKeeps
  <2> QED
    BY <1>1, <1>3, <2>1, <2>2, <2>3 DEF StoreInv, CutoffCovered
<1> QED
    BY <1>2, <1>3

LEMMA StoreStep == StoreInv /\ [Next]_vars => StoreInv'
<1> SUFFICES ASSUME StoreInv, [Next]_vars
             PROVE  StoreInv'
    OBVIOUS
<1> USE DEF StoreInv
<1>0. backend' = backend /\ running' = running
    BY DEF Next, vars
<1> USE <1>0
<1>1. ASSUME NEW p \in Processes, NEW t \in Turns, Append(p, t)
      PROVE  StoreInv'
  <2>1. (inserts[p] \cup {t}) \in SUBSET Turns /\ (inserts[p] \cup {t}) \cap aged = {}
    BY <1>1 DEF Append, TypeOK, YoungInserts
  <2>2. Committed(p, inserts[p] \cup {t}, copies[p], deletes[p])
    BY <1>1 DEF Append
  <2>3. TypeOK'
    BY <1>1, <2>1, <2>2, CommitKeeps, CommitTypes DEF TypeOK, Append, workers
  <2>4. YoungInserts' /\ DeletesCopied'
    BY <1>1 DEF YoungInserts, DeletesCopied, TypeOK, Append, Committed
  <2>5. CutoffCovered'
    <3>1. worker[p] \notin {"copy", "delete"} /\ UNCHANGED workers /\ cutoff[p] \subseteq aged
        BY <1>1 DEF Append, Unlocked, CutoffCovered
    <3> QED
        BY <2>1, <2>2, <3>1, CommitCovers DEF workers
  <2>6. NoTurnDisappears'
    BY <1>1, <2>1, <2>2, CommitKeeps DEF NoTurnDisappears, TypeOK, Append
  <2> QED
    BY <2>3, <2>4, <2>5, <2>6
<1>2. ASSUME NEW p \in Processes, StatementFails(p), Unlocked(p) \/ worker'[p] = "dead",
             used \subseteq used', used' \subseteq Turns, appended' = appended,
             \/ UNCHANGED workers
             \/ /\ worker' = [worker EXCEPT ![p] = "dead"]
                /\ cutoff' = [cutoff EXCEPT ![p] = {}]
                /\ selected' = [selected EXCEPT ![p] = {}]
      PROVE  StoreInv'
  <2>1. TypeOK'
    BY <1>2 DEF TypeOK, StatementFails, tables, txn, workers
  <2>2. YoungInserts' /\ DeletesCopied'
    BY <1>2 DEF YoungInserts, DeletesCopied, TypeOK, StatementFails, tables, txn
  <2>3. CutoffCovered'
    BY <1>2 DEF CutoffCovered, TypeOK, StatementFails, tables, txn, workers, Unlocked
  <2>4. NoTurnDisappears'
    BY <1>2 DEF NoTurnDisappears, StatementFails, tables
  <2> QED
    BY <2>1, <2>2, <2>3, <2>4
<1>3. ASSUME NEW p \in Processes, NEW t \in Turns, AppendFails(p, t)
      PROVE  StoreInv'
    BY <1>2, <1>3 DEF AppendFails, TypeOK
<1>4. ASSUME NEW p \in Processes, NEW t \in Turns, AppendCommitFails(p, t)
      PROVE  StoreInv'
    BY <1>4 DEF AppendCommitFails, TypeOK, YoungInserts, DeletesCopied, CutoffCovered,
                NoTurnDisappears, tables, workers
<1>5. ASSUME NEW t \in Turns, Age(t)
      PROVE  StoreInv'
  <2>1. \A p \in Processes : t \notin inserts[p]
    BY <1>5 DEF Age, YoungInserts
  <2> QED
    BY <1>5, <2>1 DEF Age, TypeOK, YoungInserts, DeletesCopied, CutoffCovered,
                      NoTurnDisappears, txn, workers
<1>6. ASSUME NEW p \in Processes, Select(p)
      PROVE  StoreInv'
    BY <1>6 DEF Select, TypeOK, YoungInserts, DeletesCopied, CutoffCovered,
                NoTurnDisappears, tables, txn
<1>7. ASSUME NEW p \in Processes, Copy(p)
      PROVE  StoreInv'
    BY <1>7 DEF Copy, TypeOK, YoungInserts, DeletesCopied, CutoffCovered,
                NoTurnDisappears, tables
<1>8. ASSUME NEW p \in Processes, Delete(p)
      PROVE  StoreInv'
    BY <1>8 DEF Delete, TypeOK, YoungInserts, DeletesCopied, CutoffCovered,
                NoTurnDisappears, tables
<1>9. ASSUME NEW p \in Processes, Commit(p)
      PROVE  StoreInv'
  <2>1. inserts[p] \in SUBSET Turns /\ inserts[p] \cap aged = {}
    BY DEF TypeOK, YoungInserts
  <2>2. Committed(p, inserts[p], copies[p], deletes[p])
    BY <1>9 DEF Commit
  <2>3. TypeOK'
    BY <1>9, <2>1, <2>2, CommitKeeps, CommitTypes DEF TypeOK, Commit
  <2>4. YoungInserts' /\ DeletesCopied'
    BY <1>9 DEF YoungInserts, DeletesCopied, TypeOK, Commit, Committed
  <2>5. CutoffCovered'
    <3>1. /\ worker'[p] \notin {"copy", "delete"} /\ cutoff'[p] \subseteq aged
          /\ \A q \in Processes \ {p} : /\ worker'[q] = worker[q]
                                      /\ cutoff'[q] = cutoff[q]
                                      /\ selected'[q] = selected[q]
        BY <1>9 DEF Commit, TypeOK
    <3> QED
        BY <2>1, <2>2, <3>1, CommitCovers
  <2>6. NoTurnDisappears'
    BY <1>9, <2>1, <2>2, CommitKeeps DEF NoTurnDisappears, TypeOK, Commit
  <2> QED
    BY <2>3, <2>4, <2>5, <2>6
<1>10. ASSUME NEW p \in Processes, ArchiveFails(p)
      PROVE  StoreInv'
  <2>1. worker'[p] = "dead"
    BY <1>10 DEF ArchiveFails, WorkerDies, TypeOK
  <2> QED
    BY <1>2, <1>10, <2>1 DEF ArchiveFails, WorkerDies, TypeOK
<1>11. ASSUME NEW p \in Processes, ArchiveCommitFails(p)
      PROVE  StoreInv'
    BY <1>11 DEF ArchiveCommitFails, WorkerDies, TypeOK, YoungInserts, DeletesCopied,
                 CutoffCovered, NoTurnDisappears, tables, txn
<1>12. ASSUME NEW p \in Processes, Restart(p)
      PROVE  StoreInv'
    BY <1>12 DEF Restart, TypeOK, YoungInserts, DeletesCopied, CutoffCovered,
                 NoTurnDisappears, tables
<1>13. ASSUME NEW p \in Processes, Session(p)
       PROVE  StoreInv'
  <2>1. CASE Upsert(p)
    <3>1. inserts[p] \in SUBSET Turns /\ inserts[p] \cap aged = {}
        BY DEF TypeOK, YoungInserts
    <3>2. Committed(p, inserts[p], copies[p], deletes[p]) /\ UNCHANGED <<used, appended, workers>>
        BY <2>1 DEF Upsert
    <3>3. TypeOK'
        BY <3>1, <3>2, CommitKeeps, CommitTypes DEF TypeOK, workers
    <3>4. YoungInserts' /\ DeletesCopied'
        BY <3>2 DEF YoungInserts, DeletesCopied, TypeOK, Committed
    <3>5. CutoffCovered'
      <4>1. worker[p] \notin {"copy", "delete"} /\ cutoff[p] \subseteq aged
          BY <2>1 DEF Upsert, Unlocked, CutoffCovered
      <4> QED
          BY <3>1, <3>2, <4>1, CommitCovers DEF workers
    <3>6. NoTurnDisappears'
        BY <3>1, <3>2, CommitKeeps DEF NoTurnDisappears, TypeOK
    <3> QED
        BY <3>3, <3>4, <3>5, <3>6
  <2>2. CASE SessionFails(p)
    BY <1>2, <2>2 DEF SessionFails, TypeOK
  <2>3. CASE UpsertCommitFails(p)
    BY <2>3 DEF UpsertCommitFails, TypeOK, YoungInserts, DeletesCopied, CutoffCovered,
                NoTurnDisappears, tables, workers
  <2> QED
    BY <1>13, <2>1, <2>2, <2>3 DEF Session
<1>14. ASSUME UNCHANGED vars
      PROVE  StoreInv'
    BY <1>14 DEF vars, tables, txn, workers, TypeOK, YoungInserts, DeletesCopied,
                 CutoffCovered, NoTurnDisappears
<1>15. running \subseteq Processes
    BY DEF TypeOK
<1> QED
    BY <1>1, <1>3, <1>4, <1>5, <1>6, <1>7, <1>8, <1>9, <1>10, <1>11, <1>12, <1>13, <1>14, <1>15
    DEF Next, Archive

\* Type correctness of the store.
THEOREM StoreTypeCorrect == Spec => []TypeOK
<1>1. StoreInv => TypeOK
    BY DEF StoreInv
<1> QED
    BY <1>1, StoreInit, StoreStep, PTL DEF Spec

\* An appended turn is in one of the two tables for ever.
THEOREM TurnsAreKept == Spec => []NoTurnDisappears
<1>1. StoreInv => NoTurnDisappears
    BY DEF StoreInv
<1> QED
    BY <1>1, StoreInit, StoreStep, PTL DEF Spec

-----------------------------------------------------------------------------
(***************************************************************************)
(* A row is never in both tables, where a database does not keep the rest  *)
(* of a transaction whose statement failed: what a transaction copies it   *)
(* deletes, or is about to.                                                *)
(***************************************************************************)

\* Only old rows move, and those that were moved are gone from the table.
MovedAreGone ==
    /\ \A t \in Turns : archive[t] > 0 => t \in aged /\ t \notin turns
    /\ \A p \in Processes : copies[p] \subseteq aged /\ selected[p] \subseteq cutoff[p]

\* What a transaction copied it deletes, at the latest with the DELETE to come.
CopiesDeleted ==
    \A p \in Processes :
        copies[p] \cap turns \subseteq
            deletes[p] \cup (IF worker[p] = "delete" THEN cutoff[p] ELSE {})

MoveInv == StoreInv /\ MovedAreGone /\ CopiesDeleted

LEMMA MoveInit == Init => MoveInv
BY StoreInit DEF Init, MoveInv, MovedAreGone, CopiesDeleted

\* A commit outside of an archive run, or at its end, moves rows whole.
LEMMA CommitMoves ==
    ASSUME MoveInv, NEW p \in Processes, NEW ins \in SUBSET Turns, ins \cap aged = {},
           Committed(p, ins, copies[p], deletes[p]), worker[p] # "delete",
           UNCHANGED <<cutoff, selected>> \/ (/\ cutoff' = [cutoff EXCEPT ![p] = {}]
                                             /\ selected' = [selected EXCEPT ![p] = {}]),
           UNCHANGED worker \/ worker' = [worker EXCEPT ![p] = "asleep"]
    PROVE  MovedAreGone' /\ CopiesDeleted'
<1> USE DEF MoveInv, StoreInv
<1>1. /\ aged' = aged /\ copies[p] \subseteq aged
      /\ copies[p] \cap turns \subseteq deletes[p]
    BY DEF Committed, MovedAreGone, CopiesDeleted
<1>2. \A t \in Turns : archive'[t] > 0 => t \in aged' /\ t \notin turns'
  <2> SUFFICES ASSUME NEW t \in Turns, archive'[t] > 0
               PROVE  t \in aged /\ t \notin turns'
    BY <1>1
  <2>1. archive[t] > 0 \/ t \in copies[p]
    BY DEF Committed, TypeOK
  <2>2. t \in aged /\ (t \in turns => t \in deletes[p])
    BY <1>1, <2>1 DEF MovedAreGone
  <2> QED
    BY <2>2 DEF Committed
<1>3. ASSUME NEW q \in Processes
      PROVE  /\ copies'[q] \subseteq aged' /\ selected'[q] \subseteq cutoff'[q]
             /\ copies'[q] \cap turns' \subseteq
                    deletes'[q] \cup (IF worker'[q] = "delete" THEN cutoff'[q] ELSE {})
  <2>1. CASE q = p
    BY <1>1, <2>1 DEF Committed, TypeOK, MovedAreGone
  <2>2. CASE q # p
    <3>1. /\ copies'[q] = copies[q] /\ deletes'[q] = deletes[q]
          /\ worker'[q] = worker[q] /\ cutoff'[q] = cutoff[q] /\ selected'[q] = selected[q]
        BY <2>2 DEF Committed, TypeOK
    <3>2. copies[q] \cap turns' \subseteq copies[q] \cap turns
        BY DEF Committed, MovedAreGone
    <3> QED
        BY <1>1, <3>1, <3>2 DEF MovedAreGone, CopiesDeleted
  <2> QED
    BY <2>1, <2>2
<1> QED
    BY <1>2, <1>3 DEF MovedAreGone, CopiesDeleted

LEMMA MoveStep == ~KeepsRest /\ MoveInv /\ [Next]_vars => MoveInv'
<1> SUFFICES ASSUME ~KeepsRest, MoveInv, [Next]_vars
             PROVE  MoveInv'
    OBVIOUS
<1>0. StoreInv /\ StoreInv' /\ running \subseteq Processes
    BY StoreStep DEF MoveInv, StoreInv, TypeOK
<1> SUFFICES MovedAreGone' /\ CopiesDeleted'
    BY <1>0 DEF MoveInv
<1> USE DEF StoreInv, MoveInv
<1>1. ASSUME NEW p \in Processes, NEW t \in Turns, Append(p, t)
      PROVE  MovedAreGone' /\ CopiesDeleted'
  <2>1. (inserts[p] \cup {t}) \in SUBSET Turns /\ (inserts[p] \cup {t}) \cap aged = {}
    BY <1>1 DEF Append, TypeOK, YoungInserts
  <2> QED
    BY <1>1, <2>1, CommitMoves DEF Append, Unlocked, workers
\* A statement that fails leaves no copies behind.
<1>2. ASSUME NEW p \in Processes, StatementFails(p), Unlocked(p) \/ worker'[p] = "dead",
             \/ UNCHANGED workers
             \/ /\ worker' = [worker EXCEPT ![p] = "dead"]
                /\ cutoff' = [cutoff EXCEPT ![p] = {}]
                /\ selected' = [selected EXCEPT ![p] = {}]
      PROVE  MovedAreGone' /\ CopiesDeleted'
  <2>1. MovedAreGone'
    BY <1>2 DEF MovedAreGone, TypeOK, StatementFails, tables, txn, workers
  <2>2. copies'[p] = {} /\ turns' = turns
    BY <1>2 DEF StatementFails, Writing, TypeOK, tables, txn
  <2>3. ASSUME NEW q \in Processes \ {p}
        PROVE  /\ copies'[q] = copies[q] /\ deletes'[q] = deletes[q]
               /\ worker'[q] = worker[q] /\ cutoff'[q] = cutoff[q]
    BY <1>2 DEF StatementFails, TypeOK, txn, workers
  <2>4. CopiesDeleted'
    BY <2>2, <2>3 DEF CopiesDeleted
  <2> QED
    BY <2>1, <2>4
<1>3. ASSUME NEW p \in Processes, NEW t \in Turns, AppendFails(p, t)
      PROVE  MovedAreGone' /\ CopiesDeleted'
    BY <1>2, <1>3 DEF AppendFails
<1>4. ASSUME NEW p \in Processes, NEW t \in Turns, AppendCommitFails(p, t)
      PROVE  MovedAreGone' /\ CopiesDeleted'
    BY <1>4 DEF AppendCommitFails, MovedAreGone, CopiesDeleted, tables, workers
<1>5. ASSUME NEW t \in Turns, Age(t)
      PROVE  MovedAreGone' /\ CopiesDeleted'
    BY <1>5 DEF Age, MovedAreGone, CopiesDeleted, txn, workers
<1>6. ASSUME NEW p \in Processes, Select(p)
      PROVE  MovedAreGone' /\ CopiesDeleted'
    BY <1>6 DEF Select, TypeOK, MovedAreGone, CopiesDeleted, tables, txn
<1>7. ASSUME NEW p \in Processes, Copy(p)
      PROVE  MovedAreGone' /\ CopiesDeleted'
    BY <1>7 DEF Copy, TypeOK, MovedAreGone, CopiesDeleted, CutoffCovered, tables
<1>8. ASSUME NEW p \in Processes, Delete(p)
      PROVE  MovedAreGone' /\ CopiesDeleted'
    BY <1>8 DEF Delete, TypeOK, MovedAreGone, CopiesDeleted, tables
<1>9. ASSUME NEW p \in Processes, Commit(p)
      PROVE  MovedAreGone' /\ CopiesDeleted'
  <2>1. inserts[p] \in SUBSET Turns /\ inserts[p] \cap aged = {}
    BY DEF TypeOK, YoungInserts
  <2> QED
    BY <1>9, <2>1, CommitMoves DEF Commit
<1>10. ASSUME NEW p \in Processes, ArchiveFails(p)
      PROVE  MovedAreGone' /\ CopiesDeleted'
  <2>1. worker'[p] = "dead"
    BY <1>10 DEF ArchiveFails, WorkerDies, TypeOK
  <2> QED
    BY <1>2, <1>10, <2>1 DEF ArchiveFails, WorkerDies
<1>11. ASSUME NEW p \in Processes, ArchiveCommitFails(p)
      PROVE  MovedAreGone' /\ CopiesDeleted'
    BY <1>11 DEF ArchiveCommitFails, WorkerDies, TypeOK, MovedAreGone, CopiesDeleted, tables, txn
<1>12. ASSUME NEW p \in Processes, Restart(p)
      PROVE  MovedAreGone' /\ CopiesDeleted'
    BY <1>12 DEF Restart, TypeOK, MovedAreGone, CopiesDeleted, tables
<1>13. ASSUME NEW p \in Processes, Session(p)
      PROVE  MovedAreGone' /\ CopiesDeleted'
  <2>1. CASE Upsert(p)
    <3>1. inserts[p] \in SUBSET Turns /\ inserts[p] \cap aged = {}
        BY DEF TypeOK, YoungInserts
    <3> QED
        BY <2>1, <3>1, CommitMoves DEF Upsert, Unlocked, workers
  <2>2. CASE SessionFails(p)
    BY <1>2, <2>2 DEF SessionFails
  <2>3. CASE UpsertCommitFails(p)
    BY <2>3 DEF UpsertCommitFails, MovedAreGone, CopiesDeleted, tables, workers
  <2> QED
    BY <1>13, <2>1, <2>2, <2>3 DEF Session
<1>14. ASSUME UNCHANGED vars
      PROVE  MovedAreGone' /\ CopiesDeleted'
    BY <1>14 DEF vars, tables, txn, workers, MovedAreGone, CopiesDeleted
<1> QED
    BY <1>0, <1>1, <1>3, <1>4, <1>5, <1>6, <1>7, <1>8, <1>9, <1>10, <1>11, <1>12, <1>13, <1>14
    DEF Next, Archive

\* Copy and delete become visible together, also when they are made permanent
\* by another operation's commit after the archive run has failed.
THEOREM TurnsMoveWhole ==
    ASSUME ~KeepsRest
    PROVE  Spec => []NeverInBoth
<1>1. MoveInv => NeverInBoth
  <2> SUFFICES ASSUME MoveInv, NEW t \in turns
               PROVE  archive[t] = 0
    BY DEF NeverInBoth
  <2>1. t \in Turns /\ archive[t] \in Nat /\ ~(archive[t] > 0)
    BY DEF MoveInv, MovedAreGone, StoreInv, TypeOK
  <2> QED
    BY <2>1
<1>2. MoveInv /\ [Next]_vars => MoveInv'
    BY MoveStep
<1> QED
    BY <1>1, <1>2, MoveInit, PTL DEF Spec

-----------------------------------------------------------------------------
(***************************************************************************)
(* How often a row is archived.                                            *)
(***************************************************************************)

\* The processes that may still archive a row: it is among what they copied or
\* are about to copy.
Holders(t) == {p \in running : t \in copies[p] \cup selected[p]}

\* A worker that is between two runs, or has ended, has nothing selected.
IdleSelectsNone == \A p \in Processes : Unlocked(p) => selected[p] = {}

\* Each process that archived the row no longer may: with those that may, they
\* are no more than run.
HoldersBound == \A t \in Turns : archive[t] + Cardinality(Holders(t)) <= Cardinality(running)

OnceInv == MoveInv /\ IdleSelectsNone /\ HoldersBound

LEMMA HoldersFinite ==
    ASSUME TypeOK, NEW t \in Turns
    PROVE  /\ IsFiniteSet(Holders(t)) /\ Cardinality(Holders(t)) \in Nat
           /\ Cardinality(Holders(t)) <= Cardinality(running)
           /\ Cardinality(running) \in Nat /\ archive[t] \in Nat
<1>1. IsFiniteSet(running)
    BY StoreAssumption, FS_Subset DEF TypeOK
<1>2. Holders(t) \subseteq running
    BY DEF Holders
<1> QED
    BY <1>1, <1>2, FS_Subset, FS_CardinalityType DEF TypeOK

LEMMA OnceInit == Init => OnceInv
<1> SUFFICES ASSUME Init
             PROVE  OnceInv
    OBVIOUS
<1>1. MoveInv /\ TypeOK
    BY MoveInit DEF MoveInv, StoreInv
<1>2. IdleSelectsNone
    BY DEF Init, IdleSelectsNone
<1>3. HoldersBound
  <2>1. \A t \in Turns : archive[t] = 0
      BY DEF Init
  <2> QED
      BY <1>1, <2>1, HoldersFinite DEF HoldersBound
<1> QED
    BY <1>1, <1>2, <1>3 DEF OnceInv

\* A step that archives nothing and after which nobody else may archive what
\* has been.
LEMMA NobodyNew ==
    ASSUME OnceInv, TypeOK', UNCHANGED <<archive, running>>,
           \A t \in Turns : archive[t] > 0 => Holders(t)' \subseteq Holders(t)
    PROVE  HoldersBound'
<1> SUFFICES ASSUME NEW t \in Turns
             PROVE  archive'[t] + Cardinality(Holders(t)') <= Cardinality(running')
    BY DEF HoldersBound
<1>0. TypeOK
    BY DEF OnceInv, MoveInv, StoreInv
<1>1. Holders(t)' \subseteq running
    BY DEF Holders
<1>2. IsFiniteSet(running) /\ IsFiniteSet(Holders(t))
    BY <1>0, StoreAssumption, FS_Subset, HoldersFinite DEF TypeOK
<1>3. /\ IsFiniteSet(Holders(t)') /\ Cardinality(Holders(t)') \in Nat
      /\ Cardinality(Holders(t)') <= Cardinality(running)
    BY <1>1, <1>2, FS_Subset, FS_CardinalityType
<1>4. CASE archive[t] = 0
    BY <1>0, <1>3, <1>4, HoldersFinite
<1>5. CASE archive[t] > 0
  <2>1. Cardinality(Holders(t)') <= Cardinality(Holders(t))
      BY <1>2, <1>5, FS_Subset
  <2>2. archive[t] + Cardinality(Holders(t)) <= Cardinality(running)
      BY DEF OnceInv, HoldersBound
  <2> QED
      BY <1>0, <1>3, <2>1, <2>2, HoldersFinite
<1> QED
    BY <1>0, <1>4, <1>5, HoldersFinite

\* A process that commits its copies may not archive them again.
LEMMA CommitArchivesOnce ==
    ASSUME OnceInv, NEW p \in running, NEW ins, NEW del, Committed(p, ins, copies[p], del),
           selected'[p] = {}, \A q \in running \ {p} : selected'[q] = selected[q],
           running' = running
    PROVE  HoldersBound'
<1> SUFFICES ASSUME NEW t \in Turns
             PROVE  archive'[t] + Cardinality(Holders(t)') <= Cardinality(running)
    BY DEF HoldersBound
<1>0. TypeOK
    BY DEF OnceInv, MoveInv, StoreInv
<1>1. /\ copies'[p] = {} /\ \A q \in running \ {p} : copies'[q] = copies[q]
      /\ archive'[t] = archive[t] + (IF t \in copies[p] THEN 1 ELSE 0)
    BY <1>0 DEF Committed, TypeOK
<1>2. Holders(t)' = Holders(t) \ {p}
    BY <1>1 DEF Holders
<1>3. archive[t] + Cardinality(Holders(t)) <= Cardinality(running)
    BY DEF OnceInv, HoldersBound
<1>4. CASE t \in copies[p]
  <2>1. p \in Holders(t)
      BY <1>4 DEF Holders
  <2>2. Cardinality(Holders(t)') = Cardinality(Holders(t)) - 1
      BY <1>0, <1>2, <2>1, HoldersFinite, FS_RemoveElement
  <2> QED
      BY <1>0, <1>1, <1>3, <1>4, <2>2, HoldersFinite
<1>5. CASE t \notin copies[p]
  <2>1. Cardinality(Holders(t)') <= Cardinality(Holders(t)) /\ Cardinality(Holders(t)') \in Nat
      BY <1>0, <1>2, HoldersFinite, FS_Subset, FS_CardinalityType
  <2> QED
      BY <1>0, <1>1, <1>3, <1>5, <2>1, HoldersFinite
<1> QED
    BY <1>4, <1>5

LEMMA OnceStep == ~KeepsRest /\ OnceInv /\ [Next]_vars => OnceInv'
<1> SUFFICES ASSUME ~KeepsRest, OnceInv, [Next]_vars
             PROVE  OnceInv'
    OBVIOUS
<1>0. /\ MoveInv /\ MoveInv' /\ TypeOK /\ TypeOK' /\ running' = running
      /\ running \subseteq Processes
    BY MoveStep DEF OnceInv, MoveInv, StoreInv, TypeOK, Next, vars
<1> SUFFICES IdleSelectsNone' /\ HoldersBound'
    BY <1>0 DEF OnceInv
\* No worker of another process moves.
<1>1. ASSUME NEW p \in running, worker'[p] \notin {"asleep", "dead"} \/ selected'[p] = {},
             \A q \in Processes \ {p} : worker'[q] = worker[q] /\ selected'[q] = selected[q]
      PROVE  IdleSelectsNone'
    BY <1>1, <1>0 DEF OnceInv, IdleSelectsNone, Unlocked
<1>2. ASSUME UNCHANGED workers
      PROVE  IdleSelectsNone'
    BY <1>2 DEF OnceInv, IdleSelectsNone, Unlocked, workers
\* A commit outside of an archive run.
<1>3. ASSUME NEW p \in running, NEW ins, Unlocked(p), Committed(p, ins, copies[p], deletes[p]),
             UNCHANGED workers
      PROVE  HoldersBound'
  <2>1. selected[p] = {} /\ selected' = selected
      BY <1>0, <1>3 DEF OnceInv, IdleSelectsNone, workers
  <2> QED
      BY <1>0, <1>3, <2>1, CommitArchivesOnce
\* A statement fails.
<1>4. ASSUME NEW p \in running, StatementFails(p),
             UNCHANGED selected \/ selected' = [selected EXCEPT ![p] = {}]
      PROVE  HoldersBound'
  <2>1. \A q \in running : copies'[q] \subseteq copies[q] /\ selected'[q] \subseteq selected[q]
      BY <1>0, <1>4 DEF StatementFails, TypeOK, txn
  <2>2. \A t : Holders(t)' \subseteq Holders(t)
      BY <1>0, <2>1 DEF Holders
  <2> QED
      BY <1>0, <1>4, <2>2, NobodyNew DEF StatementFails, tables
<1>5. ASSUME NEW p \in running, NEW t \in Turns, Append(p, t) \/ AppendFails(p, t) \/ AppendCommitFails(p, t)
      PROVE  IdleSelectsNone' /\ HoldersBound'
  <2>1. UNCHANGED workers
      BY <1>5 DEF Append, AppendFails, AppendCommitFails
  <2>2. CASE Append(p, t)
      BY <2>1, <2>2, <1>2, <1>3 DEF Append
  <2>3. CASE AppendFails(p, t)
      BY <2>1, <2>3, <1>2, <1>4 DEF AppendFails, workers
  <2>4. CASE AppendCommitFails(p, t)
    <3>1. UNCHANGED <<archive, copies, selected, running>>
        BY <2>4, <1>0 DEF AppendCommitFails, tables, workers
    <3> QED
        BY <1>0, <1>2, <2>1, <3>1, NobodyNew DEF Holders
  <2> QED
      BY <1>5, <2>2, <2>3, <2>4
<1>6. ASSUME NEW p \in running, Session(p)
      PROVE  IdleSelectsNone' /\ HoldersBound'
  <2>1. UNCHANGED workers
      BY <1>6 DEF Session, Upsert, SessionFails, UpsertCommitFails
  <2>2. CASE Upsert(p)
      BY <2>1, <2>2, <1>2, <1>3 DEF Upsert
  <2>3. CASE SessionFails(p)
      BY <2>1, <2>3, <1>2, <1>4 DEF SessionFails, workers
  <2>4. CASE UpsertCommitFails(p)
    <3>1. UNCHANGED <<archive, copies, selected, running>>
        BY <2>4, <1>0 DEF UpsertCommitFails, tables, workers
    <3> QED
        BY <1>0, <1>2, <2>1, <3>1, NobodyNew DEF Holders
  <2> QED
      BY <1>6, <2>2, <2>3, <2>4 DEF Session
<1>7. ASSUME NEW p \in running, Select(p)
      PROVE  IdleSelectsNone' /\ HoldersBound'
  <2>1. /\ selected' = [selected EXCEPT ![p] = (turns \ deletes[p]) \cap aged]
        /\ worker' = [worker EXCEPT ![p] = "copy"] /\ UNCHANGED <<archive, copies>>
      BY <1>7 DEF Select, tables, txn
  <2>2. \A t \in Turns : archive[t] > 0 => t \notin turns
      BY <1>0 DEF MoveInv, MovedAreGone
  <2>3. \A t \in Turns : archive[t] > 0 => Holders(t)' \subseteq Holders(t)
      BY <1>0, <2>1, <2>2 DEF Holders, TypeOK
  <2>4. IdleSelectsNone'
      BY <1>0, <1>1, <2>1 DEF TypeOK
  <2> QED
      BY <1>0, <2>1, <2>3, <2>4, NobodyNew
<1>8. ASSUME NEW p \in running, Copy(p)
      PROVE  IdleSelectsNone' /\ HoldersBound'
  <2>1. /\ copies' = [copies EXCEPT ![p] = copies[p] \cup selected[p]]
        /\ worker' = [worker EXCEPT ![p] = "delete"] /\ UNCHANGED <<archive, selected>>
      BY <1>8 DEF Copy, tables
  <2>2. \A t \in Turns : Holders(t)' \subseteq Holders(t)
      BY <1>0, <2>1 DEF Holders, TypeOK
  <2>3. IdleSelectsNone'
      BY <1>0, <1>1, <2>1 DEF TypeOK
  <2> QED
      BY <1>0, <2>1, <2>2, <2>3, NobodyNew
<1>9. ASSUME NEW p \in running, Delete(p)
      PROVE  IdleSelectsNone' /\ HoldersBound'
  <2>1. worker' = [worker EXCEPT ![p] = "commit"] /\ UNCHANGED <<archive, copies, selected>>
      BY <1>9 DEF Delete, tables
  <2>2. IdleSelectsNone'
      BY <1>0, <1>1, <2>1 DEF TypeOK
  <2> QED
      BY <1>0, <2>1, <2>2, NobodyNew DEF Holders
<1>10. ASSUME NEW p \in running, Commit(p)
       PROVE  IdleSelectsNone' /\ HoldersBound'
  <2>1. /\ selected'[p] = {} /\ \A q \in Processes \ {p} : selected'[q] = selected[q]
        /\ \A q \in Processes \ {p} : worker'[q] = worker[q]
        /\ Committed(p, inserts[p], copies[p], deletes[p])
      BY <1>0, <1>10 DEF Commit, TypeOK
  <2>2. IdleSelectsNone'
      BY <1>1, <2>1
  <2> QED
      BY <1>0, <2>1, <2>2, CommitArchivesOnce
<1>11. ASSUME NEW p \in running, ArchiveFails(p) \/ ArchiveCommitFails(p)
       PROVE  IdleSelectsNone' /\ HoldersBound'
  <2>1. /\ worker' = [worker EXCEPT ![p] = "dead"] /\ selected' = [selected EXCEPT ![p] = {}]
      BY <1>11 DEF ArchiveFails, ArchiveCommitFails, WorkerDies
  <2>2. IdleSelectsNone'
      BY <1>0, <1>1, <2>1 DEF TypeOK
  <2>3. CASE ArchiveFails(p)
      BY <1>4, <2>1, <2>2, <2>3 DEF ArchiveFails
  <2>4. CASE ArchiveCommitFails(p)
    <3>1. UNCHANGED <<archive, copies>>
        BY <2>4 DEF ArchiveCommitFails, tables, txn
    <3>2. \A t \in Turns : Holders(t)' \subseteq Holders(t)
        BY <1>0, <2>1, <3>1 DEF Holders, TypeOK
    <3> QED
        BY <1>0, <2>2, <3>1, <3>2, NobodyNew
  <2> QED
      BY <1>11, <2>3, <2>4
<1>12. ASSUME NEW p \in running, Restart(p)
       PROVE  IdleSelectsNone' /\ HoldersBound'
  <2>1. /\ worker' = [worker EXCEPT ![p] = "asleep"] /\ selected' = [selected EXCEPT ![p] = {}]
        /\ copies' = [copies EXCEPT ![p] = {}] /\ archive' = archive
      BY <1>12 DEF Restart, tables
  <2>2. IdleSelectsNone'
      BY <1>0, <1>1, <2>1 DEF TypeOK
  <2>3. \A t \in Turns : Holders(t)' \subseteq Holders(t)
      BY <1>0, <2>1 DEF Holders, TypeOK
  <2> QED
      BY <1>0, <2>1, <2>2, <2>3, NobodyNew
<1>13. ASSUME UNCHANGED <<archive, copies, workers>>
       PROVE  IdleSelectsNone' /\ HoldersBound'
    BY <1>0, <1>2, <1>13, NobodyNew DEF Holders, workers
<1>14. UNCHANGED vars \/ (\E t \in Turns : Age(t)) => UNCHANGED <<archive, copies, workers>>
    BY DEF vars, tables, txn, Age
<1> QED
    BY <1>5, <1>6, <1>7, <1>8, <1>9, <1>10, <1>11, <1>12, <1>13, <1>14 DEF Next, Archive

\* However its runs fail, its commits are made by others and its process is
\* restarted, no process archives a turn twice: a turn has at most as many
\* copies as processes run.
THEOREM ArchivedOncePerProcess ==
    ASSUME ~KeepsRest
    PROVE  Spec => []ArchivedOnce
<1>1. OnceInv => ArchivedOnce
  <2> SUFFICES ASSUME OnceInv, NEW t \in Turns
               PROVE  archive[t] <= Cardinality(running)
      BY DEF ArchivedOnce
  <2>1. TypeOK /\ archive[t] + Cardinality(Holders(t)) <= Cardinality(running)
      BY DEF OnceInv, HoldersBound, MoveInv, StoreInv
  <2> QED
      BY <2>1, HoldersFinite
<1>2. OnceInv /\ [Next]_vars => OnceInv'
    BY OnceStep
<1> QED
    BY <1>1, <1>2, OnceInit, PTL DEF Spec

-----------------------------------------------------------------------------
(***************************************************************************)
(* A refused transaction.                                                  *)
(***************************************************************************)

\* Only PostgreSQL refuses a whole transaction.
RefusalInv == TypeOK /\ (backend = "sqlite" => \A p \in Processes : ~aborted[p])

LEMMA RefusalInit == Init => RefusalInv
<1>1. Init => TypeOK
    BY StoreInit DEF StoreInv
<1> QED
    BY <1>1 DEF Init, RefusalInv

\* What a failing statement, or a restart, makes of the other processes.
LEMMA RefusalOfOne ==
    ASSUME RefusalInv, NEW q \in Processes, StatementFails(q) \/ Restart(q)
    PROVE  /\ \A p \in Processes : p # q => aborted'[p] = aborted[p]
           /\ backend = "sqlite" => ~aborted'[q]
           /\ StatementFails(q) /\ aborted[q] => aborted'[q]
<1>1. /\ backend \in {"sqlite", "postgres"} /\ aborted \in [Processes -> BOOLEAN]
      /\ aborted[q] => backend = "postgres"
    BY StoreAssumption DEF RefusalInv, TypeOK
<1> QED
    BY <1>1 DEF StatementFails, Restart, txn

\* A statement that fails and a process that starts again are all that touches
\* a refusal.
LEMMA OnlyFailuresRefuse ==
    ASSUME RefusalInv, [Next]_vars
    PROVE  \/ UNCHANGED aborted
           \/ \E q \in Processes : StatementFails(q) \/ Restart(q)
<1>1. running \subseteq Processes
    BY DEF RefusalInv, TypeOK
<1> QED
    BY <1>1
    DEF Next, vars, txn, Session, Archive, Append, AppendFails, AppendCommitFails, Age, Upsert,
        SessionFails, UpsertCommitFails, Select, Copy, Delete, Commit, ArchiveFails,
        ArchiveCommitFails, Committed

LEMMA RefusalStep == StoreInv /\ RefusalInv /\ [Next]_vars => RefusalInv'
<1> SUFFICES ASSUME StoreInv, RefusalInv, [Next]_vars
             PROVE  RefusalInv'
    OBVIOUS
<1>1. TypeOK' /\ backend' = backend
    BY StoreStep DEF StoreInv, Next, vars
<1>2. backend = "sqlite" => \A p \in Processes : ~aborted'[p]
    BY OnlyFailuresRefuse, RefusalOfOne DEF RefusalInv
<1> QED
    BY <1>1, <1>2 DEF RefusalInv

LEMMA RefusalStays ==
    ASSUME NEW p \in Processes
    PROVE  RefusalInv /\ [Next]_vars /\ [~Restart(p)]_vars /\ aborted[p] => aborted'[p]
<1> SUFFICES ASSUME RefusalInv, [Next]_vars, ~Restart(p) \/ UNCHANGED vars, aborted[p]
             PROVE  aborted'[p]
    OBVIOUS
<1>1. CASE UNCHANGED aborted
    BY <1>1
<1>2. CASE ~Restart(p) /\ \E q \in Processes : StatementFails(q) \/ Restart(q)
    BY <1>2, RefusalOfOne
<1> QED
    BY <1>1, <1>2, OnlyFailuresRefuse DEF vars, txn

\* A process whose transaction was refused is refused for ever, unless somebody
\* restarts it: no operation of the store rolls back.
THEOREM RefusedForGood ==
    ASSUME NEW p \in Processes
    PROVE  Spec /\ [][~Restart(p)]_vars => [](aborted[p] => []aborted[p])
<1>1. RefusalInv /\ [Next]_vars /\ [~Restart(p)]_vars /\ aborted[p] => (aborted[p])'
    BY RefusalStays
<1> QED
    BY StoreInit, StoreStep, RefusalInit, RefusalStep, <1>1, PTL DEF Spec

\* So the store recovers by itself only where nothing was ever refused.
THEOREM RecoversOnlyUnhurt ==
    ASSUME NEW p \in Processes
    PROVE  Spec /\ [][~Restart(p)]_vars /\ StoreRecovers => [](~aborted[p])
<1>1. StoreRecovers => (aborted[p] ~> ~aborted[p])
    BY DEF StoreRecovers
<1> QED
    BY <1>1, RefusedForGood, PTL

=============================================================================

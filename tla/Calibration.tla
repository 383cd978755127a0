---------------------------- MODULE Calibration ----------------------------
(***************************************************************************)
(* How the NLU engine chooses the threshold of an intent (nlu.py           *)
(* _calibrate_intent_thresholds): it tries those of a fixed grid on the    *)
(* validation rows of that intent and keeps the first with the best F1.    *)
(* Thresholds and confidences are hundredths.  A score is kept as the      *)
(* counts it is computed from; the program computes it in floating point,  *)
(* which decides two equal scores of different counts either way.          *)
(***************************************************************************)
EXTENDS Integers, FiniteSets

CONSTANTS
    Rows,         \* validation rows labelled with the intent
    Confidences   \* what the classifier may report for one

ASSUME RowsAssumption == IsFiniteSet(Rows) /\ Confidences \subseteq 0..100

VARIABLES
    right,       \* [Rows -> BOOLEAN], does the classifier predict the label?
    confidence,  \* [Rows -> Confidences]
    threshold,   \* the next one to try
    best,        \* best_threshold
    score        \* the counts of best_f1

data == <<right, confidence>>
vars == <<data, threshold, best, score>>

\* [x / 100 for x in range(35, 86, 5)]
Grid == {35, 40, 45, 50, 55, 60, 65, 70, 75, 80, 85}

Tp(t) == Cardinality({r \in Rows : right[r] /\ confidence[r] >= t})

Fp(t) == Cardinality({r \in Rows : ~right[r] /\ confidence[r] >= t})

Fn(t) == Cardinality({r \in Rows : right[r] /\ confidence[r] < t})

\* 2pr / (p + r) is agreed / (agreed + errors); the minus one before the first
\* round is worse than any.
None == [agreed |-> -1, errors |-> 2]

Counts(t) == [agreed |-> 2 * Tp(t), errors |-> Fp(t) + Fn(t)]

\* The denominator, as max(1, ...) and max(1e-9, ...) keep it from being zero.
Whole(s) == IF s.agreed + s.errors > 0 THEN s.agreed + s.errors ELSE 1

Better(s, than) == s.agreed * Whole(than) > than.agreed * Whole(s)

\* Equal, but rounded on different ways.
Rounded(s, than) == s.agreed * Whole(than) = than.agreed * Whole(s) /\ s # than /\ s.agreed > 0

Init ==
    /\ right \in [Rows -> BOOLEAN]
    /\ confidence \in [Rows -> Confidences]
    /\ threshold = 35
    /\ best = 50
    /\ score = None

\* Mutants: the last of the best is kept; the score of the best is forgotten.
LaterKeep ==
    /\ threshold <= 85
    /\ threshold' = threshold + 5
    /\ ~Better(score, Counts(threshold))
    /\ best' = threshold
    /\ score' = Counts(threshold)
    /\ UNCHANGED data

ForgetfulKeep ==
    /\ threshold <= 85
    /\ threshold' = threshold + 5
    /\ Better(Counts(threshold), score) \/ Rounded(Counts(threshold), score)
    /\ best' = threshold
    /\ UNCHANGED <<data, score>>

\* One round of the loop: the threshold is better than those before it ...
Keep ==
    /\ threshold <= 85
    /\ threshold' = threshold + 5
    /\ Better(Counts(threshold), score) \/ Rounded(Counts(threshold), score)
    /\ best' = threshold
    /\ score' = Counts(threshold)
    /\ UNCHANGED data

\* ... or it is not.
Pass ==
    /\ threshold <= 85
    /\ threshold' = threshold + 5
    /\ ~Better(Counts(threshold), score)
    /\ UNCHANGED <<data, best, score>>

Next == Keep \/ Pass

Spec == Init /\ [][Next]_vars

Calibrated == threshold > 85

-----------------------------------------------------------------------------
(***************************************************************************)
(* Properties.                                                             *)
(***************************************************************************)

\* The default of 0.5 never outlives the first round.
TypeOK ==
    /\ right \in [Rows -> BOOLEAN]
    /\ confidence \in [Rows -> Confidences]
    /\ threshold \in Grid \cup {90}
    /\ best \in Grid
    /\ IF threshold = 35 THEN score = None ELSE score = Counts(best)

\* The result has the best F1 of the grid.
BestIsChosen == Calibrated => \A t \in Grid : ~Better(Counts(t), Counts(best))

\* A threshold above the lowest was worth it: it keeps out a row that the
\* classifier gets wrong with a confidence between the two.  An intent whose
\* rows are all predicted right is taken from 0.35 on, which is what asking
\* below 0.45 (ConversationProofs, Calibrated) relies on.
RaisedByMistakes ==
    Calibrated /\ best > 35 =>
        \E r \in Rows : ~right[r] /\ confidence[r] >= 35 /\ confidence[r] < best

\* An intent the classifier never gets right with any confidence ends up with
\* the lowest threshold: everything it guesses counts as understood.
UnlearntIsTrusted ==
    Calibrated /\ (\A r \in Rows : right[r] => confidence[r] < 35) => best = 35
=============================================================================

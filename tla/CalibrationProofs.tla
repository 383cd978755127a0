------------------------- MODULE CalibrationProofs -------------------------
(***************************************************************************)
(* What calibration chooses, for any number of validation rows: the best   *)
(* of the grid, and nothing above its lowest value without a mistake to    *)
(* keep out.  The second follows because between two thresholds with no    *)
(* wrong row between them only recall can change, and only for the worse.  *)
(***************************************************************************)
EXTENDS Calibration, FiniteSetTheorems, TLAPS

\* The classifier's confidences can be compared with thresholds.
LEMMA ConfidencesAreNumbers ==
    ASSUME confidence \in [Rows -> Confidences]
    PROVE  IsFiniteSet(Rows) /\ \A r \in Rows : confidence[r] \in Int
<1>1. IsFiniteSet(Rows) /\ Confidences \subseteq 0..100
    BY RowsAssumption
<1>2. ASSUME NEW r \in Rows
      PROVE  confidence[r] \in Int
  <2>1. confidence[r] \in Confidences
    OBVIOUS
  <2>2. confidence[r] \in 0..100
    BY <1>1, <2>1
  <2> QED
    BY <2>2
<1> QED
    BY <1>1, <1>2

\* The counts are numbers, and every row that is right is found or missed.
LEMMA CountsAreNumbers ==
    ASSUME NEW t \in Nat, right \in [Rows -> BOOLEAN], confidence \in [Rows -> Confidences]
    PROVE  /\ Tp(t) \in Nat /\ Fp(t) \in Nat /\ Fn(t) \in Nat
           /\ Tp(t) + Fn(t) = Cardinality({r \in Rows : right[r]})
<1> DEFINE Found == {r \in Rows : right[r] /\ confidence[r] >= t}
           Wrong == {r \in Rows : ~right[r] /\ confidence[r] >= t}
           Missed == {r \in Rows : right[r] /\ confidence[r] < t}
<1>1. IsFiniteSet(Found) /\ IsFiniteSet(Wrong) /\ IsFiniteSet(Missed)
    BY ConfidencesAreNumbers, FS_Subset
<1>2. Cardinality(Found) \in Nat /\ Cardinality(Wrong) \in Nat /\ Cardinality(Missed) \in Nat
    BY <1>1, FS_CardinalityType
<1>3. Found \cap Missed = {} /\ Found \cup Missed = {r \in Rows : right[r]}
    BY ConfidencesAreNumbers
<1>4. Cardinality(Found \cup Missed) = Cardinality(Found) + Cardinality(Missed)
  <2>1. Cardinality(Found \cap Missed) = 0
    BY <1>3, FS_EmptySet
  <2> HIDE DEF Found, Missed
  <2>2. Cardinality(Found \cup Missed) =
            Cardinality(Found) + Cardinality(Missed) - Cardinality(Found \cap Missed)
    BY <1>1, FS_Union
  <2> QED
    BY <1>2, <2>1, <2>2
<1> QED
    BY <1>2, <1>3, <1>4 DEF Tp, Fp, Fn

\* A higher threshold finds no more of the rows that are right ...
LEMMA FoundFalls ==
    ASSUME NEW t \in Nat, NEW u \in Nat, t <= u,
           right \in [Rows -> BOOLEAN], confidence \in [Rows -> Confidences]
    PROVE  Tp(u) <= Tp(t)
<1>1. {r \in Rows : right[r] /\ confidence[r] >= u} \subseteq {r \in Rows : right[r] /\ confidence[r] >= t}
    BY ConfidencesAreNumbers
<1>2. IsFiniteSet({r \in Rows : right[r] /\ confidence[r] >= t})
    BY ConfidencesAreNumbers, FS_Subset
<1> QED
    BY <1>1, <1>2, FS_Subset DEF Tp

\* ... and takes as many wrong ones if none lies between the two.
LEMMA WrongStays ==
    ASSUME NEW t \in Nat, NEW u \in Nat, t <= u,
           right \in [Rows -> BOOLEAN], confidence \in [Rows -> Confidences],
           \A r \in Rows : ~right[r] /\ confidence[r] >= t => confidence[r] >= u
    PROVE  Fp(u) = Fp(t)
<1>1. {r \in Rows : ~right[r] /\ confidence[r] >= u} = {r \in Rows : ~right[r] /\ confidence[r] >= t}
    BY ConfidencesAreNumbers
<1> QED
    BY <1>1 DEF Fp

\* So that its score is no better, nor equal by other counts.
LEMMA NoGainWithoutMistake ==
    ASSUME NEW t \in Nat, NEW u \in Nat, t <= u,
           right \in [Rows -> BOOLEAN], confidence \in [Rows -> Confidences],
           \A r \in Rows : ~right[r] /\ confidence[r] >= t => confidence[r] >= u
    PROVE  ~Better(Counts(u), Counts(t)) /\ ~Rounded(Counts(u), Counts(t))
<1> DEFINE P == Cardinality({r \in Rows : right[r]})
<1>1. /\ Tp(t) \in Nat /\ Fp(t) \in Nat /\ Fn(t) \in Nat /\ Tp(t) + Fn(t) = P
      /\ Tp(u) \in Nat /\ Fn(u) \in Nat /\ Tp(u) + Fn(u) = P
      /\ Fp(u) = Fp(t) /\ Tp(u) <= Tp(t)
    BY CountsAreNumbers, FoundFalls, WrongStays
<1>2. /\ Counts(t) = [agreed |-> 2 * Tp(t), errors |-> Fp(t) + Fn(t)]
      /\ Counts(u) = [agreed |-> 2 * Tp(u), errors |-> Fp(t) + Fn(u)]
    BY <1>1 DEF Counts
<1>3. ASSUME NEW a \in Nat, NEW b \in Nat, NEW k \in Nat, NEW m \in Nat, NEW n \in Nat,
             a <= b, a + m = b + n
      PROVE  ~((2 * a) * (2 * b + (k + n)) > (2 * b) * (2 * a + (k + m)))
  <2>1. a * (k + n) <= b * (k + m)
    <3>1. k + n \in Nat /\ k + m \in Nat /\ k + n <= k + m
        BY <1>3
    <3>2. a * (k + n) <= b * (k + n) /\ b * (k + n) <= b * (k + m)
        BY <1>3, <3>1
    <3> QED
        BY <1>3, <3>1, <3>2
  <2> QED
    BY <2>1, <1>3
<1> QED
    BY <1>1, <1>2, <1>3 DEF Better, Rounded, Whole

\* Scores are compared as fractions are.
LEMMA FractionsAreOrdered ==
    ASSUME NEW k \in Int, NEW l \in Int, NEW m \in Int,
           NEW x \in Nat \ {0}, NEW y \in Nat \ {0}, NEW z \in Nat \ {0},
           k * y <= l * x, l * z <= m * y
    PROVE  k * z <= m * x
<1>1. (k * y) * z <= (l * x) * z /\ (l * z) * x <= (m * y) * x
    OBVIOUS
<1>2. y * (k * z) <= y * (m * x)
    BY <1>1
<1>3. k * z \in Int /\ m * x \in Int
    OBVIOUS
<1> QED
    BY <1>2, <1>3

\* No threshold tried so far scores better than the best.
BestSoFar == \A t \in Grid : t < threshold => ~Better(Counts(t), score)

\* Whatever was kept after the first round keeps out a mistake.
MistakeSoFar ==
    threshold > 35 =>
        /\ best < threshold
        /\ best > 35 => \E r \in Rows : ~right[r] /\ confidence[r] >= 35 /\ confidence[r] < best

CalInv == TypeOK /\ BestSoFar /\ MistakeSoFar

LEMMA CalInit == Init => CalInv
BY DEF Init, CalInv, TypeOK, BestSoFar, MistakeSoFar, Grid

LEMMA CalStep == CalInv /\ [Next]_vars => CalInv'
<1> SUFFICES ASSUME CalInv, [Next]_vars
             PROVE  CalInv'
    OBVIOUS
<1> USE DEF CalInv
<1> DEFINE c == Counts(threshold)
<1>1. /\ right \in [Rows -> BOOLEAN] /\ confidence \in [Rows -> Confidences]
      /\ threshold \in Nat /\ best \in Nat /\ Grid \subseteq Nat
    BY DEF TypeOK, Grid
<1>2. /\ \A t \in Nat : Counts(t).agreed \in Int /\ Whole(Counts(t)) \in Nat \ {0}
      /\ score.agreed \in Int /\ Whole(score) \in Nat \ {0}
  <2>1. \A t \in Nat : Tp(t) \in Nat /\ Fp(t) \in Nat /\ Fn(t) \in Nat
    BY <1>1, CountsAreNumbers
  <2>2. \A t \in Nat : Counts(t).agreed \in Int /\ Whole(Counts(t)) \in Nat \ {0}
    BY <2>1 DEF Counts, Whole
  <2>3. None.agreed \in Int /\ Whole(None) \in Nat \ {0}
    BY DEF None, Whole
  <2> QED
    BY <1>1, <2>2, <2>3 DEF TypeOK
<1>3. ASSUME UNCHANGED data
      PROVE  \A t \in Grid : Counts(t)' = Counts(t)
    BY <1>3 DEF data, Counts, Tp, Fp, Fn
<1>4. CASE Keep
  <2>1. /\ threshold \in Grid /\ threshold' = threshold + 5 /\ best' = threshold /\ score' = c
        /\ UNCHANGED data /\ (Better(c, score) \/ Rounded(c, score))
    BY <1>4 DEF Keep, TypeOK, Grid
  <2>2. TypeOK'
    BY <1>3, <2>1 DEF TypeOK, data, Grid
  <2>3. ASSUME NEW t \in Grid, t < threshold'
        PROVE  ~Better(Counts(t), c)
    <3>1. CASE t = threshold
        BY <1>1, <1>2, <3>1 DEF Better
    <3>2. CASE t < threshold
      <4>1. Counts(t).agreed * Whole(score) <= score.agreed * Whole(Counts(t))
          BY <1>1, <1>2, <3>2 DEF BestSoFar, Better
      <4>2. score.agreed * Whole(c) <= c.agreed * Whole(score)
          BY <1>1, <1>2, <2>1 DEF Better, Rounded
      <4>3. Counts(t).agreed * Whole(c) <= c.agreed * Whole(Counts(t))
          BY <1>1, <1>2, <4>1, <4>2, FractionsAreOrdered
      <4> QED
          BY <1>1, <1>2, <4>3 DEF Better
    <3>3. t = threshold \/ t < threshold
        BY <2>1, <2>3 DEF Grid
    <3> QED
        BY <3>1, <3>2, <3>3
  <2>4. BestSoFar'
    BY <1>3, <2>1, <2>3 DEF BestSoFar, Better, Whole
  <2>5. MistakeSoFar'
    <3>1. CASE threshold = 35
        BY <2>1, <3>1 DEF MistakeSoFar, data
    <3>2. CASE threshold > 35
      <4>1. best < threshold /\ score = Counts(best) /\ best >= 35
          BY <3>2 DEF MistakeSoFar, TypeOK, Grid
      <4>2. PICK r \in Rows : ~right[r] /\ confidence[r] >= best /\ ~(confidence[r] >= threshold)
          BY <1>1, <2>1, <4>1, NoGainWithoutMistake
      <4>3. confidence[r] \in Int
          BY <1>1, ConfidencesAreNumbers
      <4>4. ~right[r] /\ confidence[r] >= 35 /\ confidence[r] < threshold
          BY <1>1, <4>1, <4>2, <4>3
      <4> QED
          BY <1>1, <2>1, <4>4 DEF MistakeSoFar, data
    <3> QED
        BY <2>1, <3>1, <3>2 DEF Grid
  <2> QED
    BY <2>2, <2>4, <2>5
<1>5. CASE Pass
  <2>1. /\ threshold \in Grid /\ threshold' = threshold + 5 /\ UNCHANGED <<data, best, score>>
        /\ ~Better(c, score)
    BY <1>5 DEF Pass, TypeOK, Grid
  <2>2. threshold # 35
    <3>1. ASSUME threshold = 35
          PROVE  Better(c, score)
      <4>1. score = None /\ Tp(35) \in Nat /\ Fp(35) \in Nat /\ Fn(35) \in Nat
          BY <1>1, <3>1, CountsAreNumbers DEF TypeOK
      <4> QED
          BY <3>1, <4>1 DEF Better, Whole, Counts, None
    <3> QED
        BY <2>1, <3>1
  <2>3. TypeOK'
    BY <1>3, <2>1, <2>2 DEF TypeOK, data, Grid
  <2>4. BestSoFar'
    <3>1. \A t \in Grid : t < threshold' => t = threshold \/ t < threshold
        BY <2>1 DEF Grid
    <3>2. \A t \in Grid : t < threshold' => ~Better(Counts(t), score)
        BY <2>1, <3>1 DEF BestSoFar
    <3> QED
        BY <1>3, <2>1, <3>2 DEF BestSoFar, Better, Whole
  <2>5. MistakeSoFar'
    BY <1>1, <2>1, <2>2 DEF MistakeSoFar, data, Grid
  <2> QED
    BY <2>3, <2>4, <2>5
<1>6. CASE UNCHANGED vars
  <2>1. UNCHANGED data /\ UNCHANGED <<threshold, best, score>>
    BY <1>6 DEF vars
  <2> QED
    BY <1>3, <2>1 DEF TypeOK, BestSoFar, MistakeSoFar, Better, Whole, data
<1> QED
    BY <1>4, <1>5, <1>6 DEF Next

\* The loop's variables, for every set of rows and confidences.
THEOREM CalibrationTypeCorrect == Spec => []TypeOK
<1>1. CalInv => TypeOK
    BY DEF CalInv
<1> QED
    BY <1>1, CalInit, CalStep, PTL DEF Spec

\* The threshold that is chosen has the best F1 of the grid.
THEOREM BestOfTheGrid == Spec => []BestIsChosen
<1>1. CalInv => BestIsChosen
  <2> SUFFICES ASSUME CalInv, Calibrated, NEW t \in Grid
               PROVE  ~Better(Counts(t), Counts(best))
    BY DEF BestIsChosen
  <2>1. t < threshold /\ score = Counts(best)
    BY DEF CalInv, TypeOK, Grid, Calibrated
  <2> QED
    BY <2>1 DEF CalInv, BestSoFar
<1> QED
    BY <1>1, CalInit, CalStep, PTL DEF Spec

\* A threshold above the lowest keeps out a mistake; with none in the
\* validation rows an intent is understood from 0.35 on.
THEOREM RaisedForAReason == Spec => []RaisedByMistakes
<1>1. CalInv => RaisedByMistakes
    BY DEF CalInv, TypeOK, Grid, MistakeSoFar, RaisedByMistakes, Calibrated
<1> QED
    BY <1>1, CalInit, CalStep, PTL DEF Spec

\* An intent that is never recognised keeps the first threshold.
Unlearnt == \A r \in Rows : right[r] => confidence[r] < 35

UntriedOrFirst == Unlearnt /\ threshold > 35 => best = 35

LEMMA UnlearntStep == CalInv /\ UntriedOrFirst /\ [Next]_vars => UntriedOrFirst'
<1> SUFFICES ASSUME CalInv, UntriedOrFirst, [Next]_vars, Unlearnt', threshold' > 35
             PROVE  best' = 35
    BY DEF UntriedOrFirst
<1>1. /\ right \in [Rows -> BOOLEAN] /\ confidence \in [Rows -> Confidences]
      /\ threshold \in Nat /\ best \in Nat /\ threshold >= 35 /\ best >= 35
    BY DEF CalInv, TypeOK, Grid
<1>2. Unlearnt
    BY DEF Unlearnt, Next, Keep, Pass, vars, data
<1>3. ASSUME NEW t \in Nat, t >= 35
      PROVE  Tp(t) = 0
  <2>1. {r \in Rows : right[r] /\ confidence[r] >= t} = {}
    BY <1>1, <1>2, <1>3, ConfidencesAreNumbers DEF Unlearnt
  <2> QED
    BY <2>1, FS_EmptySet DEF Tp
<1>4. CASE Keep
  <2>1. CASE threshold = 35
    BY <1>4, <2>1 DEF Keep
  <2>2. CASE threshold > 35
    <3>1. score = Counts(best) /\ Tp(best) = 0 /\ Tp(threshold) = 0
        BY <1>1, <1>3, <2>2 DEF CalInv, TypeOK
    <3>2. ~Better(Counts(threshold), score) /\ ~Rounded(Counts(threshold), score)
      <4>1. /\ Fp(best) \in Nat /\ Fn(best) \in Nat
            /\ Fp(threshold) \in Nat /\ Fn(threshold) \in Nat
          BY <1>1, CountsAreNumbers
      <4> QED
          BY <3>1, <4>1 DEF Better, Rounded, Whole, Counts
    <3> QED
        BY <1>4, <3>2 DEF Keep
  <2> QED
    BY <1>1, <2>1, <2>2
<1>5. CASE Pass
  <2>1. CASE threshold = 35
    <3>1. score = None /\ Tp(35) = 0 /\ Fp(35) \in Nat /\ Fn(35) \in Nat
        BY <1>1, <1>3, <2>1, CountsAreNumbers DEF CalInv, TypeOK
    <3>2. Better(Counts(35), None)
        BY <3>1 DEF Better, Whole, Counts, None
    <3> QED
        BY <1>5, <2>1, <3>1, <3>2 DEF Pass
  <2>2. CASE threshold > 35
    BY <1>2, <1>5, <2>2 DEF Pass, UntriedOrFirst
  <2> QED
    BY <1>1, <2>1, <2>2
<1>6. CASE UNCHANGED vars
    BY <1>2, <1>6 DEF vars, UntriedOrFirst
<1> QED
    BY <1>4, <1>5, <1>6 DEF Next

\* An intent the classifier never gets right is trusted most.
THEOREM UnlearntTrusted == Spec => []UnlearntIsTrusted
<1>1. Init => UntriedOrFirst
    BY DEF Init, UntriedOrFirst
<1>2. CalInv /\ UntriedOrFirst => UnlearntIsTrusted
    BY DEF CalInv, UntriedOrFirst, UnlearntIsTrusted, Unlearnt, Calibrated, TypeOK, Grid
<1> QED
    BY <1>1, <1>2, CalInit, CalStep, UnlearntStep, PTL DEF Spec
=============================================================================

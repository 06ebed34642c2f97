-------------------------------- MODULE Meter --------------------------------
(***************************************************************************)
(* The counts behind precision and recall (fastText/src/meter.cc): what    *)
(* test logs of each example, for each label and for all, and the curve    *)
(* that precisionAtRecall and recallAtPrecision search.                    *)
(*                                                                         *)
(* A score is a number from 0 on, NoScore is the one a label gets that was *)
(* not predicted.  A point of the curve is the pair of its true and false  *)
(* positives, and a ratio the pair of a numerator and a denominator.  The  *)
(* scores are sorted before they are used, so a bag of them is kept.       *)
(***************************************************************************)
EXTENDS Integers, FiniteSets, Sequences, SequencesExt, FiniteSetsExt

CONSTANTS
  Labels,
  AllLabels,    \* kAllLabels
  MaxScore,     \* bound: scores are 0 .. MaxScore
  MaxExamples,  \* bound: the examples of a test
  MaxLabels     \* bound: the labels of an example

NoScore == -1

MeterAssumption ==
  /\ MaxScore \in Nat /\ MaxExamples \in Nat /\ MaxLabels \in Nat
  /\ AllLabels \notin Labels

VARIABLES
  falseNegativeLabels,
  nexamples,
  metrics,      \* [gold, predicted, predictedGold] of all labels
  labelMetrics  \* the same by label, and scoreVsTrue

vars == <<falseNegativeLabels, nexamples, metrics, labelMetrics>>

Pairs == (NoScore .. MaxScore) \X {0, 1}
NoPairs == [p \in Pairs |-> 0]

Init ==
  /\ falseNegativeLabels \in BOOLEAN
  /\ nexamples = 0
  /\ metrics = [gold |-> 0, predicted |-> 0, predictedGold |-> 0]
  /\ labelMetrics = [l \in Labels |->
       [gold |-> 0, predicted |-> 0, predictedGold |-> 0, scoreVsTrue |-> NoPairs]]

\* The labels of a line, each as often as it stands there, and its predictions.
Lines == {g \in [Labels -> 0 .. MaxLabels] :
            LET n == MapThenSumSet(LAMBDA l : g[l], Labels) IN n \in 1 .. MaxLabels}

Predictions == UNION {[S -> 0 .. MaxScore] : S \in SUBSET Labels}

Plus(bag, p, n) == [bag EXCEPT ![p] = @ + n]

\* What one example adds to the metrics of a label.
Logged(m, l, labels, predictions) ==
  LET there == l \in DOMAIN predictions
      gold == IF labels[l] > 0 THEN 1 ELSE 0
  IN [gold |-> m.gold + labels[l],
      predicted |-> m.predicted + IF there THEN 1 ELSE 0,
      predictedGold |-> m.predictedGold + IF there THEN gold ELSE 0,
      scoreVsTrue |->
        IF there THEN Plus(m.scoreVsTrue, <<predictions[l], gold>>, 1)
        ELSE IF falseNegativeLabels THEN Plus(m.scoreVsTrue, <<NoScore, 1>>, labels[l])
        ELSE m.scoreVsTrue]

log(labels, predictions) ==
  LET found == {l \in DOMAIN predictions : labels[l] > 0}
  IN /\ nexamples' = nexamples + 1
     /\ metrics' = [gold |-> metrics.gold + MapThenSumSet(LAMBDA l : labels[l], Labels),
                    predicted |-> metrics.predicted + Cardinality(DOMAIN predictions),
                    predictedGold |-> metrics.predictedGold + Cardinality(found)]
     /\ labelMetrics' = [l \in Labels |-> Logged(labelMetrics[l], l, labels, predictions)]
     /\ UNCHANGED falseNegativeLabels

Next ==
  /\ nexamples < MaxExamples
  /\ \E labels \in Lines, predictions \in Predictions : log(labels, predictions)

Spec == Init /\ [][Next]_vars

-----------------------------------------------------------------------------
\* scoreVsTrue, as a bag, of one label or of all.
ScoreVsTrue(l) ==
  IF l = AllLabels
  THEN [p \in Pairs |-> MapThenSumSet(LAMBDA m : labelMetrics[m].scoreVsTrue[p], Labels)]
  ELSE labelMetrics[l].scoreVsTrue

Golds(l) == IF l = AllLabels THEN metrics.gold ELSE labelMetrics[l].gold

\* The sorted pairs from the last to the first.
Descending(bag) ==
  LET order == FlattenSeq([k \in 1 .. MaxScore + 2 |->
                   <<<<MaxScore + 1 - k, 1>>, <<MaxScore + 1 - k, 0>>>>])
  IN FlattenSeq([k \in DOMAIN order |-> [c \in 1 .. bag[order[k]] |-> order[k]]])

CountedEach(acc, p) ==  \* Slip: tied scores are not squeezed
  LET point == <<acc.tp + p[2], acc.fp + 1 - p[2]>>
  IN [tp |-> point[1], fp |-> point[2], last |-> p[1],
      counts |-> Append(acc.counts, point)]

\* A pair that is read is a point, or replaces the last one at a tied score.
Counted(acc, p) ==
  LET point == <<acc.tp + p[2], acc.fp + 1 - p[2]>>
  IN [tp |-> point[1], fp |-> point[2], last |-> p[1],
      counts |-> IF p[1] = acc.last
                 THEN Append(Front(acc.counts), point)
                 ELSE Append(acc.counts, point)]

\* Only reachable recall: the loop breaks at a score below zero.
GetPositiveCounts(l) ==
  FoldLeft(Counted, [tp |-> 0, fp |-> 0, last |-> NoScore - 1, counts |-> <<>>],
           SelectSeq(Descending(ScoreVsTrue(l)), LAMBDA p : p[1] >= 0)).counts

\* How many points there are up to the first of full recall.
UpToFullRecall(counts, golds) ==
  Min({Len(counts)} \cup {k \in DOMAIN counts : counts[k][1] >= golds})

Curve(l) ==
  LET counts == GetPositiveCounts(l)
  IN SubSeq(counts, 1, UpToFullRecall(counts, Golds(l)))

AtLeast(a, b) == a[1] * b[2] >= b[1] * a[2]
Best(ratios) == CHOOSE r \in ratios : \A s \in ratios : AtLeast(r, s)

PrecisionOf(point) == <<point[1], point[1] + point[2]>>
RecallOf(point, golds) == <<point[1], golds>>

\* A recall of no golds is not a number and at least nothing.
Reaches(point, golds, query) == golds > 0 /\ AtLeast(RecallOf(point, golds), query)

\* The last point of a curve that is not empty has precision one, recall zero.
PrecisionAtRecall(curve, golds, query) ==
  Best({<<0, 1>>}
       \cup {PrecisionOf(p) : p \in {c \in ToSet(curve) : Reaches(c, golds, query)}}
       \cup IF curve # <<>> /\ query[1] = 0 THEN {<<1, 1>>} ELSE {})

RecallAtPrecision(curve, golds, query) ==
  Best({<<0, 1>>}
       \cup {RecallOf(p, golds) :
               p \in {c \in ToSet(curve) : golds > 0 /\ AtLeast(PrecisionOf(c), query)}})

-----------------------------------------------------------------------------
(***************************************************************************)
(* The meaning: whoever takes the predictions of a score from t on has the *)
(* precision and the recall of these.                                      *)
(***************************************************************************)
Taken(l, t, gold) ==
  MapThenSumSet(LAMBDA p : IF p[1] >= t /\ p[2] = gold THEN ScoreVsTrue(l)[p] ELSE 0, Pairs)

Thresholds(l) == {t \in 0 .. MaxScore : \E g \in {0, 1} : ScoreVsTrue(l)[<<t, g>>] > 0}

Cuts(l) == {<<Taken(l, t, 1), Taken(l, t, 0)>> : t \in Thresholds(l)}

Queries == {<<0, 1>>, <<1, 3>>, <<1, 2>>, <<2, 3>>, <<1, 1>>}
Equal(a, b) == AtLeast(a, b) /\ AtLeast(b, a)

\* The totals are the sums over the labels (meter.cc:25-49), also of a line
\* that names a label twice, and nothing is found more often than it is there.
TotalsAreSums ==
  /\ \A f \in {"gold", "predicted", "predictedGold"} :
       metrics[f] = MapThenSumSet(LAMBDA l : labelMetrics[l][f], Labels)
  /\ \A l \in Labels : labelMetrics[l].predictedGold <= labelMetrics[l].gold

\* The precision found for a recall above zero is the best of any threshold
\* that has it (meter.cc:89-135): ties count together, labels that were not
\* predicted do not count, and the end of the curve loses nothing.
PrecisionIsBest ==
  \A l \in Labels \cup {AllLabels} :
    LET curve == Curve(l)
        cuts == Cuts(l)
        golds == Golds(l)
    IN \A q \in Queries \ {<<0, 1>>} :
         Equal(PrecisionAtRecall(curve, golds, q),
               Best({<<0, 1>>} \cup {PrecisionOf(c) : c \in {d \in cuts : Reaches(d, golds, q)}}))

\* The recall found for a precision is the best of any threshold that has this
\* precision (meter.cc:142-154), for which the point of full recall counts.
RecallIsBest ==
  \A l \in Labels \cup {AllLabels} :
    LET curve == Curve(l)
        cuts == Cuts(l)
        golds == Golds(l)
    IN \A q \in Queries :
         Equal(RecallAtPrecision(curve, golds, q),
               Best({<<0, 1>>} \cup {RecallOf(c, golds) :
                       c \in {d \in cuts : golds > 0 /\ AtLeast(PrecisionOf(d), q)}}))
=============================================================================

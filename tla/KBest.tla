-------------------------------- MODULE KBest --------------------------------
(***************************************************************************)
(* The scan for the k best: of the labels in Loss::findKBest               *)
(* (fastText/src/loss.cc:64-93), and of the words nearest to a query in    *)
(* FastText::getNN (fasttext.cc:573-605).  A score is a number of a small  *)
(* range; what the scores are of is left out.                              *)
(***************************************************************************)
EXTENDS BoundedHeap, Sequences

CONSTANTS
  MaxItems,  \* bound: labels or words
  MaxScore   \* bound: scores are 0 .. MaxScore

ASSUME KBestAssumption == MaxItems \in Nat /\ MaxScore \in Nat

VARIABLES
  caller,     \* "findKBest" or "getNN"
  scores,     \* by id, from 1; output in findKBest
  k,
  threshold,  \* of findKBest
  banSet,     \* of getNN
  item,       \* the loop
  heap

bestVars == <<caller, scores, k, threshold, banSet, item, heap>>

BestInit ==
  /\ caller \in {"findKBest", "getNN"}
  /\ scores \in UNION {[1 .. n -> 0 .. MaxScore] : n \in 0 .. MaxItems}
  /\ k \in 1 .. MaxItems
  /\ threshold \in IF caller = "findKBest" THEN 0 .. MaxScore ELSE {0}
  /\ banSet \in IF caller = "getNN" THEN SUBSET (DOMAIN scores) ELSE {{}}
  /\ item = 1
  /\ heap = {}

\* An item that is not asked for: below the threshold, or banned.
Excluded(j) == IF caller = "findKBest" THEN scores[j] < threshold ELSE j \in banSet

Skip ==
  /\ item <= Len(scores)
  /\ Excluded(item) \/ TooLow(heap, k, scores[item])
  /\ item' = item + 1
  /\ UNCHANGED <<caller, scores, k, threshold, banSet, heap>>

Push ==
  /\ item <= Len(scores)
  /\ ~Excluded(item) /\ ~TooLow(heap, k, scores[item])
  /\ heap' \in Pushed(heap, k, <<scores[item], item>>)
  /\ item' = item + 1
  /\ UNCHANGED <<caller, scores, k, threshold, banSet>>

BestNext == Skip \/ Push

BestSpec == BestInit /\ [][BestNext]_bestVars

Asked(n) == {<<scores[j], j>> : j \in {m \in 1 .. n : ~Excluded(m)}}

\* At each turn the heap holds the k best of what was asked for so far, and
\* at the end those of all (loss.cc:79-92; fasttext.cc:585-601): ties, a k
\* beyond the number of labels and no labels at all included.
HoldsBest == BestOf(heap, k, Asked(item - 1))
=============================================================================

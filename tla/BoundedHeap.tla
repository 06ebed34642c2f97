----------------------------- MODULE BoundedHeap -----------------------------
(***************************************************************************)
(* The heap of at most k pairs <<score, id>> that fastText keeps its best  *)
(* predictions in (fastText/src/loss.cc:83-91, 282-292; fasttext.cc:       *)
(* 591-600): comparePairs puts the smallest score in front and says        *)
(* nothing of pairs with equal scores, so any of them may be popped.       *)
(***************************************************************************)
EXTENDS Integers, FiniteSets

Fronts(heap) == {p \in heap : \A q \in heap : p[1] <= q[1]}

TooLowEver(heap, k, score) ==  \* Slip: the heap need not be full
  \E p \in Fronts(heap) : score < p[1]

\* No pair with this score can enter: the heap is full of better ones.
TooLow(heap, k, score) ==
  Cardinality(heap) = k /\ \E p \in Fronts(heap) : score < p[1]

\* The heaps after push_heap and, when it has become too large, pop_heap.
Pushed(heap, k, pair) ==
  LET h == heap \cup {pair}
  IN IF Cardinality(h) > k THEN {h \ {p} : p \in Fronts(h)} ELSE {h}

\* What a heap of k should hold of a set of pairs: as many as fit, and none
\* left out with a score above one that is in.
BestOf(heap, k, pairs) ==
  /\ heap \subseteq pairs
  /\ Cardinality(heap) = IF Cardinality(pairs) < k THEN Cardinality(pairs) ELSE k
  /\ \A p \in heap, q \in pairs \ heap : p[1] >= q[1]
=============================================================================

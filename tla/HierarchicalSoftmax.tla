------------------------- MODULE HierarchicalSoftmax -------------------------
(***************************************************************************)
(* The hierarchical softmax of fastText (fastText/src/loss.cc:192-301),    *)
(* the loss of the language models this server loads: a Huffman tree over  *)
(* the labels, built in one pass because the vocabulary hands over their   *)
(* counts in falling order (Dictionary), the path and code of each label   *)
(* that training follows up the tree, and the search down the tree that    *)
(* prediction makes, which gives up a subtree that cannot be among the     *)
(* best.                                                                   *)
(*                                                                         *)
(* Scores are logarithms of probabilities, here integers from zero down:   *)
(* at an inner node f is one of a few pairs of scores, of the left and of  *)
(* the right child.  The 1e-5 that std_log adds is left out.  Ids count    *)
(* from zero as in the code: leaves are 0 .. osz - 1, and inner nodes      *)
(* osz .. 2 * osz - 2 in the order they are made.                          *)
(***************************************************************************)
EXTENDS BoundedHeap, Sequences, SequencesExt, FiniteSetsExt

CONSTANTS
  MaxLabels,  \* bound: labels
  MaxCount,   \* bound: the count of a label
  Splits,     \* pairs <<score of the left child, score of the right child>>
  Thresholds  \* std_log(threshold)

HierarchicalSoftmaxAssumption ==
  /\ MaxLabels \in Nat \ {0} /\ MaxCount \in Nat
  /\ \A s \in Splits : s[1] \in Int /\ s[2] \in Int /\ s[1] <= 0 /\ s[2] <= 0
  /\ Thresholds \subseteq Int

VARIABLES
  counts,     \* the targetCounts, by id
  tree,       \* id -> [parent, left, right, count, binary]
  leaf, node, \* the two queues of buildTree: leaves from the rarest, nodes as made
  made,       \* the inner node made next
  f,          \* inner node -> the scores of its children for this input
  k, threshold,
  stack,      \* the calls of dfs that are open: <<node, score>>, the innermost first
  heap,
  pc          \* "build", "dfs", "done"

vars == <<counts, tree, leaf, node, made, f, k, threshold, stack, heap, pc>>

osz == Cardinality(DOMAIN counts)
None == -1
Huge == 10 * MaxLabels * (MaxCount + 1)  \* stands for 1e15
Inner == osz .. 2 * osz - 2

\* The vocabulary is sorted by falling counts.
Init ==
  /\ counts \in {c \in UNION {[0 .. n - 1 -> 1 .. MaxCount] : n \in 1 .. MaxLabels} :
                   \A a, b \in DOMAIN c : a < b => c[a] >= c[b]}
  /\ tree = [n \in 0 .. 2 * osz - 2 |->
               [parent |-> None, left |-> None, right |-> None, binary |-> FALSE,
                count |-> IF n < osz THEN counts[n] ELSE Huge]]
  /\ leaf = osz - 1 /\ node = osz /\ made = osz
  /\ f \in [Inner -> Splits]
  /\ k \in 1 .. 2 /\ threshold \in Thresholds
  /\ stack = <<>> /\ heap = {}
  /\ pc = "build"

\* The rarer of the next leaf and the next node; the node when they are equal.
TakesLeaf(l, n) == l >= 0 /\ tree[l].count < tree[n].count

\* A turn of the loop of buildTree: the two rarest are joined.
MakeNode ==
  LET first == IF TakesLeaf(leaf, node) THEN leaf ELSE node
      leaf1 == IF TakesLeaf(leaf, node) THEN leaf - 1 ELSE leaf
      node1 == IF TakesLeaf(leaf, node) THEN node ELSE node + 1
      second == IF TakesLeaf(leaf1, node1) THEN leaf1 ELSE node1
  IN /\ pc = "build" /\ made < 2 * osz - 1
     /\ leaf' = IF TakesLeaf(leaf1, node1) THEN leaf1 - 1 ELSE leaf1
     /\ node' = IF TakesLeaf(leaf1, node1) THEN node1 ELSE node1 + 1
     /\ tree' = [tree EXCEPT ![made].left = first, ![made].right = second,
                             ![made].count = tree[first].count + tree[second].count,
                             ![first].parent = made, ![second].parent = made,
                             ![second].binary = TRUE]
     /\ made' = made + 1
     /\ UNCHANGED <<counts, f, k, threshold, stack, heap, pc>>

\* predict: dfs from the root.
Predict ==
  /\ pc = "build" /\ made = 2 * osz - 1
  /\ stack' = <<<<2 * osz - 2, 0>>>>
  /\ pc' = "dfs"
  /\ UNCHANGED <<counts, tree, leaf, node, made, f, k, threshold, heap>>

Node == Head(stack)[1]
Score == Head(stack)[2]

HopelessOrEqual ==  \* Slip: <= for <, before the heap is full
  Score < threshold \/ \E p \in Fronts(heap) : Score <= p[1]

Hopeless == Score < threshold \/ TooLow(heap, k, Score)

IsLeaf(n) == tree[n].left = None /\ tree[n].right = None

\* dfs returns at once, ...
Prune ==
  /\ pc = "dfs" /\ stack # <<>> /\ Hopeless
  /\ stack' = Tail(stack)
  /\ UNCHANGED <<counts, tree, leaf, node, made, f, k, threshold, heap, pc>>

\* ... takes a label, ...
Take ==
  /\ pc = "dfs" /\ stack # <<>> /\ ~Hopeless /\ IsLeaf(Node)
  /\ heap' \in Pushed(heap, k, <<Score, Node>>)
  /\ stack' = Tail(stack)
  /\ UNCHANGED <<counts, tree, leaf, node, made, f, k, threshold, pc>>

\* ... or goes down, to the left first.
Descend ==
  /\ pc = "dfs" /\ stack # <<>> /\ ~Hopeless /\ ~IsLeaf(Node)
  /\ stack' = << <<tree[Node].left, Score + f[Node][1]>>,
                 <<tree[Node].right, Score + f[Node][2]>> >> \o Tail(stack)
  /\ UNCHANGED <<counts, tree, leaf, node, made, f, k, threshold, heap, pc>>

Finish ==
  /\ pc = "dfs" /\ stack = <<>>
  /\ pc' = "done"
  /\ UNCHANGED <<counts, tree, leaf, node, made, f, k, threshold, stack, heap>>

Next == MakeNode \/ Predict \/ Prune \/ Take \/ Descend \/ Finish

Spec == Init /\ [][Next]_vars

-----------------------------------------------------------------------------
\* The path of a label to the root and its code: the inner nodes above it,
\* and whether each was reached from its right.
RootPath[n \in 0 .. 2 * MaxLabels - 2] ==
  IF tree[n].parent = None THEN <<>>
  ELSE <<[node |-> tree[n].parent, binary |-> tree[n].binary]>> \o RootPath[tree[n].parent]

\* The score that training gives a label: binaryLogistic at each node of its
\* path, f for a one and 1 - f for a zero.
PathScore(l) ==
  LET p == RootPath[l]
  IN FoldLeft(LAMBDA acc, e : acc + IF e.binary THEN f[e.node][2] ELSE f[e.node][1], 0, p)

Built == made = 2 * osz - 1
LeafIds == 0 .. osz - 1

Weight(S) == FoldFunctionOnSet(+, 0, counts, S)

\* The least weighted path length of any binary tree over the labels S.
LeastCost[S \in SUBSET LeafIds] ==
  IF Cardinality(S) <= 1 THEN 0
  ELSE Weight(S) + Min({LeastCost[A] + LeastCost[S \ A] : A \in SUBSET S \ {{}, S}})

Cost == FoldFunction(+, 0, [l \in LeafIds |-> counts[l] * Len(RootPath[l])])

\* The tree has one root, nodes have two children that know them, and a node
\* is joined only when it is made (loss.cc:203-232).
TypeOK ==
  /\ \A n \in DOMAIN tree :
       LET e == tree[n] IN
       /\ e.parent # None => n \in {tree[e.parent].left, tree[e.parent].right}
       /\ e.left # None => /\ tree[e.left].parent = n /\ ~tree[e.left].binary
                           /\ tree[e.right].parent = n /\ tree[e.right].binary
                           /\ e.left < n /\ e.right < n /\ e.left # e.right
  /\ leaf \in -1 .. osz - 1 /\ node \in osz .. made
  /\ Built => \A n \in DOMAIN tree : tree[n].parent = None <=> n = 2 * osz - 2

\* The tree is a best one (loss.cc:215-232): no binary tree over the labels
\* has a smaller weighted path length, which holds because the vocabulary is
\* sorted by falling counts.
Optimal == (pc = "build" /\ Built) => Cost = LeastCost[LeafIds]

\* What a search that gives up early returns is what looking at every label
\* would have: the k best of those at the threshold or above, each with the
\* score that training gives it along its path (loss.cc:233-260 and 263-301).
FindsBest ==
  pc = "done" =>
    BestOf(heap, k, {p \in {<<PathScore(l), l>> : l \in LeafIds} : p[1] >= threshold})
=============================================================================

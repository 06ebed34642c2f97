------------------------------ MODULE FreeList ------------------------------
(***************************************************************************)
(* The lock-free free list of moodycamel/concurrentqueue.h: a stack of     *)
(* nodes (the queue's blocks) that any thread pops and pushes.  A node     *)
(* carries a reference count, with one reference for the list, and a bit   *)
(* "should be on the list".  A thread may only read the next pointer of a  *)
(* node while it holds a reference; whoever drops the last reference of a  *)
(* node with the bit set has to push it.                                   *)
(*                                                                         *)
(* Each atomic operation is one step.  The load and compare_exchange that  *)
(* take a reference are the step of the exchange.                          *)
(***************************************************************************)
EXTENDS Integers, FiniteSets

CONSTANTS
    Nodes,    \* the queue's blocks, those that have yet to be created included
    Threads, Nil

ASSUME FreeListAssumption == IsFiniteSet(Threads) /\ Nil \notin Nodes

VARIABLES
    freeListHead,
    freeListNext,   \* per node
    refs,           \* per node: freeListRefs without its upper bit
    should,         \* per node: the bit SHOULD_BE_ON_FREELIST of freeListRefs
    pool,           \* the nodes that nobody has got yet
    owned,          \* per thread: the nodes it has got and not added
    step,           \* per thread: where it is in add or try_get
    node,           \* per thread: the node it works on
    head,           \* per thread: the head it has loaded
    next            \* per thread: the next pointer it has loaded

list == <<freeListHead, freeListNext, refs, should>>
local == <<step, node, head, next>>
listVars == <<list, pool, owned, local>>

ListInit ==
    /\ freeListHead = Nil
    /\ freeListNext = [n \in Nodes |-> Nil]
    /\ refs = [n \in Nodes |-> 0] /\ should = [n \in Nodes |-> FALSE]
    /\ pool = Nodes /\ owned = [t \in Threads |-> {}]
    /\ step = [t \in Threads |-> "idle"] /\ node = [t \in Threads |-> Nil]
    /\ head = [t \in Threads |-> Nil] /\ next = [t \in Threads |-> Nil]

Goto(t, l) == step' = [step EXCEPT ![t] = l]

(* A node that is new: a block of the initial pool, or one just created     *)
(* (which is added to the list only with RECYCLE_ALLOCATED_BLOCKS).         *)
Take(t) ==
    /\ step[t] = "idle"
    /\ \E n \in pool :
          /\ pool' = pool \ {n}
          /\ owned' = [owned EXCEPT ![t] = @ \union {n}]
    /\ UNCHANGED <<list, local>>

-----------------------------------------------------------------------------
(* add: set the bit; with no references left, push the node.                *)
Add(t) ==
    /\ step[t] = "idle"
    /\ \E n \in owned[t] :
          /\ owned' = [owned EXCEPT ![t] = @ \ {n}]
          /\ IF refs[n] = 0
             THEN Goto(t, "push") /\ node' = [node EXCEPT ![t] = n]
             ELSE UNCHANGED <<step, node>>
          /\ should' = [should EXCEPT ![n] = TRUE]
    /\ UNCHANGED <<freeListHead, freeListNext, refs, pool, head, next>>

(* add_knowing_refcount_is_zero.                                            *)
PushLoadHead(t) ==
    /\ step[t] = "push"
    /\ head' = [head EXCEPT ![t] = freeListHead]
    /\ Goto(t, "link")
    /\ UNCHANGED <<list, pool, owned, node, next>>

PushLink(t) ==
    /\ step[t] = "link"
    /\ freeListNext' = [freeListNext EXCEPT ![node[t]] = head[t]]
    /\ Goto(t, "publish")
    /\ UNCHANGED <<freeListHead, refs, should, pool, owned, node, head, next>>

(* The list's reference; the store also clears the bit.                     *)
PushPublish(t) ==
    /\ step[t] = "publish"
    /\ refs' = [refs EXCEPT ![node[t]] = 1]
    /\ should' = [should EXCEPT ![node[t]] = FALSE]
    /\ Goto(t, "swing")
    /\ UNCHANGED <<freeListHead, freeListNext, pool, owned, node, head, next>>

PushSwing(t) ==
    /\ step[t] = "swing"
    /\ IF freeListHead = head[t]
       THEN freeListHead' = node[t] /\ Goto(t, "pushed") /\ UNCHANGED head
       ELSE head' = [head EXCEPT ![t] = freeListHead] /\ Goto(t, "unpublish") /\ UNCHANGED freeListHead
    /\ UNCHANGED <<freeListNext, refs, should, pool, owned, node, next>>

(* Slip: the reference is dropped and the bit forgotten.                    *)
PushForget(t) ==
    /\ step[t] = "unpublish"
    /\ refs' = [refs EXCEPT ![node[t]] = @ - 1]
    /\ Goto(t, IF refs[node[t]] = 1 THEN "link" ELSE "pushed")
    /\ UNCHANGED <<freeListHead, freeListNext, should, pool, owned, node, head, next>>

(* The head has moved: leave the node to the last who refers to it, or      *)
(* begin again if nobody does.                                              *)
PushUnpublish(t) ==
    /\ step[t] = "unpublish"
    /\ refs' = [refs EXCEPT ![node[t]] = @ - 1]
    /\ should' = [should EXCEPT ![node[t]] = TRUE]
    /\ Goto(t, IF refs[node[t]] = 1 THEN "link" ELSE "pushed")
    /\ UNCHANGED <<freeListHead, freeListNext, pool, owned, node, head, next>>

(* add returns; try_get, which pushes for another thread, goes on.  Its     *)
(* head of the list is kept in next meanwhile.                              *)
Pushed(t) ==
    /\ step[t] = "pushed"
    /\ Goto(t, IF next[t] = Nil THEN "idle" ELSE "get")
    /\ head' = [head EXCEPT ![t] = next[t]]
    /\ node' = [node EXCEPT ![t] = Nil] /\ next' = [next EXCEPT ![t] = Nil]
    /\ UNCHANGED <<list, pool, owned>>

-----------------------------------------------------------------------------
(* try_get.                                                                 *)
LoadHead(t) ==
    /\ step[t] \in {"idle", "reload"}
    /\ head' = [head EXCEPT ![t] = freeListHead]
    /\ Goto(t, IF freeListHead = Nil THEN "idle" ELSE "get")
    /\ UNCHANGED <<list, pool, owned, node, next>>

(* A node without references is not on the list any more.                   *)
Ref(t) ==
    /\ step[t] = "get"
    /\ IF refs[head[t]] = 0 THEN Goto(t, "reload") /\ UNCHANGED <<refs, node>>
       ELSE /\ refs' = [refs EXCEPT ![head[t]] = @ + 1]
            /\ Goto(t, "next") /\ node' = [node EXCEPT ![t] = head[t]]
    /\ UNCHANGED <<freeListHead, freeListNext, should, pool, owned, head, next>>

LoadNext(t) ==
    /\ step[t] = "next"
    /\ next' = [next EXCEPT ![t] = freeListNext[node[t]]]
    /\ Goto(t, "pop")
    /\ UNCHANGED <<list, pool, owned, node, head>>

(* The exchange of the head; a failure loads the new head.                  *)
Pop(t) ==
    /\ step[t] = "pop"
    /\ IF freeListHead = head[t]
       THEN freeListHead' = next[t] /\ Goto(t, "popped") /\ UNCHANGED head
       ELSE head' = [head EXCEPT ![t] = freeListHead] /\ Goto(t, "unref") /\ UNCHANGED freeListHead
    /\ next' = [next EXCEPT ![t] = Nil]
    /\ UNCHANGED <<freeListNext, refs, should, pool, owned, node>>

(* Two references go: the thread's own and the list's.                      *)
Popped(t) ==
    /\ step[t] = "popped"
    /\ refs' = [refs EXCEPT ![node[t]] = @ - 2]
    /\ owned' = [owned EXCEPT ![t] = @ \union {node[t]}]
    /\ Goto(t, "idle") /\ node' = [node EXCEPT ![t] = Nil]
    /\ UNCHANGED <<freeListHead, freeListNext, should, pool, head, next>>

(* The last reference to a node that should be on the list: push it.        *)
Unref(t) ==
    /\ step[t] = "unref"
    /\ refs' = [refs EXCEPT ![node[t]] = @ - 1]
    /\ IF refs[node[t]] = 1 /\ should[node[t]]
       THEN Goto(t, "push") /\ next' = [next EXCEPT ![t] = head[t]] /\ UNCHANGED node
       ELSE /\ Goto(t, IF head[t] = Nil THEN "idle" ELSE "get")
            /\ node' = [node EXCEPT ![t] = Nil] /\ UNCHANGED next
    /\ UNCHANGED <<freeListHead, freeListNext, should, pool, owned, head>>

-----------------------------------------------------------------------------
Run(t) ==
    \/ PushLoadHead(t) \/ PushLink(t) \/ PushPublish(t) \/ PushSwing(t)
    \/ PushUnpublish(t) \/ Pushed(t)
    \/ (step[t] = "reload" /\ LoadHead(t))
    \/ Ref(t) \/ LoadNext(t) \/ Pop(t) \/ Popped(t) \/ Unref(t)

ListNext ==
    \E t \in Threads : Take(t) \/ Add(t) \/ (step[t] = "idle" /\ LoadHead(t)) \/ Run(t)

(* Each thread goes on with the call it is in.                              *)
ListSpec == ListInit /\ [][ListNext]_listVars /\ \A t \in Threads : WF_listVars(Run(t))

-----------------------------------------------------------------------------
Pushing == {"push", "link", "publish", "swing", "unpublish"}

Steps == Pushing \union {"idle", "pushed", "reload", "get", "next", "pop", "popped", "unref"}

(* The variables have their types; a reference is the list's or a thread's  *)
(* (concurrentqueue.h:1440-1446).                                           *)
ListTypeOK ==
    /\ freeListHead \in Nodes \union {Nil}
    /\ freeListNext \in [Nodes -> Nodes \union {Nil}]
    /\ refs \in [Nodes -> 0..(Cardinality(Threads) + 1)]
    /\ should \in [Nodes -> BOOLEAN]
    /\ pool \subseteq Nodes /\ owned \in [Threads -> SUBSET Nodes]
    /\ step \in [Threads -> Steps]
    /\ node \in [Threads -> Nodes \union {Nil}]
    /\ head \in [Threads -> Nodes \union {Nil}]
    /\ next \in [Threads -> Nodes \union {Nil}]

(* The nodes that the pointers lead to from x: those in every set that has  *)
(* x and is closed under them.                                              *)
From(pointer, x) ==
    {n \in Nodes : \A S \in SUBSET Nodes :
        (x = Nil \/ x \in S) /\ (\A m \in S : pointer[m] \in S \union {Nil}) => n \in S}

Listed == From(freeListNext, freeListHead)

(* Where a node can be: with an owner, with a thread that pushes it or has  *)
(* popped it, left with its bit set to whoever drops its last reference, on *)
(* the list, or not yet taken.                                              *)
Moves == Pushing \union {"popped"}
Moving(t, n) == node[t] = n /\ step[t] \in Moves
Left(n) == should[n] /\ refs[n] > 0 /\ \A t \in Threads : ~Moving(t, n)

PlacesOf(n) ==
    {<<"owner", t>> : t \in {t \in Threads : n \in owned[t]}}
    \union {<<"mover", t>> : t \in {t \in Threads : Moving(t, n)}}
    \union {<<"left", x>> : x \in {x \in {n} : Left(x)}}
    \union {<<"list", x>> : x \in {n} \intersect Listed}
    \union {<<"pool", x>> : x \in {n} \intersect pool}

(* Each node is in exactly one place, so no block is handed out twice and   *)
(* none is lost (concurrentqueue.h:1459-1537).                              *)
NodeInOnePlace == \A n \in Nodes : \E p \in PlacesOf(n) : PlacesOf(n) = {p}

(* What add says of the bit in a comment (1464) and try_get in an assertion *)
(* (1493): it is clear when a node is added and when it has been popped.    *)
BitClear ==
    \A n \in Nodes : \A t \in Threads :
        n \in owned[t] \/ (node[t] = n /\ step[t] = "popped") => ~should[n]

(* No block is handed out twice or lost, whatever the interleaving, and     *)
(* what the code asserts of the bits holds (concurrentqueue.h:1440-1537).   *)
BlocksHandedOutOnce == ListTypeOK /\ NodeInOnePlace /\ BitClear

(* The list is lock-free: whatever the interleaving, while calls are in     *)
(* progress some call returns (concurrentqueue.h:1473-1507, 1516-1537).     *)
Quiet == \A t \in Threads : step[t] = "idle"
SomeReturn == \E t \in Threads : step[t] # "idle" /\ step'[t] = "idle"
LockFree == []<>Quiet \/ []<><<SomeReturn>>_listVars
=============================================================================

------------------------------ MODULE TaskQueue ------------------------------
(***************************************************************************)
(* A BlockingConcurrentQueue as a whole (blockingconcurrentqueue.h and the *)
(* public methods of concurrentqueue.h): a list of sub-queues, which only  *)
(* grows, and a semaphore with a permit for every element enqueued.  A     *)
(* consumer gets permits first and then searches the sub-queues until it   *)
(* has an element for each: without a token by their sizes (one element)   *)
(* or in list order (a bulk), with a token from its current sub-queue on,  *)
(* round the list.  Tokens move on together, by a global offset, whenever  *)
(* one has taken its quota from one sub-queue.                             *)
(*                                                                         *)
(* A sub-queue is the number of its elements.  A dequeue from it begins    *)
(* when its consumer comes to it and takes effect when it leaves.  Alone   *)
(* it takes what it wants of what is there; but a consumer that has        *)
(* counted itself in for nothing hides elements until it gives the count   *)
(* back, so beside another a dequeue may find less than there is, or       *)
(* nothing (ProducerBase tells how: HeadStaysBehind is the one bound,      *)
(* EveryCountSettled the other).  The semaphore is its counter             *)
(* (LightweightSemaphore).                                                 *)
(***************************************************************************)
EXTENDS Integers, Sequences, FiniteSets, FiniteSetsExt

CONSTANTS
    Consumers,
    Offset,        \* initialOffset of each consumer's token
    Calls,         \* subset of {"one", "bulk", "token", "tokenBulk"}
    Quota,         \* EXPLICIT_CONSUMER_CONSUMPTION_QUOTA_BEFORE_ROTATE
    MaxProducers,  \* bound: sub-queues ever made
    MaxBulk, MaxItems \* bounds: elements in one call, in a behaviour

ASSUME TaskQueueAssumption ==
    /\ Offset \in [Consumers -> Nat] /\ Quota \in Nat \ {0}
    /\ Calls \subseteq {"one", "bulk", "token", "tokenBulk"}
    /\ IsFiniteSet(Consumers)
    /\ MaxProducers \in Nat /\ MaxBulk \in Nat \ {0} /\ MaxItems \in Nat

VARIABLES
    sizes,         \* of the sub-queues, in the order of the list; the last is producerListTail
    producerCount, \* counts a producer before it is in the list
    unsignalled,   \* elements each producer has enqueued and not signalled yet
    permits,       \* of the semaphore
    globalOffset,  \* globalExplicitConsumerOffset
    at, call, owed,\* of a consumer: where it is, its call, elements it still has to find
    place, best, bestSize, nonEmpty, \* of its search; with a token, best is the tail it goes round from
    desired, current, lastOffset, consumed,     \* of its token
    beside,        \* another was in its sub-queue since it came there
    there,         \* sub-queues with elements, and no other consumer in them, ever since its search began
    placedAmong,   \* sub-queues in the list and in the count at each placing of its token, 0 if not always the same
    enqueued

common == <<sizes, producerCount, unsignalled, permits, globalOffset, enqueued>>
search == <<place, best, bestSize, nonEmpty>>
token == <<desired, current, lastOffset, consumed, placedAmong>>
taskVars == <<common, at, call, owed, search, token, beside, there>>

Last == Len(sizes)
Zero == [c \in Consumers |-> 0]

TasksInit ==
    /\ sizes = <<>> /\ producerCount = 0 /\ unsignalled = <<>>
    /\ permits = 0 /\ globalOffset = 0 /\ enqueued = 0
    /\ at = [c \in Consumers |-> "idle"] /\ call = [c \in Consumers |-> "none"]
    /\ owed = Zero /\ place = Zero /\ best = Zero /\ bestSize = Zero /\ nonEmpty = Zero
    /\ desired = Zero /\ current = Zero /\ consumed = Zero
    /\ lastOffset = [c \in Consumers |-> -1]
    /\ beside = [c \in Consumers |-> FALSE]
    /\ there = [c \in Consumers |-> {}] /\ placedAmong = Zero

GoOn(c, l) == at' = [at EXCEPT ![c] = l]
Set(f, c, x) == [f EXCEPT ![c] = x]

-----------------------------------------------------------------------------
(* A thread or a producer token that is new to the queue: add_producer.     *)
CountProducer ==
    /\ producerCount < MaxProducers
    /\ producerCount' = producerCount + 1
    /\ UNCHANGED <<sizes, unsignalled, permits, globalOffset, enqueued, at, call, owed, search, token, beside, there>>

AddProducer ==
    /\ Len(sizes) < producerCount
    /\ sizes' = Append(sizes, 0) /\ unsignalled' = Append(unsignalled, 0)
    /\ UNCHANGED <<producerCount, permits, globalOffset, enqueued, at, call, owed, search, token, beside, there>>

(* enqueue and enqueue_bulk, with or without a token: the element first,    *)
(* then the permit.                                                         *)
Enqueue(p) ==
    /\ unsignalled[p] = 0
    /\ \E k \in 1..MaxBulk :
          /\ enqueued + k <= MaxItems
          /\ enqueued' = enqueued + k
          /\ sizes' = [sizes EXCEPT ![p] = @ + k]
          /\ unsignalled' = [unsignalled EXCEPT ![p] = k]
    /\ UNCHANGED <<producerCount, permits, globalOffset, at, call, owed, search, token, beside, there>>

PermitOnce(p) ==  \* Slip: one permit for a bulk
    /\ unsignalled[p] > 0
    /\ permits' = permits + 1
    /\ unsignalled' = [unsignalled EXCEPT ![p] = 0]
    /\ UNCHANGED <<sizes, producerCount, globalOffset, enqueued, at, call, owed, search, token, beside, there>>

Permit(p) ==
    /\ unsignalled[p] > 0
    /\ permits' = permits + unsignalled[p]
    /\ unsignalled' = [unsignalled EXCEPT ![p] = 0]
    /\ UNCHANGED <<sizes, producerCount, globalOffset, enqueued, at, call, owed, search, token, beside, there>>

-----------------------------------------------------------------------------
(* wait, tryWait, waitMany and tryWaitMany as far as they succeed.          *)
GetPermits(c) ==
    /\ at[c] = "idle" /\ permits > 0
    /\ \E k \in Calls, max \in 1..MaxBulk :
          /\ k \in {"one", "token"} => max = 1
          /\ call' = Set(call, c, k)
          /\ owed' = Set(owed, c, Min({max, permits}))
    /\ permits' = permits - owed'[c]
    /\ GoOn(c, "attempt")
    /\ UNCHANGED <<sizes, producerCount, unsignalled, globalOffset, enqueued, search, token, beside, there>>

(* The sub-queue that a consumer is dequeuing from, 0 if none.              *)
Scored(c) == at[c] = "score" /\ (place[c] = 0 \/ nonEmpty[c] = 3)
In(c) ==
    CASE Scored(c) /\ nonEmpty[c] > 0 -> best[c]
      [] at[c] = "rest" /\ place[c] # best[c] -> place[c]
      [] at[c] = "bulk" -> place[c]
      [] at[c] = "current" -> current[c]
      [] at[c] = "others" /\ place[c] # current[c] -> place[c]
      [] OTHER -> 0

Crowded(c, p) == \E d \in Consumers \ {c} : In(d) = p

(* What a dequeue of up to k from p may find, and size_approx, whose two    *)
(* loads may have a dequeue of another between them.                        *)
Finds(c, p, k) == IF beside[c] THEN 0..Min({sizes[p], k}) ELSE {Min({sizes[p], k})}
Sizes(c, p) == IF Crowded(c, p) THEN 0..sizes[p] ELSE {sizes[p]}

TakeFrom(c, p, n) ==
    /\ sizes' = [sizes EXCEPT ![p] = @ - n]
    /\ owed' = Set(owed, c, owed[c] - n)
    /\ UNCHANGED <<producerCount, unsignalled, permits, globalOffset, enqueued>>

Finish(c, l) ==
    IF owed'[c] = 0
    THEN /\ at' = Set(at, c, "idle") /\ call' = Set(call, c, "none")
         /\ place' = Set(place, c, 0) /\ best' = Set(best, c, 0)
         /\ bestSize' = Set(bestSize, c, 0) /\ nonEmpty' = Set(nonEmpty, c, 0)
    ELSE GoOn(c, l) /\ UNCHANGED <<call, search>>

(* The next search: of try_dequeue, try_dequeue_bulk, or with a token.      *)
Attempt(c) ==
    /\ at[c] = "attempt"
    /\ place' = Set(place, c, Last) /\ best' = Set(best, c, 0)
    /\ bestSize' = Set(bestSize, c, 0) /\ nonEmpty' = Set(nonEmpty, c, 0)
    /\ GoOn(c, CASE call[c] = "one" -> "score"
               [] call[c] = "bulk" -> "bulk"
               [] OTHER -> IF desired[c] = 0 \/ lastOffset[c] # globalOffset THEN "rotate" ELSE "current")
    /\ UNCHANGED <<common, call, owed, token>>

(* try_dequeue: the largest of the first three that seem not to be empty.   *)
Score(c) ==
    /\ at[c] = "score" /\ ~Scored(c)
    /\ \E size \in Sizes(c, place[c]) :
          /\ nonEmpty' = Set(nonEmpty, c, IF size > 0 THEN nonEmpty[c] + 1 ELSE nonEmpty[c])
          /\ IF size > bestSize[c]
             THEN bestSize' = Set(bestSize, c, size) /\ best' = Set(best, c, place[c])
             ELSE UNCHANGED <<bestSize, best>>
    /\ place' = Set(place, c, place[c] - 1)
    /\ UNCHANGED <<common, at, call, owed, token>>

(* Nothing seemed to be there: wait_dequeue tries again.                    *)
NoneScored(c) ==
    /\ Scored(c) /\ nonEmpty[c] = 0
    /\ GoOn(c, "attempt")
    /\ UNCHANGED <<common, call, owed, search, token>>

(* Slip: the others are not tried.                                          *)
TryBestOnly(c) ==
    /\ Scored(c) /\ nonEmpty[c] > 0
    /\ \E n \in Finds(c, best[c], 1) :
          /\ TakeFrom(c, best[c], n)
          /\ IF n > 0 THEN Finish(c, "idle") ELSE GoOn(c, "attempt") /\ UNCHANGED <<call, search>>
    /\ UNCHANGED token

TryBest(c) ==
    /\ Scored(c) /\ nonEmpty[c] > 0
    /\ \E n \in Finds(c, best[c], 1) :
          /\ TakeFrom(c, best[c], n)
          /\ IF n > 0 THEN Finish(c, "idle")
             ELSE GoOn(c, "rest") /\ place' = Set(place, c, Last) /\ UNCHANGED <<call, best, bestSize, nonEmpty>>
    /\ UNCHANGED token

TryRest(c) ==
    /\ at[c] = "rest" /\ In(c) # 0
    /\ \E n \in Finds(c, place[c], 1) :
          /\ TakeFrom(c, place[c], n)
          /\ IF n > 0 THEN Finish(c, "idle")
             ELSE place' = Set(place, c, place[c] - 1) /\ UNCHANGED <<at, call, best, bestSize, nonEmpty>>
    /\ UNCHANGED token

(* The best has been tried; at the end of the list wait_dequeue tries again.*)
PassBest(c) ==
    /\ at[c] = "rest" /\ In(c) = 0
    /\ IF place[c] = 0 THEN GoOn(c, "attempt") /\ UNCHANGED search
       ELSE place' = Set(place, c, place[c] - 1) /\ UNCHANGED <<at, best, bestSize, nonEmpty>>
    /\ UNCHANGED <<common, call, owed, token>>

(* try_dequeue_bulk takes what it finds from each in turn.                  *)
Bulk(c) ==
    /\ at[c] = "bulk" /\ place[c] > 0
    /\ \E n \in Finds(c, place[c], owed[c]) : TakeFrom(c, place[c], n)
    /\ IF owed'[c] = 0 THEN Finish(c, "idle")
       ELSE place' = Set(place, c, place[c] - 1) /\ UNCHANGED <<at, call, best, bestSize, nonEmpty>>
    /\ UNCHANGED token

BulkAgain(c) ==
    /\ at[c] = "bulk" /\ place[c] = 0
    /\ GoOn(c, "attempt")
    /\ UNCHANGED <<common, call, owed, search, token>>

(* Slip: the place does not depend on the token.                            *)
AroundFromTail(p, k, tail) == 1 + ((tail - 1 - k) % tail)

-----------------------------------------------------------------------------
(* k sub-queues further down a list whose last is tail, from p on; after    *)
(* the first one comes the last again.                                      *)
Around(p, k, tail) == 1 + ((p - 1 - k) % tail)

(* update_current_producer_after_rotation: the list is loaded first, then   *)
(* the count, which may be ahead of it, and the offset.                     *)
Rotate(c) ==
    LET tail == place[c]
        start == IF desired[c] # 0 THEN desired[c]
                 ELSE Around(tail, producerCount - 1 - (Offset[c] % producerCount), tail)
        delta == globalOffset - lastOffset[c]
    IN  /\ at[c] = "rotate"
        /\ desired' = Set(desired, c, Around(start, IF delta >= producerCount THEN delta % producerCount ELSE delta, tail))
        /\ current' = Set(current, c, desired'[c])
        /\ lastOffset' = Set(lastOffset, c, globalOffset)
        /\ placedAmong' = Set(placedAmong, c,
               IF tail = producerCount /\ (desired[c] = 0 \/ placedAmong[c] = tail) THEN tail ELSE 0)
        /\ consumed' = Set(consumed, c, 0)
        /\ GoOn(c, "current")
        /\ UNCHANGED <<common, call, owed, search>>

(* The current sub-queue has all that is wanted, or the others follow.      *)
TryCurrent(c) ==
    /\ at[c] = "current"
    /\ \E got \in Finds(c, current[c], owed[c]) :
          /\ TakeFrom(c, current[c], got)
          /\ consumed' = Set(consumed, c, consumed[c] + got)
          /\ IF got = owed[c]
             THEN /\ at' = Set(at, c, IF call[c] = "token" THEN (IF consumed'[c] = Quota THEN "advance" ELSE "idle")
                                      ELSE IF consumed'[c] >= Quota THEN "advance" ELSE "idle")
                  /\ call' = Set(call, c, "none") /\ place' = Set(place, c, 0) /\ best' = Set(best, c, 0)
             ELSE /\ GoOn(c, "others") /\ place' = Set(place, c, Around(current[c], 1, Last))
                  /\ best' = Set(best, c, Last) /\ UNCHANGED call
    /\ UNCHANGED <<bestSize, nonEmpty, desired, current, lastOffset, placedAmong>>

(* Everybody moves on.                                                      *)
Advance(c) ==
    /\ at[c] = "advance"
    /\ globalOffset' = globalOffset + 1
    /\ GoOn(c, "idle")
    /\ UNCHANGED <<sizes, producerCount, unsignalled, permits, enqueued, call, owed, search, token>>

(* The others in turn; the current one is the last that had something.      *)
TryOthers(c) ==
    /\ at[c] = "others" /\ place[c] # current[c]
    /\ \E got \in Finds(c, place[c], owed[c]) :
          /\ TakeFrom(c, place[c], got)
          /\ IF got > 0 THEN current' = Set(current, c, place[c]) /\ consumed' = Set(consumed, c, got)
             ELSE UNCHANGED <<current, consumed>>
    /\ IF owed'[c] = 0 THEN Finish(c, "idle")
       ELSE place' = Set(place, c, Around(place[c], 1, best[c])) /\ UNCHANGED <<at, call, best, bestSize, nonEmpty>>
    /\ UNCHANGED <<desired, lastOffset, placedAmong>>

(* The search is back at the current one.                                   *)
OthersAgain(c) ==
    /\ at[c] = "others" /\ place[c] = current[c]
    /\ GoOn(c, "attempt")
    /\ UNCHANGED <<common, call, owed, search, token>>

Step(c) ==
    \/ Attempt(c) \/ Score(c) \/ NoneScored(c) \/ TryBest(c) \/ TryRest(c) \/ PassBest(c)
    \/ Bulk(c) \/ BulkAgain(c) \/ Rotate(c) \/ TryCurrent(c) \/ Advance(c)
    \/ TryOthers(c) \/ OthersAgain(c)

(* Who comes to a sub-queue and who is there meet, and each may hide        *)
(* elements from the other.                                                 *)
Meet(c) ==
    LET p == In(c)'
    IN  beside' = [d \in Consumers |->
            IF d = c THEN p # 0 /\ Crowded(c, p) ELSE beside[d] \/ (p # 0 /\ In(d) = p)]

Watch(c) ==
    there' = [d \in Consumers |->
        {p \in IF d = c /\ at[c] = "attempt" THEN DOMAIN sizes ELSE there[d] :
            sizes'[p] > 0 /\ ~Crowded(d, p)'}]

Searching(c) == Step(c) /\ Meet(c) /\ Watch(c)

TasksNext ==
    \/ CountProducer \/ AddProducer
    \/ \E p \in DOMAIN sizes : Enqueue(p) \/ Permit(p)
    \/ \E c \in Consumers : GetPermits(c) \/ Searching(c)

(* A consumer with permits keeps searching; producers are under no duty.    *)
TasksSpec == TasksInit /\ [][TasksNext]_taskVars /\ \A c \in Consumers : WF_taskVars(Searching(c))

-----------------------------------------------------------------------------
ListPlaces == 0..Last

TasksTypeOK ==
    /\ sizes \in Seq(0..MaxItems) /\ unsignalled \in Seq(0..MaxBulk) /\ Len(unsignalled) = Last
    /\ enqueued \in 0..MaxItems /\ \A p \in 1..Last : sizes[p] <= enqueued
    /\ producerCount \in Last..MaxProducers /\ permits \in Nat /\ globalOffset \in Nat
    /\ at \in [Consumers -> {"idle", "attempt", "score", "rest", "bulk", "rotate", "current",
                             "others", "advance"}]
    /\ call \in [Consumers -> Calls \cup {"none"}] /\ owed \in [Consumers -> 0..MaxBulk]
    /\ place \in [Consumers -> ListPlaces] /\ best \in [Consumers -> ListPlaces]
    /\ bestSize \in [Consumers -> 0..MaxItems] /\ nonEmpty \in [Consumers -> 0..3]
    /\ desired \in [Consumers -> ListPlaces] /\ current \in [Consumers -> ListPlaces]
    /\ lastOffset \in [Consumers -> -1..globalOffset] /\ consumed \in [Consumers -> Nat]
    /\ beside \in [Consumers -> BOOLEAN]
    /\ there \in [Consumers -> SUBSET (1..Last)] /\ placedAmong \in [Consumers -> ListPlaces]

(* What f has in its places, each counted by itself; none has more than n.  *)
Units(f, n) == {xi \in (DOMAIN f) \X (1..n) : xi[2] <= f[xi[1]]}

PermitsCovered ==
    Cardinality(Units(sizes, MaxItems)) =
        permits + Cardinality(Units(unsignalled, MaxBulk)) + Cardinality(Units(owed, MaxBulk))

(* There are as many elements as permits, given or not: a consumer that has *)
(* a permit finds an element, and no element is left without one            *)
(* (blockingconcurrentqueue.h:125-127, 296-300, 330-333, 361-366).          *)
ElementsPermitted == TasksTypeOK /\ PermitsCovered

OverlooksNothing ==
    \A c \in Consumers : at[c] \notin {"idle", "attempt"} /\ at'[c] = "attempt" => there[c] = {}

(* A search fails only if every sub-queue was, at some time since it began, *)
(* empty or in the hands of another consumer, who may hide elements: none   *)
(* that could be seen all the while is overlooked, whatever was added, by   *)
(* whichever walk (concurrentqueue.h:1120-1123, 1142-1155, 1178-1181,       *)
(* 1209-1222, 1225-1229, 1271-1288).                                        *)
NothingOverlooked == [][OverlooksNothing]_taskVars

(* A consumer with permits comes back with its elements, though others take *)
(* them from under its search, or meets another in a sub-queue              *)
(* (blockingconcurrentqueue.h:297, 331, 364).                               *)
Owed(c) == owed[c] > 0 /\ ~beside[c]
Served == \A c \in Consumers : Owed(c) ~> ~Owed(c)

Settled(c) == desired[c] # 0 /\ lastOffset[c] = globalOffset

(* Tokens with different offsets stand at different sub-queues, after any   *)
(* number of rotations, as long as none was added between their placings    *)
(* (concurrentqueue.h:1185-1189, 1401-1424).                                *)
SpreadOut ==
    \A c, d \in Consumers :
        /\ Settled(c) /\ Settled(d)
        /\ placedAmong[c] # 0 /\ placedAmong[c] = placedAmong[d]
        /\ Offset[c] % placedAmong[c] # Offset[d] % placedAmong[c]
        => desired[c] # desired[d]

(* "Every 256 items from one producer, make everyone rotate": no token      *)
(* takes more than its quota, and what its last call took beyond it, while  *)
(* it stays at a sub-queue (concurrentqueue.h:1186).                        *)
RotatesInTime ==
    \A c \in Consumers :
        consumed[c] >= Quota + MaxBulk => at[c] = "advance" \/ lastOffset[c] # globalOffset
=============================================================================

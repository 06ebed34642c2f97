-------------------------- MODULE MCQueueProgress --------------------------
(***************************************************************************)
(* The parts of the moodycamel queue in which somebody waits or tries      *)
(* again, for TLC: safety and liveness on small instances, without         *)
(* symmetry.  A behaviour is one of one part, which the initial state      *)
(* picks.  The semaphore and the exits of threads have their own variables,*)
(* the others share v1..v20.                                               *)
(***************************************************************************)
EXTENDS LightweightSemaphore, ThreadExit, Sequences, TLC

CONSTANTS t1, t2, Nodes, q1, q2, p1, p2, p3, Free, Gone

Pair == {t1, t2}

ASSUME SomeOfThem == Pair \subseteq Threads /\ Users = Pair /\ Queues = {q1, q2}

AllCollide == [t \in Pair |-> 0]
OneByOne == t1 :> 0 @@ t2 :> 1
Owners == p1 :> q1 @@ p2 :> q1 @@ p3 :> q2

VARIABLES
    part, \* which part runs, and the variables of the parts that share them
    v1, v2, v3, v4, v5, v6, v7, v8, v9, v10, v11, v12, v13, v14, v15, v16,
    v17, v18, v19, v20

others ==
    <<v1, v2, v3, v4, v5, v6, v7, v8, v9, v10, v11, v12, v13, v14, v15, v16,
      v17, v18, v19, v20>>
mcvars == <<part, vars, exitVars, others>>

List == INSTANCE FreeList WITH
    Threads <- Pair, Nil <- Null, freeListHead <- v1, freeListNext <- v2,
    refs <- v3, should <- v4, pool <- v5, owned <- v6, step <- v7, node <- v8,
    head <- v9, next <- v10

Hash == INSTANCE ProducerHash WITH
    Ids <- Pair, Hash <- AllCollide, FirstSize <- 2, MaxThreads <- 3,
    MaxFailures <- 1, tables <- v1, count <- v2, resizing <- v3,
    inactive <- v4, pc <- v5, main <- v6, newCount <- v7, index <- v8,
    ptr <- v9, got <- v10, mine <- v11, born <- v12, failures <- v13

Tasks == INSTANCE TaskQueue WITH
    Consumers <- Pair, Offset <- OneByOne, Calls <- {"one", "bulk"},
    Quota <- 2, MaxProducers <- 3, MaxBulk <- 2, MaxItems <- 2, sizes <- v1,
    producerCount <- v2, unsignalled <- v3, permits <- v4, globalOffset <- v5,
    at <- v6, call <- v7, owed <- v8, place <- v9, best <- v10, bestSize <- v11,
    nonEmpty <- v12, desired <- v13, current <- v14, lastOffset <- v15,
    consumed <- v16, there <- v17, placedAmong <- v18, enqueued <- v19,
    beside <- v20

ASSUME PartsAssumption ==
    List!FreeListAssumption /\ Hash!HashAssumption /\ Tasks!TaskQueueAssumption

-----------------------------------------------------------------------------
Off == 0  \* a variable that the part does not have

MCInit ==
    /\ Init /\ ExitInit
    /\ \/ part \in {"semaphore", "exit"}
          /\ v1 = Off /\ v2 = Off /\ v3 = Off /\ v4 = Off /\ v5 = Off /\ v6 = Off
          /\ v7 = Off /\ v8 = Off /\ v9 = Off /\ v10 = Off /\ v11 = Off /\ v12 = Off
          /\ v13 = Off /\ v14 = Off /\ v15 = Off /\ v16 = Off /\ v17 = Off
          /\ v18 = Off /\ v19 = Off /\ v20 = Off
       \/ part = "list" /\ List!ListInit /\ v11 = Off /\ v12 = Off
          /\ v13 = Off /\ v14 = Off /\ v15 = Off /\ v16 = Off /\ v17 = Off
          /\ v18 = Off /\ v19 = Off /\ v20 = Off
       \/ part = "hash" /\ Hash!Init /\ v14 = Off /\ v15 = Off /\ v16 = Off
          /\ v17 = Off /\ v18 = Off /\ v19 = Off /\ v20 = Off
       \/ part = "tasks" /\ Tasks!TasksInit

Unused ==
    /\ UNCHANGED part
    /\ part = "semaphore" \/ UNCHANGED vars
    /\ part = "exit" \/ UNCHANGED exitVars
    /\ \/ part \in {"semaphore", "exit"} /\ UNCHANGED others
       \/ part = "list" /\ UNCHANGED <<v11, v12, v13, v14, v15, v16, v17, v18, v19, v20>>
       \/ part = "hash" /\ UNCHANGED <<v14, v15, v16, v17, v18, v19, v20>>
       \/ part = "tasks"

MCNext ==
    /\ Unused
    /\ \/ part = "semaphore" /\ Next
       \/ part = "exit" /\ ExitNext
       \/ part = "list" /\ List!ListNext
       \/ part = "hash" /\ Hash!Next
       \/ part = "tasks" /\ Tasks!TasksNext

(* Each thread goes on with the call it is in; a destructor goes on.  What  *)
(* begins a call, ends a timed wait or signals is under no duty.            *)
GoesOn(t) ==
    /\ Unused
    /\ \/ part = "semaphore" /\ Run(t)
       \/ /\ t \in Pair
          /\ \/ part = "list" /\ List!Run(t)
             \/ part = "hash" /\ Hash!Enqueueing(t)
             \/ part = "tasks" /\ Tasks!Searching(t)
             \/ part = "exit" /\ Ending(t)

MCSpec ==
    /\ MCInit /\ [][MCNext]_mcvars
    /\ \A t \in Threads : WF_mcvars(GoesOn(t))
    /\ \A q \in Queues : WF_mcvars(part = "exit" /\ Deleting(q) /\ Unused)

-----------------------------------------------------------------------------
(* What has begun and must end: a sleep although there are permits, a wait  *)
(* whose time is over, an enqueue while others grow the table or fail to, a *)
(* dequeue with permits while others take elements from under its search,   *)
(* the exit of a thread and the deletion of a queue.                        *)
Busy(x) ==
    \/ part = "semaphore" /\ x \in Threads /\ (Asleep(x) \/ TimedOut(x))
    \/ part = "hash" /\ x \in Pair /\ Hash!InCall(x)
    \/ part = "tasks" /\ x \in Pair /\ Tasks!Owed(x)
    \/ part = "exit" /\ x \in Users /\ Leaving(x)
    \/ part = "exit" /\ x \in Queues /\ BeingDeleted(x)

(* Each comes to its end, and of the calls on the free list some always     *)
(* does (lightweightsemaphore.h:293-311, 409-418, concurrentqueue.h:587,    *)
(* 612, 1473-1537, 2439-2441, 3453-3532, blockingconcurrentqueue.h:297,     *)
(* 331, 364).  Threads are alike, so t1 stands for all of them.             *)
CallsEnd ==
    /\ \A x \in {t1, q1, q2} : Busy(x) ~> ~Busy(x)
    /\ \/ []<>(part # "list" \/ List!Quiet)
       \/ []<><<part = "list" /\ List!SomeReturn>>_mcvars
=============================================================================

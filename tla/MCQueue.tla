------------------------------- MODULE MCQueue ------------------------------
(***************************************************************************)
(* The parts of the moodycamel queue, for TLC, as far as safety goes.  A   *)
(* behaviour is one of one part, which the initial state picks.  The two   *)
(* parts whose producer has a token share the variables of the one without *)
(* a token, and have v1..v8 besides.  The calls of "bulk" do not fail;     *)
(* those of "failing" may, but need at most one block each.  The consumers *)
(* of "tasks" have no tokens, those of "tokens" have one each.             *)
(***************************************************************************)
EXTENDS ProducerHash, FreeList, TaskQueue, ImplicitProducer, TLC

CONSTANTS c1, c2

(* No part has both ids and blocks, so one set stands for them.             *)
ASSUME SameSets == Threads = Ids /\ Blocks = Ids /\ Consumers = {c1, c2}

(* The ids all hash to the same slot, which makes threads alike; so are     *)
(* blocks.  The offsets tell c1 and c2 apart.                               *)
AllCollide == [t \in Ids |-> 0]
OneByOne == c1 :> 0 @@ c2 :> 1
Alike == Permutations(Ids) \union Permutations(Takers)

VARIABLES
    part,                             \* which part runs, and what only the
    v1, v2, v3, v4, v5, v6, v7, v8    \* producers with a token have

others == <<v1, v2, v3, v4, v5, v6, v7, v8>>
mcvars == <<part, vars, listVars, taskVars, implicitVars, others>>

Expl == INSTANCE ExplicitProducer WITH
    MaxSent <- 5, FirstSize <- 1, AllocModes <- {TRUE}, Throws <- FALSE,
    Null <- None, pc <- writer, count <- adding, slotsUsed <- v1,
    frontSlot <- v2, next <- v3, emptyFlags <- v4, startBlock <- v5,
    firstAllocated <- v6, oldFront <- v7, oldSlotsUsed <- v8

Fail == INSTANCE ExplicitProducer WITH
    MaxCall <- 2, FirstSize <- 1, MaxHeaders <- 2, AllocModes <- BOOLEAN,
    Null <- None, pc <- writer, count <- adding, slotsUsed <- v1,
    frontSlot <- v2, next <- v3, emptyFlags <- v4, startBlock <- v5,
    firstAllocated <- v6, oldFront <- v7, oldSlotsUsed <- v8

ASSUME PartsAssumption ==
    /\ Expl!ProducerAssumption /\ Expl!ExplicitAssumption
    /\ Fail!ProducerAssumption /\ Fail!ExplicitAssumption

-----------------------------------------------------------------------------
Off == 0  \* a variable that the part does not have

(* What a producer with a token does not have.                              *)
Lacks == entries = Off /\ dequeued = Off /\ freed = Off /\ chain = Off

NoProducer ==
    /\ ClaimInit
    /\ headers = Off /\ entries = Off /\ elements = Off /\ dequeued = Off
    /\ freed = Off /\ unborn = Off /\ tailBlock = Off /\ writer = Off
    /\ adding = Off /\ alloc = Off /\ base = Off /\ todo = Off /\ chain = Off
    /\ pos = Off /\ block = Off /\ header = Off

MCInit ==
    /\ Init /\ ListInit /\ TasksInit
    /\ \/ part \in {"hash", "list", "tasks", "tokens"} /\ NoProducer
       \/ part = "implicit" /\ ImplicitInit
       \/ part = "bulk" /\ Expl!Init /\ Lacks
       \/ part = "failing" /\ Fail!Init /\ Lacks
    /\ part \notin {"bulk", "failing"} =>
          /\ v1 = Off /\ v2 = Off /\ v3 = Off /\ v4 = Off
          /\ v5 = Off /\ v6 = Off /\ v7 = Off /\ v8 = Off

Unused ==
    /\ UNCHANGED part
    /\ part # "hash" => UNCHANGED vars
    /\ part # "list" => UNCHANGED listVars
    /\ part \notin {"tasks", "tokens"} => UNCHANGED taskVars
    /\ part \in {"hash", "list", "tasks", "tokens"} => UNCHANGED implicitVars
    /\ part \in {"bulk", "failing"} => UNCHANGED <<entries, dequeued, freed, chain>>
    /\ part \notin {"bulk", "failing"} => UNCHANGED others

OnlyCalls(kinds) == \A c \in Consumers : call'[c] \in kinds \cup {"none"}

(* Bound: with tokens, not as many sub-queues and elements at once.         *)
FewTokens == producerCount' + enqueued' <= MaxProducers + MaxItems - 1

MCNext ==
    /\ \/ part = "hash" /\ Next
       \/ part = "implicit" /\ ImplicitNext
       \/ part = "bulk" /\ Expl!Next
       \/ part = "failing" /\ Fail!Next
       \/ part = "list" /\ ListNext
       \/ part = "tasks" /\ TasksNext /\ OnlyCalls({"one", "bulk"})
       \/ part = "tokens" /\ TasksNext /\ OnlyCalls({"token", "tokenBulk"}) /\ FewTokens
    /\ Unused

MCSpec == MCInit /\ [][MCNext]_mcvars

-----------------------------------------------------------------------------
(* A search in the hash finds a slot that is free, in every table.  An      *)
(* index, however old, leads a consumer to its element, also after calls    *)
(* that failed half-way, and the destructor of an explicit producer         *)
(* destroys the rest and nothing else.  For that a block is in one place    *)
(* while an implicit producer takes and gives back blocks, fails and is     *)
(* destroyed, and in an explicit producer's ring one that consumers have    *)
(* left can be used again (concurrentqueue.h:1788-1846, 1857-1867,          *)
(* 2005-2017, 2272-2282, 2446-2469, 2596-2609, 2664-2678, 2957-2962, 3412,  *)
(* 3419-3421).                                                              *)
ElementsFound ==
    /\ TypeOK /\ SlotFree
    /\ part = "implicit" => ImplicitTypeOK /\ FindsItsElements /\ BlocksAccounted
    /\ part = "bulk" =>
          Expl!TypeOK /\ Expl!FindsItsElements /\ Expl!DestroysTheRest /\ Expl!LeftAvailable
    /\ part = "failing" => Fail!TypeOK /\ Fail!FindsItsElements
=============================================================================

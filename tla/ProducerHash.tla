---------------------------- MODULE ProducerHash ----------------------------
(***************************************************************************)
(* How a thread finds the sub-queue it enqueues into (concurrentqueue.h,   *)
(* get_or_add_implicit_producer, recycle_or_create_producer and the thread *)
(* exit callback).  A thread is known by the address of a thread-local     *)
(* variable, which a later thread may be given again.  A chain of hash     *)
(* tables, the newest first, maps it to its producer.  A table grows by a  *)
(* new one in front; nothing is moved, a thread copies its own entry when  *)
(* it next comes by.  When the thread ends its keys become Gone and its    *)
(* producer is left for another thread.                                    *)
(*                                                                         *)
(* An operation on an atomic variable is one step, but the search for a    *)
(* thread's own key is one step per call: nobody else writes that key, and *)
(* a key once written is never Free again.                                 *)
(***************************************************************************)
EXTENDS Integers, Sequences, FiniteSets, FiniteSetsExt

CONSTANTS
    Ids,          \* thread ids, each used by one living thread at a time
    Hash,         \* hash_thread_id: a function from Ids to Nat
    FirstSize,    \* INITIAL_IMPLICIT_PRODUCER_HASH_SIZE
    MaxThreads,   \* bound: threads that ever live
    MaxFailures,  \* bound: allocations that fail
    Free, Gone,   \* invalid_thread_id, invalid_thread_id2
    Null

HashAssumption ==
    /\ IsFiniteSet(Ids) /\ Hash \in [Ids -> Nat]
    /\ FirstSize \in Nat \ {0} /\ MaxThreads \in Nat /\ MaxFailures \in Nat
    /\ Free # Gone /\ {Free, Gone} \intersect Ids = {} /\ Null \notin Nat

ASSUME ProducerHashAssumption == HashAssumption

VARIABLES
    tables,     \* the hash tables, the last one current: [keys, values], both from 0..(capacity - 1)
    count,      \* implicitProducerHashCount
    resizing,   \* implicitProducerHashResizeInProgress
    inactive,   \* of every producer in the list, which only grows
    pc,         \* where the thread of each id is
    main,       \* the table it takes for the current one
    newCount, index, ptr, got,
    mine,       \* the producer a thread was given first
    born, failures

shared == <<tables, count, resizing, inactive>>
locals == <<main, newCount, index, ptr, got>>
vars == <<shared, pc, locals, mine, born, failures>>

Capacity(h) == Cardinality(DOMAIN tables[h].keys)
NewTable(cap) == [keys |-> [i \in 0..(cap - 1) |-> Free], values |-> [i \in 0..(cap - 1) |-> Null]]
At(h, i) == i % Capacity(h)

(* The slot with t's key in table h, found by probing up to a free slot.    *)
Found(h, t) ==
    {At(h, Hash[t] + k) : k \in {k \in 0..(Capacity(h) - 1) :
        /\ tables[h].keys[At(h, Hash[t] + k)] = t
        /\ \A j \in 0..(k - 1) : tables[h].keys[At(h, Hash[t] + j)] \notin {t, Free}}}

Knows(t) == {h \in 1..main[t] : Found(h, t) # {}}

Init ==
    /\ tables = <<NewTable(FirstSize)>>
    /\ count = 0 /\ resizing = FALSE /\ inactive = <<>>
    /\ pc = [t \in Ids |-> "dead"]
    /\ main = [t \in Ids |-> 0] /\ newCount = main /\ index = main /\ ptr = main
    /\ got = [t \in Ids |-> Null] /\ mine = got
    /\ born = 0 /\ failures = 0

Go(t, l) == pc' = [pc EXCEPT ![t] = l]

Begin(t) ==
    /\ pc[t] = "dead" /\ born < MaxThreads
    /\ born' = born + 1
    /\ Go(t, "idle")
    /\ UNCHANGED <<shared, locals, mine, failures>>

-----------------------------------------------------------------------------
(* get_or_add_implicit_producer.                                            *)
LoadMain(t) ==
    /\ pc[t] = "idle"
    /\ main' = [main EXCEPT ![t] = Len(tables)]
    /\ Go(t, "search")
    /\ UNCHANGED <<shared, newCount, index, ptr, got, mine, born, failures>>

(* Found, or found in an older table only, or counted as a new one.         *)
Search(t) ==
    /\ pc[t] = "search"
    /\ index' = [index EXCEPT ![t] = Hash[t]]
    /\ IF Knows(t) # {}
       THEN /\ LET h == Max(Knows(t))
               IN  /\ got' = [got EXCEPT ![t] = tables[h].values[CHOOSE i \in Found(h, t) : TRUE]]
                   /\ Go(t, IF h = main[t] THEN "return" ELSE "copy")
            /\ UNCHANGED <<count, newCount>>
       ELSE /\ count' = count + 1
            /\ newCount' = [newCount EXCEPT ![t] = count + 1]
            /\ Go(t, "decide") /\ UNCHANGED got
    /\ UNCHANGED <<tables, resizing, inactive, main, ptr, mine, born, failures>>

Occupy(t) ==
    tables' = [tables EXCEPT ![main[t]].keys[At(main[t], index[t])] = t,
                             ![main[t]].values[At(main[t], index[t])] = got[t]]

(* The entry is copied to the current table, in a free or reusable slot.    *)
Copy(t) ==
    /\ pc[t] = "copy"
    /\ IF tables[main[t]].keys[At(main[t], index[t])] \in {Free, Gone}
       THEN Occupy(t) /\ Go(t, "return") /\ UNCHANGED index
       ELSE index' = [index EXCEPT ![t] = @ + 1] /\ UNCHANGED <<tables, pc>>
    /\ UNCHANGED <<count, resizing, inactive, main, newCount, ptr, got, mine, born, failures>>

HalfFull(t, h) == newCount[t] >= Capacity(h) \div 2

BelowThreeQuarters(t, h) == newCount[t] < Capacity(h) \div 2 + Capacity(h) \div 4

(* Take the flag to resize, or go on with this table, or with a newer one.  *)
Decide(t) ==
    /\ pc[t] = "decide"
    /\ IF HalfFull(t, main[t]) /\ ~resizing
       THEN /\ resizing' = TRUE /\ Go(t, "locked")
            /\ UNCHANGED <<main, ptr>>
       ELSE /\ UNCHANGED resizing
            /\ IF BelowThreeQuarters(t, main[t])
               THEN Go(t, "recycle") /\ ptr' = [ptr EXCEPT ![t] = Len(inactive)] /\ UNCHANGED main
               ELSE main' = [main EXCEPT ![t] = Len(tables)] /\ UNCHANGED <<pc, ptr>>
    /\ UNCHANGED <<tables, count, inactive, newCount, index, got, mine, born, failures>>

(* Under the flag: a table in front that is less than half full, unless     *)
(* there is one by now.                                                     *)
Resize(t) ==
    /\ pc[t] = "locked"
    /\ IF HalfFull(t, Len(tables))
       THEN \E size \in Nat \intersect {Capacity(Len(tables)) * 2^k : k \in 1..(newCount[t] + 1)} :
               /\ newCount[t] < size \div 2
               /\ size = 2 * Capacity(Len(tables)) \/ newCount[t] >= size \div 4
               /\ tables' = Append(tables, NewTable(size))
       ELSE UNCHANGED tables
    /\ main' = [main EXCEPT ![t] = Len(tables')]
    /\ Go(t, "unlock")
    /\ UNCHANGED <<count, resizing, inactive, newCount, index, ptr, got, mine, born, failures>>

Unlock(t) ==
    /\ pc[t] = "unlock"
    /\ resizing' = FALSE
    /\ IF BelowThreeQuarters(t, main[t])
       THEN Go(t, "recycle") /\ ptr' = [ptr EXCEPT ![t] = Len(inactive)] /\ UNCHANGED main
       ELSE Go(t, "decide") /\ main' = [main EXCEPT ![t] = Len(tables)] /\ UNCHANGED ptr
    /\ UNCHANGED <<tables, count, inactive, newCount, index, got, mine, born, failures>>

(* Slip: the flag stays set when there is no memory for the table.          *)
ResizeFailsLocked(t) ==
    /\ pc[t] = "locked" /\ HalfFull(t, Len(tables))
    /\ failures < MaxFailures /\ failures' = failures + 1
    /\ count' = count - 1
    /\ Go(t, "return")
    /\ UNCHANGED <<tables, inactive, locals, mine, born, resizing>>

(* No memory for the table: the call fails.                                 *)
ResizeFails(t) ==
    /\ pc[t] = "locked" /\ HalfFull(t, Len(tables))
    /\ failures < MaxFailures /\ failures' = failures + 1
    /\ count' = count - 1
    /\ Go(t, "giveup")
    /\ UNCHANGED <<tables, inactive, locals, mine, born, resizing>>

GiveUp(t) ==
    /\ pc[t] = "giveup"
    /\ resizing' = FALSE
    /\ Go(t, "return")
    /\ UNCHANGED <<tables, count, inactive, locals, mine, born, failures>>

(* recycle_or_create_producer tries to catch each producer of the list it   *)
(* saw, the last one first, and else adds a new one.                        *)
Recycle(t) ==
    /\ pc[t] = "recycle" /\ ptr[t] > 0
    /\ IF inactive[ptr[t]]
       THEN /\ inactive' = [inactive EXCEPT ![ptr[t]] = FALSE]
            /\ got' = [got EXCEPT ![t] = ptr[t]]
            /\ Go(t, "insert") /\ UNCHANGED ptr
       ELSE ptr' = [ptr EXCEPT ![t] = @ - 1] /\ UNCHANGED <<inactive, got, pc>>
    /\ UNCHANGED <<tables, count, resizing, main, newCount, index, mine, born, failures>>

Create(t) ==
    /\ pc[t] = "recycle" /\ ptr[t] = 0
    /\ inactive' = Append(inactive, FALSE)
    /\ got' = [got EXCEPT ![t] = Len(inactive')]
    /\ Go(t, "insert")
    /\ UNCHANGED <<tables, count, resizing, main, newCount, index, ptr, mine, born, failures>>

CreateFails(t) ==
    /\ pc[t] = "recycle" /\ ptr[t] = 0
    /\ failures < MaxFailures /\ failures' = failures + 1
    /\ count' = count - 1
    /\ Go(t, "return")
    /\ UNCHANGED <<tables, resizing, inactive, locals, mine, born>>

(* The first reusable or free slot from the hash on; a reusable one had     *)
(* been counted already.                                                    *)
Insert(t) ==
    LET key == tables[main[t]].keys[At(main[t], index[t])]
    IN  /\ pc[t] = "insert"
        /\ IF key \in {Free, Gone}
           THEN Occupy(t) /\ Go(t, IF key = Gone THEN "uncount" ELSE "return") /\ UNCHANGED index
           ELSE index' = [index EXCEPT ![t] = @ + 1] /\ UNCHANGED <<tables, pc>>
        /\ UNCHANGED <<count, resizing, inactive, main, newCount, ptr, got, mine, born, failures>>

Uncount(t) ==
    /\ pc[t] = "uncount"
    /\ count' = count - 1
    /\ Go(t, "return")
    /\ UNCHANGED <<tables, resizing, inactive, locals, mine, born, failures>>

Return(t) ==
    /\ pc[t] = "return"
    /\ mine' = [mine EXCEPT ![t] = got[t]]
    /\ got' = [got EXCEPT ![t] = Null]
    /\ main' = [main EXCEPT ![t] = 0] /\ newCount' = [newCount EXCEPT ![t] = 0]
    /\ index' = [index EXCEPT ![t] = 0] /\ ptr' = [ptr EXCEPT ![t] = 0]
    /\ Go(t, "idle")
    /\ UNCHANGED <<shared, born, failures>>

-----------------------------------------------------------------------------
(* The thread ends: implicit_producer_thread_exited goes through the tables *)
(* and then leaves the producer to others.                                  *)
Exit(t) ==
    /\ pc[t] = "idle"
    /\ main' = [main EXCEPT ![t] = Len(tables)]
    /\ Go(t, IF mine[t] = Null THEN "dead" ELSE "exit")
    /\ UNCHANGED <<shared, newCount, index, ptr, got, mine, born, failures>>

(* Slip: only the current table is looked through.                          *)
ForgetCurrent(t) ==
    /\ pc[t] = "exit" /\ main[t] > 0
    /\ tables' = [tables EXCEPT ![main[t]].keys =
          [i \in DOMAIN @ |-> IF i \in Found(main[t], t) THEN Gone ELSE @[i]]]
    /\ main' = [main EXCEPT ![t] = 0]
    /\ UNCHANGED <<count, resizing, inactive, pc, newCount, index, ptr, got, mine, born, failures>>

(* Slip: the slot is freed, not marked.                                     *)
ForgetFreeing(t) ==
    /\ pc[t] = "exit" /\ main[t] > 0
    /\ tables' = [tables EXCEPT ![main[t]].keys =
          [i \in DOMAIN @ |-> IF i \in Found(main[t], t) THEN Free ELSE @[i]]]
    /\ main' = [main EXCEPT ![t] = @ - 1]
    /\ UNCHANGED <<count, resizing, inactive, pc, newCount, index, ptr, got, mine, born, failures>>

Forget(t) ==
    /\ pc[t] = "exit" /\ main[t] > 0
    /\ tables' = [tables EXCEPT ![main[t]].keys =
          [i \in DOMAIN @ |-> IF i \in Found(main[t], t) THEN Gone ELSE @[i]]]
    /\ main' = [main EXCEPT ![t] = @ - 1]
    /\ UNCHANGED <<count, resizing, inactive, pc, newCount, index, ptr, got, mine, born, failures>>

Abandon(t) ==
    /\ pc[t] = "exit" /\ main[t] = 0
    /\ inactive' = [inactive EXCEPT ![mine[t]] = TRUE]
    /\ mine' = [mine EXCEPT ![t] = Null]
    /\ Go(t, "dead")
    /\ UNCHANGED <<tables, count, resizing, locals, born, failures>>

Enqueueing(t) ==
    \/ Search(t) \/ Copy(t) \/ Decide(t) \/ Resize(t) \/ Unlock(t) \/ ResizeFails(t) \/ GiveUp(t)
    \/ Recycle(t) \/ Create(t) \/ CreateFails(t) \/ Insert(t) \/ Uncount(t) \/ Return(t)

Next == \E t \in Ids : Begin(t) \/ LoadMain(t) \/ Enqueueing(t) \/ Exit(t) \/ Forget(t) \/ Abandon(t)

(* A thread that has begun a call is scheduled again and again.             *)
Spec == Init /\ [][Next]_vars /\ \A t \in Ids : WF_vars(Enqueueing(t))

-----------------------------------------------------------------------------
Producers == DOMAIN inactive

TypeOK ==
    /\ count \in 0..(2 * MaxThreads) /\ resizing \in BOOLEAN
    /\ \A h \in DOMAIN tables : tables[h].keys \in [0..(Capacity(h) - 1) -> Ids \union {Free, Gone}]
    /\ mine \in [Ids -> Producers \union {Null}] /\ got \in [Ids -> Producers \union {Null}]
    /\ \A t \in Ids : main[t] <= Len(tables) /\ ptr[t] <= Len(inactive)

(* No two living threads write to one producer, and none writes to one that *)
(* is free for others: each sub-queue has a single writer                   *)
(* (concurrentqueue.h:3232-3243, 3550-3563).                                *)
SingleWriter ==
    \A t \in Ids : LET p == IF pc[t] = "return" THEN got[t] ELSE mine[t]
                   IN  p # Null => /\ ~inactive[p]
                                   /\ \A u \in Ids \ {t} : p \notin {mine[u], got[u]}

(* A step leaves a living thread with the producer it has.                  *)
SameProducerStep == \A t \in Ids : mine[t] # Null /\ pc'[t] # "dead" => mine'[t] = mine[t]

(* Every call of a thread leads to the same producer, however the tables    *)
(* have changed in between, so that its elements stay in order              *)
(* (concurrentqueue.h:3394-3396).                                           *)
SameProducer == [][SameProducerStep]_vars

(* In every table a slot is free, so that every search ends                 *)
(* (concurrentqueue.h:3412).                                                *)
SlotFree == \A h \in DOMAIN tables : \E i \in DOMAIN tables[h].keys : tables[h].keys[i] = Free

(* A call comes to its end although others grow the table or fail to        *)
(* (concurrentqueue.h:3453-3532).                                           *)
InCall(t) == pc[t] \notin {"idle", "dead", "exit"}
CallsEnd == \A t \in Ids : InCall(t) ~> ~InCall(t)
=============================================================================

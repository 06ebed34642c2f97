----------------------------- MODULE ThreadExit -----------------------------
(***************************************************************************)
(* How the implicit producers of all queues learn that their thread ends   *)
(* (concurrentqueue.h, ThreadExitNotifier, the destructors of              *)
(* ConcurrentQueue and ImplicitProducer).  Each thread has a chain of the  *)
(* listeners of its producers, linked through the producers themselves; at *)
(* its end it calls them one after the other, under the one mutex of the   *)
(* process.  A producer given up in that way may be taken by another       *)
(* thread, and its queue may be deleted, while the chain is still walked.  *)
(***************************************************************************)
EXTENDS Integers, FiniteSets

CONSTANTS
    Users,       \* the threads that use the queues
    Queues,
    Listeners,   \* the implicit producers of the queues, each of which listens to its thread
    QueueOf,     \* of a producer
    DeleteAnytime, \* FALSE: no queue is deleted while a thread that gave up a producer of it still walks
    Null

ASSUME ThreadExitAssumption ==
    /\ QueueOf \in [Listeners -> Queues] /\ DeleteAnytime \in BOOLEAN
    /\ Null \notin Users \cup Listeners

VARIABLES
    inactive,    \* producers without a thread; at first those not made yet
    owner,       \* the thread a producer works for, or did last
    chain, next, \* of a listener
    tail,        \* of a thread's notifier
    mutex,       \* the thread or queue that holds it
    phase, ptr,  \* of a thread: where it is, its producer or place in its chain
    state,       \* of a queue
    freed, doomed, \* producers deleted; of a queue, the one whose destructor runs
    strays       \* deleted producers that were read

links == <<chain, next, tail>>
exitVars == <<inactive, owner, links, mutex, phase, ptr, state, freed, doomed, strays>>

ExitInit ==
    /\ inactive = Listeners /\ owner = [p \in Listeners |-> Null]
    /\ chain = [p \in Listeners |-> Null] /\ next = [p \in Listeners |-> Null]
    /\ tail = [t \in Users |-> Null] /\ mutex = Null
    /\ phase = [t \in Users |-> "running"] /\ ptr = [t \in Users |-> Null]
    /\ state = [q \in Queues |-> "alive"] /\ doomed = [q \in Queues |-> Null]
    /\ freed = {} /\ strays = {}

Go(t, l) == phase' = [phase EXCEPT ![t] = l]
Of(q) == {p \in Listeners : QueueOf[p] = q}
Reads(p) == strays' = strays \cup ({p} \intersect freed)

-----------------------------------------------------------------------------
(* The first enqueue of a thread: recycle_or_create_producer.               *)
Adopt(t, p) ==
    /\ phase[t] = "running" /\ p \in inactive /\ state[QueueOf[p]] = "alive"
    /\ ~ \E r \in Of(QueueOf[p]) \ inactive : owner[r] = t
    /\ inactive' = inactive \ {p} /\ owner' = [owner EXCEPT ![p] = t]
    /\ ptr' = [ptr EXCEPT ![t] = p]
    /\ Go(t, "subscribe")
    /\ UNCHANGED <<links, mutex, state, freed, doomed, strays>>

(* Slip: what was in the chain is not linked.                               *)
LinkAlone(t) ==
    /\ chain' = [chain EXCEPT ![ptr[t]] = t]
    /\ tail' = [tail EXCEPT ![t] = ptr[t]]
    /\ ptr' = [ptr EXCEPT ![t] = Null]
    /\ Go(t, "running")
    /\ UNCHANGED <<inactive, owner, next, mutex, state, freed, doomed, strays>>

Link(t) ==
    /\ next' = [next EXCEPT ![ptr[t]] = tail[t]]
    /\ chain' = [chain EXCEPT ![ptr[t]] = t]
    /\ tail' = [tail EXCEPT ![t] = ptr[t]]
    /\ ptr' = [ptr EXCEPT ![t] = Null]
    /\ Go(t, "running")
    /\ UNCHANGED <<inactive, owner, mutex, state, freed, doomed, strays>>

(* subscribe, under the mutex.                                              *)
Subscribe(t) == phase[t] = "subscribe" /\ mutex = Null /\ Link(t)

-----------------------------------------------------------------------------
(* ~ThreadExitNotifier.                                                     *)
Exit(t) ==
    /\ phase[t] = "running" /\ mutex = Null
    /\ mutex' = t
    /\ ptr' = [ptr EXCEPT ![t] = tail[t]]
    /\ Go(t, "unchain")
    /\ UNCHANGED <<inactive, owner, links, state, freed, doomed, strays>>

Unchain(t) ==
    /\ phase[t] = "unchain" /\ ptr[t] # Null
    /\ Reads(ptr[t])
    /\ chain' = [chain EXCEPT ![ptr[t]] = Null]
    /\ Go(t, "callback")
    /\ UNCHANGED <<inactive, owner, next, tail, mutex, ptr, state, freed, doomed>>

(* The callback: out of the hash tables of its queue, then inactive.        *)
Callback(t) ==
    /\ phase[t] = "callback"
    /\ Reads(ptr[t])
    /\ inactive' = inactive \cup {ptr[t]}
    /\ Go(t, "onward")
    /\ UNCHANGED <<owner, links, mutex, ptr, state, freed, doomed>>

Onward(t) ==
    /\ phase[t] = "onward"
    /\ Reads(ptr[t])
    /\ ptr' = [ptr EXCEPT ![t] = next[ptr[t]]]
    /\ Go(t, "unchain")
    /\ UNCHANGED <<inactive, owner, links, mutex, state, freed, doomed>>

Exited(t) ==
    /\ phase[t] = "unchain" /\ ptr[t] = Null
    /\ mutex' = Null
    /\ Go(t, "exited")
    /\ UNCHANGED <<inactive, owner, links, ptr, state, freed, doomed, strays>>

-----------------------------------------------------------------------------
(* ~ConcurrentQueue: nobody enqueues any more; threads may be at their end. *)
Delete(q) ==
    /\ state[q] = "alive" /\ ~ \E t \in Users : phase[t] = "subscribe" /\ QueueOf[ptr[t]] = q
    /\ state' = [state EXCEPT ![q] = "deleting"]
    /\ UNCHANGED <<inactive, owner, links, mutex, phase, ptr, freed, doomed, strays>>

Walking(p) == \E t \in Users : phase[t] = "onward" /\ ptr[t] = p

(* ~ImplicitProducer of the next one: does it have to unsubscribe?          *)
DeleteProducer(q, p) ==
    /\ state[q] = "deleting" /\ doomed[q] = Null /\ p \in Of(q) \ freed
    /\ Walking(p) => DeleteAnytime
    /\ IF p \in inactive THEN freed' = freed \cup {p} /\ UNCHANGED doomed
       ELSE doomed' = [doomed EXCEPT ![q] = p] /\ UNCHANGED freed
    /\ UNCHANGED <<inactive, owner, links, mutex, phase, ptr, state, strays>>

(* Taking p out of the chain it is in.                                      *)
Bypass(p) ==
    IF chain[p] = Null THEN UNCHANGED links
    ELSE /\ chain' = [chain EXCEPT ![p] = Null]
         /\ tail' = [tail EXCEPT ![chain[p]] = IF @ = p THEN next[p] ELSE @]
         /\ next' = [r \in Listeners |-> IF next[r] = p /\ chain[r] = chain[p] THEN next[p] ELSE next[r]]

(* unsubscribe, and the rest of the destructor.                             *)
Unsubscribe(q) ==
    /\ doomed[q] # Null /\ mutex = Null
    /\ Bypass(doomed[q])
    /\ freed' = freed \cup {doomed[q]}
    /\ doomed' = [doomed EXCEPT ![q] = Null]
    /\ UNCHANGED <<inactive, owner, mutex, phase, ptr, state, strays>>

Deleted(q) ==
    /\ state[q] = "deleting" /\ Of(q) \subseteq freed
    /\ state' = [state EXCEPT ![q] = "deleted"]
    /\ UNCHANGED <<inactive, owner, links, mutex, phase, ptr, freed, doomed, strays>>

Ending(t) == Unchain(t) \/ Callback(t) \/ Onward(t) \/ Exited(t)
Deleting(q) == (\E p \in Listeners : DeleteProducer(q, p)) \/ Unsubscribe(q) \/ Deleted(q)

ExitNext ==
    \/ \E t \in Users : (\E p \in Listeners : Adopt(t, p)) \/ Subscribe(t) \/ Exit(t) \/ Ending(t)
    \/ \E q \in Queues : Delete(q) \/ Deleting(q)

(* Threads at their end and destructors go on when they can.               *)
ExitSpec == ExitInit /\ [][ExitNext]_exitVars
             /\ \A t \in Users : WF_exitVars(Ending(t))
             /\ \A q \in Queues : WF_exitVars(Deleting(q))

-----------------------------------------------------------------------------
ExitTypeOK ==
    /\ inactive \subseteq Listeners /\ freed \subseteq Listeners /\ strays \subseteq freed
    /\ owner \in [Listeners -> Users \cup {Null}]
    /\ chain \in [Listeners -> Users \cup {Null}] /\ next \in [Listeners -> Listeners \cup {Null}]
    /\ tail \in [Users -> Listeners \cup {Null}] /\ mutex \in Users \cup {Null}
    /\ phase \in [Users -> {"running", "subscribe", "unchain", "callback", "onward", "exited"}]
    /\ ptr \in [Users -> Listeners \cup {Null}]
    /\ \A t \in Users : phase[t] \in {"subscribe", "callback", "onward"} => ptr[t] # Null
    /\ state \in [Queues -> {"alive", "deleting", "deleted"}]
    /\ doomed \in [Queues -> Listeners \cup {Null}]

(* A thread leaves no producer behind that nobody can take: each one it had *)
(* is given up or deleted (concurrentqueue.h:612-616, 3562).                *)
NoneLeftBehind ==
    \A p \in Listeners : owner[p] # Null /\ phase[owner[p]] = "exited" =>
        p \in inactive \cup freed

(* The listeners of a deleted queue are not touched again: the destructor   *)
(* waits for the walk, or the chain goes past them                          *)
(* (concurrentqueue.h:588-590, 604-606, 617).                               *)
NoneAfterDelete == strays = {}

(* The variables keep their types, no producer is lost by an exit, and none *)
(* is touched when it is gone, but by a walk that a deletion may overtake   *)
(* (concurrentqueue.h:588-590, 604-606, 612-617, 3562).                     *)
ExitClean == ExitTypeOK /\ NoneLeftBehind /\ (DeleteAnytime \/ NoneAfterDelete)

(* A queue is deleted in the end, and an exit comes to its end, whatever    *)
(* the other does meanwhile (concurrentqueue.h:587, 612, 2439-2441).        *)
Leaving(t) == phase[t] \in {"unchain", "callback", "onward"}
BeingDeleted(q) == state[q] = "deleting"
BothEnd ==
    /\ \A t \in Users : Leaving(t) ~> ~Leaving(t)
    /\ \A q \in Queues : BeingDeleted(q) ~> ~BeingDeleted(q)
=============================================================================

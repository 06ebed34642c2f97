------------------------ MODULE LightweightSemaphore ------------------------
(***************************************************************************)
(* moodycamel/lightweightsemaphore.h: a counter in front of a semaphore of *)
(* the operating system.  The counter is the number of free permits or,    *)
(* below zero, of threads for whom none has been signalled.  A thread that *)
(* finds the counter at or below zero registers by decrementing it and     *)
(* waits for a post; a signal posts once per registered thread it serves.  *)
(* A timed wait that expires must take back its registration, unless its   *)
(* post is already on the way.                                             *)
(*                                                                         *)
(* An operation on an atomic variable is one step; a loop of load and      *)
(* compare_exchange is the step of the exchange that succeeds.             *)
(***************************************************************************)
EXTENDS Integers, FiniteSets

CONSTANTS
    Threads,
    MaxWant,     \* the most permits asked for or signalled in one call
    MaxSignals,  \* bound: permits signalled in a behaviour
    Waits        \* the timeouts used: subset of {"timed", "forever"}

ASSUME LightweightAssumption ==
    /\ IsFiniteSet(Threads) /\ MaxWant \in Nat \ {0} /\ MaxSignals \in Nat
    /\ Waits \subseteq {"timed", "forever"}

VARIABLES
    m_count,   \* the counter
    m_sema,    \* posts of the operating system's semaphore nobody has taken
    pc,        \* where each thread is
    max,       \* its call asks for up to this many permits
    timeout,   \* of its call
    posts,     \* posts its signal has still to make
    signalled  \* permits signalled so far

control == <<pc, max, timeout, posts>>
vars == <<m_count, m_sema, control, signalled>>

Init ==
    /\ m_count = 0 /\ m_sema = 0 /\ signalled = 0
    /\ pc = [t \in Threads |-> "idle"]
    /\ max = [t \in Threads |-> 0] /\ posts = [t \in Threads |-> 0]
    /\ timeout = [t \in Threads |-> "timed"]

Goto(t, l) == pc' = [pc EXCEPT ![t] = l]
Least(a, b) == IF a < b THEN a ELSE b

(* A thread has one permit: a waitMany looks for more.                      *)
HaveOne(t) == Goto(t, IF max[t] > 1 THEN "more" ELSE "idle")

-----------------------------------------------------------------------------
(* wait and waitMany: tryWait or tryWaitMany finds no permit.               *)
Call(t) ==
    /\ pc[t] = "idle"
    /\ m_count <= 0
    /\ \E n \in 1..MaxWant, w \in Waits :
          max' = [max EXCEPT ![t] = n] /\ timeout' = [timeout EXCEPT ![t] = w]
    /\ Goto(t, "spin")
    /\ UNCHANGED <<m_count, m_sema, posts, signalled>>

(* tryWait, tryWaitMany, or a call of wait whose first attempt succeeds.    *)
TryWaitMany(t) ==
    /\ pc[t] = "idle"
    /\ m_count > 0
    /\ \E n \in 1..MaxWant : m_count' = m_count - Least(n, m_count)
    /\ UNCHANGED <<m_sema, control, signalled>>

(* An exchange of the spinning loop succeeds.                               *)
SpinTake(t) ==
    /\ pc[t] = "spin"
    /\ m_count > 0
    /\ m_count' = m_count - Least(max[t], m_count)
    /\ Goto(t, "idle")
    /\ UNCHANGED <<m_sema, max, timeout, posts, signalled>>

(* The loop is over: fetch_sub takes a permit or registers the thread.      *)
Register(t) ==
    /\ pc[t] = "spin"
    /\ m_count' = m_count - 1
    /\ IF m_count > 0 THEN HaveOne(t)
       ELSE Goto(t, "blocked")
    /\ UNCHANGED <<m_sema, max, timeout, posts, signalled>>

(* m_sema.wait() or timed_wait() takes a post.                              *)
Wake(t) ==
    /\ pc[t] = "blocked"
    /\ m_sema > 0
    /\ m_sema' = m_sema - 1
    /\ HaveOne(t)
    /\ UNCHANGED <<m_count, max, timeout, posts, signalled>>

(* A timeout of zero expires without a wait.                                *)
Expire(t) ==
    /\ pc[t] = "blocked"
    /\ timeout[t] = "timed"
    /\ Goto(t, "expired")
    /\ UNCHANGED <<m_count, m_sema, max, timeout, posts, signalled>>

(* Slip: the registration is taken back although it has been served.        *)
UnregisterAlways(t) ==
    /\ pc[t] = "expired"
    /\ m_count' = m_count + 1
    /\ Goto(t, "idle")
    /\ UNCHANGED <<m_sema, max, timeout, posts, signalled>>

(* The loop after a timeout: nobody has served the thread.                  *)
Unregister(t) ==
    /\ pc[t] = "expired"
    /\ m_count < 0
    /\ m_count' = m_count + 1
    /\ Goto(t, "idle")
    /\ UNCHANGED <<m_sema, max, timeout, posts, signalled>>

(* The loaded count is not negative: a post must be on its way.             *)
SeeServed(t) ==
    /\ pc[t] = "expired"
    /\ m_count >= 0
    /\ Goto(t, "served")
    /\ UNCHANGED <<m_count, m_sema, max, timeout, posts, signalled>>

(* m_sema.try_wait() succeeds, or the loop begins again.                    *)
TryPost(t) ==
    /\ pc[t] = "served"
    /\ IF m_sema > 0
       THEN m_sema' = m_sema - 1 /\ HaveOne(t)
       ELSE Goto(t, "expired") /\ UNCHANGED m_sema
    /\ UNCHANGED <<m_count, max, timeout, posts, signalled>>

(* tryWaitMany(max - 1) at the end of waitManyWithPartialSpinning.          *)
TakeMore(t) ==
    /\ pc[t] = "more"
    /\ m_count' = IF m_count > 0 THEN m_count - Least(max[t] - 1, m_count) ELSE m_count
    /\ Goto(t, "idle")
    /\ UNCHANGED <<m_sema, max, timeout, posts, signalled>>

-----------------------------------------------------------------------------
(* Slip: one post per signal that finds waiters, however many it serves.    *)
SignalOnePost(t) ==
    /\ pc[t] = "idle"
    /\ \E n \in 1..MaxWant :
          /\ signalled + n <= MaxSignals
          /\ signalled' = signalled + n
          /\ m_count' = m_count + n
          /\ posts' = [posts EXCEPT ![t] = IF m_count < 0 THEN 1 ELSE 0]
          /\ Goto(t, IF m_count < 0 THEN "post" ELSE "idle")
    /\ UNCHANGED <<m_sema, max, timeout>>

(* signal(n): fetch_add, then a post for each registered thread it serves.  *)
Signal(t) ==
    /\ pc[t] = "idle"
    /\ \E n \in 1..MaxWant :
          LET toRelease == Least(-m_count, n) IN
          /\ signalled + n <= MaxSignals
          /\ signalled' = signalled + n
          /\ m_count' = m_count + n
          /\ posts' = [posts EXCEPT ![t] = IF toRelease > 0 THEN toRelease ELSE 0]
          /\ Goto(t, IF toRelease > 0 THEN "post" ELSE "idle")
    /\ UNCHANGED <<m_sema, max, timeout>>

Post(t) ==
    /\ pc[t] = "post"
    /\ m_sema' = m_sema + 1
    /\ posts' = [posts EXCEPT ![t] = @ - 1]
    /\ Goto(t, IF posts[t] > 1 THEN "post" ELSE "idle")
    /\ UNCHANGED <<m_count, max, timeout, signalled>>

-----------------------------------------------------------------------------
(* The steps with which a call goes on once it has begun.                   *)
Run(t) ==
    \/ SpinTake(t) \/ Register(t) \/ Wake(t) \/ Unregister(t)
    \/ SeeServed(t) \/ TryPost(t) \/ TakeMore(t) \/ Post(t)

Next == \E t \in Threads : Call(t) \/ TryWaitMany(t) \/ Signal(t) \/ Expire(t) \/ Run(t)

Spec == Init /\ [][Next]_vars

(* Each thread runs.  A timed wait need not expire.                         *)
FairSpec == Spec /\ \A t \in Threads : WF_vars(Run(t))

-----------------------------------------------------------------------------
Registered == {t \in Threads : pc[t] \in {"blocked", "expired", "served"}}

TypeOK ==
    /\ m_count \in Int /\ m_sema \in Nat
    /\ pc \in [Threads -> {"idle", "spin", "blocked", "expired", "served", "more", "post"}]
    /\ max \in [Threads -> 0..MaxWant] /\ posts \in [Threads -> 0..MaxWant]
    /\ timeout \in [Threads -> {"timed", "forever"}]
    /\ signalled \in 0..MaxSignals
    /\ \A t \in Threads : posts[t] > 0 <=> pc[t] = "post"

(* Posts still to make, each as its thread and its number.                  *)
Pending == {tp \in Threads \X (1..MaxWant) : tp[2] <= posts[tp[1]]}

(* The posts, made or still to make, are exactly those that registered      *)
(* threads will take: a timeout that races a signal neither leaves a post   *)
(* behind for a thread that never registered nor takes one that belongs to  *)
(* another (lightweightsemaphore.h:300-311, 333-342, 409-418).              *)
PostsMatchWaiters ==
    m_sema + Cardinality(Pending) = Cardinality(Registered) + Least(m_count, 0)

(* The semaphore keeps its books, whatever timeouts race whatever signals   *)
(* (lightweightsemaphore.h:300-311, 333-342, 409-418).                      *)
PermitsSettled == TypeOK /\ PostsMatchWaiters

(* No thread stays blocked while permits are left over: as long as the      *)
(* count says that everyone has been served, each blocked thread leaves     *)
(* (lightweightsemaphore.h:293-299, 409-418).                               *)
Asleep(t) == pc[t] = "blocked" /\ m_count >= 0
NoLostWakeup == \A t \in Threads : Asleep(t) ~> ~Asleep(t)

(* A wait whose time is over returns, with or without a permit: the loop    *)
(* that takes back its registration ends (lightweightsemaphore.h:300-311).  *)
TimedOut(t) == pc[t] \in {"expired", "served"}
TimeoutsReturn == \A t \in Threads : TimedOut(t) ~> ~TimedOut(t)

Waiting(t) == pc[t] \in {"spin", "blocked", "expired", "served"}
permits == m_count + Cardinality(Registered)
asking == [t \in Threads |-> IF Waiting(t) THEN max[t] ELSE 0]
patient == {t \in Threads : Waiting(t) /\ timeout[t] = "forever"}
Abstract == INSTANCE Semaphore

(* The semaphore implements Semaphore: no permit is taken that was not      *)
(* signalled, and none is kept from threads that wait without a timeout     *)
(* (lightweightsemaphore.h:278-349, 357-418).                               *)
ImplementsSemaphore == Abstract!Spec
=============================================================================

------------------------ MODULE QueueProgressProofs -------------------------
(***************************************************************************)
(* The parts of the queue in which somebody waits: the semaphore keeps its *)
(* books, and is a counter of permits, for any finite set of threads; and  *)
(* the threads that exit, and the queues that are deleted meanwhile, leave *)
(* no producer behind, whatever threads, producers and queues there are.   *)
(***************************************************************************)
EXTENDS LightweightSemaphore, ThreadExit, FiniteSetTheorems, TLAPS

(* What a call remembers: how many permits it asks for, and that only a     *)
(* timed wait can be over.                                                  *)
CallInv ==
    \A t \in Threads :
        /\ Waiting(t) => max[t] >= 1
        /\ pc[t] = "more" => max[t] >= 2
        /\ pc[t] \in {"expired", "served"} => timeout[t] = "timed"

Inv == TypeOK /\ PostsMatchWaiters /\ CallInv

-----------------------------------------------------------------------------
(* The sets that are counted are finite.                                    *)
LEMMA Finite ==
    /\ IsFiniteSet(Registered) /\ Cardinality(Registered) \in Nat
    /\ IsFiniteSet(Pending) /\ Cardinality(Pending) \in Nat
<1>1. IsFiniteSet(Threads) /\ IsFiniteSet(1..MaxWant)
  BY LightweightAssumption, FS_Interval
<1>2. IsFiniteSet(Threads \X (1..MaxWant))
  BY <1>1, FS_Product
<1>3. IsFiniteSet(Registered) /\ IsFiniteSet(Pending)
  BY <1>1, <1>2, FS_Subset DEF Registered, Pending
<1> QED
  BY <1>3, FS_CardinalityType

LEMMA FiniteNext ==
    /\ IsFiniteSet(Registered') /\ Cardinality(Registered') \in Nat
    /\ IsFiniteSet(Pending') /\ Cardinality(Pending') \in Nat
<1>1. IsFiniteSet(Threads) /\ IsFiniteSet(1..MaxWant)
  BY LightweightAssumption, FS_Interval
<1>2. IsFiniteSet(Threads \X (1..MaxWant))
  BY <1>1, FS_Product
<1>3. IsFiniteSet(Registered') /\ IsFiniteSet(Pending')
  BY <1>1, <1>2, FS_Subset DEF Registered, Pending
<1> QED
  BY <1>3, FS_CardinalityType

(* A thread registers, and takes back its registration or is served.        *)
LEMMA Registers ==
    ASSUME TypeOK, NEW t \in Threads, NEW l, l \in {"blocked", "expired", "served"},
           pc[t] \notin {"blocked", "expired", "served"}, Goto(t, l)
    PROVE  Cardinality(Registered') = Cardinality(Registered) + 1
<1>1. Registered' = Registered \cup {t} /\ t \notin Registered
  BY DEF Registered, Goto, TypeOK
<1> QED
  BY <1>1, Finite, FS_AddElement

LEMMA Leaves ==
    ASSUME TypeOK, NEW t \in Threads, NEW l, l \notin {"blocked", "expired", "served"},
           pc[t] \in {"blocked", "expired", "served"}, Goto(t, l)
    PROVE  Cardinality(Registered') = Cardinality(Registered) - 1
<1>1. Registered' = Registered \ {t} /\ t \in Registered
  BY DEF Registered, Goto, TypeOK
<1> QED
  BY <1>1, Finite, FS_RemoveElement

LEMMA Stays ==
    ASSUME TypeOK, NEW t \in Threads, NEW l, Goto(t, l),
           l \in {"blocked", "expired", "served"} <=> pc[t] \in {"blocked", "expired", "served"}
    PROVE  Registered' = Registered
BY DEF Registered, Goto, TypeOK

(* A signal that has n posts to make, and a post that is made.              *)
LEMMA PostsBegin ==
    ASSUME TypeOK, NEW t \in Threads, posts[t] = 0, NEW n \in 0..MaxWant,
           posts' = [posts EXCEPT ![t] = n]
    PROVE  Cardinality(Pending') = Cardinality(Pending) + n
<1> DEFINE New == {t} \X (1..n)
<1>1. Pending' = Pending \cup New /\ Pending \cap New = {}
  <2>1. \A u \in Threads : posts'[u] = IF u = t THEN n ELSE posts[u]
    BY DEF TypeOK
  <2>2. ASSUME NEW tp \in Threads \X (1..MaxWant)
        PROVE  tp[2] <= posts'[tp[1]] <=> tp[2] <= posts[tp[1]] \/ tp \in New
    <3>1. PICK u \in Threads, i \in 1..MaxWant : tp = <<u, i>>
      OBVIOUS
    <3>2. posts[u] \in 0..MaxWant
      BY DEF TypeOK
    <3>3. CASE u = t
      BY <2>1, <3>1, <3>3
    <3>4. CASE u # t
      BY <2>1, <3>1, <3>4
    <3> QED
      BY <3>3, <3>4
  <2>3. New \subseteq Threads \X (1..MaxWant)
    BY LightweightAssumption
  <2>4. \A tp \in New : tp \notin Pending
    BY DEF Pending
  <2> HIDE DEF New
  <2> QED
    BY <2>2, <2>3, <2>4 DEF Pending
<1>2. IsFiniteSet(New) /\ Cardinality(New) = n
  <2>1. IsFiniteSet(1..n) /\ Cardinality(1..n) = n
    BY FS_Interval
  <2>2. IsFiniteSet({t}) /\ Cardinality({t}) = 1
    BY FS_Singleton
  <2> QED
    BY <2>1, <2>2, FS_Product
<1>3. Cardinality(Pending \cap New) = 0
  BY <1>1, FS_EmptySet
<1> HIDE DEF New
<1>4. Cardinality(Pending \cup New)
        = Cardinality(Pending) + Cardinality(New) - Cardinality(Pending \cap New)
  BY <1>2, Finite, FS_Union
<1> QED
  BY <1>1, <1>2, <1>3, <1>4, Finite

LEMMA PostMade ==
    ASSUME TypeOK, NEW t \in Threads, posts[t] > 0, posts' = [posts EXCEPT ![t] = @ - 1]
    PROVE  Cardinality(Pending') = Cardinality(Pending) - 1
<1>1. Pending' = Pending \ {<<t, posts[t]>>} /\ <<t, posts[t]>> \in Pending
  <2>1. \A u \in Threads : posts'[u] = IF u = t THEN posts[t] - 1 ELSE posts[u]
    BY DEF TypeOK
  <2>2. posts[t] \in 1..MaxWant
    BY DEF TypeOK
  <2>3. <<t, posts[t]>> \in Pending
    BY <2>2 DEF Pending
  <2>4. ASSUME NEW tp \in Threads \X (1..MaxWant)
        PROVE  tp[2] <= posts'[tp[1]] <=> tp[2] <= posts[tp[1]] /\ tp # <<t, posts[t]>>
    <3>1. tp = <<tp[1], tp[2]>> /\ tp[1] \in Threads /\ tp[2] \in 1..MaxWant
      OBVIOUS
    <3>2. posts[tp[1]] \in Int
      BY <3>1 DEF TypeOK
    <3> QED
      BY <2>1, <2>2, <3>1, <3>2
  <2> QED
    BY <2>3, <2>4 DEF Pending
<1> QED
  BY <1>1, Finite, FS_RemoveElement
-----------------------------------------------------------------------------
LEMMA InitInv == Init => Inv
<1> SUFFICES ASSUME Init PROVE Inv
  OBVIOUS
<1>1. Registered = {} /\ Pending = {}
  BY DEF Init, Registered, Pending
<1>2. PostsMatchWaiters
  BY <1>1, FS_EmptySet DEF Init, PostsMatchWaiters, Least
<1> QED
  BY <1>2, LightweightAssumption DEF Init, Inv, TypeOK, CallInv, Waiting

(* A step that neither registers a thread nor serves one, and keeps the     *)
(* debt of the counter, if it has one.                                      *)
LEMMA BooksKept ==
    ASSUME Inv, Registered' = Registered, UNCHANGED <<m_sema, posts>>,
           m_count' = m_count \/ (m_count >= 0 /\ m_count' >= 0 /\ m_count' \in Int)
    PROVE  PostsMatchWaiters'
<1>1. Pending' = Pending
  BY DEF Pending
<1>2. Least(m_count, 0) = Least(m_count', 0)
  BY DEF Inv, TypeOK, Least
<1> QED
  BY <1>1, <1>2 DEF Inv, PostsMatchWaiters, Least

(* The waiters.                                                             *)
LEMMA WaiterStep ==
    ASSUME Inv, NEW t \in Threads,
           \/ Call(t) \/ TryWaitMany(t) \/ SpinTake(t) \/ Register(t) \/ Wake(t)
           \/ Expire(t) \/ Unregister(t) \/ SeeServed(t) \/ TryPost(t) \/ TakeMore(t)
    PROVE  Inv'
<1> USE LightweightAssumption DEF HaveOne, Goto
<1>1. CASE Call(t)
  <2>1. PostsMatchWaiters'
    BY <1>1, Stays, BooksKept DEF Call, Inv
  <2> QED
    BY <1>1, <2>1 DEF Call, Inv, TypeOK, CallInv, Waiting
<1>2. CASE TryWaitMany(t)
  <2>1. m_count' \in Int /\ m_count' >= 0
    BY <1>2 DEF TryWaitMany, Least, Inv, TypeOK
  <2>2. PostsMatchWaiters'
    BY <1>2, <2>1, BooksKept DEF TryWaitMany, Inv, TypeOK, control, Registered
  <2> QED
    BY <1>2, <2>1, <2>2 DEF TryWaitMany, Inv, TypeOK, CallInv, Waiting, control
<1>3. CASE SpinTake(t)
  <2>1. m_count' \in Int /\ m_count' >= 0
    BY <1>3 DEF SpinTake, Least, Inv, TypeOK
  <2>2. PostsMatchWaiters'
    <3>1. Registered' = Registered
      BY <1>3 DEF SpinTake, Registered, Inv, TypeOK
    <3> QED
      BY <1>3, <2>1, <3>1, BooksKept DEF SpinTake, Inv, TypeOK
  <2> QED
    BY <1>3, <2>1, <2>2 DEF SpinTake, Inv, TypeOK, CallInv, Waiting
<1>4. CASE Register(t)
  <2>1. PostsMatchWaiters'
    <3>1. CASE m_count > 0
      <4>1. Registered' = Registered
        BY <1>4, <3>1 DEF Register, Registered, Inv, TypeOK
      <4> QED
        BY <1>4, <3>1, <4>1, BooksKept DEF Register, Inv, TypeOK
    <3>2. CASE ~(m_count > 0)
      <4>1. Cardinality(Registered') = Cardinality(Registered) + 1
        BY <1>4, <3>2, Registers DEF Register, Inv
      <4>2. Pending' = Pending
        BY <1>4 DEF Register, Pending
      <4> QED
        BY <1>4, <3>2, <4>1, <4>2, Finite
           DEF Register, Inv, TypeOK, PostsMatchWaiters, Least
    <3> QED
      BY <3>1, <3>2
  <2> QED
    BY <1>4, <2>1 DEF Register, Inv, TypeOK, CallInv, Waiting
<1>5. CASE Wake(t)
  <2>1. Cardinality(Registered') = Cardinality(Registered) - 1
    <3>1. PICK l \in {"more", "idle"} : Goto(t, l)
      BY <1>5 DEF Wake
    <3> QED
      BY <1>5, <3>1, Leaves DEF Wake, Inv
  <2>2. Pending' = Pending
    BY <1>5 DEF Wake, Pending
  <2>3. PostsMatchWaiters'
    BY <1>5, <2>1, <2>2, Finite DEF Wake, Inv, TypeOK, PostsMatchWaiters, Least
  <2> QED
    BY <1>5, <2>3 DEF Wake, Inv, TypeOK, CallInv, Waiting
<1>6. CASE Expire(t)
  <2>1. PostsMatchWaiters'
    BY <1>6, Stays, BooksKept DEF Expire, Inv
  <2> QED
    BY <1>6, <2>1 DEF Expire, Inv, TypeOK, CallInv, Waiting
<1>7. CASE Unregister(t)
  <2>1. Cardinality(Registered') = Cardinality(Registered) - 1
    BY <1>7, Leaves DEF Unregister, Inv
  <2>2. Pending' = Pending
    BY <1>7 DEF Unregister, Pending
  <2>3. PostsMatchWaiters'
    BY <1>7, <2>1, <2>2, Finite DEF Unregister, Inv, TypeOK, PostsMatchWaiters, Least
  <2> QED
    BY <1>7, <2>3 DEF Unregister, Inv, TypeOK, CallInv, Waiting
<1>8. CASE SeeServed(t)
  <2>1. PostsMatchWaiters'
    BY <1>8, Stays, BooksKept DEF SeeServed, Inv
  <2> QED
    BY <1>8, <2>1 DEF SeeServed, Inv, TypeOK, CallInv, Waiting
<1>9. CASE TryPost(t)
  <2>1. PostsMatchWaiters'
    <3>1. CASE m_sema > 0
      <4>1. Cardinality(Registered') = Cardinality(Registered) - 1
        BY <1>9, <3>1, Leaves DEF TryPost, Inv
      <4>2. Pending' = Pending
        BY <1>9 DEF TryPost, Pending
      <4> QED
        BY <1>9, <3>1, <4>1, <4>2, Finite
           DEF TryPost, Inv, TypeOK, PostsMatchWaiters, Least
    <3>2. CASE ~(m_sema > 0)
      <4>1. Registered' = Registered
        BY <1>9, <3>2 DEF TryPost, Registered, Inv, TypeOK
      <4> QED
        BY <1>9, <3>2, <4>1, BooksKept DEF TryPost
    <3> QED
      BY <3>1, <3>2
  <2> QED
    BY <1>9, <2>1 DEF TryPost, Inv, TypeOK, CallInv, Waiting
<1>10. CASE TakeMore(t)
  <2>1. m_count' = m_count \/ (m_count >= 0 /\ m_count' >= 0 /\ m_count' \in Int)
    BY <1>10 DEF TakeMore, Least, Inv, TypeOK
  <2>2. PostsMatchWaiters'
    BY <1>10, <2>1, Stays, BooksKept DEF TakeMore, Inv
  <2> QED
    BY <1>10, <2>1, <2>2 DEF TakeMore, Inv, TypeOK, CallInv, Waiting
<1> QED
  BY <1>1, <1>2, <1>3, <1>4, <1>5, <1>6, <1>7, <1>8, <1>9, <1>10

(* The signals: the debt of the counter that n permits pay is the number of *)
(* posts that are still to be made.                                         *)
LEMMA SignalStep ==
    ASSUME Inv, NEW t \in Threads, Signal(t) \/ Post(t)
    PROVE  Inv'
<1> USE LightweightAssumption DEF Goto
<1>1. CASE Signal(t)
  <2>1. PICK n \in 1..MaxWant :
          LET toRelease == Least(-m_count, n) IN
          /\ signalled + n <= MaxSignals
          /\ signalled' = signalled + n
          /\ m_count' = m_count + n
          /\ posts' = [posts EXCEPT ![t] = IF toRelease > 0 THEN toRelease ELSE 0]
          /\ Goto(t, IF toRelease > 0 THEN "post" ELSE "idle")
    BY <1>1 DEF Signal
  <2>2. PICK k \in 0..MaxWant :
          /\ k = IF Least(-m_count, n) > 0 THEN Least(-m_count, n) ELSE 0
          /\ posts' = [posts EXCEPT ![t] = k]
          /\ Goto(t, IF k > 0 THEN "post" ELSE "idle")
    <3> DEFINE k == IF Least(-m_count, n) > 0 THEN Least(-m_count, n) ELSE 0
    <3>1. k \in 0..MaxWant /\ (k > 0 <=> Least(-m_count, n) > 0)
      BY DEF Least, Inv, TypeOK
    <3> QED
      BY <2>1, <3>1
  <2>3. pc[t] = "idle" /\ posts[t] = 0 /\ UNCHANGED <<m_sema, max, timeout>>
    BY <1>1 DEF Signal, Inv, TypeOK
  <2>4. Cardinality(Pending') = Cardinality(Pending) + k
    BY <2>2, <2>3, PostsBegin DEF Inv
  <2>5. Registered' = Registered
    BY <2>2, <2>3, Stays DEF Inv
  <2>6. Least(m_count', 0) = Least(m_count, 0) + k
    BY <2>1, <2>2 DEF Least, Inv, TypeOK
  <2>7. PostsMatchWaiters'
    BY <2>3, <2>4, <2>5, <2>6, Finite DEF Inv, TypeOK, PostsMatchWaiters, Least
  <2>8. TypeOK'
    BY <2>1, <2>2, <2>3 DEF Inv, TypeOK
  <2>9. CallInv'
    BY <2>2, <2>3 DEF Inv, TypeOK, CallInv, Waiting
  <2> QED
    BY <2>7, <2>8, <2>9 DEF Inv
<1>2. CASE Post(t)
  <2>1. posts[t] > 0
    BY <1>2 DEF Post, Inv, TypeOK
  <2>2. Cardinality(Pending') = Cardinality(Pending) - 1
    BY <1>2, <2>1, PostMade DEF Post, Inv
  <2>3. Registered' = Registered
    BY <1>2, Stays DEF Post, Inv
  <2>4. PostsMatchWaiters'
    BY <1>2, <2>2, <2>3, Finite DEF Post, Inv, TypeOK, PostsMatchWaiters, Least
  <2>5. TypeOK'
    BY <1>2, <2>1 DEF Post, Inv, TypeOK
  <2> QED
    BY <1>2, <2>4, <2>5 DEF Post, Inv, TypeOK, CallInv, Waiting
<1> QED
  BY <1>1, <1>2

LEMMA NextInv == Inv /\ [Next]_vars => Inv'
<1> SUFFICES ASSUME Inv, [Next]_vars PROVE Inv'
  OBVIOUS
<1>1. CASE Next
  BY <1>1, WaiterStep, SignalStep DEF Next, Run
<1>2. CASE UNCHANGED vars
  BY <1>2 DEF vars, control, Inv, TypeOK, PostsMatchWaiters, CallInv, Waiting, Pending,
              Registered
<1> QED
  BY <1>1, <1>2

LEMMA AlwaysInv == Spec => []Inv
BY InitInv, NextInv, PTL DEF Spec

(* For any number of threads, whatever timeouts race whatever signals: the  *)
(* posts, made or still to make, are exactly those that registered threads  *)
(* will take (lightweightsemaphore.h:300-311, 333-342, 409-418).            *)
THEOREM BooksBalance == Spec => []PermitsSettled
<1>1. Inv => PermitsSettled
  BY DEF Inv, PermitsSettled
<1> QED
  BY <1>1, AlwaysInv, PTL
-----------------------------------------------------------------------------
(* The counter with the registered threads is a counter of permits.         *)

(* Where a post waits for a thread there is a permit; and there are never   *)
(* fewer permits than the counter says.                                     *)
LEMMA PermitsThere ==
    ASSUME Inv
    PROVE  /\ permits \in Nat /\ m_count <= permits
           /\ m_sema > 0 => permits >= 1
BY Finite DEF Inv, TypeOK, PostsMatchWaiters, permits, Least

(* What the abstract semaphore sees of a thread.                            *)
LEMMA AskingIs ==
    ASSUME NEW t \in Threads
    PROVE  /\ asking[t] = IF Waiting(t) THEN max[t] ELSE 0
           /\ t \in patient <=> Waiting(t) /\ timeout[t] = "forever"
BY DEF asking, patient

(* A step after which the thread waits no more, and the others as before.   *)
LEMMA StopsWaiting ==
    ASSUME TypeOK, NEW t \in Threads, UNCHANGED <<max, timeout>>,
           NEW l \in {"idle", "more", "post"}, Goto(t, l)
    PROVE  asking' = [asking EXCEPT ![t] = 0] /\ patient' = patient \ {t}
<1>1. \A u \in Threads : pc'[u] = IF u = t THEN l ELSE pc[u]
  BY DEF Goto, TypeOK
<1>2. \A u \in Threads : (Waiting(u))' <=> u # t /\ Waiting(u)
  BY <1>1 DEF Waiting
<1> QED
  BY <1>2 DEF asking, patient

(* A step in which a thread stays what it was, waiting or not.              *)
LEMMA KeepsWaiting ==
    ASSUME TypeOK, NEW t \in Threads, UNCHANGED <<max, timeout>>, NEW l, Goto(t, l),
           l \in {"spin", "blocked", "expired", "served"} <=> Waiting(t)
    PROVE  UNCHANGED <<asking, patient>>
<1>1. \A u \in Threads : pc'[u] = IF u = t THEN l ELSE pc[u]
  BY DEF Goto, TypeOK
<1>2. \A u \in Threads : (Waiting(u))' <=> Waiting(u)
  BY <1>1 DEF Waiting
<1> QED
  BY <1>2 DEF asking, patient

(* A waiting thread gets k permits.                                         *)
LEMMA GetsPermits ==
    ASSUME Inv, NEW t \in Threads, Waiting(t), UNCHANGED <<max, timeout>>,
           NEW l \in {"idle", "more"}, Goto(t, l),
           NEW k \in 1..max[t], k <= permits, permits' = permits - k
    PROVE  Abstract!Take(t)
<1>1. asking' = [asking EXCEPT ![t] = 0] /\ patient' = patient \ {t}
  BY StopsWaiting DEF Inv
<1>2. asking[t] = max[t]
  BY AskingIs
<1> QED
  BY <1>1, <1>2 DEF Abstract!Take

LEMMA WaiterRefines ==
    ASSUME Inv, NEW t \in Threads,
           \/ Call(t) \/ TryWaitMany(t) \/ SpinTake(t) \/ Register(t) \/ Wake(t)
           \/ Expire(t) \/ Unregister(t) \/ SeeServed(t) \/ TryPost(t) \/ TakeMore(t)
    PROVE  [Abstract!Next]_(Abstract!vars)
<1> USE LightweightAssumption DEF HaveOne
<1> SUFFICES \/ Abstract!Ask(t) \/ Abstract!Take(t) \/ Abstract!GiveUp(t)
             \/ Abstract!TakeMore(t) \/ UNCHANGED <<permits, asking, patient>>
  BY DEF Abstract!Next, Abstract!vars
<1>0. /\ TypeOK /\ CallInv /\ permits \in Nat /\ m_count \in Int /\ m_count <= permits
      /\ m_sema > 0 => permits >= 1
  BY PermitsThere DEF Inv, TypeOK
<1>1. CASE Call(t)
  <2>1. PICK n \in 1..MaxWant, w \in Waits :
          max' = [max EXCEPT ![t] = n] /\ timeout' = [timeout EXCEPT ![t] = w]
    BY <1>1 DEF Call
  <2>2. pc[t] = "idle" /\ Goto(t, "spin")
    BY <1>1 DEF Call
  <2>3. \A u \in Threads : (Waiting(u))' <=> u = t \/ Waiting(u)
    BY <2>2, <1>0 DEF Waiting, Goto, TypeOK
  <2>4. \A u \in Threads : u # t => max'[u] = max[u] /\ timeout'[u] = timeout[u]
    BY <2>1, <1>0 DEF TypeOK
  <2>5. max'[t] = n /\ ~Waiting(t)
    BY <2>1, <2>2, <1>0 DEF TypeOK, Waiting
  <2>6. asking' = [asking EXCEPT ![t] = n] /\ asking[t] = 0
    BY <2>3, <2>4, <2>5 DEF asking
  <2>7. patient' \in {patient, patient \union {t}}
    BY <2>3, <2>4, <2>5 DEF patient
  <2>8. permits' = permits
    <3>1. Registered' = Registered
      BY <2>2, <1>0, Stays
    <3> QED
      BY <1>1, <3>1 DEF Call, permits
  <2> QED
    BY <2>6, <2>7, <2>8 DEF Abstract!Ask
<1>2. CASE TryWaitMany(t)
  <2>1. PICK n \in 1..MaxWant : m_count' = m_count - Least(n, m_count)
    BY <1>2 DEF TryWaitMany
  <2>2. m_count > 0 /\ pc[t] = "idle" /\ UNCHANGED control
    BY <1>2 DEF TryWaitMany
  <2>3. Least(n, m_count) \in 1..MaxWant /\ Least(n, m_count) <= permits
    BY <1>0, <2>2 DEF Least
  <2>4. permits' = permits - Least(n, m_count)
    <3>1. Registered' = Registered
      BY <2>2 DEF Registered, control
    <3> QED
      BY <2>1, <2>3, <3>1, <1>0, Finite DEF permits
  <2>5. asking[t] = 0 /\ UNCHANGED <<asking, patient>>
    BY <2>2, AskingIs DEF Waiting, asking, patient, control
  <2> QED
    BY <2>3, <2>4, <2>5 DEF Abstract!TakeMore
<1>3. CASE SpinTake(t)
  <2>1. /\ Waiting(t) /\ m_count > 0 /\ m_count' = m_count - Least(max[t], m_count)
        /\ Goto(t, "idle") /\ UNCHANGED <<max, timeout>>
    BY <1>3 DEF SpinTake, Waiting
  <2>2. Least(max[t], m_count) \in 1..max[t] /\ Least(max[t], m_count) <= permits
    BY <1>0, <2>1 DEF Least, CallInv, TypeOK
  <2>3. permits' = permits - Least(max[t], m_count)
    <3>1. Registered' = Registered
      BY <1>3, <1>0, Stays DEF SpinTake
    <3> QED
      BY <2>1, <2>2, <3>1, <1>0, Finite DEF permits
  <2> QED
    BY <2>1, <2>2, <2>3, GetsPermits
<1>4. CASE Register(t)
  <2>1. /\ Waiting(t) /\ pc[t] = "spin" /\ m_count' = m_count - 1 /\ UNCHANGED <<max, timeout>>
        /\ max[t] >= 1 /\ max[t] \in Int
    BY <1>4, <1>0 DEF Register, Waiting, CallInv, TypeOK
  <2>2. CASE m_count > 0
    <3>1. PICK l \in {"idle", "more"} : Goto(t, l)
      BY <1>4, <2>2 DEF Register
    <3>2. Registered' = Registered
      BY <2>1, <3>1, <1>0, Stays
    <3>3. permits' = permits - 1
      BY <2>1, <3>2, <1>0, Finite DEF permits
    <3> QED
      BY <2>1, <2>2, <3>1, <3>3, <1>0, GetsPermits
  <2>3. CASE ~(m_count > 0)
    <3>1. Goto(t, "blocked")
      BY <1>4, <2>3 DEF Register
    <3>2. Cardinality(Registered') = Cardinality(Registered) + 1
      BY <2>1, <3>1, <1>0, Registers
    <3>3. permits' = permits
      BY <2>1, <3>2, <1>0, Finite DEF permits
    <3> QED
      BY <2>1, <3>1, <3>3, <1>0, KeepsWaiting
  <2> QED
    BY <2>2, <2>3
<1>5. CASE Wake(t) \/ (TryPost(t) /\ m_sema > 0)
  <2>1. /\ Waiting(t) /\ pc[t] \in {"blocked", "served"} /\ m_sema > 0
        /\ m_count' = m_count /\ UNCHANGED <<max, timeout>>
        /\ max[t] >= 1 /\ max[t] \in Int
    BY <1>5, <1>0 DEF Wake, TryPost, Waiting, CallInv, TypeOK
  <2>2. PICK l \in {"idle", "more"} : Goto(t, l)
    BY <1>5 DEF Wake, TryPost
  <2>3. Cardinality(Registered') = Cardinality(Registered) - 1
    BY <2>1, <2>2, <1>0, Leaves
  <2>4. permits' = permits - 1
    BY <2>1, <2>3, <1>0, Finite DEF permits
  <2> QED
    BY <2>1, <2>2, <2>4, <1>0, GetsPermits
<1>6. CASE Expire(t) \/ SeeServed(t) \/ (TryPost(t) /\ ~(m_sema > 0))
  <2>1. /\ pc[t] \in {"blocked", "expired", "served"} /\ UNCHANGED <<max, timeout, m_count>>
    BY <1>6 DEF Expire, SeeServed, TryPost
  <2>2. PICK l \in {"expired", "served"} : Goto(t, l)
    BY <1>6 DEF Expire, SeeServed, TryPost
  <2>3. Registered' = Registered
    BY <2>1, <2>2, <1>0, Stays
  <2>4. UNCHANGED <<asking, patient>>
    BY <2>1, <2>2, <1>0, KeepsWaiting DEF Waiting
  <2> QED
    BY <2>1, <2>3, <2>4 DEF permits
<1>7. CASE Unregister(t)
  <2>1. /\ pc[t] = "expired" /\ Waiting(t) /\ m_count' = m_count + 1 /\ Goto(t, "idle")
        /\ UNCHANGED <<max, timeout>> /\ max[t] >= 1 /\ timeout[t] = "timed"
    BY <1>7, <1>0 DEF Unregister, Waiting, CallInv
  <2>2. Cardinality(Registered') = Cardinality(Registered) - 1
    BY <2>1, <1>0, Leaves
  <2>3. permits' = permits
    BY <2>1, <2>2, <1>0, Finite DEF permits
  <2>4. asking' = [asking EXCEPT ![t] = 0] /\ patient' = patient \ {t}
    BY <2>1, <1>0, StopsWaiting
  <2>5. asking[t] > 0 /\ t \notin patient
    BY <2>1, <1>0, AskingIs DEF TypeOK
  <2> QED
    BY <2>3, <2>4, <2>5 DEF Abstract!GiveUp
<1>8. CASE TakeMore(t)
  <2>1. /\ ~Waiting(t) /\ pc[t] = "more" /\ Goto(t, "idle") /\ UNCHANGED <<max, timeout>>
        /\ max[t] \in 2..MaxWant
    BY <1>8, <1>0 DEF TakeMore, Waiting, CallInv, TypeOK
  <2>2. Registered' = Registered
    BY <2>1, <1>0, Stays
  <2>3. UNCHANGED <<asking, patient>> /\ asking[t] = 0
    BY <2>1, <1>0, KeepsWaiting, AskingIs
  <2>4. CASE m_count > 0
    <3>1. Least(max[t] - 1, m_count) \in 1..MaxWant /\ Least(max[t] - 1, m_count) <= permits
      BY <2>1, <2>4, <1>0 DEF Least
    <3>2. permits' = permits - Least(max[t] - 1, m_count)
      BY <1>8, <2>2, <2>4, <3>1, <1>0, Finite DEF TakeMore, permits
    <3> QED
      BY <2>3, <3>1, <3>2 DEF Abstract!TakeMore
  <2>5. CASE ~(m_count > 0)
    BY <1>8, <2>2, <2>3, <2>5 DEF TakeMore, permits
  <2> QED
    BY <2>4, <2>5
<1> QED
  BY <1>1, <1>2, <1>3, <1>4, <1>5, <1>6, <1>7, <1>8

LEMMA SignalRefines ==
    ASSUME Inv, NEW t \in Threads, Signal(t) \/ Post(t)
    PROVE  [Abstract!Next]_(Abstract!vars)
<1>0. TypeOK
  BY DEF Inv
<1>1. CASE Signal(t)
  <2>1. PICK n \in 1..MaxWant : m_count' = m_count + n
    BY <1>1 DEF Signal
  <2>2. PICK l \in {"post", "idle"} : Goto(t, l)
    BY <1>1 DEF Signal
  <2>3. pc[t] = "idle" /\ UNCHANGED <<max, timeout>>
    BY <1>1 DEF Signal
  <2>4. Registered' = Registered
    BY <2>2, <2>3, <1>0, Stays
  <2>5. UNCHANGED <<asking, patient>>
    BY <2>2, <2>3, <1>0, KeepsWaiting DEF Waiting
  <2>6. permits' = permits + n
    BY <2>1, <2>4, <1>0, Finite, LightweightAssumption DEF permits, TypeOK
  <2> QED
    BY <2>5, <2>6 DEF Abstract!Signal, Abstract!Next
<1>2. CASE Post(t)
  <2>1. PICK l \in {"post", "idle"} : Goto(t, l)
    BY <1>2 DEF Post
  <2>2. pc[t] = "post" /\ UNCHANGED <<max, timeout, m_count>>
    BY <1>2 DEF Post
  <2>3. Registered' = Registered
    BY <2>1, <2>2, <1>0, Stays
  <2>4. UNCHANGED <<asking, patient>>
    BY <2>1, <2>2, <1>0, KeepsWaiting DEF Waiting
  <2> QED
    BY <2>2, <2>3, <2>4 DEF permits, Abstract!vars
<1> QED
  BY <1>1, <1>2

LEMMA StepRefines == Inv /\ [Next]_vars => [Abstract!Next]_(Abstract!vars)
<1> SUFFICES ASSUME Inv, [Next]_vars PROVE [Abstract!Next]_(Abstract!vars)
  OBVIOUS
<1>1. CASE Next
  BY <1>1, WaiterRefines, SignalRefines DEF Next, Run
<1>2. CASE UNCHANGED vars
  BY <1>2 DEF vars, control, Abstract!vars, permits, asking, patient, Waiting, Registered
<1> QED
  BY <1>1, <1>2

LEMMA InitRefines == Init => Abstract!Init
<1> SUFFICES ASSUME Init PROVE Abstract!Init
  OBVIOUS
<1>1. Registered = {} /\ \A t \in Threads : ~Waiting(t)
  BY DEF Init, Registered, Waiting
<1>2. permits = 0
  BY <1>1, FS_EmptySet DEF Init, permits
<1>3. asking = [t \in Threads |-> 0] /\ patient = {}
  BY <1>1 DEF asking, patient
<1> QED
  BY <1>2, <1>3 DEF Abstract!Init

(* For any number of threads: no permit is taken that was not signalled,    *)
(* none is lost to a timeout, and no wait that has no timeout returns       *)
(* without one (lightweightsemaphore.h:278-349, 357-418).                   *)
THEOREM CountsPermits == Spec => Abstract!Init /\ [][Abstract!Next]_(Abstract!vars)
BY InitRefines, StepRefines, AlwaysInv, PTL DEF Spec

-----------------------------------------------------------------------------
(* ThreadExit: the producers that the pointers f lead to from x, as the     *)
(* least set that holds x and is closed under f.                            *)
Reach(f, x) ==
    {n \in Listeners : \A S \in SUBSET Listeners :
        (x = Null \/ x \in S) /\ (\A m \in S : f[m] \in S \union {Null}) => n \in S}

Pointers == [Listeners -> Listeners \cup {Null}]

(* Where the chain of a thread begins, or what is left of it at its exit.   *)
Walks == {"unchain", "callback", "onward"}
Rest ==
    [t \in Users |->
        IF phase[t] = "unchain" THEN ptr[t]
        ELSE IF phase[t] \in {"callback", "onward"} THEN next[ptr[t]]
        ELSE IF phase[t] = "exited" THEN Null
        ELSE tail[t]]

Chained(t) == {p \in Listeners : chain[p] = t}

(* The one who walks holds the mutex.                                       *)
MutexInv == \A t \in Users : mutex = t <=> phase[t] \in Walks

(* The rest of a chain is the listeners of the thread, each once.           *)
ChainInv == \A t \in Users : Reach(next, Rest[t]) = Chained(t)
Acyclic == \A p \in Listeners : chain[p] # Null => p \notin Reach(next, next[p])

(* A producer that a thread is about to chain, or to give up.               *)
PlaceInv ==
    \A t \in Users :
        /\ phase[t] \in {"subscribe", "callback"} =>
               ptr[t] \notin inactive /\ owner[ptr[t]] = t /\ chain[ptr[t]] = Null
        /\ phase[t] = "subscribe" => state[QueueOf[ptr[t]]] = "alive"

(* A chained producer works for the thread of the chain, and one that works *)
(* is chained, but while it is put there or given up.                       *)
LinkedInv == \A p \in Listeners : chain[p] # Null => p \notin inactive /\ owner[p] = chain[p]
HeldInv ==
    \A p \in Listeners : p \notin inactive /\ p \notin freed =>
        /\ owner[p] \in Users
        /\ \/ chain[p] = owner[p]
           \/ phase[owner[p]] \in {"subscribe", "callback"} /\ ptr[owner[p]] = p

(* A deleted producer is in no chain, and nobody who walks has come to it,  *)
(* unless a deletion may overtake the walk.                                 *)
FreedInv ==
    \A p \in freed :
        /\ chain[p] = Null /\ state[QueueOf[p]] # "alive"
        /\ \A t \in Users : ptr[t] = p =>
               phase[t] # "callback" /\ (phase[t] = "onward" => DeleteAnytime)

DoomedInv ==
    \A q \in Queues : doomed[q] # Null =>
        QueueOf[doomed[q]] = q /\ doomed[q] \notin freed /\ state[q] = "deleting"

ExitInv ==
    /\ ExitTypeOK
    /\ MutexInv /\ ChainInv /\ Acyclic
    /\ PlaceInv /\ LinkedInv /\ HeldInv /\ FreedInv /\ DoomedInv
    /\ DeleteAnytime \/ strays = {}

(* What is reachable has the start and the successors of its own.           *)
LEMMA ReachClosed ==
    ASSUME NEW f \in Pointers, NEW x \in Listeners \cup {Null}
    PROVE  /\ Reach(f, x) \subseteq Listeners
           /\ x = Null \/ x \in Reach(f, x)
           /\ \A m \in Reach(f, x) : f[m] \in Reach(f, x) \union {Null}
<1>1. Reach(f, x) \subseteq Listeners /\ (x = Null \/ x \in Reach(f, x))
  BY DEF Reach
<1>2. ASSUME NEW m \in Reach(f, x), f[m] # Null
      PROVE  f[m] \in Reach(f, x)
  <2>1. m \in Listeners /\ f[m] \in Listeners
    BY <1>1, <1>2 DEF Pointers
  <2>2. SUFFICES ASSUME NEW S \in SUBSET Listeners, x = Null \/ x \in S,
                        \A k \in S : f[k] \in S \union {Null}
                 PROVE  f[m] \in S
    BY <2>1 DEF Reach
  <2>3. m \in S
    BY <2>2 DEF Reach
  <2> QED
    BY <2>2, <2>3, <1>2
<1> QED
  BY <1>1, <1>2

(* It is the least such set.                                                *)
LEMMA ReachLeast ==
    ASSUME NEW f, NEW x, NEW S \in SUBSET Listeners, x = Null \/ x \in S,
           \A m \in S : f[m] \in S \union {Null}
    PROVE  Reach(f, x) \subseteq S
BY DEF Reach

(* Nothing is reached from no producer.                                     *)
LEMMA ReachNone == ASSUME NEW f PROVE Reach(f, Null) = {}
<1>1. PICK S \in SUBSET Listeners : S = {}
  OBVIOUS
<1> QED
  BY <1>1, ReachLeast

(* The first producer, and what its pointer leads to.                       *)
LEMMA ReachStep ==
    ASSUME NEW f \in Pointers, NEW x \in Listeners
    PROVE  Reach(f, x) = {x} \union Reach(f, f[x])
<1>0. f[x] \in Listeners \cup {Null} /\ x # Null
  BY ThreadExitAssumption DEF Pointers
<1>1. /\ Reach(f, x) \subseteq Listeners /\ x \in Reach(f, x)
      /\ \A m \in Reach(f, x) : f[m] \in Reach(f, x) \union {Null}
  BY <1>0, ReachClosed
<1>2. /\ Reach(f, f[x]) \subseteq Listeners /\ (f[x] = Null \/ f[x] \in Reach(f, f[x]))
      /\ \A m \in Reach(f, f[x]) : f[m] \in Reach(f, f[x]) \union {Null}
  BY <1>0, ReachClosed
<1>3. Reach(f, f[x]) \subseteq Reach(f, x)
  BY <1>1, ReachLeast
<1>4. Reach(f, x) \subseteq {x} \union Reach(f, f[x])
  <2>1. PICK S \in SUBSET Listeners : S = {x} \union Reach(f, f[x])
    BY <1>2
  <2>2. x \in S /\ \A m \in S : f[m] \in S \union {Null}
    BY <1>2, <2>1
  <2> QED
    BY <2>1, <2>2, ReachLeast
<1> QED
  BY <1>1, <1>3, <1>4

(* What is reached from a producer that is reached is reached.              *)
LEMMA ReachTail ==
    ASSUME NEW f \in Pointers, NEW x \in Listeners \cup {Null},
           NEW m \in Reach(f, x) \union {Null}
    PROVE  Reach(f, m) \subseteq Reach(f, x)
BY ReachClosed, ReachLeast

(* Pointers of producers that are not reached do not matter.                *)
LEMMA ReachKept ==
    ASSUME NEW f \in Pointers, NEW g \in Pointers, NEW x \in Listeners \cup {Null},
           \A m \in Reach(f, x) : g[m] = f[m]
    PROVE  Reach(g, x) = Reach(f, x)
<1>2. /\ Reach(f, x) \subseteq Listeners /\ (x = Null \/ x \in Reach(f, x))
      /\ \A m \in Reach(f, x) : f[m] \in Reach(f, x) \union {Null}
  BY ReachClosed
<1>3. /\ Reach(g, x) \subseteq Listeners /\ (x = Null \/ x \in Reach(g, x))
      /\ \A m \in Reach(g, x) : g[m] \in Reach(g, x) \union {Null}
  BY ReachClosed
<1>5. Reach(g, x) \subseteq Reach(f, x)
  BY <1>2, ReachLeast
<1>6. \A m \in Reach(g, x) : f[m] \in Reach(g, x) \union {Null}
  BY <1>3, <1>5
<1>7. Reach(f, x) \subseteq Reach(g, x)
  BY <1>3, <1>6, ReachLeast
<1> QED
  BY <1>5, <1>7

(* A chain without one of its producers, around which pointers now lead.    *)
LEMMA ReachBypass ==
    ASSUME NEW f \in Pointers, NEW g \in Pointers, NEW x \in Listeners \cup {Null},
           NEW y \in Listeners \cup {Null}, NEW p \in Reach(f, x), p \notin Reach(f, f[p]),
           y = (IF x = p THEN f[p] ELSE x),
           \A m \in Reach(f, x) : g[m] = (IF f[m] = p THEN f[p] ELSE f[m])
    PROVE  Reach(g, y) = Reach(f, x) \ {p}
<1>1. /\ Reach(f, x) \subseteq Listeners /\ (x = Null \/ x \in Reach(f, x))
      /\ \A m \in Reach(f, x) : f[m] \in Reach(f, x) \union {Null}
  BY ReachClosed
<1>2. p \in Listeners /\ p # Null /\ f[p] \in Reach(f, x) \union {Null} /\ f[p] # p
  <2>1. p \in Listeners /\ p # Null /\ f[p] \in Reach(f, x) \union {Null}
    BY <1>1, ThreadExitAssumption
  <2>2. f[p] \in Listeners \cup {Null} /\ (f[p] = Null \/ f[p] \in Reach(f, f[p]))
    BY <2>1, ReachClosed DEF Pointers
  <2> QED
    BY <2>1, <2>2
<1>3. Reach(g, y) \subseteq Reach(f, x) \ {p}
  <2>1. PICK S \in SUBSET Listeners : S = Reach(f, x) \ {p}
    BY <1>1
  <2>2. y = Null \/ y \in S
    BY <1>1, <1>2, <2>1
  <2>3. \A m \in S : g[m] \in S \union {Null}
    BY <1>1, <1>2, <2>1
  <2> QED
    BY <2>1, <2>2, <2>3, ReachLeast
<1>4. /\ Reach(g, y) \subseteq Listeners /\ (y = Null \/ y \in Reach(g, y))
      /\ \A m \in Reach(g, y) : g[m] \in Reach(g, y) \union {Null}
  BY ReachClosed
<1>5. \A m \in Reach(g, y) : f[m] = p \/ f[m] \in Reach(g, y) \union {Null}
  BY <1>3, <1>4
<1>6. x = p \/ \E m \in Reach(g, y) : f[m] = p
  <2> SUFFICES ASSUME x # p, \A m \in Reach(g, y) : f[m] # p PROVE FALSE
    OBVIOUS
  <2>1. Reach(f, x) \subseteq Reach(g, y)
    BY <1>4, <1>5, ReachLeast
  <2> QED
    BY <1>3, <2>1
<1>7. f[p] \in Reach(g, y) \union {Null}
  <2>1. CASE x = p
    BY <2>1, <1>4
  <2>2. CASE \E m \in Reach(g, y) : f[m] = p
    BY <2>2, <1>3, <1>4
  <2> QED
    BY <1>6, <2>1, <2>2
<1>8. Reach(f, x) \subseteq Reach(g, y) \union {p}
  <2>1. PICK S \in SUBSET Listeners : S = Reach(g, y) \union {p}
    BY <1>2, <1>4
  <2>2. (x = Null \/ x \in S) /\ \A m \in S : f[m] \in S \union {Null}
    BY <1>4, <1>5, <1>7, <2>1
  <2> QED
    BY <2>1, <2>2, ReachLeast
<1> QED
  BY <1>3, <1>8

-----------------------------------------------------------------------------
(* At first there is no chain.                                              *)
LEMMA ExitStarts == ExitInit => ExitInv
<1> SUFFICES ASSUME ExitInit PROVE ExitInv
  OBVIOUS
<1> USE ThreadExitAssumption DEF ExitInit
<1>1. ExitTypeOK
  BY DEF ExitTypeOK
<1>2. ChainInv
  <2> SUFFICES ASSUME NEW t \in Users PROVE Reach(next, Rest[t]) = Chained(t)
    BY DEF ChainInv
  <2>1. Rest[t] = Null
    BY DEF Rest
  <2>2. Chained(t) = {}
    BY DEF Chained
  <2> QED
    BY <2>1, <2>2, ReachNone
<1>3. Acyclic /\ MutexInv /\ PlaceInv /\ LinkedInv /\ HeldInv /\ FreedInv /\ DoomedInv
  BY DEF Acyclic, MutexInv, Walks, PlaceInv, LinkedInv, HeldInv, FreedInv, DoomedInv
<1> QED
  BY <1>1, <1>2, <1>3 DEF ExitInv

(* A step that leaves the chains, and what is left of them, as they are.    *)
LEMMA LinksKept ==
    ASSUME ExitInv, UNCHANGED <<chain, next>>, \A u \in Users : Rest'[u] = Rest[u]
    PROVE  ChainInv' /\ Acyclic'
<1>1. \A u \in Users : Chained(u)' = Chained(u)
  BY DEF Chained
<1> QED
  BY <1>1 DEF ExitInv, ChainInv, Acyclic

(* An inactive producer is in no chain, so its thread may take it.          *)
LEMMA AdoptStep ==
    ASSUME ExitInv, NEW t \in Users, NEW p \in Listeners, Adopt(t, p) PROVE ExitInv'
<1>0. ExitTypeOK
  BY DEF ExitInv
<1>1. /\ phase[t] = "running" /\ p \in inactive /\ state[QueueOf[p]] = "alive"
      /\ inactive' = inactive \ {p} /\ owner' = [owner EXCEPT ![p] = t]
      /\ ptr' = [ptr EXCEPT ![t] = p] /\ phase' = [phase EXCEPT ![t] = "subscribe"]
      /\ UNCHANGED <<chain, next, tail, mutex, state, freed, doomed, strays>>
  BY DEF Adopt, Go, links
<1>2. ExitTypeOK'
  BY <1>0, <1>1, ThreadExitAssumption DEF ExitTypeOK
<1>3. ChainInv' /\ Acyclic'
  <2>1. \A u \in Users : Rest'[u] = Rest[u]
    BY <1>0, <1>1 DEF ExitTypeOK, Rest
  <2> QED
    BY <1>1, <2>1, LinksKept
<1>4. /\ phase'[t] = "subscribe" /\ ptr'[t] = p /\ owner'[p] = t
      /\ \A u \in Users \ {t} : phase'[u] = phase[u] /\ ptr'[u] = ptr[u]
      /\ \A r \in Listeners \ {p} : owner'[r] = owner[r]
  BY <1>0, <1>1 DEF ExitTypeOK
<1>5. chain[p] = Null /\ p \notin freed
  BY <1>1 DEF ExitInv, LinkedInv, FreedInv
<1>6. MutexInv'
  BY <1>1, <1>4 DEF ExitInv, MutexInv, Walks
<1>7. PlaceInv'
  BY <1>0, <1>1, <1>4, <1>5 DEF ExitInv, PlaceInv, ExitTypeOK
<1>8. LinkedInv'
  BY <1>1, <1>4, <1>5 DEF ExitInv, LinkedInv
<1>9. HeldInv'
  BY <1>1, <1>4, <1>5 DEF ExitInv, HeldInv
<1>10. FreedInv' /\ DoomedInv'
  BY <1>1, <1>4, <1>5 DEF ExitInv, FreedInv, DoomedInv
<1> QED
  BY <1>1, <1>2, <1>3, <1>6, <1>7, <1>8, <1>9, <1>10 DEF ExitInv

(* A listener before the chain of its thread, where nobody walks.           *)
LEMMA SubscribeStep ==
    ASSUME ExitInv, NEW t \in Users, Subscribe(t) PROVE ExitInv'
<1>0. ExitTypeOK
  BY DEF ExitInv
<1>1. PICK p \in Listeners : p = ptr[t]
  BY <1>0 DEF Subscribe, ExitTypeOK
<1>2. /\ phase[t] = "subscribe" /\ mutex = Null
      /\ next' = [next EXCEPT ![p] = tail[t]] /\ chain' = [chain EXCEPT ![p] = t]
      /\ tail' = [tail EXCEPT ![t] = p] /\ ptr' = [ptr EXCEPT ![t] = Null]
      /\ phase' = [phase EXCEPT ![t] = "running"]
      /\ UNCHANGED <<inactive, owner, mutex, state, freed, doomed, strays>>
  BY <1>1 DEF Subscribe, Link, Go
<1>3. ExitTypeOK'
  BY <1>0, <1>2, ThreadExitAssumption DEF ExitTypeOK
<1>4. /\ phase'[t] = "running" /\ ptr'[t] = Null /\ tail'[t] = p /\ chain'[p] = t /\ next'[p] = tail[t]
      /\ \A u \in Users \ {t} : phase'[u] = phase[u] /\ ptr'[u] = ptr[u] /\ tail'[u] = tail[u]
      /\ \A r \in Listeners \ {p} : chain'[r] = chain[r] /\ next'[r] = next[r]
      /\ next \in Pointers /\ next' \in Pointers
  BY <1>0, <1>2, <1>3 DEF ExitTypeOK, Pointers
<1>5. /\ p \notin inactive /\ owner[p] = t /\ chain[p] = Null /\ p \notin freed
      /\ \A u \in Users : phase[u] \notin Walks
  BY <1>0, <1>1, <1>2, ThreadExitAssumption DEF ExitInv, PlaceInv, FreedInv, MutexInv
<1>6. /\ \A u \in Users : Rest[u] \in Listeners \cup {Null} /\ Reach(next, Rest[u]) = Chained(u)
      /\ \A u \in Users \ {t} : Rest'[u] = Rest[u]
      /\ Rest[t] = tail[t] /\ Rest'[t] = p
  <2>1. \A u \in Users : Rest[u] \in Listeners \cup {Null}
    BY <1>0, <1>5 DEF ExitTypeOK, Rest, Walks
  <2> QED
    BY <2>1, <1>2, <1>4, <1>5 DEF Rest, Walks, ExitInv, ChainInv
<1>7. \A u \in Users : Reach(next', Rest[u]) = Chained(u)
  <2> SUFFICES ASSUME NEW u \in Users PROVE Reach(next', Rest[u]) = Chained(u)
    OBVIOUS
  <2>1. p \notin Chained(u) /\ Chained(u) \subseteq Listeners
    BY <1>5, ThreadExitAssumption DEF Chained
  <2> QED
    BY <2>1, <1>4, <1>6, ReachKept
<1>8. Reach(next', p) = {p} \union Chained(t)
  BY <1>4, <1>6, <1>7, ReachStep
<1>9. ChainInv'
  <2>1. Chained(t)' = {p} \union Chained(t) /\ \A u \in Users \ {t} : Chained(u)' = Chained(u)
    BY <1>4, <1>5, ThreadExitAssumption DEF Chained
  <2> QED
    BY <2>1, <1>6, <1>7, <1>8 DEF ChainInv
<1>10. Acyclic'
  <2> SUFFICES ASSUME NEW r \in Listeners, chain'[r] # Null PROVE r \notin Reach(next', next'[r])
    BY DEF Acyclic
  <2>1. CASE r = p
    <3>1. p \notin Chained(t)
      BY <1>5, ThreadExitAssumption DEF Chained
    <3> QED
      BY <2>1, <3>1, <1>4, <1>6, <1>7
  <2>2. CASE r # p
    <3>1. chain[r] # Null /\ next'[r] = next[r] /\ r \notin Reach(next, next[r])
      BY <2>2, <1>4 DEF ExitInv, Acyclic
    <3>2. PICK u \in Users : u = chain[r] /\ r \in Chained(u)
      BY <3>1, <1>0 DEF ExitTypeOK, Chained
    <3>3. next[r] \in Chained(u) \union {Null}
      BY <3>2, <1>4, <1>6, ReachClosed
    <3>4. Reach(next, next[r]) \subseteq Chained(u)
      BY <3>3, <1>4, <1>6, ReachTail
    <3>5. p \notin Chained(u) /\ Chained(u) \subseteq Listeners
      BY <1>5, ThreadExitAssumption DEF Chained
    <3>6. Reach(next', next[r]) = Reach(next, next[r])
      BY <3>3, <3>4, <3>5, <1>4, ReachKept
    <3> QED
      BY <3>1, <3>6
  <2> QED
    BY <2>1, <2>2
<1>11. MutexInv' /\ DoomedInv'
  BY <1>2, <1>4, <1>5 DEF ExitInv, MutexInv, Walks, DoomedInv
<1>12. PlaceInv'
  <2> SUFFICES ASSUME NEW u \in Users, phase'[u] \in {"subscribe", "callback"}
               PROVE  /\ ptr'[u] \notin inactive' /\ owner'[ptr'[u]] = u /\ chain'[ptr'[u]] = Null
                      /\ phase'[u] = "subscribe" => state'[QueueOf[ptr'[u]]] = "alive"
    BY DEF PlaceInv
  <2>1. u # t /\ phase[u] \in {"subscribe", "callback"} /\ ptr'[u] = ptr[u] /\ ptr[u] \in Listeners
    BY <1>0, <1>4 DEF ExitTypeOK
  <2>2. /\ ptr[u] \notin inactive /\ owner[ptr[u]] = u /\ chain[ptr[u]] = Null
        /\ phase[u] = "subscribe" => state[QueueOf[ptr[u]]] = "alive"
    BY <2>1 DEF ExitInv, PlaceInv
  <2>3. ptr[u] # p
    BY <2>1, <2>2, <1>5
  <2> QED
    BY <2>1, <2>2, <2>3, <1>2, <1>4
<1>13. LinkedInv'
  BY <1>2, <1>4, <1>5 DEF ExitInv, LinkedInv
<1>14. HeldInv'
  BY <1>1, <1>2, <1>4, <1>5 DEF ExitInv, HeldInv
<1>15. FreedInv'
  BY <1>2, <1>4, <1>5 DEF ExitInv, FreedInv, ExitTypeOK
<1> QED
  BY <1>2, <1>3, <1>9, <1>10, <1>11, <1>12, <1>13, <1>14, <1>15 DEF ExitInv

(* The walk begins at the head of the chain.                                *)
LEMMA BeginStep ==
    ASSUME ExitInv, NEW t \in Users, Exit(t) PROVE ExitInv'
<1>0. ExitTypeOK
  BY DEF ExitInv
<1>1. /\ phase[t] = "running" /\ mutex = Null /\ mutex' = t
      /\ ptr' = [ptr EXCEPT ![t] = tail[t]] /\ phase' = [phase EXCEPT ![t] = "unchain"]
      /\ UNCHANGED <<inactive, owner, chain, next, tail, state, freed, doomed, strays>>
  BY DEF Exit, Go, links
<1>2. ExitTypeOK'
  BY <1>0, <1>1 DEF ExitTypeOK
<1>3. /\ phase'[t] = "unchain" /\ ptr'[t] = tail[t]
      /\ \A u \in Users \ {t} : phase'[u] = phase[u] /\ ptr'[u] = ptr[u]
  BY <1>0, <1>1 DEF ExitTypeOK
<1>4. ChainInv' /\ Acyclic'
  <2>1. \A u \in Users : Rest'[u] = Rest[u]
    BY <1>1, <1>3 DEF Rest
  <2> QED
    BY <1>1, <2>1, LinksKept
<1>5. MutexInv'
  BY <1>1, <1>3, ThreadExitAssumption DEF ExitInv, MutexInv, Walks
<1>6. PlaceInv' /\ LinkedInv'
  BY <1>1, <1>3 DEF ExitInv, PlaceInv, LinkedInv
<1>7. HeldInv'
  BY <1>1, <1>3 DEF ExitInv, HeldInv
<1>8. FreedInv' /\ DoomedInv'
  BY <1>1, <1>3 DEF ExitInv, FreedInv, DoomedInv
<1> QED
  BY <1>1, <1>2, <1>4, <1>5, <1>6, <1>7, <1>8 DEF ExitInv

(* The head leaves the chain, and what is left is its successors.           *)
LEMMA UnchainStep ==
    ASSUME ExitInv, NEW t \in Users, Unchain(t) PROVE ExitInv'
<1>0. ExitTypeOK
  BY DEF ExitInv
<1>1. PICK p \in Listeners : p = ptr[t]
  BY <1>0 DEF Unchain, ExitTypeOK
<1>2. /\ phase[t] = "unchain" /\ chain' = [chain EXCEPT ![p] = Null]
      /\ phase' = [phase EXCEPT ![t] = "callback"] /\ strays' = strays \cup ({p} \intersect freed)
      /\ UNCHANGED <<inactive, owner, next, tail, mutex, ptr, state, freed, doomed>>
  BY <1>1 DEF Unchain, Go, Reads
<1>3. ExitTypeOK'
  BY <1>0, <1>1, <1>2, ThreadExitAssumption DEF ExitTypeOK
<1>4. /\ phase'[t] = "callback" /\ \A u \in Users \ {t} : phase'[u] = phase[u]
      /\ chain'[p] = Null /\ \A r \in Listeners \ {p} : chain'[r] = chain[r]
      /\ next \in Pointers
  BY <1>0, <1>2 DEF ExitTypeOK, Pointers
<1>5. Rest[t] = p /\ Rest'[t] = next[p] /\ \A u \in Users \ {t} : Rest'[u] = Rest[u]
  BY <1>1, <1>2, <1>4 DEF Rest
<1>6. Reach(next, p) = {p} \union Reach(next, next[p]) /\ Reach(next, p) = Chained(t)
  BY <1>4, <1>5, ReachStep DEF ExitInv, ChainInv
<1>7. chain[p] = t /\ chain[p] # Null
  BY <1>6, ThreadExitAssumption DEF Chained
<1>8. p \notin inactive /\ owner[p] = t /\ p \notin Reach(next, next[p])
  BY <1>7 DEF ExitInv, LinkedInv, Acyclic
<1>9. p \notin freed /\ strays' = strays
  BY <1>2, <1>7 DEF ExitInv, FreedInv
<1>10. ChainInv'
  <2>1. Chained(t)' = Chained(t) \ {p} /\ \A u \in Users \ {t} : Chained(u)' = Chained(u)
    BY <1>4, <1>7, ThreadExitAssumption DEF Chained
  <2>2. \A u \in Users : Reach(next, Rest[u]) = Chained(u)
    BY DEF ExitInv, ChainInv
  <2> QED
    BY <2>1, <2>2, <1>2, <1>5, <1>6, <1>8 DEF ChainInv
<1>11. Acyclic'
  BY <1>2, <1>4 DEF ExitInv, Acyclic
<1>12. MutexInv'
  BY <1>2, <1>4 DEF ExitInv, MutexInv, Walks
<1>13. PlaceInv'
  <2> SUFFICES ASSUME NEW u \in Users, phase'[u] \in {"subscribe", "callback"}
               PROVE  /\ ptr'[u] \notin inactive' /\ owner'[ptr'[u]] = u /\ chain'[ptr'[u]] = Null
                      /\ phase'[u] = "subscribe" => state'[QueueOf[ptr'[u]]] = "alive"
    BY DEF PlaceInv
  <2>1. CASE u = t
    BY <2>1, <1>1, <1>2, <1>4, <1>8
  <2>2. CASE u # t
    <3>1. phase[u] \in {"subscribe", "callback"} /\ ptr[u] \in Listeners
      BY <2>2, <1>0, <1>4 DEF ExitTypeOK
    <3>2. /\ ptr[u] \notin inactive /\ owner[ptr[u]] = u /\ chain[ptr[u]] = Null
          /\ phase[u] = "subscribe" => state[QueueOf[ptr[u]]] = "alive"
      BY <3>1 DEF ExitInv, PlaceInv
    <3>3. ptr[u] # p
      BY <3>2, <1>7
    <3> QED
      BY <2>2, <3>1, <3>2, <3>3, <1>2, <1>4
  <2> QED
    BY <2>1, <2>2
<1>14. LinkedInv'
  BY <1>2, <1>4 DEF ExitInv, LinkedInv
<1>15. HeldInv'
  BY <1>1, <1>2, <1>4, <1>8 DEF ExitInv, HeldInv
<1>16. FreedInv' /\ DoomedInv'
  BY <1>1, <1>2, <1>4, <1>9 DEF ExitInv, FreedInv, DoomedInv, ExitTypeOK
<1> QED
  BY <1>3, <1>9, <1>10, <1>11, <1>12, <1>13, <1>14, <1>15, <1>16 DEF ExitInv

(* The producer is no longer in the chain, and is given up.                 *)
LEMMA CallbackStep ==
    ASSUME ExitInv, NEW t \in Users, Callback(t) PROVE ExitInv'
<1>0. ExitTypeOK
  BY DEF ExitInv
<1>1. PICK p \in Listeners : p = ptr[t]
  BY <1>0 DEF Callback, ExitTypeOK
<1>2. /\ phase[t] = "callback" /\ inactive' = inactive \cup {p}
      /\ phase' = [phase EXCEPT ![t] = "onward"] /\ strays' = strays \cup ({p} \intersect freed)
      /\ UNCHANGED <<owner, chain, next, tail, mutex, ptr, state, freed, doomed>>
  BY <1>1 DEF Callback, Go, Reads, links
<1>3. ExitTypeOK'
  BY <1>0, <1>1, <1>2 DEF ExitTypeOK
<1>4. phase'[t] = "onward" /\ \A u \in Users \ {t} : phase'[u] = phase[u]
  BY <1>0, <1>2 DEF ExitTypeOK
<1>5. owner[p] = t /\ chain[p] = Null /\ p \notin inactive
  BY <1>1, <1>2 DEF ExitInv, PlaceInv
<1>6. p \notin freed /\ strays' = strays
  BY <1>1, <1>2 DEF ExitInv, FreedInv
<1>7. ChainInv' /\ Acyclic'
  <2>1. \A u \in Users : Rest'[u] = Rest[u]
    BY <1>2, <1>4 DEF Rest
  <2> QED
    BY <1>2, <2>1, LinksKept
<1>8. MutexInv'
  BY <1>2, <1>4 DEF ExitInv, MutexInv, Walks
<1>9. PlaceInv' /\ LinkedInv'
  BY <1>2, <1>4, <1>5 DEF ExitInv, PlaceInv, LinkedInv
<1>10. HeldInv'
  BY <1>1, <1>2, <1>4, <1>5 DEF ExitInv, HeldInv
<1>11. FreedInv' /\ DoomedInv'
  BY <1>1, <1>2, <1>4, <1>6 DEF ExitInv, FreedInv, DoomedInv
<1> QED
  BY <1>3, <1>6, <1>7, <1>8, <1>9, <1>10, <1>11 DEF ExitInv

(* The successor is read of a producer that is there, if none is overtaken. *)
LEMMA OnwardStep ==
    ASSUME ExitInv, NEW t \in Users, Onward(t) PROVE ExitInv'
<1>0. ExitTypeOK
  BY DEF ExitInv
<1>1. PICK p \in Listeners : p = ptr[t]
  BY <1>0 DEF Onward, ExitTypeOK
<1>2. /\ phase[t] = "onward" /\ ptr' = [ptr EXCEPT ![t] = next[p]]
      /\ phase' = [phase EXCEPT ![t] = "unchain"] /\ strays' = strays \cup ({p} \intersect freed)
      /\ UNCHANGED <<inactive, owner, chain, next, tail, mutex, state, freed, doomed>>
  BY <1>1 DEF Onward, Go, Reads, links
<1>3. ExitTypeOK'
  BY <1>0, <1>1, <1>2 DEF ExitTypeOK
<1>4. /\ phase'[t] = "unchain" /\ ptr'[t] = next[p]
      /\ \A u \in Users \ {t} : phase'[u] = phase[u] /\ ptr'[u] = ptr[u]
  BY <1>0, <1>2 DEF ExitTypeOK
<1>6. DeleteAnytime \/ strays' = {}
  BY <1>1, <1>2 DEF ExitInv, FreedInv
<1>7. ChainInv' /\ Acyclic'
  <2>1. \A u \in Users : Rest'[u] = Rest[u]
    BY <1>1, <1>2, <1>4 DEF Rest
  <2> QED
    BY <1>2, <2>1, LinksKept
<1>8. MutexInv'
  BY <1>2, <1>4 DEF ExitInv, MutexInv, Walks
<1>9. PlaceInv' /\ LinkedInv'
  BY <1>2, <1>4 DEF ExitInv, PlaceInv, LinkedInv
<1>10. HeldInv'
  BY <1>2, <1>4 DEF ExitInv, HeldInv
<1>11. FreedInv' /\ DoomedInv'
  BY <1>2, <1>4 DEF ExitInv, FreedInv, DoomedInv
<1> QED
  BY <1>3, <1>6, <1>7, <1>8, <1>9, <1>10, <1>11 DEF ExitInv

(* The mutex is given back where the chain ends.                            *)
LEMMA ExitedStep ==
    ASSUME ExitInv, NEW t \in Users, Exited(t) PROVE ExitInv'
<1>0. ExitTypeOK
  BY DEF ExitInv
<1>2. /\ phase[t] = "unchain" /\ ptr[t] = Null /\ mutex' = Null
      /\ phase' = [phase EXCEPT ![t] = "exited"]
      /\ UNCHANGED <<inactive, owner, chain, next, tail, ptr, state, freed, doomed, strays>>
  BY DEF Exited, Go, links
<1>3. ExitTypeOK'
  BY <1>0, <1>2 DEF ExitTypeOK
<1>4. phase'[t] = "exited" /\ \A u \in Users \ {t} : phase'[u] = phase[u]
  BY <1>0, <1>2 DEF ExitTypeOK
<1>7. ChainInv' /\ Acyclic'
  <2>1. \A u \in Users : Rest'[u] = Rest[u]
    BY <1>2, <1>4 DEF Rest
  <2> QED
    BY <1>2, <2>1, LinksKept
<1>8. MutexInv'
  <2>1. mutex = t
    BY <1>2 DEF ExitInv, MutexInv, Walks
  <2> QED
    BY <2>1, <1>2, <1>4, ThreadExitAssumption DEF ExitInv, MutexInv, Walks
<1>9. PlaceInv' /\ LinkedInv'
  BY <1>2, <1>4 DEF ExitInv, PlaceInv, LinkedInv
<1>10. HeldInv'
  BY <1>2, <1>4 DEF ExitInv, HeldInv
<1>11. FreedInv' /\ DoomedInv'
  BY <1>2, <1>4 DEF ExitInv, FreedInv, DoomedInv
<1> QED
  BY <1>2, <1>3, <1>7, <1>8, <1>9, <1>10, <1>11 DEF ExitInv

(* The state of a queue changes: nobody subscribes to it, and its last      *)
(* destructor has ended.                                                    *)
LEMMA DeleteStep ==
    ASSUME ExitInv, NEW q \in Queues, Delete(q) \/ Deleted(q) PROVE ExitInv'
<1>0. ExitTypeOK
  BY DEF ExitInv
<1>1. /\ UNCHANGED <<inactive, owner, chain, next, tail, mutex, phase, ptr, freed, doomed, strays>>
      /\ \E s \in {"deleting", "deleted"} : state' = [state EXCEPT ![q] = s]
      /\ state[q] = "alive" => state' = [state EXCEPT ![q] = "deleting"]
  BY DEF Delete, Deleted, links
<1>2. ExitTypeOK'
  BY <1>0, <1>1 DEF ExitTypeOK
<1>3. ChainInv' /\ Acyclic'
  <2>1. \A u \in Users : Rest'[u] = Rest[u]
    BY <1>1 DEF Rest
  <2> QED
    BY <1>1, <2>1, LinksKept
<1>4. state'[q] # "alive" /\ \A r \in Queues \ {q} : state'[r] = state[r]
  BY <1>0, <1>1 DEF ExitTypeOK
<1>5. \A u \in Users : phase[u] = "subscribe" => QueueOf[ptr[u]] \in Queues \ {q}
  <2> SUFFICES ASSUME NEW u \in Users, phase[u] = "subscribe" PROVE QueueOf[ptr[u]] \in Queues \ {q}
    OBVIOUS
  <2>1. ptr[u] \in Listeners /\ state[QueueOf[ptr[u]]] = "alive"
    BY <1>0 DEF ExitTypeOK, ExitInv, PlaceInv
  <2> QED
    BY <2>1, ThreadExitAssumption DEF Delete, Deleted
<1>6. MutexInv' /\ LinkedInv' /\ HeldInv'
  BY <1>1 DEF ExitInv, MutexInv, LinkedInv, HeldInv
<1>7. PlaceInv'
  BY <1>1, <1>4, <1>5 DEF ExitInv, PlaceInv
<1>8. FreedInv'
  <2>1. \A p \in freed : QueueOf[p] \in Queues
    BY <1>0, ThreadExitAssumption DEF ExitTypeOK
  <2> QED
    BY <2>1, <1>1, <1>4 DEF ExitInv, FreedInv
<1>9. DoomedInv'
  <2> SUFFICES ASSUME NEW r \in Queues, doomed[r] # Null
               PROVE  QueueOf[doomed[r]] = r /\ doomed[r] \notin freed /\ state'[r] = "deleting"
    BY <1>1 DEF DoomedInv
  <2>1. QueueOf[doomed[r]] = r /\ state[r] = "deleting" /\ doomed[r] \notin freed /\ doomed[r] \in Listeners
    BY <1>0 DEF ExitInv, DoomedInv, ExitTypeOK
  <2>2. r # q
    BY <2>1 DEF Delete, Deleted, Of
  <2> QED
    BY <2>1, <2>2, <1>4
<1> QED
  BY <1>1, <1>2, <1>3, <1>6, <1>7, <1>8, <1>9 DEF ExitInv

(* An inactive producer is in no chain and goes, another one is doomed.     *)
LEMMA DeleteProducerStep ==
    ASSUME ExitInv, NEW q \in Queues, NEW p \in Listeners, DeleteProducer(q, p) PROVE ExitInv'
<1>0. ExitTypeOK
  BY DEF ExitInv
<1>1. /\ state[q] = "deleting" /\ doomed[q] = Null /\ QueueOf[p] = q /\ p \notin freed
      /\ Walking(p) => DeleteAnytime
      /\ UNCHANGED <<inactive, owner, chain, next, tail, mutex, phase, ptr, state, strays>>
  BY DEF DeleteProducer, links, Of
<1>2. ChainInv' /\ Acyclic'
  <2>1. \A u \in Users : Rest'[u] = Rest[u]
    BY <1>1 DEF Rest
  <2> QED
    BY <1>1, <2>1, LinksKept
<1>3. MutexInv' /\ PlaceInv' /\ LinkedInv' /\ (DeleteAnytime \/ strays' = {})
  BY <1>1 DEF ExitInv, MutexInv, PlaceInv, LinkedInv
<1>4. CASE p \in inactive
  <2>1. freed' = freed \cup {p} /\ doomed' = doomed
    BY <1>4 DEF DeleteProducer
  <2>2. ExitTypeOK'
    BY <1>0, <1>1, <2>1 DEF ExitTypeOK
  <2>3. /\ chain[p] = Null /\ state[QueueOf[p]] # "alive"
        /\ \A t \in Users : ptr[t] = p => phase[t] # "callback" /\ (phase[t] = "onward" => DeleteAnytime)
    BY <1>4, <1>1 DEF ExitInv, LinkedInv, PlaceInv, Walking
  <2>4. FreedInv'
    BY <2>1, <2>3, <1>1 DEF ExitInv, FreedInv
  <2>5. HeldInv'
    BY <2>1, <1>1 DEF ExitInv, HeldInv
  <2>6. DoomedInv'
    BY <2>1, <1>1 DEF ExitInv, DoomedInv
  <2> QED
    BY <2>2, <2>4, <2>5, <2>6, <1>2, <1>3 DEF ExitInv
<1>5. CASE p \notin inactive
  <2>1. freed' = freed /\ doomed' = [doomed EXCEPT ![q] = p]
    BY <1>5 DEF DeleteProducer
  <2>2. ExitTypeOK'
    BY <1>0, <1>1, <2>1 DEF ExitTypeOK
  <2>3. FreedInv' /\ HeldInv'
    BY <2>1, <1>1 DEF ExitInv, FreedInv, HeldInv
  <2>4. DoomedInv'
    BY <2>1, <1>0, <1>1 DEF ExitInv, DoomedInv, ExitTypeOK
  <2> QED
    BY <2>2, <2>3, <2>4, <1>2, <1>3 DEF ExitInv
<1> QED
  BY <1>4, <1>5

(* The chain of the thread of p, without p; the other chains as they were.  *)
LEMMA BypassStep ==
    ASSUME ExitInv, mutex = Null, UNCHANGED <<mutex, phase, ptr>>, ExitTypeOK',
           NEW p \in Listeners, Bypass(p)
    PROVE  /\ ChainInv' /\ Acyclic'
           /\ chain'[p] = Null /\ \A r \in Listeners \ {p} : chain'[r] = chain[r]
<1>0. ExitTypeOK
  BY DEF ExitInv
<1>1. CASE chain[p] = Null
  <2>1. UNCHANGED <<chain, next, tail>>
    BY <1>1 DEF Bypass, links
  <2>2. \A u \in Users : Rest'[u] = Rest[u]
    BY <2>1 DEF Rest
  <2> QED
    BY <1>1, <2>1, <2>2, LinksKept
<1>2. CASE chain[p] # Null
  <2>1. PICK t \in Users : t = chain[p]
    BY <1>0, <1>2 DEF ExitTypeOK
  <2>2. /\ chain' = [chain EXCEPT ![p] = Null]
        /\ tail' = [tail EXCEPT ![t] = IF tail[t] = p THEN next[p] ELSE tail[t]]
        /\ next' = [r \in Listeners |-> IF next[r] = p /\ chain[r] = t THEN next[p] ELSE next[r]]
    BY <1>2, <2>1 DEF Bypass
  <2>3. /\ chain'[p] = Null /\ \A r \in Listeners \ {p} : chain'[r] = chain[r]
        /\ \A r \in Listeners : next'[r] = (IF next[r] = p /\ chain[r] = t THEN next[p] ELSE next[r])
        /\ tail'[t] = (IF tail[t] = p THEN next[p] ELSE tail[t])
        /\ \A u \in Users \ {t} : tail'[u] = tail[u]
        /\ next \in Pointers /\ next' \in Pointers
    BY <1>0, <2>2 DEF ExitTypeOK, Pointers
  <2>4. \A u \in Users : phase[u] \notin Walks
    BY ThreadExitAssumption DEF ExitInv, MutexInv
  <2>5. \A u \in Users : Rest[u] \in Listeners \cup {Null} /\ Reach(next, Rest[u]) = Chained(u)
    <3>1. \A u \in Users : Rest[u] \in Listeners \cup {Null}
      BY <1>0, <2>4 DEF ExitTypeOK, Rest, Walks
    <3> QED
      BY <3>1 DEF ExitInv, ChainInv
  <2>6. p \in Chained(t) /\ p \notin Reach(next, next[p])
    BY <1>2, <2>1 DEF Chained, ExitInv, Acyclic
  <2>7. Rest[t] = tail[t] /\ Rest'[t] = tail'[t] /\ \A u \in Users \ {t} : Rest'[u] = Rest[u]
    <3>1. phase[t] # "exited"
      BY <2>5, <2>6, ReachNone DEF Rest
    <3> QED
      BY <3>1, <2>3, <2>4 DEF Rest, Walks
  <2>8. Reach(next', Rest'[t]) = Chained(t) \ {p}
    <3>1. \A m \in Chained(t) : next'[m] = (IF next[m] = p THEN next[p] ELSE next[m])
      BY <2>3 DEF Chained
    <3>2. Rest'[t] \in Listeners \cup {Null} /\ Rest'[t] = (IF Rest[t] = p THEN next[p] ELSE Rest[t])
      BY <2>3, <2>5, <2>7 DEF Pointers
    <3> QED
      BY <2>3, <2>5, <2>6, <3>1, <3>2, ReachBypass
  <2>9. \A u \in Users \ {t} : Reach(next', Rest[u]) = Chained(u)
    <3> SUFFICES ASSUME NEW u \in Users \ {t} PROVE Reach(next', Rest[u]) = Chained(u)
      OBVIOUS
    <3>1. \A m \in Chained(u) : next'[m] = next[m]
      BY <2>3 DEF Chained
    <3> QED
      BY <3>1, <2>3, <2>5, ReachKept
  <2>10. ChainInv'
    <3>1. Chained(t)' = Chained(t) \ {p} /\ \A u \in Users \ {t} : Chained(u)' = Chained(u)
      BY <2>1, <2>3, ThreadExitAssumption DEF Chained
    <3> QED
      BY <3>1, <2>7, <2>8, <2>9 DEF ChainInv
  <2>11. Acyclic'
    <3> SUFFICES ASSUME NEW r \in Listeners, chain'[r] # Null PROVE r \notin Reach(next', next'[r])
      BY DEF Acyclic
    <3>1. r # p /\ chain[r] # Null /\ r \notin Reach(next, next[r])
      BY <2>3 DEF ExitInv, Acyclic
    <3>2. /\ Reach(next, next[r]) \subseteq Listeners /\ (next[r] = Null \/ next[r] \in Reach(next, next[r]))
          /\ \A m \in Reach(next, next[r]) : next[m] \in Reach(next, next[r]) \union {Null}
      BY <2>3, ReachClosed DEF Pointers
    <3>3. p # Null /\ next[p] \in Listeners \cup {Null}
      BY <2>3, ThreadExitAssumption DEF Pointers
    <3>4. next'[r] = Null \/ next'[r] \in Reach(next, next[r])
      BY <3>2, <3>3, <2>3
    <3>5. \A m \in Reach(next, next[r]) : next'[m] \in Reach(next, next[r]) \union {Null}
      BY <3>2, <3>3, <2>3
    <3>6. Reach(next', next'[r]) \subseteq Reach(next, next[r])
      BY <3>2, <3>4, <3>5, ReachLeast
    <3> QED
      BY <3>1, <3>6
  <2> QED
    BY <2>3, <2>10, <2>11
<1> QED
  BY <1>1, <1>2

(* The doomed one is taken out of its chain, where nobody walks, and goes.  *)
LEMMA UnsubscribeStep ==
    ASSUME ExitInv, NEW q \in Queues, Unsubscribe(q) PROVE ExitInv'
<1>0. ExitTypeOK
  BY DEF ExitInv
<1>1. PICK p \in Listeners : p = doomed[q]
  BY <1>0 DEF Unsubscribe, ExitTypeOK
<1>2. /\ mutex = Null /\ Bypass(p) /\ freed' = freed \cup {p} /\ doomed' = [doomed EXCEPT ![q] = Null]
      /\ UNCHANGED <<inactive, owner, mutex, phase, ptr, state, strays>>
  BY <1>1 DEF Unsubscribe
<1>3. QueueOf[p] = q /\ state[q] = "deleting"
  BY <1>1, ThreadExitAssumption DEF ExitInv, DoomedInv
<1>4. ExitTypeOK'
  <2>1. /\ chain' \in [Listeners -> Users \cup {Null}] /\ next' \in [Listeners -> Listeners \cup {Null}]
        /\ tail' \in [Users -> Listeners \cup {Null}]
    BY <1>0, <1>2 DEF ExitTypeOK, Bypass, links
  <2> QED
    BY <2>1, <1>0, <1>2 DEF ExitTypeOK
<1>5. /\ ChainInv' /\ Acyclic'
      /\ chain'[p] = Null /\ \A r \in Listeners \ {p} : chain'[r] = chain[r]
  BY <1>2, <1>4, BypassStep
<1>6. \A u \in Users : phase[u] \notin Walks
  BY <1>2, ThreadExitAssumption DEF ExitInv, MutexInv
<1>7. MutexInv' /\ (DeleteAnytime \/ strays' = {})
  BY <1>2 DEF ExitInv, MutexInv
<1>8. PlaceInv'
  <2>1. \A u \in Users : phase[u] \in {"subscribe", "callback"} => ptr[u] \in Listeners
    BY <1>0 DEF ExitTypeOK
  <2> QED
    BY <2>1, <1>2, <1>5 DEF ExitInv, PlaceInv
<1>9. LinkedInv'
  BY <1>2, <1>5 DEF ExitInv, LinkedInv
<1>10. HeldInv'
  BY <1>2, <1>5 DEF ExitInv, HeldInv
<1>11. FreedInv'
  <2> SUFFICES ASSUME NEW r \in freed'
               PROVE  /\ chain'[r] = Null /\ state[QueueOf[r]] # "alive"
                      /\ \A t \in Users : ptr[t] = r => phase[t] # "callback" /\ (phase[t] = "onward" => DeleteAnytime)
    BY <1>2 DEF FreedInv
  <2>1. chain'[r] = Null /\ state[QueueOf[r]] # "alive"
    BY <1>0, <1>2, <1>3, <1>5 DEF ExitInv, FreedInv, ExitTypeOK
  <2> QED
    BY <2>1, <1>6 DEF Walks
<1>12. DoomedInv'
  <2>1. doomed'[q] = Null /\ \A r \in Queues \ {q} : doomed'[r] = doomed[r]
    BY <1>0, <1>2 DEF ExitTypeOK
  <2> QED
    BY <2>1, <1>2, <1>3 DEF ExitInv, DoomedInv
<1> QED
  BY <1>2, <1>4, <1>5, <1>7, <1>8, <1>9, <1>10, <1>11, <1>12 DEF ExitInv

(* All steps.                                                               *)
LEMMA ExitSteps == ExitInv /\ [ExitNext]_exitVars => ExitInv'
<1> SUFFICES ASSUME ExitInv, [ExitNext]_exitVars PROVE ExitInv'
  OBVIOUS
<1>1. CASE ExitNext
  BY <1>1, AdoptStep, SubscribeStep, BeginStep, UnchainStep, CallbackStep, OnwardStep, ExitedStep,
     DeleteStep, DeleteProducerStep, UnsubscribeStep DEF ExitNext, Ending, Deleting
<1>2. CASE UNCHANGED exitVars
  <2>1. UNCHANGED <<inactive, owner, chain, next, tail, mutex, phase, ptr, state, freed, doomed, strays>>
    BY <1>2 DEF exitVars, links
  <2>2. \A u \in Users : Rest'[u] = Rest[u]
    BY <2>1 DEF Rest
  <2>3. ChainInv' /\ Acyclic'
    BY <2>1, <2>2, LinksKept
  <2> QED
    BY <2>1, <2>3 DEF ExitInv, ExitTypeOK, MutexInv, PlaceInv, LinkedInv, HeldInv, FreedInv, DoomedInv
<1> QED
  BY <1>1, <1>2

(* What a thread that exited still had in its chain would be reachable from *)
(* nothing.                                                                 *)
LEMMA ExitImplies == ExitInv => ExitClean
<1> SUFFICES ASSUME ExitInv, NEW p \in Listeners, owner[p] # Null, phase[owner[p]] = "exited"
             PROVE  p \in inactive \cup freed
  BY DEF ExitInv, ExitClean, NoneLeftBehind, NoneAfterDelete
<1>1. PICK t \in Users : t = owner[p]
  BY DEF ExitInv, ExitTypeOK
<1>2. Rest[t] = Null
  BY <1>1 DEF Rest
<1>3. Chained(t) = {}
  BY <1>2, ReachNone DEF ExitInv, ChainInv
<1>4. chain[p] # t
  BY <1>3 DEF Chained
<1> QED
  BY <1>1, <1>4 DEF ExitInv, HeldInv

(* A thread that exits leaves no producer behind that nobody can take, and a *)
(* deleted one is not touched by a walk unless the deletion may overtake it *)
(* (concurrentqueue.h:588-590, 604-606, 612-617, 3562).                     *)
THEOREM ExitsLeaveNothing == ExitSpec => []ExitClean
BY ExitStarts, ExitSteps, ExitImplies, PTL DEF ExitSpec
=============================================================================

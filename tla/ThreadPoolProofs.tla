-------------------------- MODULE ThreadPoolProofs --------------------------
(***************************************************************************)
(* Proofs about the thread pool, for any documents, requests, callers and  *)
(* workers with more workers than callers, with or without failures.       *)
(***************************************************************************)
EXTENDS ThreadPool, TLAPS, FiniteSetTheorems, SequenceTheorems

(* The proofs about the cache, for the pool's threads and requests.         *)
RP == INSTANCE RedisWorkerProofs WITH
    Threads <- Workers, Data <- Texts, NoData <- <<>>,
    Outcome <- [k \in Keys |-> {Result(r) : r \in {r \in Requests : Hash[r.doc] = k}}]

-----------------------------------------------------------------------------
(* The inductive invariant.                                                 *)

(* A worker that runs the task of a request.                                *)
Running(w) == at[w] \notin {"idle", "page"}

(* Each call in progress has one home: the task of its request is alone in  *)
(* its caller's part of the queue, or one worker runs it.                   *)
CallersDiffer ==
    \A c, d \in Callers : c # d /\ waiting[c] = waiting[d] => waiting[c] = 0
QueuedCalls ==
    \A c \in Callers : queue[c] # <<>> =>
        /\ waiting[c] # 0
        /\ queue[c] = <<Task(waiting[c], 0)>>
        /\ answer[waiting[c]] = Pending
        /\ pages[waiting[c]] = <<>>
PageTasks ==
    \A w \in Workers :
        /\ at[w] = "page" => job[w].page # 0
        /\ \A i \in 1..Len(queue[w]) : queue[w][i].page # 0
RunningCalls ==
    \A w \in Workers : Running(w) =>
        /\ job[w].page = 0
        /\ answer[job[w].ticket] = Pending
        /\ \E c \in Callers : waiting[c] = job[w].ticket /\ queue[c] = <<>>
RunnersDiffer ==
    \A v, w \in Workers :
        v # w /\ Running(v) /\ Running(w) => job[v].ticket # job[w].ticket
CallInv == CallersDiffer /\ QueuedCalls /\ PageTasks /\ RunningCalls /\ RunnersDiffer

(* What a request has done so far: it runs on the key of its document, its  *)
(* page futures are those of the pages it has spawned, and its text is that *)
(* of the pages it has collected.                                           *)
Fresh(w) == next[w] = 1 /\ text[w] = <<>>
FutureTexts ==
    \A n \in Tickets : \A i \in 1..Len(pages[n]) :
        pages[n][i].state = "ready" => pages[n][i].text = << <<Doc(n), i>> >>
Progress(w, n) ==
    /\ ~Running(w) => Fresh(w)
    /\ Running(w) => rkey[w] = Hash[Doc(n)]
    /\ at[w] = "check" => Fresh(w) /\ pages[n] = <<>>
    /\ at[w] = "spawn" =>
          /\ Format(n) = "PDF" /\ text[w] = <<>>
          /\ next[w] <= Pages[Doc(n)] + 1 /\ Len(pages[n]) = next[w] - 1
    /\ at[w] = "collect" =>
          /\ Format(n) = "PDF"
          /\ next[w] <= Pages[Doc(n)] + 1 /\ Len(pages[n]) = Pages[Doc(n)]
          /\ Len(text[w]) = next[w] - 1
          /\ \A i \in 1..Len(text[w]) : text[w][i] = <<Doc(n), i>>
PageInv == FutureTexts /\ \A w \in Workers : Progress(w, job[w].ticket)

PoolInv == ValuesOK /\ TasksExist /\ CallInv /\ PageInv
Inv == R!TypeOK /\ PoolInv

-----------------------------------------------------------------------------
(* The fixed states of promises and the tasks are of their kinds.           *)
LEMMA ConstantTypes ==
    /\ Pending \in Answers /\ Thrown \in Answers /\ Lost \in Answers
    /\ Unread \in PageFutures
    /\ \A n \in Nat \ {0}, i \in Nat : Task(n, i) \in Tasks
  BY LangsAssumption
  DEF Pending, Thrown, Lost, Answers, Unread, PageState, PageFutures, Task, Tasks, Texts

(* Every task, queued or running, belongs to a request and to a future.     *)
LEMMA TaskFacts ==
    ASSUME TasksExist
    PROVE  /\ \A p \in Callers \cup Workers : \A i \in 1..Len(queue[p]) :
                 /\ queue[p][i].ticket \in Tickets
                 /\ queue[p][i].page \in 0..Len(pages[queue[p][i].ticket])
           /\ \A w \in Workers : at[w] # "idle" =>
                 /\ job[w].ticket \in Tickets
                 /\ job[w].page \in 0..Len(pages[job[w].ticket])
           /\ \A w \in Workers : at[w] = "idle" => job[w] = NoTask
  BY DEF TasksExist, Exists

(* A new call finds its caller's part of the queue empty.                   *)
LEMMA SubmitStep ==
    ASSUME Inv, NEW c \in Callers, NEW r \in Requests, Push(c, r)
    PROVE  PoolInv'
<1> USE DEF Inv, PoolInv
<1> DEFINE n == Len(asked) + 1
<1>0. /\ n \in Nat \ {0} /\ waiting[c] = 0 /\ queue[c] = <<>>
      /\ Task(n, 0) \in Tasks /\ Task(n, 0).ticket = n /\ Task(n, 0).page = 0
  BY ConstantTypes DEF Push, CallInv, QueuedCalls, ValuesOK, Task
<1>1. /\ asked' = Append(asked, r) /\ Len(asked') = n /\ asked' \in Seq(Requests)
      /\ \A m \in Tickets : asked'[m] = asked[m]
  BY DEF Push, Submit, ValuesOK, Tickets
<1>2. /\ answer' \in Seq(Answers) /\ Len(answer') = n /\ answer'[n] = Pending
      /\ \A m \in Tickets : answer'[m] = answer[m]
  BY ConstantTypes DEF Push, Submit, ValuesOK, Tickets
<1>3. /\ pages' \in Seq(Seq(PageFutures)) /\ Len(pages') = n /\ pages'[n] = <<>>
      /\ \A m \in Tickets : pages'[m] = pages[m]
  BY DEF Push, Submit, ValuesOK, Tickets
<1>4. /\ queue' \in [Callers \cup Workers -> Seq(Tasks)]
      /\ queue'[c] = <<Task(n, 0)>>
      /\ \A p \in Callers \cup Workers : p # c => queue'[p] = queue[p]
  BY <1>0 DEF Push, Submit, ValuesOK
<1>5. /\ waiting' \in [Callers -> 0..n] /\ waiting'[c] = n
      /\ \A d \in Callers : d # c => waiting'[d] = waiting[d]
  BY <1>0 DEF Push, Submit, ValuesOK
<1>6. UNCHANGED <<at, job, next, text, rkey>>
  BY DEF Push, Submit, frame, cache
<1>7. ValuesOK'
  BY <1>1, <1>2, <1>3, <1>4, <1>5, <1>6, BoundsAssumption DEF ValuesOK, Push, Submit
<1>a. Tickets' = Tickets \cup {n} /\ n \notin Tickets /\ n # 0
  BY <1>1, <1>0 DEF Tickets, ValuesOK
<1>8. TasksExist'
  <2>1. \A m \in Tickets : Len(pages'[m]) = Len(pages[m])
    BY <1>3
  <2>2. ASSUME NEW p \in Callers \cup Workers, NEW i \in 1..Len(queue'[p])
        PROVE  /\ queue'[p][i].ticket \in Tickets'
               /\ queue'[p][i].page \in 0..Len(pages'[queue'[p][i].ticket])
    <3>1. CASE p = c
      BY <3>1, <2>2, <1>0, <1>a, <1>4, <1>3
    <3>2. CASE p # c
      BY <3>2, <2>1, <2>2, TaskFacts, <1>a, <1>4
    <3> QED
      BY <3>1, <3>2
  <2>3. ASSUME NEW w \in Workers, at[w] # "idle"
        PROVE  job'[w].ticket \in Tickets' /\ job'[w].page \in 0..Len(pages'[job'[w].ticket])
    BY <2>1, <2>3, TaskFacts, <1>a, <1>6
  <2> QED
    BY <2>2, <2>3, TaskFacts, <1>6 DEF TasksExist, Exists
<1>9. CallInv'
  <2>1. CallersDiffer'
    <3>1. \A d \in Callers : waiting[d] # n
      BY <1>0 DEF ValuesOK
    <3> QED
      BY <1>5, <3>1 DEF CallersDiffer, CallInv
  <2>2. QueuedCalls'
    <3> SUFFICES ASSUME NEW d \in Callers, queue'[d] # <<>>
                 PROVE  /\ waiting'[d] # 0
                        /\ queue'[d] = <<Task(waiting'[d], 0)>>
                        /\ answer'[waiting'[d]] = Pending
                        /\ pages'[waiting'[d]] = <<>>
      BY DEF QueuedCalls, Task, Pending
    <3>1. CASE d = c
      BY <3>1, <1>0, <1>2, <1>3, <1>4, <1>5
    <3>2. CASE d # c
      <4>1. queue'[d] = queue[d] /\ waiting'[d] = waiting[d]
        BY <3>2, <1>4, <1>5
      <4>2. /\ waiting[d] # 0 /\ queue[d] = <<Task(waiting[d], 0)>>
            /\ answer[waiting[d]] = Pending /\ pages[waiting[d]] = <<>>
        BY <4>1 DEF CallInv, QueuedCalls
      <4>3. waiting[d] \in Tickets
        BY <4>2 DEF ValuesOK, Tickets
      <4> QED
        BY <4>1, <4>2, <4>3, <1>2, <1>3
    <3> QED
      BY <3>1, <3>2
  <2>3. PageTasks'
    BY <1>4, <1>6, ThreadsAssumption DEF PageTasks, CallInv
  <2>4. RunningCalls'
    <3> SUFFICES ASSUME NEW w \in Workers, Running(w)
                 PROVE  /\ job[w].page = 0
                        /\ answer'[job[w].ticket] = Pending
                        /\ \E d \in Callers : waiting'[d] = job[w].ticket /\ queue'[d] = <<>>
      BY <1>6 DEF RunningCalls, Running, Pending
    <3>1. job[w].page = 0 /\ job[w].ticket \in Tickets /\ answer[job[w].ticket] = Pending
      BY TaskFacts DEF CallInv, RunningCalls, Running
    <3>2. PICK d \in Callers : waiting[d] = job[w].ticket /\ queue[d] = <<>>
      BY DEF CallInv, RunningCalls
    <3>3. d # c
      BY <3>1, <3>2, <1>0, <1>a DEF Tickets
    <3> QED
      BY <3>1, <3>2, <3>3, <1>2, <1>4, <1>5
  <2>5. RunnersDiffer'
    BY <1>6 DEF RunnersDiffer, CallInv, Running
  <2> QED
    BY <2>1, <2>2, <2>3, <2>4, <2>5 DEF CallInv
<1>10. PageInv'
  <2>1. FutureTexts'
    <3> SUFFICES ASSUME NEW m \in Tickets', NEW i \in 1..Len(pages'[m]),
                        pages'[m][i].state = "ready"
                 PROVE  pages'[m][i].text = << <<asked'[m].doc, i>> >>
      BY DEF FutureTexts, Doc
    <3>1. m \in Tickets
      BY <1>3, <1>a
    <3> QED
      BY <3>1, <1>1, <1>3 DEF PageInv, FutureTexts, Doc
  <2>2. ASSUME NEW w \in Workers
        PROVE  Progress(w, job[w].ticket)'
    <3>1. CASE Running(w)
      <4>1. job[w].ticket \in Tickets
        BY <3>1, TaskFacts DEF Running
      <4> QED
        BY <4>1, <3>1, <1>1, <1>3, <1>6 DEF Progress, PageInv, Doc, Format, Running, Fresh
    <3>2. CASE ~Running(w)
      BY <3>2, <1>6 DEF Progress, PageInv, Running, Fresh
    <3> QED
      BY <3>1, <3>2
  <2> QED
    BY <2>1, <2>2, <1>6 DEF PageInv
<1> QED
  BY <1>7, <1>8, <1>9, <1>10

(* A caller that receives its answer has no task left.                      *)
LEMMA ReceiveStep ==
    ASSUME Inv, NEW c \in Callers, Receive(c)
    PROVE  PoolInv'
<1> USE DEF Inv, PoolInv
<1>1. /\ waiting' \in [Callers -> 0..Len(asked)] /\ waiting'[c] = 0
      /\ \A d \in Callers : d # c => waiting'[d] = waiting[d]
      /\ waiting[c] # 0 /\ answer[waiting[c]] # Pending
  BY DEF Receive, ValuesOK
<1>2. UNCHANGED <<queue, asked, answer, pages, at, job, next, text, rkey>>
  BY DEF Receive, frame, cache
<1>3. ValuesOK' /\ TasksExist' /\ PageInv'
  BY <1>1, <1>2
  DEF ValuesOK, TasksExist, Exists, Tickets, PageInv, FutureTexts, Progress, Running, Fresh,
      Doc, Format
<1>4. queue[c] = <<>>
  BY <1>1 DEF CallInv, QueuedCalls
<1>5. CallersDiffer' /\ QueuedCalls' /\ PageTasks' /\ RunnersDiffer'
  BY <1>1, <1>2, <1>4
  DEF CallInv, CallersDiffer, QueuedCalls, PageTasks, RunnersDiffer, Running, Task, Pending
<1>6. RunningCalls'
  <2> SUFFICES ASSUME NEW w \in Workers, Running(w)
               PROVE  /\ job[w].page = 0
                      /\ answer[job[w].ticket] = Pending
                      /\ \E d \in Callers : waiting'[d] = job[w].ticket /\ queue[d] = <<>>
    BY <1>2 DEF RunningCalls, Running, Pending
  <2> QED
    BY <1>1 DEF CallInv, RunningCalls
<1> QED
  BY <1>3, <1>5, <1>6 DEF CallInv

(* The promise of a request is fulfilled by the worker that runs it.        *)
LEMMA EndRequestStep ==
    ASSUME Inv, NEW w \in Workers, NEW result \in Answers, Running(w), EndRequest(w, result)
    PROVE  PoolInv'
<1> USE DEF Inv, PoolInv
<1> DEFINE n == job[w].ticket
<1>0. n \in Tickets
  BY TaskFacts DEF Running
<1>1. /\ answer' \in Seq(Answers) /\ Len(answer') = Len(answer)
      /\ \A m \in Tickets : m # n => answer'[m] = answer[m]
  BY <1>0 DEF EndRequest, ValuesOK, Tickets
<1>2. /\ at' = [at EXCEPT ![w] = "idle"] /\ job' = [job EXCEPT ![w] = NoTask]
      /\ next' = [next EXCEPT ![w] = 1] /\ text' = [text EXCEPT ![w] = <<>>]
      /\ UNCHANGED <<queue, asked, waiting, pages, rkey>>
  BY DEF EndRequest, R!Leave
<1>3. ~Running(w)' /\ \A v \in Workers : Running(v)' => Running(v) /\ v # w
  BY <1>2 DEF Running, ValuesOK
<1>4. ValuesOK'
  BY <1>1, <1>2 DEF ValuesOK, Texts
<1>5. TasksExist'
  BY <1>2 DEF TasksExist, Exists, Tickets, ValuesOK
<1>6. CallInv'
  <2>1. PICK c \in Callers : waiting[c] = n /\ queue[c] = <<>>
    BY DEF CallInv, RunningCalls
  <2>2. CallersDiffer' /\ PageTasks'
    BY <1>2 DEF CallInv, CallersDiffer, PageTasks, ValuesOK
  <2>3. QueuedCalls'
    <3> SUFFICES ASSUME NEW d \in Callers, queue[d] # <<>>
                 PROVE  /\ waiting[d] # 0
                        /\ queue[d] = <<Task(waiting[d], 0)>>
                        /\ answer'[waiting[d]] = Pending
                        /\ pages[waiting[d]] = <<>>
      BY <1>2 DEF QueuedCalls, Task, Pending
    <3>1. /\ waiting[d] # 0 /\ queue[d] = <<Task(waiting[d], 0)>>
          /\ answer[waiting[d]] = Pending /\ pages[waiting[d]] = <<>>
      BY DEF CallInv, QueuedCalls
    <3>2. waiting[d] \in Tickets
      BY <3>1 DEF ValuesOK, Tickets
    <3>3. waiting[d] # n
      BY <2>1, <3>1 DEF CallInv, CallersDiffer
    <3> QED
      BY <3>1, <3>2, <3>3, <1>1
  <2>4. RunningCalls'
    <3> SUFFICES ASSUME NEW v \in Workers, Running(v), v # w
                 PROVE  /\ job'[v].page = 0
                        /\ answer'[job'[v].ticket] = Pending
                        /\ \E d \in Callers : waiting[d] = job'[v].ticket /\ queue[d] = <<>>
      BY <1>2, <1>3 DEF RunningCalls, Pending
    <3>1. job'[v] = job[v] /\ job[v].ticket # n /\ job[v].ticket \in Tickets
      BY <1>2, TaskFacts DEF CallInv, RunnersDiffer, ValuesOK, Running
    <3> QED
      BY <3>1, <1>1 DEF CallInv, RunningCalls
  <2>5. RunnersDiffer'
    BY <1>2, <1>3 DEF CallInv, RunnersDiffer, ValuesOK
  <2> QED
    BY <2>2, <2>3, <2>4, <2>5 DEF CallInv
<1>7. PageInv'
  <2>1. FutureTexts'
    BY <1>2 DEF PageInv, FutureTexts, Tickets, Doc
  <2>2. ASSUME NEW v \in Workers
        PROVE  Progress(v, job[v].ticket)'
    <3>1. CASE v = w
      BY <3>1, <1>2, <1>3 DEF Progress, Fresh, ValuesOK
    <3>2. CASE v # w
      BY <3>2, <1>2 DEF PageInv, Progress, Fresh, Running, ValuesOK, Doc, Format
    <3> QED
      BY <3>1, <3>2
  <2> QED
    BY <2>1, <2>2 DEF PageInv
<1> QED
  BY <1>4, <1>5, <1>6, <1>7

(* A task moves from the queue into the hands of an idle worker.            *)
LEMMA DequeueStep ==
    ASSUME Inv, NEW w \in Workers, NEW p \in Callers \cup Workers, Dequeue(w, p)
    PROVE  PoolInv'
<1> USE DEF Inv, PoolInv
<1> DEFINE task == Head(queue[p])
<1>1. /\ at[w] = "idle" /\ task \in Tasks /\ queue[p] # <<>>
      /\ Len(queue[p]) \in Nat \ {0} /\ task = queue[p][1]
      /\ Tail(queue[p]) \in Seq(Tasks) /\ Len(Tail(queue[p])) = Len(queue[p]) - 1
      /\ \A i \in 1..Len(Tail(queue[p])) : Tail(queue[p])[i] = queue[p][i + 1]
  BY HeadTailProperties DEF Dequeue, ValuesOK
<1>2. /\ queue' = [queue EXCEPT ![p] = Tail(queue[p])]
      /\ job' = [job EXCEPT ![w] = task]
      /\ at' = [at EXCEPT ![w] = IF task.page = 0 THEN "check" ELSE "page"]
      /\ UNCHANGED <<asked, answer, waiting, pages, next, text>>
  BY DEF Dequeue, calls, frame
<1>3. task.ticket \in Tickets /\ task.page \in 0..Len(pages[task.ticket])
  BY <1>1, TaskFacts
<1>4. ValuesOK'
  BY <1>1, <1>2 DEF ValuesOK
<1>5. TasksExist'
  <2>1. ASSUME NEW q \in Callers \cup Workers, NEW i \in 1..Len(queue'[q])
        PROVE  Exists(queue[q][i])'
    <3>1. CASE q = p
      <4>1. i + 1 \in 1..Len(queue[p]) /\ queue'[q][i] = queue[p][i + 1]
        BY <3>1, <2>1, <1>1, <1>2 DEF ValuesOK
      <4> QED
        BY <4>1, <1>2, TaskFacts DEF Exists, Tickets
    <3>2. CASE q # p
      <4>1. queue'[q] = queue[q]
        BY <3>2, <1>2 DEF ValuesOK
      <4> QED
        BY <4>1, <2>1, <1>2, TaskFacts DEF Exists, Tickets
    <3> QED
      BY <3>1, <3>2
  <2>2. ASSUME NEW v \in Workers
        PROVE  IF at'[v] = "idle" THEN job'[v] = NoTask ELSE Exists(job[v])'
    BY <1>2, <1>3, TaskFacts DEF ValuesOK, Exists, Tickets
  <2> QED
    BY <2>1, <2>2 DEF TasksExist, NoTask, Task
<1>6. \A v \in Workers : v # w => /\ at'[v] = at[v] /\ job'[v] = job[v]
                                  /\ next'[v] = next[v] /\ text'[v] = text[v]
  BY <1>2 DEF ValuesOK
<1>7. Fresh(w)
  BY <1>1 DEF PageInv, Progress, Running
<1>8. CASE task.page # 0
  <2>1. p \in Workers /\ p \notin Callers
    <3>1. ASSUME p \in Callers
          PROVE  task.page = 0
      <4>1. queue[p] = <<Task(waiting[p], 0)>>
        BY <3>1, <1>1 DEF CallInv, QueuedCalls
      <4> QED
        BY <4>1, <1>1 DEF Task
    <3> QED
      BY <3>1, <1>8, ThreadsAssumption
  <2>2. at'[w] = "page" /\ job'[w] = task /\ rkey' = rkey /\ queue'[p] = Tail(queue[p])
        /\ \A q \in Callers \cup Workers : q # p => queue'[q] = queue[q]
    BY <1>8, <1>2 DEF ValuesOK, Dequeue, cache
  <2>3. \A v \in Workers : Running(v)' => Running(v) /\ v # w
    BY <1>6, <2>2 DEF Running
  <2>4. CallersDiffer' /\ QueuedCalls'
    BY <1>2, <2>1, <2>2 DEF CallInv, CallersDiffer, QueuedCalls, Task, Pending
  <2>5. PageTasks'
    <3>1. ASSUME NEW v \in Workers, NEW i \in 1..Len(queue'[v])
          PROVE  queue'[v][i].page # 0
      <4>1. CASE v = p
        <5>1. i + 1 \in 1..Len(queue[p]) /\ queue'[v][i] = queue[p][i + 1]
          BY <3>1, <4>1, <2>2, <1>1
        <5> QED
          BY <5>1, <2>1 DEF CallInv, PageTasks
      <4>2. CASE v # p
        BY <3>1, <4>2, <2>2 DEF CallInv, PageTasks
      <4> QED
        BY <4>1, <4>2
    <3> QED
      BY <3>1, <1>6, <1>8, <2>2 DEF CallInv, PageTasks
  <2>6. RunningCalls' /\ RunnersDiffer'
    BY <1>2, <1>6, <2>1, <2>2, <2>3 DEF CallInv, RunningCalls, RunnersDiffer, Pending
  <2>7. FutureTexts'
    BY <1>2 DEF PageInv, FutureTexts, Tickets, Doc
  <2>8. ASSUME NEW v \in Workers
        PROVE  Progress(v, job[v].ticket)'
    <3>1. CASE v = w
      BY <3>1, <1>2, <1>7, <2>2 DEF Progress, Fresh, Running
    <3>2. CASE v # w
      BY <3>2, <1>2, <1>6, <2>2 DEF PageInv, Progress, Fresh, Running, Doc, Format
    <3> QED
      BY <3>1, <3>2
  <2> QED
    BY <1>4, <1>5, <2>4, <2>5, <2>6, <2>7, <2>8 DEF CallInv, PageInv
<1>9. CASE task.page = 0
  <2>1. p \in Callers /\ p \notin Workers
    BY <1>9, <1>1, ThreadsAssumption DEF CallInv, PageTasks
  <2> DEFINE n == waiting[p]
  <2>2. /\ n # 0 /\ queue[p] = <<task>> /\ task.ticket = n
        /\ answer[n] = Pending /\ pages[n] = <<>> /\ n \in Tickets
    <3>1. /\ n # 0 /\ queue[p] = <<Task(n, 0)>>
          /\ answer[n] = Pending /\ pages[n] = <<>>
      BY <1>1, <2>1 DEF CallInv, QueuedCalls
    <3>2. n \in Tickets
      BY <2>1, <3>1 DEF ValuesOK, Tickets
    <3> QED
      BY <3>1, <3>2, <1>1 DEF Task
  <2>3. /\ at'[w] = "check" /\ job'[w] = task /\ queue'[p] = <<>>
        /\ \A q \in Callers \cup Workers : q # p => queue'[q] = queue[q]
    <3>1. Tail(queue[p]) = <<>>
      <4>1. \A x : Len(<<x>>) = 1
        OBVIOUS
      <4>2. Len(queue[p]) = 1
        <5> HIDE DEF task
        <5> QED
          BY <4>1, <2>2
      <4>3. Len(Tail(queue[p])) = 0
        BY <4>2, <1>1
      <4> QED
        BY <4>3, <1>1, EmptySeq
    <3> QED
      BY <3>1, <1>9, <1>2 DEF ValuesOK
  <2>4. rkey' = [rkey EXCEPT ![w] = Hash[Doc(n)]] /\ rkey \in [Workers -> Keys]
    BY <1>9, <2>2 DEF Dequeue, R!CallCheck, R!TypeOK
  <2>5. Running(w)' /\ \A v \in Workers : v # w /\ Running(v)' => Running(v)
    BY <1>6, <2>3 DEF Running
  <2>6. CallersDiffer' /\ QueuedCalls' /\ PageTasks'
    <3>1. CallersDiffer' /\ QueuedCalls'
      BY <1>2, <2>1, <2>3 DEF CallInv, CallersDiffer, QueuedCalls, Task, Pending
    <3>2. PageTasks'
      BY <1>6, <2>1, <2>3 DEF CallInv, PageTasks
    <3> QED
      BY <3>1, <3>2
  <2>7. ASSUME NEW v \in Workers, v # w, Running(v)
        PROVE  /\ job[v].ticket # n /\ job[v].page = 0 /\ answer[job[v].ticket] = Pending
               /\ \E d \in Callers : d # p /\ waiting[d] = job[v].ticket /\ queue[d] = <<>>
    <3>1. PICK d \in Callers : waiting[d] = job[v].ticket /\ queue[d] = <<>>
      BY <2>7 DEF CallInv, RunningCalls
    <3> QED
      BY <2>7, <3>1, <2>1, <2>2 DEF CallInv, RunningCalls, CallersDiffer
  <2>8. RunningCalls'
    <3> SUFFICES ASSUME NEW v \in Workers, Running(v)'
                 PROVE  /\ job'[v].page = 0
                        /\ answer[job'[v].ticket] = Pending
                        /\ \E d \in Callers : waiting[d] = job'[v].ticket /\ queue'[d] = <<>>
      BY <1>2 DEF RunningCalls, Pending
    <3>1. CASE v = w
      BY <3>1, <1>9, <2>1, <2>2, <2>3
    <3>2. CASE v # w
      BY <3>2, <1>6, <2>3, <2>5, <2>7
    <3> QED
      BY <3>1, <3>2
  <2>9. RunnersDiffer'
    <3>1. \A v \in Workers : v # w /\ Running(v)' => job'[v].ticket # job'[w].ticket
      BY <1>6, <2>2, <2>3, <2>5, <2>7
    <3> QED
      BY <3>1, <1>6, <2>5 DEF CallInv, RunnersDiffer
  <2>10. FutureTexts'
    BY <1>2 DEF PageInv, FutureTexts, Tickets, Doc
  <2>11. ASSUME NEW v \in Workers
         PROVE  Progress(v, job[v].ticket)'
    <3>1. CASE v = w
      BY <3>1, <1>2, <1>7, <2>2, <2>3, <2>4, <2>5 DEF Progress, Fresh, Doc
    <3>2. CASE v # w
      BY <3>2, <1>2, <1>6, <2>4 DEF PageInv, Progress, Fresh, Running, Doc, Format
    <3> QED
      BY <3>1, <3>2
  <2> QED
    BY <1>4, <1>5, <2>6, <2>8, <2>9, <2>10, <2>11 DEF CallInv, PageInv
<1> QED
  BY <1>8, <1>9

(* A step inside the task of a request that leaves queue and futures alone: *)
(* rendering, collecting a page, pushing the result.                        *)
LEMMA LocalStep ==
    ASSUME Inv, NEW w \in Workers, Running(w),
           UNCHANGED <<queue, asked, answer, waiting, pages, job, rkey>>,
           at' \in [Workers -> {"idle", "check", "spawn", "collect", "push", "page"}],
           next' \in [Workers -> Nat \ {0}],
           text' \in [Workers -> Texts],
           \A v \in Workers : v # w =>
               at'[v] = at[v] /\ next'[v] = next[v] /\ text'[v] = text[v],
           Running(w)', Progress(w, job[w].ticket)'
    PROVE  PoolInv'
<1> USE DEF Inv, PoolInv
<1>1. \A v \in Workers : v # w => at'[v] = at[v] /\ next'[v] = next[v] /\ text'[v] = text[v]
  OBVIOUS
<1>2. at'[w] \notin {"idle", "page"} /\ at[w] \notin {"idle", "page"}
  BY DEF Running
<1>3. \A v \in Workers : /\ Running(v)' <=> Running(v)
                         /\ (at'[v] = "idle") <=> (at[v] = "idle")
                         /\ (at'[v] = "page") <=> (at[v] = "page")
  BY <1>1, <1>2 DEF Running
<1>4. ValuesOK'
  BY DEF ValuesOK
<1>5. TasksExist'
  BY <1>3 DEF TasksExist, Exists, Tickets
<1>6. CallInv'
  BY <1>3
  DEF CallInv, CallersDiffer, QueuedCalls, PageTasks, RunningCalls, RunnersDiffer, Task, Pending
<1>7. PageInv'
  <2>1. FutureTexts'
    BY DEF PageInv, FutureTexts, Tickets, Doc
  <2>2. ASSUME NEW v \in Workers, v # w
        PROVE  Progress(v, job[v].ticket)'
    BY <2>2, <1>1 DEF PageInv, Progress, Fresh, Running, Doc, Format
  <2> QED
    BY <2>1, <2>2 DEF PageInv
<1> QED
  BY <1>4, <1>5, <1>6, <1>7

(* After a miss the pages of a PDF are rendered, and none is spawned yet.   *)
LEMMA RenderStep ==
    ASSUME Inv, NEW w \in Workers, Render(w)
    PROVE  PoolInv'
<1> USE DEF Inv, PoolInv
<1> DEFINE n == job[w].ticket
<1>1. /\ Running(w) /\ at[w] = "check" /\ Format(n) = "PDF" /\ n \in Tickets
      /\ at' = [at EXCEPT ![w] = "spawn"]
      /\ UNCHANGED <<queue, asked, answer, waiting, pages, job, rkey, next, text>>
  BY TaskFacts DEF Render, Miss, Checked, Running, calls, frame, cache
<1>2. Fresh(w) /\ pages[n] = <<>> /\ rkey[w] = Hash[Doc(n)]
  BY <1>1 DEF PageInv, Progress
<1>3. Pages[Doc(n)] \in Nat
  BY <1>1, PagesAssumption, RequestsAssumption DEF ValuesOK, Tickets, Doc
<1>4. at'[w] = "spawn" /\ \A v \in Workers : v # w => at'[v] = at[v]
  BY <1>1 DEF ValuesOK
<1>5. Running(w)' /\ Progress(w, job[w].ticket)'
  BY <1>1, <1>2, <1>3, <1>4 DEF Progress, Fresh, Running, Format, Doc
<1>6. /\ at' \in [Workers -> {"idle", "check", "spawn", "collect", "push", "page"}]
      /\ next' \in [Workers -> Nat \ {0}] /\ text' \in [Workers -> Texts]
  BY <1>1 DEF ValuesOK
<1> HIDE DEF Inv, PoolInv
<1> QED
  BY <1>1, <1>4, <1>5, <1>6, LocalStep

(* Collecting a page appends the text of the next page.                     *)
LEMMA CollectStep ==
    ASSUME Inv, NEW w \in Workers, CollectPage(w)
    PROVE  PoolInv'
<1> USE DEF Inv, PoolInv
<1> DEFINE n == job[w].ticket
           i == next[w]
           images == text[w] \o pages[n][i].text
<1>1. /\ Running(w) /\ at[w] = "collect" /\ n \in Tickets
      /\ i \in 1..Len(pages[n]) /\ pages[n][i].state = "ready"
      /\ at' = [at EXCEPT ![w] = "collect"]
      /\ next' = [next EXCEPT ![w] = i + 1] /\ text' = [text EXCEPT ![w] = images]
      /\ UNCHANGED <<queue, asked, answer, waiting, pages, job, rkey>>
  BY TaskFacts DEF CollectPage, Running, calls, cache, ValuesOK
<1>2. /\ Format(n) = "PDF" /\ Len(pages[n]) = Pages[Doc(n)] /\ rkey[w] = Hash[Doc(n)]
      /\ Len(text[w]) = i - 1 /\ \A j \in 1..Len(text[w]) : text[w][j] = <<Doc(n), j>>
      /\ text[w] \in Seq(Images)
  BY <1>1 DEF PageInv, Progress, ValuesOK, Texts
<1>3. pages[n][i].text = << <<Doc(n), i>> >> /\ <<Doc(n), i>> \in Images
  <2>1. pages[n][i].text = << <<Doc(n), i>> >>
    BY <1>1 DEF PageInv, FutureTexts
  <2>2. Doc(n) \in Docs /\ i \in Nat
    BY <1>1, RequestsAssumption DEF ValuesOK, Tickets, Doc
  <2> QED
    BY <2>1, <2>2 DEF Images
<1>4. /\ images \in Texts /\ Len(images) = i
      /\ \A j \in 1..Len(images) : images[j] = <<Doc(n), j>>
  <2> DEFINE page == << <<Doc(n), i>> >>
  <2>1. page \in Seq(Images) /\ Len(page) = 1 /\ page[1] = <<Doc(n), i>>
    BY <1>3
  <2>2. /\ text[w] \o page \in Seq(Images) /\ Len(text[w] \o page) = i
        /\ \A j \in 1..i : (text[w] \o page)[j] =
              IF j <= i - 1 THEN text[w][j] ELSE page[j - (i - 1)]
    <3> HIDE DEF page, i
    <3>1. i \in Nat \ {0} /\ Len(text[w]) + Len(page) = i
      BY <1>1, <1>2, <2>1
    <3>2. /\ text[w] \o page \in Seq(Images)
          /\ Len(text[w] \o page) = Len(text[w]) + Len(page)
          /\ \A j \in 1..(Len(text[w]) + Len(page)) : (text[w] \o page)[j] =
                IF j <= Len(text[w]) THEN text[w][j] ELSE page[j - Len(text[w])]
      BY <1>2, <2>1, ConcatProperties
    <3> QED
      BY <1>2, <3>1, <3>2
  <2>3. ASSUME NEW j \in 1..i
        PROVE  (text[w] \o page)[j] = <<Doc(n), j>>
    <3> HIDE DEF page, i
    <3>1. i \in Nat \ {0}
      BY <1>1
    <3>2. CASE j = i
      BY <3>1, <3>2, <2>1, <2>2
    <3>3. CASE j # i
      <4>1. j \in 1..Len(text[w]) /\ j <= i - 1
        BY <3>1, <3>3, <1>2
      <4> QED
        BY <4>1, <1>2, <2>2
    <3> QED
      BY <3>2, <3>3
  <2> QED
    BY <1>3, <2>2, <2>3 DEF Texts
<1>5. /\ at'[w] = "collect" /\ next'[w] = i + 1 /\ text'[w] = images
      /\ \A v \in Workers : v # w =>
            at'[v] = at[v] /\ next'[v] = next[v] /\ text'[v] = text[v]
      /\ at' \in [Workers -> {"idle", "check", "spawn", "collect", "push", "page"}]
      /\ next' \in [Workers -> Nat \ {0}] /\ text' \in [Workers -> Texts]
  <2> HIDE DEF n, i, images
  <2> QED
    BY <1>1, <1>4 DEF ValuesOK
<1>6. Running(w)' /\ Progress(w, job[w].ticket)'
  <2> HIDE DEF i, images
  <2> QED
    BY <1>1, <1>2, <1>4, <1>5 DEF Progress, Running, Format, Doc
<1> HIDE DEF Inv, PoolInv
<1> QED
  BY <1>1, <1>5, <1>6, LocalStep

(* Pushing the result ends the computing part of the task.                  *)
LEMMA PushResultStep ==
    ASSUME Inv, NEW w \in Workers, Running(w), NEW images \in Texts, NEW lang,
           PushResult(w, images, lang)
    PROVE  PoolInv'
<1> USE DEF Inv, PoolInv
<1>1. /\ at' = [at EXCEPT ![w] = "push"] /\ text' = [text EXCEPT ![w] = images]
      /\ next' = [next EXCEPT ![w] = next[w]] /\ next[w] \in Nat \ {0}
      /\ UNCHANGED <<queue, asked, answer, waiting, pages, job, rkey>>
  BY DEF PushResult, calls, R!CallPush, ValuesOK
<1>2. /\ at'[w] = "push"
      /\ \A v \in Workers : v # w =>
            at'[v] = at[v] /\ next'[v] = next[v] /\ text'[v] = text[v]
      /\ at' \in [Workers -> {"idle", "check", "spawn", "collect", "push", "page"}]
      /\ next' \in [Workers -> Nat \ {0}] /\ text' \in [Workers -> Texts]
  BY <1>1 DEF ValuesOK
<1>3. Running(w)' /\ Progress(w, job[w].ticket)'
  BY <1>1, <1>2 DEF PageInv, Progress, Running, Doc
<1> HIDE DEF Inv, PoolInv
<1> QED
  BY <1>1, <1>2, <1>3, LocalStep

(* Spawning a page puts its task and its future in place together.          *)
LEMMA SpawnStep ==
    ASSUME Inv, NEW w \in Workers, SpawnPage(w)
    PROVE  PoolInv'
<1> USE DEF Inv, PoolInv
<1> DEFINE n == job[w].ticket
           i == next[w]
<1>1. /\ Running(w) /\ at[w] = "spawn" /\ n \in Tickets /\ i \in Nat \ {0}
      /\ UNCHANGED <<asked, answer, waiting, job, text, rkey>>
  BY TaskFacts DEF SpawnPage, Running, calls, cache, ValuesOK
<1>2. /\ Format(n) = "PDF" /\ text[w] = <<>> /\ rkey[w] = Hash[Doc(n)]
      /\ i <= Pages[Doc(n)] + 1 /\ Len(pages[n]) = i - 1 /\ Pages[Doc(n)] \in Nat
  BY <1>1, PagesAssumption, RequestsAssumption DEF PageInv, Progress, ValuesOK, Tickets, Doc
<1>3. CASE i > Pages[Doc(n)]
  <2>1. /\ at' = [at EXCEPT ![w] = "collect"] /\ next' = [next EXCEPT ![w] = 1]
        /\ UNCHANGED <<queue, pages>>
    BY <1>1, <1>2, <1>3 DEF SpawnPage
  <2>2. /\ at'[w] = "collect" /\ next'[w] = 1
        /\ \A v \in Workers : v # w =>
              at'[v] = at[v] /\ next'[v] = next[v] /\ text'[v] = text[v]
        /\ at' \in [Workers -> {"idle", "check", "spawn", "collect", "push", "page"}]
        /\ next' \in [Workers -> Nat \ {0}] /\ text' \in [Workers -> Texts]
    BY <1>1, <2>1 DEF ValuesOK
  <2>3. Running(w)' /\ Progress(w, job[w].ticket)'
    BY <1>1, <1>2, <1>3, <2>1, <2>2 DEF Progress, Running, Format, Doc
  <2> HIDE DEF Inv, PoolInv
  <2> QED
    BY <1>1, <2>1, <2>2, <2>3, LocalStep
<1>4. CASE i <= Pages[Doc(n)]
  <2>1. /\ queue' = [queue EXCEPT ![w] = Append(queue[w], Task(n, i))]
        /\ pages' = [pages EXCEPT ![n] = Append(pages[n], Unread)]
        /\ next' = [next EXCEPT ![w] = i + 1] /\ at' = at
    BY <1>4 DEF SpawnPage
  <2>2. Task(n, i) \in Tasks /\ Task(n, i).ticket = n /\ Task(n, i).page = i
    BY <1>1, ConstantTypes DEF Task, Tickets
  <2>3. /\ pages' \in Seq(Seq(PageFutures)) /\ Len(pages') = Len(pages)
        /\ pages'[n] \in Seq(PageFutures) /\ Len(pages'[n]) = i
        /\ pages'[n][i] = Unread /\ \A j \in 1..(i - 1) : pages'[n][j] = pages[n][j]
        /\ \A m \in Tickets : m # n => pages'[m] = pages[m]
    BY <1>1, <1>2, <2>1, ConstantTypes DEF ValuesOK, Tickets
  <2>4. /\ queue' \in [Callers \cup Workers -> Seq(Tasks)]
        /\ Len(queue'[w]) = Len(queue[w]) + 1 /\ Len(queue[w]) \in Nat
        /\ queue'[w][Len(queue[w]) + 1] = Task(n, i)
        /\ \A j \in 1..Len(queue[w]) : queue'[w][j] = queue[w][j]
        /\ \A p \in Callers \cup Workers : p # w => queue'[p] = queue[p]
    BY <2>1, <2>2 DEF ValuesOK
  <2>5. /\ next' \in [Workers -> Nat \ {0}] /\ next'[w] = i + 1
        /\ \A v \in Workers : v # w => next'[v] = next[v]
    BY <1>1, <2>1 DEF ValuesOK
  <2> HIDE DEF i
  <2>6. ValuesOK'
    BY <1>1, <2>1, <2>3, <2>4, <2>5 DEF ValuesOK
  <2>7. \A m \in Tickets : Len(pages[m]) \in Nat /\ Len(pages'[m]) >= Len(pages[m])
    <3> SUFFICES ASSUME NEW m \in Tickets
                 PROVE  Len(pages[m]) \in Nat /\ Len(pages'[m]) >= Len(pages[m])
      OBVIOUS
    <3>1. Len(pages[m]) \in Nat
      BY DEF ValuesOK, Tickets
    <3> QED
      <4>1. CASE m = n
        BY <3>1, <4>1, <1>1, <1>2, <2>3
      <4>2. CASE m # n
        BY <3>1, <4>2, <2>3
      <4> QED
        BY <4>1, <4>2
  <2>8. TasksExist'
    <3>1. ASSUME NEW p \in Callers \cup Workers, NEW j \in 1..Len(queue'[p])
          PROVE  /\ queue'[p][j].ticket \in Tickets
                 /\ queue'[p][j].page \in 0..Len(pages'[queue'[p][j].ticket])
      <4>1. CASE p = w /\ j = Len(queue[w]) + 1
        BY <4>1, <1>1, <2>2, <2>3, <2>4
      <4>2. CASE p = w /\ j # Len(queue[w]) + 1
        <5>1. j \in 1..Len(queue[p]) /\ queue'[p][j] = queue[p][j]
          BY <3>1, <4>2, <2>4
        <5>2. /\ queue[p][j].ticket \in Tickets
              /\ queue[p][j].page \in 0..Len(pages[queue[p][j].ticket])
          BY <5>1, TaskFacts
        <5> QED
          BY <5>1, <5>2, <2>7
      <4>3. CASE p # w
        <5>1. j \in 1..Len(queue[p]) /\ queue'[p][j] = queue[p][j]
          BY <3>1, <4>3, <2>4
        <5>2. /\ queue[p][j].ticket \in Tickets
              /\ queue[p][j].page \in 0..Len(pages[queue[p][j].ticket])
          BY <5>1, TaskFacts
        <5> QED
          BY <5>1, <5>2, <2>7
      <4> QED
        BY <4>1, <4>2, <4>3
    <3>2. ASSUME NEW v \in Workers, at[v] # "idle"
          PROVE  job[v].ticket \in Tickets /\ job[v].page \in 0..Len(pages'[job[v].ticket])
      BY <3>2, <2>7, TaskFacts
    <3> QED
      BY <1>1, <2>1, <3>1, <3>2, TaskFacts DEF TasksExist, Exists, Tickets
  <2>9. CallInv'
    <3>1. CallersDiffer' /\ RunnersDiffer'
      BY <1>1, <2>1 DEF CallInv, CallersDiffer, RunnersDiffer, Running
    <3>2. w \notin Callers
      BY ThreadsAssumption
    <3>3. RunningCalls'
      BY <1>1, <2>1, <2>4, <3>2 DEF CallInv, RunningCalls, Running, Pending
    <3>4. PageTasks'
      <4>1. ASSUME NEW v \in Workers, NEW j \in 1..Len(queue'[v])
            PROVE  queue'[v][j].page # 0
        <5>1. CASE v = w /\ j = Len(queue[w]) + 1
          BY <5>1, <1>1, <2>2, <2>4
        <5>2. CASE v # w \/ j # Len(queue[w]) + 1
          BY <4>1, <5>2, <2>4 DEF CallInv, PageTasks
        <5> QED
          BY <5>1, <5>2
      <4> QED
        BY <4>1, <1>1, <2>1 DEF CallInv, PageTasks
    <3>5. QueuedCalls'
      <4> SUFFICES ASSUME NEW d \in Callers, queue[d] # <<>>
                   PROVE  /\ waiting[d] # 0
                          /\ queue[d] = <<Task(waiting[d], 0)>>
                          /\ answer[waiting[d]] = Pending
                          /\ pages'[waiting[d]] = <<>>
        BY <1>1, <2>4, <3>2 DEF QueuedCalls, Task, Pending
      <4>1. PICK c \in Callers : waiting[c] = n /\ queue[c] = <<>>
        BY <1>1 DEF CallInv, RunningCalls
      <4>2. waiting[d] # n /\ waiting[d] \in Tickets
        BY <1>1, <4>1 DEF CallInv, CallersDiffer, QueuedCalls, ValuesOK, Tickets
      <4> QED
        BY <4>2, <2>3 DEF CallInv, QueuedCalls
    <3> QED
      BY <3>1, <3>3, <3>4, <3>5 DEF CallInv
  <2>10. PageInv'
    <3>1. FutureTexts'
      <4> SUFFICES ASSUME NEW m \in Tickets, NEW j \in 1..Len(pages'[m]),
                          pages'[m][j].state = "ready"
                   PROVE  pages'[m][j].text = << <<Doc(m), j>> >>
        BY <1>1 DEF FutureTexts, Tickets, Doc
      <4>1. j \in 1..Len(pages[m]) /\ pages'[m][j] = pages[m][j]
        <5>1. CASE m = n
          <6>1. j # Len(pages[n]) + 1
            BY <5>1, <1>2, <2>3 DEF Unread, PageState
          <6>2. /\ Len(pages[n]) \in Nat /\ i = Len(pages[n]) + 1
                /\ j \in 1..(Len(pages[n]) + 1)
            BY <5>1, <1>1, <1>2, <2>3
          <6>3. j \in 1..(i - 1) /\ j \in 1..Len(pages[n])
            BY <6>1, <6>2
          <6> QED
            BY <5>1, <6>3, <2>3
        <5>2. CASE m # n
          BY <5>2, <2>3
        <5> QED
          BY <5>1, <5>2
      <4> QED
        BY <4>1 DEF PageInv, FutureTexts
    <3>2. Progress(w, job[w].ticket)'
      BY <1>1, <1>2, <1>4, <2>1, <2>3, <2>5 DEF Progress, Running, Format, Doc
    <3>3. ASSUME NEW v \in Workers, v # w
          PROVE  Progress(v, job[v].ticket)'
      <4>1. CASE Running(v)
        <5>1. job[v].ticket # n /\ job[v].ticket \in Tickets
          BY <1>1, <3>3, <4>1, TaskFacts DEF CallInv, RunnersDiffer, Running
        <5>2. /\ pages'[job[v].ticket] = pages[job[v].ticket]
              /\ at'[v] = at[v] /\ next'[v] = next[v] /\ text'[v] = text[v]
              /\ rkey'[v] = rkey[v] /\ job'[v] = job[v] /\ asked' = asked
          BY <5>1, <1>1, <2>1, <2>3, <2>5, <3>3
        <5>3. Progress(v, job[v].ticket)
          BY DEF PageInv
        <5> QED
          BY <5>2, <5>3 DEF Progress, Fresh, Running, Doc, Format
      <4>2. CASE ~Running(v)
        BY <4>2, <1>1, <2>1, <2>5, <3>3 DEF PageInv, Progress, Fresh, Running
      <4> QED
        BY <4>1, <4>2
    <3> QED
      BY <3>1, <3>2, <3>3 DEF PageInv
  <2> QED
    BY <2>6, <2>8, <2>9, <2>10
<1> QED
  BY <1>1, <1>2, <1>3, <1>4

(* A page task fulfils its own promise and no other.                        *)
LEMMA EndPageStep ==
    ASSUME Inv, NEW w \in Workers, NEW result \in PageFutures, EndPage(w, result),
           result.state = "ready" =>
               result.text = << <<Doc(job[w].ticket), job[w].page>> >>
    PROVE  PoolInv'
<1> USE DEF Inv, PoolInv
<1> DEFINE n == job[w].ticket
           i == job[w].page
<1>1. /\ at[w] = "page" /\ n \in Tickets /\ i \in 1..Len(pages[n])
      /\ pages[n] \in Seq(PageFutures)
  <2>1. at[w] = "page"
    BY DEF EndPage
  <2>2. n \in Tickets /\ i \in 0..Len(pages[n]) /\ i # 0
    BY <2>1, TaskFacts DEF CallInv, PageTasks
  <2>3. pages[n] \in Seq(PageFutures)
    BY <2>2 DEF ValuesOK, Tickets
  <2> QED
    BY <2>1, <2>2, <2>3
<1>2. /\ pages' = [pages EXCEPT ![n] = [pages[n] EXCEPT ![i] = result]]
      /\ at' = [at EXCEPT ![w] = "idle"] /\ job' = [job EXCEPT ![w] = NoTask]
      /\ UNCHANGED <<queue, asked, answer, waiting, next, text, rkey>>
  BY DEF EndPage, calls, frame, cache
<1>3. /\ pages' \in Seq(Seq(PageFutures)) /\ Len(pages') = Len(pages)
      /\ \A m \in Tickets : m # n => pages'[m] = pages[m]
      /\ pages'[n] = [pages[n] EXCEPT ![i] = result]
  <2>1. /\ pages \in Seq(Seq(PageFutures)) /\ n \in 1..Len(pages)
        /\ Tickets = 1..Len(pages)
    BY <1>1 DEF ValuesOK, Tickets
  <2>2. [pages[n] EXCEPT ![i] = result] \in Seq(PageFutures)
    <3> HIDE DEF n, i
    <3> QED
      BY <1>1, ExceptSeq
  <2> HIDE DEF n, i
  <2> QED
    BY <2>1, <2>2, <1>2, ExceptSeq
<1>4. /\ Len(pages'[n]) = Len(pages[n]) /\ pages'[n][i] = result
      /\ \A j \in 1..Len(pages[n]) : j # i => pages'[n][j] = pages[n][j]
  BY <1>1, <1>3, ExceptSeq
<1>5. \A m \in Tickets : Len(pages'[m]) = Len(pages[m])
  BY <1>3, <1>4
<1>6. /\ at'[w] = "idle" /\ job'[w] = NoTask
      /\ \A v \in Workers : v # w => at'[v] = at[v] /\ job'[v] = job[v]
      /\ \A v \in Workers : Running(v)' <=> Running(v)
  BY <1>1, <1>2 DEF ValuesOK, Running
<1>7. ValuesOK'
  BY <1>2, <1>3 DEF ValuesOK
<1>8. TasksExist'
  <2>1. ASSUME NEW p \in Callers \cup Workers, NEW j \in 1..Len(queue[p])
        PROVE  /\ queue[p][j].ticket \in Tickets
               /\ queue[p][j].page \in 0..Len(pages'[queue[p][j].ticket])
    BY <2>1, <1>5, TaskFacts
  <2>2. ASSUME NEW v \in Workers, v # w, at[v] # "idle"
        PROVE  job[v].ticket \in Tickets /\ job[v].page \in 0..Len(pages'[job[v].ticket])
    BY <2>2, <1>5, TaskFacts
  <2> QED
    BY <1>2, <1>6, <2>1, <2>2, TaskFacts DEF TasksExist, Exists, Tickets
<1>9. CallInv'
  <2>1. CallersDiffer' /\ PageTasks'
    BY <1>2, <1>6 DEF CallInv, CallersDiffer, PageTasks
  <2>2. QueuedCalls'
    <3> SUFFICES ASSUME NEW d \in Callers, queue[d] # <<>>
                 PROVE  pages'[waiting[d]] = <<>>
      BY <1>2 DEF CallInv, QueuedCalls, Task, Pending
    <3>1. waiting[d] \in Tickets /\ pages[waiting[d]] = <<>>
      BY DEF CallInv, QueuedCalls, ValuesOK, Tickets
    <3>2. waiting[d] # n
      BY <3>1, <1>1
    <3> QED
      BY <3>1, <3>2, <1>3
  <2>3. RunningCalls' /\ RunnersDiffer'
    BY <1>1, <1>2, <1>6 DEF CallInv, RunningCalls, RunnersDiffer, Running, Pending
  <2> QED
    BY <2>1, <2>2, <2>3 DEF CallInv
<1>10. PageInv'
  <2>1. FutureTexts'
    <3> SUFFICES ASSUME NEW m \in Tickets, NEW j \in 1..Len(pages[m]),
                        pages'[m][j].state = "ready"
                 PROVE  pages'[m][j].text = << <<Doc(m), j>> >>
      BY <1>2, <1>5 DEF FutureTexts, Tickets, Doc
    <3>1. CASE m = n /\ j = i
      BY <3>1, <1>4
    <3>2. CASE ~(m = n /\ j = i)
      <4>1. pages'[m][j] = pages[m][j]
        BY <3>2, <1>3, <1>4
      <4> QED
        BY <4>1 DEF PageInv, FutureTexts
    <3> QED
      BY <3>1, <3>2
  <2>2. Progress(w, job[w].ticket)'
    BY <1>1, <1>2, <1>6 DEF PageInv, Progress, Fresh, Running
  <2>3. ASSUME NEW v \in Workers, v # w
        PROVE  Progress(v, job[v].ticket)'
    <3>1. CASE Running(v)
      <4> DEFINE m == job[v].ticket
      <4>1. m \in Tickets /\ Len(pages'[m]) = Len(pages[m])
        BY <3>1, <1>5, TaskFacts DEF Running
      <4>2. at[v] = "check" => m # n
        BY <3>1, <1>1 DEF PageInv, Progress
      <4> QED
        BY <4>1, <4>2, <3>1, <2>3, <1>2, <1>3, <1>6
        DEF PageInv, Progress, Fresh, Running, Doc, Format
    <3>2. CASE ~Running(v)
      BY <3>2, <2>3, <1>2, <1>6 DEF PageInv, Progress, Fresh, Running
    <3> QED
      BY <3>1, <3>2
  <2> QED
    BY <2>1, <2>2, <2>3 DEF PageInv
<1> QED
  BY <1>7, <1>8, <1>9, <1>10

(* After a restart there are no tasks and no calls in progress.             *)
LEMMA CrashStep ==
    ASSUME Inv, Crash
    PROVE  PoolInv'
<1> USE DEF Inv, PoolInv
<1>1. /\ queue' = [p \in Callers \cup Workers |-> <<>>]
      /\ waiting' = [c \in Callers |-> 0]
      /\ at' = [w \in Workers |-> "idle"] /\ job' = [w \in Workers |-> NoTask]
      /\ next' = [w \in Workers |-> 1] /\ text' = [w \in Workers |-> <<>>]
      /\ asked' = asked
  BY DEF Crash
<1>2. Len(asked) \in Nat
  BY DEF ValuesOK
<1>3. answer' \in Seq(Answers) /\ Len(answer') = Len(asked)
  <2>1. answer' = [n \in 1..Len(asked) |-> IF answer[n] = Pending THEN Lost ELSE answer[n]]
    BY DEF Crash, Tickets
  <2>2. \A n \in 1..Len(asked) : answer[n] \in Answers
    BY DEF ValuesOK
  <2> QED
    BY <1>2, <2>1, <2>2, ConstantTypes
<1>4. pages' \in Seq(Seq(PageFutures)) /\ Len(pages') = Len(asked)
      /\ \A n \in Tickets : pages'[n] = <<>>
  <2>1. pages' = [n \in 1..Len(asked) |-> <<>>] /\ <<>> \in Seq(PageFutures)
    BY DEF Crash, Tickets
  <2> QED
    BY <1>2, <2>1 DEF Tickets
<1>5. ValuesOK'
  BY <1>1, <1>2, <1>3, <1>4 DEF ValuesOK, Texts
<1>6. TasksExist' /\ CallInv'
  BY <1>1
  DEF TasksExist, CallInv, CallersDiffer, QueuedCalls, PageTasks, RunningCalls, RunnersDiffer,
      Running
<1>7. PageInv'
  BY <1>1, <1>4 DEF PageInv, FutureTexts, Progress, Fresh, Running, Tickets
<1> QED
  BY <1>5, <1>6, <1>7

(* Steps of the cache, and stuttering, do not touch the pool.               *)
LEMMA CacheOnlyStep ==
    ASSUME Inv, UNCHANGED <<queue, calls, pages, at, job, frame, rkey>>
    PROVE  PoolInv'
<1> USE DEF Inv, PoolInv
<1>1. UNCHANGED <<queue, asked, answer, waiting, pages, at, job, next, text, rkey>>
  BY DEF calls, frame
<1>2. ValuesOK'
  BY <1>1 DEF ValuesOK
<1>3. TasksExist'
  BY <1>1 DEF TasksExist, Exists, Tickets
<1>4. CallersDiffer' /\ QueuedCalls' /\ PageTasks'
  BY <1>1 DEF CallInv, CallersDiffer, QueuedCalls, PageTasks, Task, Pending
<1>5. RunningCalls' /\ RunnersDiffer'
  BY <1>1 DEF CallInv, RunningCalls, RunnersDiffer, Running, Pending
<1>6. FutureTexts'
  BY <1>1 DEF PageInv, FutureTexts, Tickets, Doc
<1>7. \A w \in Workers : Progress(w, job[w].ticket)'
  BY <1>1 DEF PageInv, Progress, Running, Fresh, Doc, Format
<1> QED
  BY <1>1, <1>2, <1>3, <1>4, <1>5, <1>6, <1>7 DEF CallInv, PageInv

-----------------------------------------------------------------------------
(* The pool gives the cache what its proofs assume of it.                   *)

(* The pages of a PDF, and a picture, are texts.                            *)
LEMMA DocumentTexts ==
    \A d \in Docs :
        /\ PdfImages(d) \in Texts /\ Len(PdfImages(d)) = Pages[d]
        /\ Picture(d) \in Texts
  BY PagesAssumption DEF PdfImages, Picture, Texts, Images

(* What processing a request yields can be stored in the cache.             *)
LEMMA ResultIsPair == \A r \in Requests : Result(r) \in R!Pairs
<1> SUFFICES ASSUME NEW r \in Requests
             PROVE  Result(r) \in R!Pairs
  OBVIOUS
<1>1. r.doc \in Docs /\ r.format \in Formats
  BY RequestsAssumption
<1>2. \A images \in Texts : Joined(images) \in Texts
  BY DEF Joined, Texts
<1>3. <<>> \in Texts
  BY DEF Texts
<1>4. Result(r).data \in Texts
  <2>1. CASE r.format = "PDF"
    BY <2>1, <1>1, <1>2, DocumentTexts DEF Result
  <2>2. CASE r.format = "IMAGE"
    BY <2>2, <1>1, <1>2, DocumentTexts DEF Result
  <2>3. CASE r.format = "AUTO"
    BY <2>3, <1>2, <1>3 DEF Result
  <2> QED
    BY <1>1, <2>1, <2>2, <2>3 DEF Formats
<1>5. Result(r).lang \in Langs
  BY <1>1, LangsAssumption DEF Result
<1> QED
  BY <1>4, <1>5 DEF Result, R!Pairs

(* The pool's constants satisfy the assumptions of RedisWorker.             *)
LEMMA CacheAssumptions ==
    RP!FieldsAssumption /\ RP!OutcomeAssumption /\ RP!LimitsAssumption
<1>1. R!Pairs = RP!Pairs
  BY DEF R!Pairs, RP!Pairs
<1>2. RP!FieldsAssumption
  BY LangsAssumption DEF RP!FieldsAssumption, Texts
<1>3. RP!OutcomeAssumption
  BY <1>1, ResultIsPair DEF RP!OutcomeAssumption
<1>4. RP!LimitsAssumption
  BY BoundsAssumption DEF RP!LimitsAssumption
<1> QED
  BY <1>2, <1>3, <1>4

(* The pool's cache and the one of the proofs are the same instance.        *)
LEMMA SameTypes == (R!TypeOK <=> RP!TypeOK) /\ (R!TypeOK' <=> RP!TypeOK')
  BY Zenon
  DEF R!TypeOK, RP!TypeOK, R!Records, RP!Records, R!Pairs, RP!Pairs, R!InCheck,
        RP!InCheck, R!InPush, RP!InPush

(* So are its initial states and its steps.                                 *)
LEMMA SameSteps ==
    (R!Init <=> RP!Init) /\ ([R!Next]_(R!rvars) <=> [RP!Next]_(RP!rvars))
  BY Zenon
  DEF R!Init, RP!Init, R!Next, RP!Next, R!rvars, RP!rvars, R!TypeOK, RP!TypeOK,
        R!Pairs, RP!Pairs, R!Nothing, RP!Nothing, R!Records, RP!Records, R!Absent,
        RP!Absent, R!Full, RP!Full, R!InCheck, RP!InCheck, R!InPush, RP!InPush,
        R!Hmset, RP!Hmset, R!Expire, RP!Expire, R!Lapse, RP!Lapse, R!Goto, RP!Goto,
        R!Return, RP!Return, R!StartPolling, RP!StartPolling, R!CallCheck,
        RP!CallCheck, R!CheckExists, RP!CheckExists, R!CheckHmget, RP!CheckHmget,
        R!Claim, RP!Claim, R!ClaimExpire, RP!ClaimExpire, R!CheckError,
        RP!CheckError, R!PollTimeout, RP!PollTimeout, R!PollExists, RP!PollExists,
        R!PollHmget, RP!PollHmget, R!PollError, RP!PollError, R!Tick, RP!Tick,
        R!PushHmset, RP!PushHmset, R!PushExpire, RP!PushExpire, R!PushError,
        RP!PushError, R!CallPush, RP!CallPush, R!Leave, RP!Leave, R!Crash,
        RP!Crash, R!Check, RP!Check, R!Push, RP!Push, R!Caller, RP!Caller

(* The type invariant of the cache, taken over from RedisWorkerProofs.      *)
LEMMA CacheInit == R!Init => R!TypeOK
  BY CacheAssumptions, SameTypes, SameSteps, RP!InitTypeOK

(* It is kept by every step of the pool that is a step of the cache.        *)
LEMMA CacheNext == R!TypeOK /\ [R!Next]_(R!rvars) => R!TypeOK'
  BY CacheAssumptions, SameTypes, SameSteps, RP!NextTypeOK

-----------------------------------------------------------------------------
(* Every step of the pool is a step of the cache's protocol, or none: a     *)
(* push follows a miss and carries what the document of its key yields.     *)
LEMMA PushIsOutcome ==
    ASSUME Inv, NEW w \in Workers, Running(w),
           NEW pair, pair = Result(asked[job[w].ticket]),
           R!CallPush(w, pair)
    PROVE  R!Next
<1>1. job[w].ticket \in Tickets
  BY TaskFacts DEF Running, Inv, PoolInv
<1>2. asked[job[w].ticket] \in Requests /\ rkey[w] = Hash[asked[job[w].ticket].doc]
  BY <1>1 DEF Inv, PoolInv, ValuesOK, Tickets, PageInv, Progress, Doc
<1>3. rkey[w] \in Keys
  BY DEF Inv, R!TypeOK
<1>4. pair \in [k \in Keys |->
          {Result(r) : r \in {r \in Requests : Hash[r.doc] = k}}][rkey[w]]
  BY <1>2, <1>3
<1>5. R!Caller(w)
  BY <1>4 DEF R!Caller
<1> QED
  BY <1>5 DEF R!Next

(* What a request pushes is its own result: the whole text of its document. *)
LEMMA PushesResult ==
    ASSUME Inv, NEW w \in Workers, ReadPicture(w) \/ ReadNothing(w) \/ PushPdf(w)
    PROVE  /\ Running(w) /\ R!CallPush(w, Result(asked[job[w].ticket]))
           /\ at' = [at EXCEPT ![w] = "push"]
           /\ UNCHANGED <<queue, asked, answer, waiting, pages, job>>
<1> USE DEF Inv, PoolInv
<1>1. /\ Running(w) /\ at' = [at EXCEPT ![w] = "push"]
      /\ UNCHANGED <<queue, asked, answer, waiting, pages, job>>
  BY DEF ReadPicture, ReadNothing, PushPdf, Miss, Checked, PushResult, Running, calls
<1>2. CASE ReadPicture(w)
  BY <1>1, <1>2 DEF ReadPicture, Miss, PushResult, Result, Format, Doc
<1>3. CASE ReadNothing(w)
  BY <1>1, <1>3 DEF ReadNothing, Miss, PushResult, Result, Format
<1>4. CASE PushPdf(w)
  <2> DEFINE n == job[w].ticket
  <2>1. n \in Tickets /\ Format(n) = "PDF"
    BY <1>4, TaskFacts DEF PushPdf, PageInv, Progress
  <2>2. Doc(n) \in Docs
    BY <2>1, RequestsAssumption DEF ValuesOK, Tickets, Doc
  <2>3. text[w] = PdfImages(Doc(n))
    <3>1. text[w] \in Texts /\ Len(text[w]) = Pages[Doc(n)]
      BY <1>4, <2>1, <2>2, PagesAssumption DEF PushPdf, ValuesOK, PageInv, Progress
    <3>2. PdfImages(Doc(n)) \in Texts /\ Len(PdfImages(Doc(n))) = Pages[Doc(n)]
      BY <2>2, DocumentTexts
    <3>3. \A i \in 1..Len(text[w]) : text[w][i] = PdfImages(Doc(n))[i]
      BY <1>4, <3>1 DEF PushPdf, PageInv, Progress, PdfImages
    <3> QED
      BY <3>1, <3>2, <3>3, SeqEqual DEF Texts
  <2> QED
    BY <1>1, <1>4, <2>1, <2>3 DEF PushPdf, PushResult, Result, Format, Doc
<1> QED
  BY <1>1, <1>2, <1>3, <1>4

(* One case per action: which step of the cache it is.                      *)
LEMMA PoolUsesCache ==
    ASSUME Inv, [Next]_vars
    PROVE  [R!Next]_(R!rvars)
<1> USE DEF Inv, PoolInv
<1>1. ASSUME NEW w \in Workers, Worker(w)
      PROVE  [R!Next]_(R!rvars)
  <2>1. ASSUME NEW p \in Callers \cup Workers, Dequeue(w, p)
        PROVE  [R!Next]_(R!rvars)
    <3>1. CASE Head(queue[p]).page = 0
      <4>1. Hash[Doc(Head(queue[p]).ticket)] \in Keys
        <5>1. Head(queue[p]) = queue[p][1] /\ 1 \in 1..Len(queue[p])
          BY <2>1 DEF Dequeue, ValuesOK
        <5>2. queue[p][1].ticket \in Tickets
          BY <5>1, TaskFacts
        <5>3. asked[queue[p][1].ticket] \in Requests
          BY <5>2 DEF ValuesOK, Tickets
        <5> QED
          BY <5>1, <5>3, RequestsAssumption, HashAssumption DEF Doc
      <4> QED
        BY <2>1, <3>1, <4>1 DEF Dequeue, R!Next, R!Caller
    <3>2. CASE Head(queue[p]).page # 0
      BY <2>1, <3>2 DEF Dequeue, cache, R!rvars
    <3> QED
      BY <3>1, <3>2
  <2>2. CASE RedisStep(w)
    BY <2>2 DEF RedisStep, R!Next
  <2>3. ASSUME NEW result, EndRequest(w, result)
        PROVE  [R!Next]_(R!rvars)
    BY <2>3 DEF EndRequest, R!Next, R!Caller
  <2>4. CASE ServeHit(w) \/ Answer(w) \/ RethrowPage(w) \/ FailRequest(w)
    BY <2>3, <2>4 DEF ServeHit, Answer, RethrowPage, FailRequest
  <2>5. CASE ReadPicture(w) \/ ReadNothing(w) \/ PushPdf(w)
    BY <2>5, PushesResult, PushIsOutcome
  <2>6. CASE Render(w) \/ SpawnPage(w) \/ CollectPage(w) \/ ReadPage(w) \/ FailPage(w) \/ Doze(w)
    BY <2>6 DEF Render, SpawnPage, CollectPage, ReadPage, FailPage, EndPage, Doze, vars,
                cache, R!rvars
  <2> QED
    BY <1>1, <2>1, <2>2, <2>4, <2>5, <2>6 DEF Worker, Serve
<1>2. ASSUME NEW c \in Callers, Caller(c)
      PROVE  [R!Next]_(R!rvars)
  BY <1>2 DEF Caller, Receive, Push, Submit, cache, R!rvars
<1>3. ASSUME NEW k \in Keys, Lapse(k)
      PROVE  [R!Next]_(R!rvars)
  BY <1>3 DEF Lapse, R!Next
<1>4. CASE Crash
  BY <1>4 DEF Crash, R!Next
<1>5. CASE UNCHANGED vars
  BY <1>5 DEF vars, cache, R!rvars
<1> QED
  BY <1>1, <1>2, <1>3, <1>4, <1>5 DEF Next

-----------------------------------------------------------------------------
(* The invariant is inductive.                                              *)

(* A pool that has just been constructed satisfies the invariant.           *)
LEMMA InitInv == Init => Inv
<1> SUFFICES ASSUME Init
             PROVE  Inv
  OBVIOUS
<1>1. R!TypeOK
  BY CacheInit DEF Init
<1>2. ValuesOK
  BY BoundsAssumption DEF Init, ValuesOK, Texts
<1>3. TasksExist /\ CallInv
  BY DEF Init, TasksExist, CallInv, CallersDiffer, QueuedCalls, PageTasks, RunningCalls,
         RunnersDiffer, Running
<1>4. PageInv
  BY DEF Init, PageInv, FutureTexts, Progress, Fresh, Running, Tickets
<1> QED
  BY <1>1, <1>2, <1>3, <1>4 DEF Inv, PoolInv

(* A worker's step in its task, enqueue's or enqueueFromTask's.             *)
LEMMA ServeStep ==
    ASSUME Inv, NEW w \in Workers, Serve(w)
    PROVE  PoolInv'
<1>1. job[w].ticket \in Tickets /\ asked[job[w].ticket] \in Requests
  <2>1. job[w].ticket \in Tickets
    BY TaskFacts
    DEF Inv, PoolInv, Serve, ServeHit, ReadPicture, ReadNothing, Render, Miss, Checked, SpawnPage,
        CollectPage, PushPdf, Answer, ReadPage, FailPage, EndPage, RethrowPage, FailRequest
  <2> QED
    BY <2>1 DEF Inv, PoolInv, ValuesOK, Tickets
<1>2. rval[w] \in R!Pairs
  BY DEF Inv, R!TypeOK
<1>3. Ready(rval[w]) \in Answers
  BY <1>2 DEF Ready, Answers, R!Pairs
<1>4. CASE ServeHit(w)
  BY <1>3, <1>4, EndRequestStep DEF ServeHit, Checked, Running
<1>5. CASE Answer(w)
  BY <1>3, <1>5, EndRequestStep DEF Answer, Running
<1>6. CASE RethrowPage(w)
  BY <1>6, ConstantTypes, EndRequestStep DEF RethrowPage, Running
<1>7. CASE FailRequest(w)
  BY <1>7, ConstantTypes, EndRequestStep DEF FailRequest, Miss, Checked, Running
<1>8. CASE ReadPicture(w)
  <2>1. Picture(Doc(job[w].ticket)) \in Texts
    BY <1>1, RequestsAssumption, DocumentTexts DEF Doc
  <2> QED
    BY <1>8, <2>1, PushResultStep DEF ReadPicture, Miss, Checked, Running
<1>9. CASE ReadNothing(w)
  <2>1. <<>> \in Texts
    BY DEF Texts
  <2>2. PushResult(w, <<>>, NoLang) /\ Running(w)
    BY <1>9 DEF ReadNothing, Miss, Checked, Running
  <2> QED
    BY <2>1, <2>2, PushResultStep
<1>10. CASE PushPdf(w)
  <2>1. text[w] \in Texts
    BY DEF Inv, PoolInv, ValuesOK
  <2> QED
    BY <1>10, <2>1, PushResultStep DEF PushPdf, Running
<1>11. CASE ReadPage(w)
  <2> DEFINE result == PageState("ready", << <<Doc(job[w].ticket), job[w].page>> >>)
  <2>1. job[w].page \in Nat
    BY <1>11, TaskFacts DEF ReadPage, EndPage, Inv, PoolInv
  <2>2. << <<Doc(job[w].ticket), job[w].page>> >> \in Texts
    BY <1>1, <2>1, RequestsAssumption DEF Texts, Images, Doc
  <2>3. /\ result \in PageFutures
        /\ result.text = << <<Doc(job[w].ticket), job[w].page>> >>
    BY <2>2 DEF PageFutures, PageState
  <2>4. EndPage(w, result)
    BY <1>11 DEF ReadPage
  <2> HIDE DEF result
  <2> QED
    BY <2>3, <2>4, EndPageStep
<1>12. CASE FailPage(w)
  <2>1. PageState("thrown", <<>>) \in PageFutures /\ PageState("thrown", <<>>).state # "ready"
    BY DEF PageState, PageFutures, Texts
  <2> QED
    BY <1>12, <2>1, EndPageStep DEF FailPage
<1> QED
  BY <1>4, <1>5, <1>6, <1>7, <1>8, <1>9, <1>10, <1>11, <1>12,
     RenderStep, SpawnStep, CollectStep DEF Serve

(* One case per action of Next.                                             *)
LEMMA NextPoolInv == Inv /\ [Next]_vars => PoolInv'
<1> SUFFICES ASSUME Inv, [Next]_vars
             PROVE  PoolInv'
  OBVIOUS
<1>1. ASSUME NEW w \in Workers, Worker(w)
      PROVE  PoolInv'
  <2>1. ASSUME RedisStep(w)
        PROVE  PoolInv'
    <3>1. rkey' = rkey
      BY <2>1
      DEF RedisStep, R!Check, R!Push, R!Tick, R!CheckExists, R!CheckHmget, R!Claim,
          R!ClaimExpire, R!CheckError, R!PollTimeout, R!PollExists, R!PollHmget, R!PollError,
          R!PushHmset, R!PushExpire, R!PushError
    <3> QED
      BY <2>1, <3>1, CacheOnlyStep DEF RedisStep
  <2>2. ASSUME Doze(w)
        PROVE  PoolInv'
    BY <2>2, CacheOnlyStep DEF Doze, vars, cache
  <2> QED
    BY <1>1, <2>1, <2>2, DequeueStep, ServeStep DEF Worker
<1>2. ASSUME NEW c \in Callers, Caller(c)
      PROVE  PoolInv'
  BY <1>2, SubmitStep, ReceiveStep DEF Caller
<1>3. ASSUME NEW k \in Keys, Lapse(k)
      PROVE  PoolInv'
  BY <1>3, CacheOnlyStep DEF Lapse, R!Lapse
<1>4. CASE UNCHANGED vars
  BY <1>4, CacheOnlyStep DEF vars, cache
<1> QED
  BY <1>1, <1>2, <1>3, <1>4, CrashStep DEF Next

(* The invariant of the pool and of its cache holds in every state.         *)
LEMMA Invariance == Spec => []Inv
<1>1. Inv /\ [Next]_vars => Inv'
  BY NextPoolInv, PoolUsesCache, CacheNext DEF Inv
<1> QED
  BY <1>1, InitInv, PTL DEF Spec

-----------------------------------------------------------------------------
(* Every variable of the pool and of its cache stays in its range, and each *)
(* task of enqueue and enqueueFromTask, queued or running, belongs to a     *)
(* request and to a promise of it.                                          *)
THEOREM TypeCorrect == Spec => []TypeOK
<1>1. Inv => TypeOK
  BY DEF Inv, PoolInv, TypeOK
<1> QED
  BY <1>1, Invariance, PTL

(* The pool calls RedisWorker::check and push only as their protocol        *)
(* demands: whatever the page tasks and other requests do, a request pushes *)
(* only after a miss, and the whole text of a document of its key.          *)
THEOREM CacheUse == Spec => UsesCacheProtocol
<1>1. Init => R!Init
  BY DEF Init
<1>2. Inv /\ [Next]_vars => [R!Next]_(R!rvars)
  BY PoolUsesCache
<1> QED
  BY <1>1, <1>2, Invariance, PTL DEF Spec, UsesCacheProtocol, R!Spec

(* Some thread of the pool is always free to run page tasks: a thread that  *)
(* waits for a page works for a caller of its own, which MainWorker::push   *)
(* holds, and there are more threads than callers.                          *)
THEOREM FreeWorker == Spec => []SomeWorkerFree
<1>1. Inv => SomeWorkerFree
  <2> SUFFICES ASSUME Inv, \A w \in Workers : Blocked(w)
               PROVE  FALSE
    BY DEF SomeWorkerFree
  <2> DEFINE caller == [w \in Workers |-> CHOOSE c \in Callers : waiting[c] = job[w].ticket]
  <2>1. \A w \in Workers : Running(w)
    BY DEF Blocked, Running
  <2>2. \A w \in Workers : \E c \in Callers : waiting[c] = job[w].ticket
    BY <2>1 DEF Inv, PoolInv, CallInv, RunningCalls
  <2>3. \A w \in Workers : caller[w] \in Callers /\ waiting[caller[w]] = job[w].ticket
    BY <2>2
  <2>4. caller \in [Workers -> Callers]
    BY <2>3
  <2> HIDE DEF caller
  <2>5. PICK v, w \in Workers : v # w /\ caller[v] = caller[w]
    BY <2>4, ThreadsAssumption, FS_PigeonHole
  <2>6. job[v].ticket = job[w].ticket
    BY <2>3, <2>5
  <2> QED
    BY <2>1, <2>5, <2>6 DEF Inv, PoolInv, CallInv, RunnersDiffer
<1> QED
  BY <1>1, Invariance, PTL

(* So the cache of the pool serves only whole results of the right key: a   *)
(* filled record, and what RedisWorker::check hands a request as a hit, is  *)
(* the text and the language that one run of a request of that key found.   *)
THEOREM PoolProvenance == Spec => []R!CacheProvenance
<1>1. R!CacheProvenance <=> RP!CacheProvenance
  BY Zenon DEF R!CacheProvenance, RP!CacheProvenance, R!FromOnePush, RP!FromOnePush, R!Full, RP!Full
<1>2. RP!Spec => []RP!CacheProvenance
  BY CacheAssumptions, RP!Provenance
<1>3. R!Spec => RP!Spec
  BY SameSteps, PTL DEF R!Spec, RP!Spec
<1> QED
  BY <1>1, <1>2, <1>3, CacheUse, PTL DEF UsesCacheProtocol
-----------------------------------------------------------------------------
(* Each task is in one place.                                               *)

(* A task of the queue is at one position of one producer, a task that runs *)
(* is in no other worker's hands nor in the queue; and the tasks so held    *)
(* are exactly those whose promise is still open.                           *)
Unfulfilled(task) == Open(task.ticket, task.page)
Queued(task) ==
    \E p \in Callers \cup Workers : \E i \in 1..Len(queue[p]) : queue[p][i] = task
Runs(w, task) == at[w] # "idle" /\ job[w] = task

QueuedOnce ==
    \A p, q \in Callers \cup Workers :
        \A i \in 1..Len(queue[p]), j \in 1..Len(queue[q]) :
            queue[p][i] = queue[q][j] => p = q /\ i = j
RunOnce ==
    \A w \in Workers : at[w] # "idle" =>
        /\ ~Queued(job[w])
        /\ \A v \in Workers : Runs(v, job[w]) => v = w
HeldAreOpen ==
    /\ \A p \in Callers \cup Workers :
          \A i \in 1..Len(queue[p]) : Unfulfilled(queue[p][i])
    /\ \A w \in Workers : at[w] # "idle" => Unfulfilled(job[w])
OpenAreHeld ==
    \A task \in Tasks : Exists(task) /\ Unfulfilled(task) =>
        Queued(task) \/ \E w \in Workers : Runs(w, task)
OnceInv == QueuedOnce /\ RunOnce /\ HeldAreOpen /\ OpenAreHeld

(* The tasks of the queue and of busy workers exist, so they are tasks.     *)
LEMMA HeldExist ==
    ASSUME Inv
    PROVE  /\ \A p \in Callers \cup Workers : \A i \in 1..Len(queue[p]) :
                 queue[p][i] \in Tasks /\ Exists(queue[p][i])
           /\ \A w \in Workers : at[w] # "idle" => job[w] \in Tasks /\ Exists(job[w])
<1> USE DEF Inv, PoolInv
<1>1. ASSUME NEW w \in Workers, at[w] # "idle"
      PROVE  job[w] \in Tasks /\ Exists(job[w])
  <2>1. Exists(job[w]) /\ job[w] \in Tasks \cup {NoTask}
    BY <1>1 DEF TasksExist, ValuesOK
  <2>2. job[w] # NoTask
    BY <2>1 DEF Exists, Tickets, NoTask, Task
  <2> QED
    BY <2>1, <2>2
<1>2. ASSUME NEW p \in Callers \cup Workers, NEW i \in 1..Len(queue[p])
      PROVE  queue[p][i] \in Tasks /\ Exists(queue[p][i])
  BY DEF TasksExist, ValuesOK
<1> QED
  BY <1>1, <1>2

(* A step that moves no task and settles no promise keeps the invariant.    *)
LEMMA KeptOnce ==
    ASSUME OnceInv, UNCHANGED <<queue, asked, answer, pages, job>>,
           \A w \in Workers : at'[w] = "idle" <=> at[w] = "idle"
    PROVE  OnceInv'
<1>1. \A task : /\ Exists(task)' <=> Exists(task)
                /\ Unfulfilled(task)' <=> Unfulfilled(task)
                /\ Queued(task)' <=> Queued(task)
                /\ \A w \in Workers : Runs(w, task)' <=> Runs(w, task)
  BY DEF Exists, Tickets, Unfulfilled, Open, Queued, Runs, Pending
<1>2. QueuedOnce'
  BY DEF OnceInv, QueuedOnce
<1>3. RunOnce'
  BY <1>1 DEF OnceInv, RunOnce
<1>4. HeldAreOpen'
  BY <1>1 DEF OnceInv, HeldAreOpen
<1>5. OpenAreHeld'
  BY <1>1 DEF OnceInv, OpenAreHeld
<1> QED
  BY <1>2, <1>3, <1>4, <1>5 DEF OnceInv

(* A new task, enqueued with its promise, is in one place.                  *)
LEMMA AddedOnce ==
    ASSUME Inv, OnceInv, NEW p \in Callers \cup Workers, NEW new \in Tasks, ~Exists(new),
           queue' = [queue EXCEPT ![p] = Append(queue[p], new)], UNCHANGED <<at, job>>,
           Unfulfilled(new)',
           \A task \in Tasks : Exists(task)' <=> Exists(task) \/ task = new,
           \A task \in Tasks : Exists(task) => (Unfulfilled(task)' <=> Unfulfilled(task))
    PROVE  OnceInv'
<1>0. \A q \in Callers \cup Workers : queue[q] \in Seq(Tasks)
  BY DEF Inv, PoolInv, ValuesOK
<1>1. /\ Len(queue'[p]) = Len(queue[p]) + 1 /\ queue'[p][Len(queue'[p])] = new
      /\ \A i \in 1..Len(queue[p]) : queue'[p][i] = queue[p][i]
      /\ \A q \in Callers \cup Workers : q # p => queue'[q] = queue[q]
      /\ Len(queue[p]) \in Nat
  BY <1>0 DEF Inv, PoolInv, ValuesOK
<1>2. ASSUME NEW q \in Callers \cup Workers, NEW i \in 1..Len(queue'[q])
      PROVE  \/ q = p /\ i = Len(queue'[p]) /\ queue'[q][i] = new
             \/ i \in 1..Len(queue[q]) /\ queue'[q][i] = queue[q][i]
  <2>1. CASE q = p
    BY <2>1, <1>1, <1>2
  <2>2. CASE q # p
    BY <2>2, <1>1, <1>2
  <2> QED
    BY <2>1, <2>2
<1>3. \A q \in Callers \cup Workers : \A i \in 1..Len(queue[q]) :
          i \in 1..Len(queue'[q]) /\ queue'[q][i] = queue[q][i]
  <2> TAKE q \in Callers \cup Workers
  <2>1. CASE q = p
    BY <2>1, <1>1
  <2>2. CASE q # p
    BY <2>2, <1>1
  <2> QED
    BY <2>1, <2>2
<1>4. /\ \A q \in Callers \cup Workers : \A i \in 1..Len(queue[q]) : queue[q][i] # new
      /\ \A w \in Workers : at[w] # "idle" => job[w] # new
  BY HeldExist
<1>5. QueuedOnce'
  <2> SUFFICES ASSUME NEW q \in Callers \cup Workers, NEW r \in Callers \cup Workers,
                      NEW i \in 1..Len(queue'[q]), NEW j \in 1..Len(queue'[r]),
                      queue'[q][i] = queue'[r][j]
               PROVE  q = r /\ i = j
    BY DEF QueuedOnce
  <2> QED
    BY <1>2, <1>4 DEF OnceInv, QueuedOnce
<1>6. \A task : Queued(task)' <=> Queued(task) \/ task = new
  <2> TAKE task
  <2>1. ASSUME Queued(task)'
        PROVE  Queued(task) \/ task = new
    BY <2>1, <1>2 DEF Queued
  <2>2. ASSUME Queued(task)
        PROVE  Queued(task)'
    BY <2>2, <1>3 DEF Queued
  <2>3. Queued(new)'
    <3>1. Len(queue'[p]) \in 1..Len(queue'[p])
      BY <1>1
    <3> QED
      BY <3>1, <1>1 DEF Queued
  <2> QED
    BY <2>1, <2>2, <2>3
<1>7. RunOnce'
  BY <1>4, <1>6 DEF OnceInv, RunOnce, Runs
<1>8. HeldAreOpen'
  <2>1. ASSUME NEW q \in Callers \cup Workers, NEW i \in 1..Len(queue'[q])
        PROVE  Unfulfilled(queue[q][i])'
    <3>1. CASE queue'[q][i] = new
      BY <3>1 DEF Unfulfilled
    <3>2. CASE queue'[q][i] # new
      <4>1. i \in 1..Len(queue[q]) /\ queue'[q][i] = queue[q][i]
        BY <3>2, <2>1, <1>2
      <4>2. PICK task \in Tasks : queue'[q][i] = task /\ Exists(task) /\ Unfulfilled(task)
        BY <4>1, HeldExist DEF OnceInv, HeldAreOpen
      <4>3. Unfulfilled(task)'
        BY <4>2
      <4> QED
        BY <4>2, <4>3 DEF Unfulfilled
    <3> QED
      BY <3>1, <3>2
  <2>2. ASSUME NEW w \in Workers, at[w] # "idle"
        PROVE  Unfulfilled(job[w])'
    BY <2>2, HeldExist DEF OnceInv, HeldAreOpen, Unfulfilled
  <2> QED
    BY <2>1, <2>2 DEF HeldAreOpen
<1>9. OpenAreHeld'
  <2> SUFFICES ASSUME NEW task \in Tasks, Exists(task)', Unfulfilled(task)'
               PROVE  Queued(task)' \/ \E w \in Workers : Runs(w, task)'
    BY DEF OpenAreHeld
  <2> QED
    BY <1>6 DEF OnceInv, OpenAreHeld, Runs
<1> QED
  BY <1>5, <1>7, <1>8, <1>9 DEF OnceInv

(* A task whose promise is settled by the worker that runs it is nowhere.   *)
LEMMA SettledOnce ==
    ASSUME Inv, OnceInv, NEW w \in Workers, NEW done \in Tasks, at[w] # "idle", job[w] = done,
           UNCHANGED queue,
           at' = [at EXCEPT ![w] = "idle"], job' = [job EXCEPT ![w] = NoTask],
           ~Unfulfilled(done)',
           \A task \in Tasks : Exists(task)' <=> Exists(task),
           \A task \in Tasks : Exists(task) /\ task # done =>
               (Unfulfilled(task)' <=> Unfulfilled(task))
    PROVE  OnceInv'
<1>1. /\ at'[w] = "idle"
      /\ \A v \in Workers : v # w => at'[v] = at[v] /\ job'[v] = job[v]
  BY DEF Inv, PoolInv, ValuesOK
<1>2. \A task : Queued(task)' <=> Queued(task)
  BY DEF Queued
<1>3. ~Queued(done) /\ \A v \in Workers : v # w /\ at[v] # "idle" => job[v] # done
  BY DEF OnceInv, RunOnce, Runs
<1>4. QueuedOnce'
  BY DEF OnceInv, QueuedOnce
<1>5. RunOnce'
  BY <1>1, <1>2 DEF OnceInv, RunOnce, Runs
<1>6. HeldAreOpen'
  <2>1. ASSUME NEW q \in Callers \cup Workers, NEW i \in 1..Len(queue[q])
        PROVE  Unfulfilled(queue[q][i])'
    <3>1. queue[q][i] \in Tasks /\ Exists(queue[q][i]) /\ Unfulfilled(queue[q][i])
      BY HeldExist DEF OnceInv, HeldAreOpen
    <3>2. queue[q][i] # done
      BY <1>3 DEF Queued
    <3> QED
      BY <3>1, <3>2 DEF Unfulfilled
  <2>2. ASSUME NEW v \in Workers, v # w, at[v] # "idle"
        PROVE  Unfulfilled(job[v])'
    <3>1. job[v] \in Tasks /\ Exists(job[v]) /\ Unfulfilled(job[v]) /\ job[v] # done
      BY <2>2, <1>3, HeldExist DEF OnceInv, HeldAreOpen
    <3>2. job'[v] = job[v]
      BY <2>2, <1>1
    <3> QED
      BY <3>1, <3>2 DEF Unfulfilled
  <2> QED
    BY <2>1, <2>2, <1>1 DEF HeldAreOpen
<1>7. OpenAreHeld'
  <2> SUFFICES ASSUME NEW task \in Tasks, Exists(task)', Unfulfilled(task)'
               PROVE  Queued(task)' \/ \E v \in Workers : Runs(v, task)'
    BY DEF OpenAreHeld
  <2>1. task # done /\ Exists(task) /\ Unfulfilled(task)
    OBVIOUS
  <2>2. CASE Queued(task)
    BY <2>2, <1>2
  <2>3. ASSUME NEW v \in Workers, Runs(v, task)
        PROVE  Runs(v, task)'
    BY <2>1, <2>3, <1>1 DEF Runs
  <2> QED
    BY <2>1, <2>2, <2>3 DEF OnceInv, OpenAreHeld
<1> QED
  BY <1>4, <1>5, <1>6, <1>7 DEF OnceInv

(* The tasks of the pool that exist after a step.                           *)
LEMMA TaskFields ==
    \A n, i : Task(n, i).ticket = n /\ Task(n, i).page = i
  BY DEF Task

(* A task is its ticket and its page.                                       *)
LEMMA TaskIs ==
    \A task \in Tasks : task = Task(task.ticket, task.page)
  BY DEF Task, Tasks

(* A call enqueues the task of its request.                                 *)
LEMMA SubmitOnce ==
    ASSUME Inv, OnceInv, NEW c \in Callers, NEW r \in Requests, Push(c, r)
    PROVE  OnceInv'
<1> USE DEF Inv, PoolInv
<1>0. /\ Len(asked) \in Nat /\ Len(pages) = Len(asked) /\ Len(answer) = Len(asked)
  BY DEF ValuesOK
<1>1. PICK n \in Nat \ {0}, new \in Tasks :
          n = Len(asked) + 1 /\ new = Task(n, 0) /\ new.ticket = n /\ new.page = 0
  BY <1>0, ConstantTypes, TaskFields
<1>2. /\ Len(asked') = n
      /\ answer'[n] = Pending /\ \A m \in Tickets : answer'[m] = answer[m]
      /\ pages'[n] = <<>> /\ \A m \in Tickets : pages'[m] = pages[m]
      /\ queue' = [queue EXCEPT ![c] = Append(queue[c], new)]
      /\ UNCHANGED <<at, job>>
  BY <1>0, <1>1 DEF Push, Submit, ValuesOK, Tickets
<1>3. Tickets' = Tickets \cup {n} /\ n \notin Tickets
  BY <1>0, <1>1, <1>2 DEF Tickets
<1>4. ~Exists(new)
  BY <1>1, <1>3 DEF Exists
<1>5. Unfulfilled(new)'
  BY <1>1, <1>2 DEF Unfulfilled, Open, Pending
<1>6. ASSUME NEW task \in Tasks
      PROVE  Exists(task)' <=> Exists(task) \/ task = new
  <2>1. CASE task.ticket = n
    <3>1. Exists(task)' <=> task.page \in 0..0
      <4>1. Exists(task)' <=> n \in Tickets' /\ task.page \in 0..Len(pages'[n])
        BY <2>1 DEF Exists
      <4> QED
        BY <4>1, <1>2, <1>3
    <3>2. ~Exists(task)
      BY <2>1, <1>3 DEF Exists
    <3>3. task = new <=> task.page = 0
      BY <2>1, <1>1, TaskIs
    <3> QED
      BY <3>1, <3>2, <3>3
  <2>2. CASE task.ticket # n
    BY <2>2, <1>1, <1>2, <1>3 DEF Exists
  <2> QED
    BY <2>1, <2>2
<1>7. ASSUME NEW task \in Tasks, Exists(task)
      PROVE  Unfulfilled(task)' <=> Unfulfilled(task)
  BY <1>7, <1>2 DEF Exists, Unfulfilled, Open, Pending
<1>8. c \in Callers \cup Workers
  OBVIOUS
<1> HIDE DEF Inv, PoolInv
<1> QED
  BY <1>8, <1>2, <1>4, <1>5, <1>6, <1>7, AddedOnce

(* enqueueFromTask enqueues a task for the next page.                       *)
LEMMA SpawnOnce ==
    ASSUME Inv, OnceInv, NEW w \in Workers, SpawnPage(w)
    PROVE  OnceInv'
<1> USE DEF Inv, PoolInv
<1>0. PICK n, i : n = job[w].ticket /\ i = next[w]
  OBVIOUS
<1>1. /\ at[w] = "spawn" /\ Running(w) /\ n \in Tickets /\ i \in Nat \ {0}
      /\ Len(pages[n]) = i - 1 /\ pages \in Seq(Seq(PageFutures)) /\ Tickets = 1..Len(pages)
      /\ pages[n] \in Seq(PageFutures)
  BY <1>0, TaskFacts DEF SpawnPage, Running, PageInv, Progress, ValuesOK, Tickets
<1>2. CASE i <= Pages[Doc(n)]
  <2>1. PICK new \in Tasks : new = Task(n, i) /\ new.ticket = n /\ new.page = i
    BY <1>1, ConstantTypes, TaskFields DEF Tickets
  <2>2. /\ queue' = [queue EXCEPT ![w] = Append(queue[w], new)]
        /\ UNCHANGED <<asked, answer, at, job>>
        /\ pages' = [pages EXCEPT ![n] = Append(pages[n], Unread)]
    BY <1>0, <1>1, <1>2, <2>1 DEF SpawnPage, calls
  <2>3. /\ Len(pages'[n]) = i /\ pages'[n][i] = Unread
        /\ \A j \in 1..Len(pages[n]) : pages'[n][j] = pages[n][j]
        /\ \A m \in Tickets : m # n => pages'[m] = pages[m]
        /\ Tickets' = Tickets
    <3>1. pages'[n] = Append(pages[n], Unread) /\ \A m \in Tickets : m # n => pages'[m] = pages[m]
      BY <2>2, <1>1
    <3>2. Tickets' = Tickets
      BY <2>2 DEF Tickets
    <3> HIDE DEF Inv, PoolInv
    <3> QED
      BY <3>1, <3>2, <1>1
  <2>4. ~Exists(new)
    BY <2>1, <1>1 DEF Exists
  <2>5. Unfulfilled(new)'
    BY <2>1, <2>3, <1>1 DEF Unfulfilled, Open, Unread, PageState
  <2>6. ASSUME NEW task \in Tasks
        PROVE  Exists(task)' <=> Exists(task) \/ task = new
    <3>1. CASE task.ticket = n
      <4>1. task = new <=> task.page = i
        BY <3>1, <2>1, TaskIs
      <4>2. Exists(task) <=> task.page \in 0..(i - 1)
        BY <3>1, <1>1 DEF Exists
      <4>3. Exists(task)' <=> task.page \in 0..i
        BY <3>1, <1>1, <2>3 DEF Exists
      <4> QED
        BY <4>1, <4>2, <4>3, <1>1
    <3>2. CASE task.ticket # n
      BY <3>2, <2>1, <2>3 DEF Exists
    <3> QED
      BY <3>1, <3>2
  <2>7. ASSUME NEW task \in Tasks, Exists(task)
        PROVE  Unfulfilled(task)' <=> Unfulfilled(task)
    <3>1. CASE task.page = 0
      BY <3>1, <2>2 DEF Unfulfilled, Open, Pending
    <3>2. CASE task.page # 0
      <4>1. task.ticket \in Tickets /\ task.page \in 1..Len(pages[task.ticket])
        BY <2>7, <3>2 DEF Exists, Tasks
      <4>2. pages'[task.ticket][task.page] = pages[task.ticket][task.page]
        BY <4>1, <2>3
      <4> QED
        BY <3>2, <4>2 DEF Unfulfilled, Open
    <3> QED
      BY <3>1, <3>2
  <2>8. w \in Callers \cup Workers
    OBVIOUS
  <2> HIDE DEF Inv, PoolInv
  <2> QED
    BY <2>8, <2>2, <2>4, <2>5, <2>6, <2>7, AddedOnce
<1>3. CASE ~(i <= Pages[Doc(n)])
  <2>1. UNCHANGED <<queue, asked, answer, pages, job>>
    BY <1>0, <1>3 DEF SpawnPage, calls
  <2>2. at' = [at EXCEPT ![w] = "collect"] /\ at[w] = "spawn"
    BY <1>0, <1>3, <1>1 DEF SpawnPage
  <2>3. \A v \in Workers : at'[v] = "idle" <=> at[v] = "idle"
    BY <2>2 DEF ValuesOK
  <2> QED
    BY <2>1, <2>3, KeptOnce
<1> QED
  BY <1>2, <1>3

(* The promise of a request is fulfilled, once.                             *)
LEMMA EndRequestOnce ==
    ASSUME Inv, OnceInv, NEW w \in Workers, NEW result, result # Pending, Running(w),
           EndRequest(w, result)
    PROVE  OnceInv'
<1> USE DEF Inv, PoolInv
<1>1. /\ job[w] \in Tasks /\ Exists(job[w]) /\ job[w].page = 0 /\ at[w] # "idle"
      /\ job[w].ticket \in Tickets /\ Tickets = DOMAIN answer
  BY HeldExist DEF Running, CallInv, RunningCalls, Exists, ValuesOK, Tickets
<1>2. PICK done \in Tasks : job[w] = done /\ done.page = 0 /\ done.ticket \in Tickets
  BY <1>1
<1>3. /\ at' = [at EXCEPT ![w] = "idle"] /\ job' = [job EXCEPT ![w] = NoTask]
      /\ answer' = [answer EXCEPT ![done.ticket] = result]
      /\ UNCHANGED <<queue, asked, pages>>
  BY <1>2 DEF EndRequest
<1>4. ~Unfulfilled(done)'
  BY <1>1, <1>2, <1>3 DEF Unfulfilled, Open, Pending
<1>5. ASSUME NEW task \in Tasks
      PROVE  Exists(task)' <=> Exists(task)
  BY <1>3 DEF Exists, Tickets
<1>6. ASSUME NEW task \in Tasks, Exists(task), task # done
      PROVE  Unfulfilled(task)' <=> Unfulfilled(task)
  <2>1. CASE task.page = 0
    <3>1. task.ticket # done.ticket
      BY <1>2, <1>6, <2>1, TaskIs
    <3> QED
      BY <3>1, <2>1, <1>1, <1>3, <1>6 DEF Unfulfilled, Open, Exists, Pending
  <2>2. CASE task.page # 0
    BY <2>2, <1>3 DEF Unfulfilled, Open
  <2> QED
    BY <2>1, <2>2
<1> HIDE DEF Inv, PoolInv
<1> QED
  BY <1>1, <1>2, <1>3, <1>4, <1>5, <1>6, SettledOnce

(* A page's promise is settled, once.                                       *)
LEMMA EndPageOnce ==
    ASSUME Inv, OnceInv, NEW w \in Workers, NEW result, result.state # "pending",
           EndPage(w, result)
    PROVE  OnceInv'
<1> USE DEF Inv, PoolInv
<1>1. /\ job[w] \in Tasks /\ Exists(job[w]) /\ job[w].page # 0 /\ at[w] # "idle"
  BY HeldExist DEF EndPage, CallInv, PageTasks
<1>2. PICK done \in Tasks : job[w] = done /\ done.page # 0 /\ Exists(done)
  BY <1>1
<1>3. /\ at' = [at EXCEPT ![w] = "idle"] /\ job' = [job EXCEPT ![w] = NoTask]
      /\ pages' = [pages EXCEPT ![done.ticket][done.page] = result]
      /\ UNCHANGED <<queue, asked, answer>>
  BY <1>2 DEF EndPage, calls
<1>4. /\ done.ticket \in Tickets /\ done.page \in 1..Len(pages[done.ticket])
      /\ Tickets = 1..Len(pages) /\ pages \in Seq(Seq(PageFutures))
  BY <1>2 DEF Exists, ValuesOK, Tickets, Tasks
<1>5. /\ pages'[done.ticket][done.page] = result
      /\ \A n \in Tickets : Len(pages'[n]) = Len(pages[n])
      /\ \A n \in Tickets : \A i \in 1..Len(pages[n]) :
            ~(n = done.ticket /\ i = done.page) => pages'[n][i] = pages[n][i]
  BY <1>3, <1>4 DEF Tickets
<1>6. ~Unfulfilled(done)'
  BY <1>2, <1>5 DEF Unfulfilled, Open
<1>7. ASSUME NEW task \in Tasks
      PROVE  Exists(task)' <=> Exists(task)
  BY <1>3, <1>5 DEF Exists, Tickets
<1>8. ASSUME NEW task \in Tasks, Exists(task), task # done
      PROVE  Unfulfilled(task)' <=> Unfulfilled(task)
  <2>1. CASE task.page = 0
    BY <2>1, <1>3 DEF Unfulfilled, Open, Pending
  <2>2. CASE task.page # 0
    <3>1. task.ticket \in Tickets /\ task.page \in 1..Len(pages[task.ticket])
      BY <2>2, <1>8 DEF Exists, Tasks
    <3>2. ~(task.ticket = done.ticket /\ task.page = done.page)
      BY <1>8, TaskIs
    <3>3. pages'[task.ticket][task.page] = pages[task.ticket][task.page]
      BY <3>1, <3>2, <1>5
    <3> QED
      BY <2>2, <3>3 DEF Unfulfilled, Open
  <2> QED
    BY <2>1, <2>2
<1> HIDE DEF Inv, PoolInv
<1> QED
  BY <1>1, <1>2, <1>3, <1>6, <1>7, <1>8, SettledOnce

(* A task that is dequeued moves from its producer's part of the queue into *)
(* the worker's hands.                                                      *)
LEMMA DequeueOnce ==
    ASSUME Inv, OnceInv, NEW w \in Workers, NEW p \in Callers \cup Workers, Dequeue(w, p)
    PROVE  OnceInv'
<1> USE DEF Inv, PoolInv
<1>1. /\ queue[p] \in Seq(Tasks) /\ queue[p] # <<>> /\ at[w] = "idle"
      /\ Len(queue[p]) \in Nat \ {0} /\ Head(queue[p]) = queue[p][1]
      /\ Len(Tail(queue[p])) = Len(queue[p]) - 1
      /\ \A i \in 1..Len(Tail(queue[p])) : Tail(queue[p])[i] = queue[p][i + 1]
  BY HeadTailProperties DEF Dequeue, ValuesOK
<1>2. PICK moved \in Tasks : moved = queue[p][1]
  BY <1>1
<1>3. /\ queue' = [queue EXCEPT ![p] = Tail(queue[p])]
      /\ job' = [job EXCEPT ![w] = moved]
      /\ at' = [at EXCEPT ![w] = IF moved.page = 0 THEN "check" ELSE "page"]
      /\ UNCHANGED <<asked, answer, pages>>
  BY <1>1, <1>2 DEF Dequeue, calls
<1>4. /\ job'[w] = moved /\ at'[w] # "idle"
      /\ \A v \in Workers : v # w => job'[v] = job[v] /\ at'[v] = at[v]
  BY <1>3 DEF ValuesOK
<1>5. \A task : (Exists(task)' <=> Exists(task)) /\ (Unfulfilled(task)' <=> Unfulfilled(task))
  BY <1>3 DEF Exists, Tickets, Unfulfilled, Open, Pending
<1>6. /\ queue'[p] = Tail(queue[p])
      /\ \A q \in Callers \cup Workers : q # p => queue'[q] = queue[q]
  BY <1>3 DEF ValuesOK
<1>7. ASSUME NEW q \in Callers \cup Workers, NEW i \in 1..Len(queue'[q])
      PROVE  \/ q = p /\ i + 1 \in 1..Len(queue[p]) /\ queue'[q][i] = queue[p][i + 1]
             \/ q # p /\ i \in 1..Len(queue[q]) /\ queue'[q][i] = queue[q][i]
  <2>1. CASE q = p
    <3>1. i \in 1..(Len(queue[p]) - 1) /\ queue'[q][i] = Tail(queue[p])[i]
      BY <2>1, <1>1, <1>6
    <3> QED
      BY <2>1, <3>1, <1>1
  <2>2. CASE q # p
    BY <2>2, <1>6
  <2> QED
    BY <2>1, <2>2
<1>8. QueuedOnce'
  <2> SUFFICES ASSUME NEW q \in Callers \cup Workers, NEW r \in Callers \cup Workers,
                      NEW i \in 1..Len(queue'[q]), NEW j \in 1..Len(queue'[r]),
                      queue'[q][i] = queue'[r][j]
               PROVE  q = r /\ i = j
    BY DEF QueuedOnce
  <2>1. i \in Int /\ j \in Int
    OBVIOUS
  <2>2. CASE q = p /\ r = p
    <3>1. /\ i + 1 \in 1..Len(queue[p]) /\ j + 1 \in 1..Len(queue[p])
          /\ queue[p][i + 1] = queue[p][j + 1]
      BY <2>2, <1>7
    <3>2. i + 1 = j + 1
      BY <3>1 DEF OnceInv, QueuedOnce
    <3> QED
      BY <2>1, <2>2, <3>2
  <2>3. CASE q = p /\ r # p
    <3>1. /\ i + 1 \in 1..Len(queue[p]) /\ j \in 1..Len(queue[r])
          /\ queue[p][i + 1] = queue[r][j]
      BY <2>3, <1>7
    <3> QED
      BY <2>3, <3>1 DEF OnceInv, QueuedOnce
  <2>4. CASE q # p /\ r = p
    <3>1. /\ i \in 1..Len(queue[q]) /\ j + 1 \in 1..Len(queue[p])
          /\ queue[q][i] = queue[p][j + 1]
      BY <2>4, <1>7
    <3> QED
      BY <2>4, <3>1 DEF OnceInv, QueuedOnce
  <2>5. CASE q # p /\ r # p
    BY <2>5, <1>7 DEF OnceInv, QueuedOnce
  <2> QED
    BY <2>2, <2>3, <2>4, <2>5
<1>9. \A task : Queued(task)' => Queued(task)
  BY <1>7 DEF Queued
<1>10. ~Queued(moved)' /\ Queued(moved)
  <2>1. 1 \in 1..Len(queue[p])
    BY <1>1
  <2>2. ASSUME NEW q \in Callers \cup Workers, NEW i \in 1..Len(queue'[q])
        PROVE  queue'[q][i] # moved
    <3>1. CASE q = p
      <4>1. i + 1 \in 1..Len(queue[p]) /\ queue'[q][i] = queue[p][i + 1] /\ i + 1 # 1
        BY <3>1, <1>7
      <4> QED
        BY <2>1, <4>1, <1>2 DEF OnceInv, QueuedOnce
    <3>2. CASE q # p
      BY <2>1, <3>2, <1>2, <1>7 DEF OnceInv, QueuedOnce
    <3> QED
      BY <3>1, <3>2
  <2> QED
    BY <2>1, <2>2, <1>2 DEF Queued
<1>11. \A task : Queued(task) /\ task # moved => Queued(task)'
  <2> SUFFICES ASSUME NEW task, NEW q \in Callers \cup Workers, NEW i \in 1..Len(queue[q]),
                      queue[q][i] = task, task # moved
               PROVE  Queued(task)'
    BY DEF Queued
  <2>1. CASE q = p
    <3>1. i # 1 /\ i - 1 \in 1..Len(queue'[p]) /\ queue'[p][i - 1] = queue[p][i]
      BY <2>1, <1>1, <1>2, <1>6
    <3> QED
      BY <2>1, <3>1 DEF Queued
  <2>2. CASE q # p
    BY <2>2, <1>6 DEF Queued
  <2> QED
    BY <2>1, <2>2
<1>12. \A v \in Workers : at[v] # "idle" => job[v] # moved
  BY <1>10 DEF OnceInv, RunOnce
<1>13. RunOnce'
  <2> SUFFICES ASSUME NEW v \in Workers, at'[v] # "idle"
               PROVE  /\ ~Queued(job[v])'
                      /\ \A u \in Workers : Runs(u, job[v])' => u = v
    BY DEF RunOnce, Runs, Queued
  <2>1. CASE v = w
    <3>1. ~Queued(job[v])'
      BY <2>1, <1>4, <1>10 DEF Queued
    <3>2. \A u \in Workers : Runs(u, job[v])' => u = v
      BY <2>1, <1>4, <1>12 DEF Runs
    <3> QED
      BY <3>1, <3>2
  <2>2. CASE v # w
    <3>1. at[v] # "idle" /\ job'[v] = job[v] /\ job[v] # moved
      BY <2>2, <1>4, <1>12
    <3>2. PICK task : task = job[v]
      OBVIOUS
    <3>3. ~Queued(task)'
      BY <3>1, <3>2, <1>9 DEF OnceInv, RunOnce
    <3>4. \A u \in Workers : Runs(u, task)' => u = v
      BY <3>1, <3>2, <1>4 DEF OnceInv, RunOnce, Runs
    <3> QED
      BY <3>1, <3>2, <3>3, <3>4 DEF Queued, Runs
  <2> QED
    BY <2>1, <2>2
<1>14. HeldAreOpen'
  <2>1. ASSUME NEW q \in Callers \cup Workers, NEW i \in 1..Len(queue'[q])
        PROVE  Unfulfilled(queue[q][i])'
    <3>1. PICK task : queue'[q][i] = task /\ Unfulfilled(task)
      BY <1>7 DEF OnceInv, HeldAreOpen
    <3> QED
      BY <3>1, <1>5 DEF Unfulfilled
  <2>2. ASSUME NEW v \in Workers, at'[v] # "idle"
        PROVE  Unfulfilled(job[v])'
    <3>1. PICK task : job'[v] = task /\ Unfulfilled(task)
      <4>1. CASE v = w
        <5>1. 1 \in 1..Len(queue[p])
          BY <1>1
        <5> QED
          BY <4>1, <5>1, <1>2, <1>4 DEF OnceInv, HeldAreOpen
      <4>2. CASE v # w
        BY <4>2, <2>2, <1>4 DEF OnceInv, HeldAreOpen
      <4> QED
        BY <4>1, <4>2
    <3> QED
      BY <3>1, <1>5 DEF Unfulfilled
  <2> QED
    BY <2>1, <2>2 DEF HeldAreOpen
<1>15. OpenAreHeld'
  <2> SUFFICES ASSUME NEW task \in Tasks, Exists(task)', Unfulfilled(task)'
               PROVE  Queued(task)' \/ \E v \in Workers : Runs(v, task)'
    BY DEF OpenAreHeld
  <2>1. Queued(task) \/ \E v \in Workers : Runs(v, task)
    BY <1>5 DEF OnceInv, OpenAreHeld
  <2>2. CASE task = moved
    BY <2>2, <1>4 DEF Runs
  <2>3. CASE task # moved /\ Queued(task)
    BY <2>3, <1>11
  <2>4. ASSUME NEW v \in Workers, Runs(v, task)
        PROVE  Runs(v, task)'
    BY <2>4, <1>1, <1>4 DEF Runs
  <2> QED
    BY <2>1, <2>2, <2>3, <2>4
<1> QED
  BY <1>8, <1>13, <1>14, <1>15 DEF OnceInv

(* A pool that has just been constructed holds no task and owes none.       *)
LEMMA InitOnce == Init => OnceInv
  BY DEF Init, OnceInv, QueuedOnce, RunOnce, HeldAreOpen, OpenAreHeld, Exists, Tickets

(* A worker's step in its task.                                             *)
LEMMA ServeOnce ==
    ASSUME Inv, OnceInv, NEW w \in Workers, Serve(w)
    PROVE  OnceInv'
<1>0. \A v \in Workers : at[v] \in {"idle", "check", "spawn", "collect", "push", "page"}
  BY DEF Inv, PoolInv, ValuesOK
<1>1. \A p : Ready(p) # Pending /\ Thrown # Pending
  BY DEF Ready, Thrown, Pending
<1>2. CASE ServeHit(w) \/ Answer(w) \/ RethrowPage(w) \/ FailRequest(w)
  <2>1. Running(w)
    BY <1>2 DEF ServeHit, Answer, RethrowPage, FailRequest, Miss, Checked, Running
  <2>2. EndRequest(w, Ready(rval[w])) \/ EndRequest(w, Thrown)
    BY <1>2 DEF ServeHit, Answer, RethrowPage, FailRequest
  <2> QED
    BY <1>1, <2>1, <2>2, EndRequestOnce
<1>3. CASE ReadPicture(w) \/ ReadNothing(w) \/ Render(w) \/ CollectPage(w) \/ PushPdf(w)
  <2>1. UNCHANGED <<queue, asked, answer, pages, job>>
    BY <1>3 DEF ReadPicture, ReadNothing, Render, CollectPage, PushPdf, PushResult, calls
  <2>2. at[w] # "idle" /\ \/ UNCHANGED at \/ at' = [at EXCEPT ![w] = "push"]
                          \/ at' = [at EXCEPT ![w] = "spawn"]
    BY <1>3
    DEF ReadPicture, ReadNothing, Render, Miss, Checked, CollectPage, PushPdf, PushResult
  <2>3. \A v \in Workers : at'[v] = "idle" <=> at[v] = "idle"
    BY <2>2 DEF Inv, PoolInv, ValuesOK
  <2> QED
    BY <2>1, <2>3, KeptOnce
<1>4. CASE ReadPage(w) \/ FailPage(w)
  <2>1. \A t : PageState("ready", t).state # "pending" /\ PageState("thrown", t).state # "pending"
    BY DEF PageState
  <2> QED
    BY <1>4, <2>1, EndPageOnce DEF ReadPage, FailPage
<1> QED
  BY <1>2, <1>3, <1>4, SpawnOnce DEF Serve

(* A restart forgets the tasks together with their promises.                *)
LEMMA CrashOnce ==
    ASSUME Inv, OnceInv, Crash
    PROVE  OnceInv'
<1> USE DEF Inv, PoolInv
<1>1. /\ queue' = [p \in Callers \cup Workers |-> <<>>]
      /\ at' = [w \in Workers |-> "idle"] /\ UNCHANGED asked
      /\ \A n \in Tickets : answer'[n] # Pending /\ pages'[n] = <<>>
  BY DEF Crash, Lost, Pending
<1>2. ASSUME NEW task \in Tasks, Exists(task)'
      PROVE  ~Unfulfilled(task)'
  <2>1. task.ticket \in Tickets /\ task.page \in 0..Len(pages'[task.ticket])
    BY <1>1, <1>2 DEF Exists, Tickets
  <2>2. task.page = 0
    BY <1>1, <2>1
  <2> QED
    BY <1>1, <2>1, <2>2 DEF Unfulfilled, Open, Pending
<1> QED
  BY <1>1, <1>2 DEF OnceInv, QueuedOnce, RunOnce, HeldAreOpen, OpenAreHeld

(* One case per action of Next.                                             *)
LEMMA NextOnce == Inv /\ OnceInv /\ [Next]_vars => OnceInv'
<1> SUFFICES ASSUME Inv, OnceInv, [Next]_vars
             PROVE  OnceInv'
  OBVIOUS
<1>1. ASSUME NEW w \in Workers, RedisStep(w) \/ Doze(w)
      PROVE  OnceInv'
  BY <1>1, KeptOnce DEF RedisStep, Doze, vars, calls
<1>2. ASSUME NEW c \in Callers, Receive(c)
      PROVE  OnceInv'
  BY <1>2, KeptOnce DEF Receive
<1>3. ASSUME NEW k \in Keys, Lapse(k)
      PROVE  OnceInv'
  BY <1>3, KeptOnce DEF Lapse, calls
<1>4. CASE UNCHANGED vars
  BY <1>4, KeptOnce DEF vars, calls
<1>5. ASSUME NEW w \in Workers, Worker(w)
      PROVE  OnceInv'
  BY <1>1, <1>5, DequeueOnce, ServeOnce DEF Worker
<1>6. ASSUME NEW c \in Callers, Caller(c)
      PROVE  OnceInv'
  BY <1>2, <1>6, SubmitOnce DEF Caller
<1> QED
  BY <1>3, <1>4, <1>5, <1>6, CrashOnce DEF Next

(* No task is lost and none runs twice, with any number of callers, workers *)
(* and requests: an open promise of enqueue or enqueueFromTask has its task *)
(* in the queue or in one worker's hands, once, and a settled one nowhere,  *)
(* also after a request died of the exception of one of its pages           *)
(* (main_worker.cpp:15-23, 44-46, 98, 115-117).                             *)
THEOREM TasksRunOnce == Spec => []EachTaskOnce
<1>1. Inv /\ OnceInv => EachTaskOnce
  <2> SUFFICES ASSUME Inv, OnceInv, NEW n \in Tickets, NEW i \in 0..Len(pages[n])
               PROVE  Cardinality(Places(Task(n, i))) = IF Open(n, i) THEN 1 ELSE 0
    BY DEF EachTaskOnce
  <2>1. PICK task \in Tasks : task = Task(n, i) /\ task.ticket = n /\ task.page = i
    BY ConstantTypes, TaskFields DEF Tickets
  <2>2. Exists(task) /\ task # NoTask
    BY <2>1, TaskFields DEF Exists, NoTask, Tickets
  <2>3. \A w \in Workers : job[w] = task <=> Runs(w, task)
    BY <2>2, TaskFacts DEF Runs, Inv, PoolInv
  <2>4. \A x : x \in Places(task) <=>
                \/ x \in Workers /\ Runs(x, task)
                \/ \E p \in Callers \cup Workers : \E j \in 1..Len(queue[p]) :
                      x = <<p, j>> /\ queue[p][j] = task
    <3>1. \A p \in Callers \cup Workers : DOMAIN queue[p] = 1..Len(queue[p])
      BY DEF Inv, PoolInv, ValuesOK
    <3> QED
      BY <2>3, <3>1 DEF Places
  <2>5. CASE ~Open(n, i)
    <3>1. ~Queued(task) /\ \A w \in Workers : ~Runs(w, task)
      BY <2>1, <2>5 DEF OnceInv, HeldAreOpen, Unfulfilled, Queued, Runs
    <3>2. Places(task) = {}
      BY <2>4, <3>1 DEF Queued
    <3> QED
      BY <2>1, <2>5, <3>2, FS_EmptySet
  <2>6. CASE Open(n, i)
    <3>1. Queued(task) \/ \E w \in Workers : Runs(w, task)
      BY <2>1, <2>2, <2>6 DEF OnceInv, OpenAreHeld, Unfulfilled
    <3>2. \E x : Places(task) = {x}
      <4>1. ASSUME NEW w \in Workers, Runs(w, task)
            PROVE  Places(task) = {w}
        <5>1. ~Queued(task) /\ \A v \in Workers : Runs(v, task) => v = w
          BY <4>1 DEF OnceInv, RunOnce, Runs
        <5> QED
          BY <2>4, <4>1, <5>1 DEF Queued
      <4>2. ASSUME NEW p \in Callers \cup Workers, NEW j \in 1..Len(queue[p]),
                   queue[p][j] = task
            PROVE  Places(task) = {<<p, j>>}
        <5>1. \A w \in Workers : ~Runs(w, task)
          BY <4>2 DEF OnceInv, RunOnce, Queued, Runs
        <5>2. \A q \in Callers \cup Workers : \A k \in 1..Len(queue[q]) :
                  queue[q][k] = task => q = p /\ k = j
          BY <4>2 DEF OnceInv, QueuedOnce
        <5> QED
          BY <2>4, <4>2, <5>1, <5>2
      <4> QED
        BY <3>1, <4>1, <4>2 DEF Queued
    <3> QED
      BY <2>1, <2>6, <3>2, FS_Singleton
  <2> QED
    BY <2>5, <2>6
<1>2. Spec => []OnceInv
  BY InitOnce, NextOnce, Invariance, PTL DEF Spec
<1> QED
  BY <1>1, <1>2, Invariance, PTL

-----------------------------------------------------------------------------
(* The pool implements the service its callers see.                         *)

(* A full pair is the result of a PDF request for the same key that has     *)
(* been pushed.                                                             *)
OfAsked(p, k) ==
    R!Full(p) => \E m \in Tickets :
        /\ Format(m) = "PDF" /\ Hash[Doc(m)] = k
        /\ p.data = Result(asked[m]).data /\ p.lang = Result(asked[m]).lang

(* Where a worker is in its task tells where it is in the cache and what    *)
(* pair it has: a hit is a result asked for, what is pushed its own.        *)
PairOfTask(w) ==
    /\ at[w] \in {"idle", "page"} => rpc[w] = "idle"
    /\ at[w] = "check" =>
          rpc[w] \in R!InCheck \cup {"returned"} /\ OfAsked(rval[w], rkey[w])
    /\ at[w] \in {"spawn", "collect"} => rpc[w] = "returned" /\ ~R!Full(rval[w])
    /\ at[w] = "push" =>
          rpc[w] \in R!InPush \cup {"pushed"} /\ rval[w] = Result(asked[job[w].ticket])
PagesMayFail ==
    \A n \in Tickets : \A i \in 1..Len(pages[n]) : pages[n][i].state = "thrown" => TaskFails
HitsInv ==
    /\ PagesMayFail
    /\ \A k \in Keys : OfAsked(store[k], k)
    /\ \A w \in Workers : rpc[w] = "idle" => rval[w] = R!Nothing
    /\ \A w \in Workers : PairOfTask(w)

(* What one command of check or push, or a tick of the clock, does: the     *)
(* thread stays in its call, a record keeps its fields, becomes empty or    *)
(* gets the pair its thread pushes, and check hands its thread the pair it  *)
(* has, an empty one or the one of its key's record.                        *)
SameFields(p, q) == p.data = q.data /\ p.lang = q.lang
LEMMA RedisFrame ==
    ASSUME R!TypeOK, NEW w \in Workers, R!Check(w) \/ R!Push(w) \/ R!Tick(w)
    PROVE  /\ \A k \in Keys :
                \/ SameFields(store'[k], store[k])
                \/ ~R!Full(store'[k])
                \/ k = rkey[w] /\ rpc[w] \in R!InPush /\ SameFields(store'[k], rval[w])
           /\ UNCHANGED rkey
           /\ \A v \in Workers : v # w => rpc'[v] = rpc[v] /\ rval'[v] = rval[v]
           /\ \/ rpc[w] \in R!InCheck /\ rpc'[w] \in R!InCheck \cup {"returned"}
              \/ rpc[w] \in R!InPush /\ rpc'[w] \in R!InPush \cup {"pushed"} /\ rval'[w] = rval[w]
           /\ \/ rval'[w] = rval[w]
              \/ ~R!Full(rval'[w])
              \/ SameFields(rval'[w], store[rkey[w]])
<1> USE DEF R!TypeOK, SameFields
<1> USE DEF R!InCheck, R!InPush
<1>0. rkey[w] \in Keys /\ ~R!Full(R!Nothing)
  BY DEF R!Full, R!Nothing
<1>1. ASSUME NEW p, R!Hmset(rkey[w], p)
      PROVE  \A k \in Keys : \/ SameFields(store'[k], store[k])
                             \/ k = rkey[w] /\ SameFields(store'[k], p)
  BY <1>1, <1>0 DEF R!Hmset
<1>2. ASSUME R!Expire(rkey[w])
      PROVE  \A k \in Keys : SameFields(store'[k], store[k])
  BY <1>2, <1>0 DEF R!Expire, R!Records
<1>3. ASSUME NEW pc, R!Goto(w, pc)
      PROVE  rpc'[w] = pc /\ \A v \in Workers : v # w => rpc'[v] = rpc[v]
  BY <1>3 DEF R!Goto
<1>4. ASSUME NEW p, R!Return(w, p)
      PROVE  /\ rpc'[w] = "returned" /\ rval'[w] = p
             /\ \A v \in Workers : v # w => rpc'[v] = rpc[v] /\ rval'[v] = rval[v]
  BY <1>4, <1>3 DEF R!Return
<1>5. CASE R!CheckExists(w)
  BY <1>5, <1>3 DEF R!CheckExists
<1>6. CASE R!CheckHmget(w)
  BY <1>6, <1>3, <1>4 DEF R!CheckHmget, R!StartPolling
<1>7. CASE R!Claim(w)
  <2>1. \A k \in Keys : SameFields(store'[k], store[k]) \/ ~R!Full(store'[k])
    BY <1>7, <1>0, <1>1 DEF R!Claim, R!Full, R!Nothing
  <2> QED
    BY <1>7, <2>1, <1>3 DEF R!Claim
<1>8. CASE R!ClaimExpire(w)
  BY <1>8, <1>0, <1>2, <1>4 DEF R!ClaimExpire
<1>9. CASE R!CheckError(w)
  <2>1. \A k \in Keys : SameFields(store'[k], store[k]) \/ ~R!Full(store'[k])
    BY <1>9, <1>0, <1>1, <1>2 DEF R!CheckError, R!Full, R!Nothing
  <2> QED
    BY <1>9, <2>1, <1>3 DEF R!CheckError, R!StartPolling
<1>10. CASE R!PollTimeout(w)
  BY <1>10, <1>0, <1>4 DEF R!PollTimeout
<1>11. CASE R!PollExists(w)
  BY <1>11, <1>3 DEF R!PollExists
<1>12. CASE R!PollHmget(w)
  BY <1>12, <1>3, <1>4 DEF R!PollHmget
<1>13. CASE R!PollError(w)
  BY <1>13, <1>3 DEF R!PollError
<1>14. CASE R!PushHmset(w)
  BY <1>14, <1>1, <1>3 DEF R!PushHmset
<1>15. CASE R!PushExpire(w)
  BY <1>15, <1>2, <1>3 DEF R!PushExpire
<1>16. CASE R!PushError(w)
  <2>1. \A k \in Keys :
            \/ SameFields(store'[k], store[k])
            \/ k = rkey[w] /\ SameFields(store'[k], rval[w])
    BY <1>16, <1>1, <1>2 DEF R!PushError
  <2> QED
    BY <1>16, <2>1, <1>3 DEF R!PushError
<1>17. CASE R!Tick(w)
  BY <1>17 DEF R!Tick
<1> QED
  BY <1>5, <1>6, <1>7, <1>8, <1>9, <1>10, <1>11, <1>12, <1>13, <1>14, <1>15, <1>16, <1>17
  DEF R!Check, R!Push

(* Only the emptiness and the fields of a pair decide whether it is a hit.  *)
LEMMA FieldsDecide ==
    \A p, q, k : SameFields(p, q) => (R!Full(p) <=> R!Full(q)) /\ (OfAsked(p, k) <=> OfAsked(q, k))
  BY DEF SameFields, OfAsked, R!Full

(* What a request pushes is, when it is a full pair, the result of a PDF.   *)
LEMMA OwnResult ==
    ASSUME Inv, NEW n \in Tickets
    PROVE  OfAsked(Result(asked[n]), Hash[Doc(n)])
<1>1. R!Full(Result(asked[n])) => Format(n) = "PDF"
  BY DEF R!Full, Result, Format
<1> QED
  BY <1>1 DEF OfAsked

(* More requests, and no fewer: a result asked for stays one.               *)
LEMMA StillAsked ==
    ASSUME Inv, \A n \in Tickets : n \in Tickets' /\ asked'[n] = asked[n],
           NEW p, NEW k, OfAsked(p, k)
    PROVE  OfAsked(p, k)'
  BY DEF OfAsked, R!Full, Format, Doc, Result, Joined, PdfImages, Picture

(* A worker that takes no part in a step keeps its pair.                    *)
LEMMA PairKept ==
    ASSUME Inv, HitsInv, \A n \in Tickets : n \in Tickets' /\ asked'[n] = asked[n],
           NEW v \in Workers, UNCHANGED <<at[v], rpc[v], rval[v], rkey[v]>>,
           at[v] # "idle" => job'[v] = job[v]
    PROVE  PairOfTask(v)' /\ (rpc'[v] = "idle" => rval'[v] = R!Nothing)
<1>1. at[v] = "push" => job[v].ticket \in Tickets
  BY TaskFacts DEF Inv, PoolInv
<1>2. OfAsked(rval[v], rkey[v]) => OfAsked(rval[v], rkey[v])'
  <2> SUFFICES ASSUME OfAsked(rval[v], rkey[v])
               PROVE  OfAsked(rval[v], rkey[v])'
    OBVIOUS
  <2>1. PICK p, k : p = rval[v] /\ k = rkey[v]
    OBVIOUS
  <2>2. OfAsked(p, k)'
    BY <2>1, StillAsked
  <2> QED
    BY <2>1, <2>2 DEF OfAsked, R!Full
<1>3. (R!Full(rval[v]))' <=> R!Full(rval[v])
  BY DEF R!Full
<1>4. at[v] = "push" => Result(asked'[job'[v].ticket]) = Result(asked[job[v].ticket])
  BY <1>1
<1> QED
  BY <1>1, <1>2, <1>3, <1>4 DEF HitsInv, PairOfTask, R!Nothing, R!InCheck, R!InPush

(* The records keep what they have.                                         *)
LEMMA RecordsKept ==
    ASSUME Inv, HitsInv, \A n \in Tickets : n \in Tickets' /\ asked'[n] = asked[n],
           UNCHANGED store
    PROVE  \A k \in Keys : OfAsked(store[k], k)'
<1> TAKE k \in Keys
<1>1. PICK p : p = store[k] /\ OfAsked(p, k)
  BY DEF HitsInv
<1>2. OfAsked(p, k)'
  BY <1>1, StillAsked
<1> QED
  BY <1>1, <1>2 DEF OfAsked, R!Full

(* A page future throws only what a task may throw.                         *)
LEMMA NextPagesMayFail == Inv /\ PagesMayFail /\ [Next]_vars => PagesMayFail'
<1> SUFFICES ASSUME Inv, PagesMayFail, [Next]_vars
             PROVE  PagesMayFail'
  OBVIOUS
<1> USE DEF Inv, PoolInv, PagesMayFail
<1>0. pages \in Seq(Seq(PageFutures)) /\ Len(pages) = Len(asked) /\ asked \in Seq(Requests)
  BY DEF ValuesOK
<1>1. ASSUME UNCHANGED <<asked, pages>>
      PROVE  PagesMayFail'
  BY <1>1 DEF Tickets
<1>2. ASSUME NEW c \in Callers, NEW r \in Requests, Push(c, r)
      PROVE  PagesMayFail'
  <2>1. asked' = Append(asked, r) /\ pages' = Append(pages, <<>>)
    BY <1>2 DEF Push, Submit
  <2> QED
    BY <1>0, <2>1 DEF Tickets
<1>3. ASSUME NEW w \in Workers, SpawnPage(w)
      PROVE  PagesMayFail'
  <2>1. job[w].ticket \in Tickets /\ asked' = asked
    BY <1>3, TaskFacts DEF SpawnPage, calls
  <2>2. \/ UNCHANGED pages
        \/ pages' = [pages EXCEPT ![job[w].ticket] = Append(pages[job[w].ticket], Unread)]
    BY <1>3 DEF SpawnPage
  <2> QED
    BY <1>0, <2>1, <2>2 DEF Tickets, Unread, PageState
<1>4. ASSUME NEW w \in Workers, NEW result, EndPage(w, result),
             result.state = "thrown" => TaskFails
      PROVE  PagesMayFail'
  <2>1. /\ job[w].ticket \in Tickets /\ asked' = asked
        /\ pages' = [pages EXCEPT ![job[w].ticket][job[w].page] = result]
    BY <1>4, TaskFacts DEF EndPage, calls
  <2> QED
    BY <1>0, <1>4, <2>1 DEF Tickets
<1>5. ASSUME NEW w \in Workers, ReadPage(w) \/ FailPage(w)
      PROVE  PagesMayFail'
  BY <1>4, <1>5 DEF ReadPage, FailPage, PageState
<1>6. CASE Crash
  BY <1>6 DEF Crash, Tickets
<1>7. ASSUME NEW w \in Workers, Worker(w)
      PROVE  PagesMayFail'
  <2>1. CASE RedisStep(w) \/ Doze(w) \/ \E p \in Callers \cup Workers : Dequeue(w, p)
    BY <2>1, <1>1 DEF RedisStep, Doze, Dequeue, calls, vars
  <2>2. CASE ServeHit(w) \/ ReadPicture(w) \/ ReadNothing(w) \/ Render(w) \/ CollectPage(w)
             \/ PushPdf(w) \/ Answer(w) \/ RethrowPage(w) \/ FailRequest(w)
    BY <2>2, <1>1
    DEF ServeHit, ReadPicture, ReadNothing, Render, CollectPage, PushPdf, PushResult, Answer,
        RethrowPage, FailRequest, EndRequest, calls
  <2> QED
    BY <1>3, <1>5, <1>7, <2>1, <2>2 DEF Worker, Serve
<1> QED
  BY <1>1, <1>2, <1>6, <1>7 DEF Next, Caller, Receive, Lapse, calls, vars

(* A step of the cache within check or push.                                *)
LEMMA RedisHits ==
    ASSUME Inv, HitsInv, NEW w \in Workers, RedisStep(w)
    PROVE  HitsInv'
<1> USE DEF Inv, PoolInv
<1>1. UNCHANGED <<queue, asked, answer, pages, at, job>> /\ Tickets' = Tickets
  BY DEF RedisStep, calls, Tickets
<1>2. /\ \A k \in Keys :
           \/ SameFields(store'[k], store[k])
           \/ ~R!Full(store'[k])
           \/ k = rkey[w] /\ rpc[w] \in R!InPush /\ SameFields(store'[k], rval[w])
      /\ UNCHANGED rkey
      /\ \A v \in Workers : v # w => rpc'[v] = rpc[v] /\ rval'[v] = rval[v]
      /\ \/ rpc[w] \in R!InCheck /\ rpc'[w] \in R!InCheck \cup {"returned"}
         \/ rpc[w] \in R!InPush /\ rpc'[w] \in R!InPush \cup {"pushed"} /\ rval'[w] = rval[w]
      /\ \/ rval'[w] = rval[w]
         \/ ~R!Full(rval'[w])
         \/ SameFields(rval'[w], store[rkey[w]])
  BY RedisFrame DEF RedisStep
<1>3. \/ at[w] = "check" /\ rpc[w] \in R!InCheck /\ OfAsked(rval[w], rkey[w])
      \/ /\ at[w] = "push" /\ rpc[w] \in R!InPush /\ rval[w] = Result(asked[job[w].ticket])
         /\ job[w].ticket \in Tickets /\ rkey[w] = Hash[Doc(job[w].ticket)]
  <2>1. at[w] \in {"check", "push"}
    BY <1>2 DEF HitsInv, PairOfTask, ValuesOK, R!InCheck, R!InPush
  <2>2. at[w] = "push" => job[w].ticket \in Tickets /\ rkey[w] = Hash[Doc(job[w].ticket)]
    BY TaskFacts DEF PageInv, Progress, Running
  <2> QED
    BY <1>2, <2>1, <2>2 DEF HitsInv, PairOfTask, R!InCheck, R!InPush
<1>4. \A n \in Tickets : n \in Tickets' /\ asked'[n] = asked[n]
  BY <1>1
<1>5. ASSUME NEW k \in Keys
      PROVE  OfAsked(store[k], k)'
  <2>1. PICK p : p = store'[k]
    OBVIOUS
  <2>2. OfAsked(p, k)
    <3>1. CASE SameFields(p, store[k])
      BY <3>1, FieldsDecide DEF HitsInv
    <3>2. CASE ~R!Full(p)
      BY <3>2 DEF OfAsked
    <3>3. CASE k = rkey[w] /\ rpc[w] \in R!InPush /\ SameFields(p, rval[w])
      <4>1. OfAsked(rval[w], k)
        BY <3>3, <1>3, OwnResult DEF R!InPush, R!InCheck
      <4> QED
        BY <3>3, <4>1, FieldsDecide
    <3> QED
      BY <1>2, <2>1, <3>1, <3>2, <3>3
  <2>3. OfAsked(p, k)'
    BY <2>2, <1>4, StillAsked
  <2> QED
    BY <2>1, <2>3 DEF OfAsked, R!Full
<1>6. ASSUME NEW v \in Workers, v # w
      PROVE  PairOfTask(v)' /\ (rpc'[v] = "idle" => rval'[v] = R!Nothing)
  BY <1>1, <1>2, <1>4, <1>6, PairKept
<1>7. PairOfTask(w)' /\ (rpc'[w] = "idle" => rval'[w] = R!Nothing)
  <2>1. CASE at[w] = "check" /\ rpc[w] \in R!InCheck /\ OfAsked(rval[w], rkey[w])
    <3>1. rpc'[w] \in R!InCheck \cup {"returned"}
      BY <1>2, <2>1 DEF R!InCheck, R!InPush
    <3>2. PICK p, k : p = rval'[w] /\ k = rkey[w] /\ k \in Keys
      BY DEF R!TypeOK
    <3>3. OfAsked(p, k)
      <4>1. CASE p = rval[w]
        BY <2>1, <3>2, <4>1
      <4>2. CASE ~R!Full(p)
        BY <4>2 DEF OfAsked
      <4>3. CASE SameFields(p, store[k])
        BY <3>2, <4>3, FieldsDecide DEF HitsInv
      <4> QED
        BY <1>2, <3>2, <4>1, <4>2, <4>3
    <3>4. OfAsked(p, k)'
      BY <3>3, <1>4, StillAsked
    <3>5. OfAsked(rval[w], rkey[w])'
      BY <3>2, <3>4, <1>2 DEF OfAsked, R!Full
    <3> QED
      BY <1>1, <2>1, <3>1, <3>5 DEF PairOfTask, R!InCheck
  <2>2. CASE at[w] = "push" /\ rpc[w] \in R!InPush /\ rval[w] = Result(asked[job[w].ticket])
    <3>1. rpc'[w] \in R!InPush \cup {"pushed"} /\ rval'[w] = rval[w]
      BY <1>2, <2>2 DEF R!InCheck, R!InPush
    <3> QED
      BY <1>1, <2>2, <3>1 DEF PairOfTask, R!InPush
  <2> QED
    BY <1>3, <2>1, <2>2
<1>8. PagesMayFail'
  BY <1>1 DEF HitsInv, PagesMayFail
<1> QED
  BY <1>5, <1>6, <1>7, <1>8 DEF HitsInv

(* A worker that starts a task.                                             *)
LEMMA DequeueHits ==
    ASSUME Inv, HitsInv, NEW w \in Workers, NEW p \in Callers \cup Workers, Dequeue(w, p),
           PagesMayFail'
    PROVE  HitsInv'
<1> USE DEF Inv, PoolInv
<1>1. /\ UNCHANGED <<asked, store, rval>> /\ Tickets' = Tickets
      /\ at[w] = "idle" /\ rpc[w] = "idle" /\ rval[w] = R!Nothing
  BY DEF Dequeue, calls, cache, R!CallCheck, Tickets, HitsInv, PairOfTask
<1>2. \A v \in Workers : v # w =>
          UNCHANGED <<at[v], rpc[v], rval[v], rkey[v]>> /\ job'[v] = job[v]
  BY DEF Dequeue, cache, R!CallCheck, R!Goto, R!TypeOK, ValuesOK
<1>3. \/ at'[w] = "check" /\ rpc'[w] = "exists"
      \/ at'[w] = "page" /\ rpc'[w] = "idle"
  BY <1>1 DEF Dequeue, cache, R!CallCheck, R!Goto, R!TypeOK, ValuesOK
<1>4. PairOfTask(w)' /\ (rpc'[w] = "idle" => rval'[w] = R!Nothing)
  BY <1>1, <1>3 DEF PairOfTask, R!InCheck, OfAsked, R!Full, R!Nothing
<1>5. \A v \in Workers : PairOfTask(v)' /\ (rpc'[v] = "idle" => rval'[v] = R!Nothing)
  BY <1>1, <1>2, <1>4, PairKept
<1>6. \A k \in Keys : OfAsked(store[k], k)'
  BY <1>1, RecordsKept
<1> HIDE DEF Inv, PoolInv
<1> QED
  BY <1>5, <1>6 DEF HitsInv, R!Nothing

(* A worker's step in its task.                                             *)
LEMMA ServeHits ==
    ASSUME Inv, HitsInv, NEW w \in Workers, Serve(w), PagesMayFail'
    PROVE  HitsInv'
<1> USE DEF Inv, PoolInv
<1>a. ASSUME UNCHANGED <<asked, store>>,
             PairOfTask(w)' /\ (rpc'[w] = "idle" => rval'[w] = R!Nothing),
             \A v \in Workers : v # w =>
                 UNCHANGED <<at[v], rpc[v], rval[v], rkey[v]>> /\ job'[v] = job[v]
      PROVE  HitsInv'
  <2>1. \A n \in Tickets : n \in Tickets' /\ asked'[n] = asked[n]
    BY <1>a DEF Tickets
  <2>2. \A v \in Workers : PairOfTask(v)' /\ (rpc'[v] = "idle" => rval'[v] = R!Nothing)
    BY <1>a, <2>1, PairKept
  <2>3. \A k \in Keys : OfAsked(store[k], k)'
    BY <1>a, <2>1, RecordsKept
  <2> QED
    BY <2>2, <2>3 DEF HitsInv, R!Nothing
<1>1. CASE ServeHit(w) \/ Answer(w) \/ RethrowPage(w) \/ FailRequest(w)
  <2>1. PICK result : EndRequest(w, result)
    BY <1>1 DEF ServeHit, Answer, RethrowPage, FailRequest
  <2>2. /\ UNCHANGED <<asked, store, rkey>>
        /\ at' = [at EXCEPT ![w] = "idle"] /\ job' = [job EXCEPT ![w] = NoTask]
        /\ rpc' = [rpc EXCEPT ![w] = "idle"] /\ rval' = [rval EXCEPT ![w] = R!Nothing]
    BY <2>1 DEF EndRequest, R!Leave, R!Goto
  <2>3. PairOfTask(w)' /\ rval'[w] = R!Nothing
    BY <2>2 DEF PairOfTask, ValuesOK, R!TypeOK
  <2>4. \A v \in Workers : v # w =>
            UNCHANGED <<at[v], rpc[v], rval[v], rkey[v]>> /\ job'[v] = job[v]
    BY <2>2 DEF ValuesOK, R!TypeOK
  <2> QED
    BY <1>a, <2>2, <2>3, <2>4
<1>2. CASE ReadPicture(w) \/ ReadNothing(w) \/ PushPdf(w)
  <2>1. PICK n : n = job[w].ticket
    OBVIOUS
  <2>2. /\ UNCHANGED <<asked, store, rkey, job>>
        /\ at' = [at EXCEPT ![w] = "push"] /\ rpc' = [rpc EXCEPT ![w] = "fill"]
        /\ rval' = [rval EXCEPT ![w] = Result(asked[n])]
    BY <1>2, <2>1, PushesResult DEF R!CallPush, R!Goto
  <2>3. /\ at'[w] = "push" /\ rpc'[w] = "fill" /\ rval'[w] = Result(asked[n])
        /\ \A v \in Workers : v # w =>
              UNCHANGED <<at[v], rpc[v], rval[v], rkey[v]>> /\ job'[v] = job[v]
    BY <2>2 DEF ValuesOK, R!TypeOK
  <2>4. PairOfTask(w)' /\ rpc'[w] # "idle"
    BY <2>1, <2>2, <2>3 DEF PairOfTask, R!InPush
  <2> QED
    BY <1>a, <2>2, <2>3, <2>4
<1>3. CASE Render(w)
  <2>1. /\ UNCHANGED <<asked, store, rkey, rpc, rval, job>>
        /\ at' = [at EXCEPT ![w] = "spawn"] /\ rpc[w] = "returned" /\ ~R!Full(rval[w])
    BY <1>3 DEF Render, Miss, Checked, calls, cache
  <2>2. PairOfTask(w)' /\ rpc'[w] # "idle"
    BY <2>1 DEF PairOfTask, ValuesOK, R!Full
  <2> QED
    BY <1>a, <2>1, <2>2 DEF ValuesOK
<1>4. CASE SpawnPage(w) \/ CollectPage(w)
  <2>1. /\ UNCHANGED <<asked, store, rkey, rpc, rval, job>>
        /\ at[w] \in {"spawn", "collect"}
        /\ UNCHANGED at \/ at' = [at EXCEPT ![w] = "collect"]
    BY <1>4 DEF SpawnPage, CollectPage, calls, cache
  <2>2. rpc[w] = "returned" /\ ~R!Full(rval[w]) /\ at'[w] \in {"spawn", "collect"}
    BY <2>1 DEF HitsInv, PairOfTask, ValuesOK
  <2>3. PairOfTask(w)' /\ rpc'[w] # "idle"
    BY <2>1, <2>2 DEF PairOfTask, R!Full
  <2> QED
    BY <1>a, <2>1, <2>3 DEF ValuesOK
<1>5. CASE ReadPage(w) \/ FailPage(w)
  <2>1. /\ UNCHANGED <<asked, store, rkey, rpc, rval>> /\ at[w] = "page"
        /\ at' = [at EXCEPT ![w] = "idle"] /\ job' = [job EXCEPT ![w] = NoTask]
    BY <1>5 DEF ReadPage, FailPage, EndPage, calls, cache
  <2>2. PairOfTask(w)' /\ rval'[w] = R!Nothing
    BY <2>1 DEF HitsInv, PairOfTask, ValuesOK
  <2> QED
    BY <1>a, <2>1, <2>2 DEF ValuesOK
<1> QED
  BY <1>1, <1>2, <1>3, <1>4, <1>5 DEF Serve

(* Whatever happens, a hit is a result that somebody asked for.             *)
LEMMA NextHits == Inv /\ HitsInv /\ [Next]_vars => HitsInv'
<1> SUFFICES ASSUME Inv, HitsInv, [Next]_vars
             PROVE  HitsInv'
  OBVIOUS
<1>0. PagesMayFail'
  BY NextPagesMayFail DEF HitsInv
<1>1. ASSUME \A n \in Tickets : n \in Tickets' /\ asked'[n] = asked[n],
             UNCHANGED <<at, job, cache>>
      PROVE  HitsInv'
  <2>1. \A v \in Workers : PairOfTask(v)' /\ (rpc'[v] = "idle" => rval'[v] = R!Nothing)
    BY <1>1, PairKept DEF cache
  <2>2. \A k \in Keys : OfAsked(store[k], k)'
    BY <1>1, RecordsKept DEF cache
  <2> QED
    BY <1>0, <2>1, <2>2 DEF HitsInv, R!Nothing
<1>2. ASSUME NEW c \in Callers, Caller(c)
      PROVE  HitsInv'
  <2>1. \A n \in Tickets : n \in Tickets' /\ asked'[n] = asked[n]
    <3>1. asked \in Seq(Requests)
      BY DEF Inv, PoolInv, ValuesOK
    <3>2. asked' = asked \/ \E r \in Requests : asked' = Append(asked, r)
      BY <1>2 DEF Caller, Receive, Push, Submit
    <3> QED
      BY <3>1, <3>2 DEF Tickets
  <2>2. UNCHANGED <<at, job, cache>>
    BY <1>2 DEF Caller, Receive, Push, Submit, cache
  <2> QED
    BY <1>1, <2>1, <2>2
<1>3. ASSUME NEW k \in Keys, Lapse(k)
      PROVE  HitsInv'
  <2>1. /\ UNCHANGED <<asked, at, job, rpc, rkey, rval>>
        /\ store' = [store EXCEPT ![k] = R!Absent]
    BY <1>3 DEF Lapse, R!Lapse, calls
  <2>2. \A n \in Tickets : n \in Tickets' /\ asked'[n] = asked[n]
    BY <2>1 DEF Tickets
  <2>3. \A v \in Workers : PairOfTask(v)' /\ (rpc'[v] = "idle" => rval'[v] = R!Nothing)
    BY <2>1, <2>2, PairKept
  <2>4. ASSUME NEW j \in Keys
        PROVE  OfAsked(store[j], j)'
    <3>1. CASE j = k
      BY <2>1, <3>1 DEF OfAsked, R!Full, R!Absent, Inv, R!TypeOK
    <3>2. CASE j # k
      <4>1. PICK p : p = store[j] /\ p = store'[j] /\ OfAsked(p, j)
        BY <2>1, <3>2 DEF HitsInv, Inv, R!TypeOK
      <4>2. OfAsked(p, j)'
        BY <4>1, <2>2, StillAsked
      <4> QED
        BY <4>1, <4>2 DEF OfAsked, R!Full
    <3> QED
      BY <3>1, <3>2
  <2> QED
    BY <1>0, <2>3, <2>4 DEF HitsInv, R!Nothing
<1>4. CASE Crash
  <2>1. /\ UNCHANGED <<asked, store>> /\ at' = [w \in Workers |-> "idle"]
        /\ rpc' = [w \in Workers |-> "idle"] /\ rval' = [w \in Workers |-> R!Nothing]
    BY <1>4 DEF Crash, R!Crash
  <2>2. \A n \in Tickets : n \in Tickets' /\ asked'[n] = asked[n]
    BY <2>1 DEF Tickets
  <2>3. \A k \in Keys : OfAsked(store[k], k)'
    BY <2>1, <2>2, RecordsKept
  <2> QED
    BY <1>0, <2>1, <2>3 DEF HitsInv, PairOfTask, R!Nothing
<1>5. CASE UNCHANGED vars
  BY <1>1, <1>5 DEF vars, calls, Tickets
<1>6. ASSUME NEW w \in Workers, Worker(w)
      PROVE  HitsInv'
  BY <1>0, <1>5, <1>6, RedisHits, DequeueHits, ServeHits DEF Worker, Doze
<1> QED
  BY <1>2, <1>3, <1>4, <1>5, <1>6 DEF Next

(* At first nothing is cached.                                              *)
LEMMA InitHits == Init => HitsInv
  BY DEF Init, R!Init, HitsInv, PagesMayFail, PairOfTask, OfAsked, R!Full, R!Absent, R!Nothing,
         Tickets

-----------------------------------------------------------------------------
(* Each step of the pool is a step of the service, or none.                 *)

(* The service and the pool mean the same by a future, a result, a key.     *)
LEMMA SameDocuments ==
    /\ Service!Pending = Pending /\ Service!Thrown = Thrown /\ Service!Lost = Lost
    /\ \A p : Service!Ready(p) = Ready(p)
    /\ \A r : Service!Result(r) = Result(r)
    /\ Service!Tickets = Tickets
    /\ \A n : Service!Cached(n) =
          {p \in {Result(asked[m]) : m \in {m \in Tickets :
                      Format(m) = "PDF" /\ Hash[Doc(m)] = Hash[Doc(n)]}} : R!Full(p)}
<1>1. \A r : Service!Result(r) = Result(r)
  BY DEF Service!Result, Result, Service!Joined, Joined, Service!PdfImages, PdfImages,
         Service!Picture, Picture
<1>2. Service!Tickets = Tickets
  BY DEF Service!Tickets, Tickets
<1>3. \A p : Service!Complete(p) <=> R!Full(p)
  BY DEF Service!Complete, R!Full
<1>4. ASSUME NEW n
      PROVE  Service!Cached(n) =
          {p \in {Result(asked[m]) : m \in {m \in Tickets :
                      Format(m) = "PDF" /\ Hash[Doc(m)] = Hash[Doc(n)]}} : R!Full(p)}
  BY <1>1, <1>2, <1>3 DEF Service!Cached, Service!SameKey, Format, Doc
<1> QED
  BY <1>1, <1>2, <1>4
  DEF Service!Pending, Pending, Service!Thrown, Thrown, Service!Lost, Lost, Service!Ready, Ready

(* The task of a request fulfils its promise with what the service allows.  *)
LEMMA ReplyStep ==
    ASSUME Inv, HitsInv, NEW w \in Workers,
           ServeHit(w) \/ Answer(w) \/ RethrowPage(w) \/ FailRequest(w)
    PROVE  Service!Next
<1> USE DEF Inv, PoolInv
<1> DEFINE n == job[w].ticket
<1>1. /\ at[w] # "idle" /\ Running(w) /\ n \in Tickets /\ answer[n] = Pending
      /\ rkey[w] = Hash[Doc(n)]
  <2>1. Running(w) /\ at[w] # "idle"
    BY DEF ServeHit, Answer, RethrowPage, FailRequest, Miss, Checked, Running
  <2> QED
    BY <2>1, TaskFacts DEF CallInv, RunningCalls, PageInv, Progress
<1>2. ASSUME NEW result, EndRequest(w, result),
             \/ \E p \in Service!Cached(n) \cup {Result(asked[n])} : result = Ready(p)
             \/ TaskFails /\ result = Thrown
      PROVE  Service!Next
  <2>1. Service!Reply(n)
    <3>1. /\ answer' = [answer EXCEPT ![n] = result]
          /\ UNCHANGED <<asked, waiting>>
      BY <1>2 DEF EndRequest
    <3>2. result \in {Service!Ready(p) : p \in Service!Cached(n) \cup {Service!Result(asked[n])}}
              \cup {x \in {Service!Thrown} : TaskFails}
      BY <1>2, SameDocuments
    <3>3. answer[n] = Service!Pending
      BY <1>1, SameDocuments
    <3> QED
      BY <3>1, <3>2, <3>3 DEF Service!Reply
  <2> QED
    BY <1>1, <2>1, SameDocuments DEF Service!Next
<1>3. CASE ServeHit(w)
  <2>1. PICK m \in Tickets : /\ Format(m) = "PDF" /\ Hash[Doc(m)] = rkey[w]
                             /\ SameFields(rval[w], Result(asked[m]))
    BY <1>3 DEF ServeHit, Checked, HitsInv, PairOfTask, OfAsked, SameFields
  <2>2. R!Full(rval[w]) /\ EndRequest(w, Ready(rval[w]))
    BY <1>3 DEF ServeHit
  <2>3. R!Full(Result(asked[m]))
    BY <2>1, <2>2, FieldsDecide
  <2>4. Result(asked[m]) \in Service!Cached(n)
    BY <1>1, <2>1, <2>3, SameDocuments
  <2>5. Ready(rval[w]) = Ready(Result(asked[m]))
    BY <2>1 DEF Ready, SameFields
  <2> HIDE DEF n
  <2> QED
    BY <1>2, <2>2, <2>4, <2>5
<1>4. CASE Answer(w)
  <2>1. EndRequest(w, Ready(Result(asked[n])))
    BY <1>4 DEF Answer, HitsInv, PairOfTask
  <2> HIDE DEF n
  <2> QED
    BY <1>2, <2>1
<1>5. CASE RethrowPage(w)
  <2>1. TaskFails
    BY <1>1, <1>5 DEF RethrowPage, HitsInv, PagesMayFail, ValuesOK
  <2> QED
    BY <1>2, <1>5, <2>1 DEF RethrowPage
<1>6. CASE FailRequest(w)
  BY <1>2, <1>6 DEF FailRequest
<1> QED
  BY <1>3, <1>4, <1>5, <1>6

(* The callers of MainWorker::push cannot tell the pool from the service:   *)
(* whatever the workers, the page tasks, the cache and their failures do,   *)
(* a call is answered once, with the whole text of its own document or of a *)
(* PDF of the same key that was pushed, or with an exception of a task      *)
(* (main_worker.cpp:51-120, 148-153).                                       *)
THEOREM PoolRefinesService == Spec => Service!Spec
<1>1. Init => Service!Init
  BY DEF Init, Service!Init
<1>2. Inv /\ HitsInv /\ [Next]_vars => [Service!Next]_(Service!svars)
  <2> SUFFICES ASSUME Inv, HitsInv, [Next]_vars
               PROVE  [Service!Next]_(Service!svars)
    OBVIOUS
  <2>1. ASSUME NEW w \in Workers, Worker(w)
        PROVE  [Service!Next]_(Service!svars)
    <3>1. CASE ServeHit(w) \/ Answer(w) \/ RethrowPage(w) \/ FailRequest(w)
      BY <3>1, ReplyStep
    <3>2. CASE RedisStep(w) \/ Doze(w) \/ \E p \in Callers \cup Workers : Dequeue(w, p)
      BY <3>2 DEF RedisStep, Doze, Dequeue, vars, calls, Service!svars
    <3>3. CASE ReadPicture(w) \/ ReadNothing(w) \/ PushPdf(w)
      BY <3>3, PushesResult DEF Service!svars
    <3>4. CASE Render(w) \/ SpawnPage(w) \/ CollectPage(w) \/ ReadPage(w) \/ FailPage(w)
      BY <3>4 DEF Render, SpawnPage, CollectPage, ReadPage, FailPage, EndPage, calls,
                  Service!svars
    <3> QED
      BY <2>1, <3>1, <3>2, <3>3, <3>4 DEF Worker, Serve
  <2>2. ASSUME NEW c \in Callers, Caller(c)
        PROVE  [Service!Next]_(Service!svars)
    <3>1. CASE Receive(c)
      BY <3>1, SameDocuments DEF Receive, Service!Next, Service!Receive
    <3>2. ASSUME NEW r \in Requests, Push(c, r)
          PROVE  Service!Next
      <4>1. Service!Ask(c, r)
        BY <3>2, SameDocuments DEF Push, Submit, Service!Ask
      <4> QED
        BY <4>1 DEF Service!Next
    <3> QED
      BY <2>2, <3>1, <3>2 DEF Caller
  <2>3. CASE Crash
    BY <2>3, SameDocuments DEF Crash, R!Crash, Service!Next, Service!Restart
  <2>4. CASE UNCHANGED vars \/ \E k \in Keys : Lapse(k)
    BY <2>4 DEF vars, calls, Lapse, Service!svars
  <2> QED
    BY <2>1, <2>2, <2>3, <2>4 DEF Next
<1>3. Spec => []HitsInv
  BY InitHits, NextHits, Invariance, PTL DEF Spec
<1> QED
  BY <1>1, <1>2, <1>3, Invariance, PTL DEF Spec, Service!Spec
=============================================================================

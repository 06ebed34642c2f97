----------------------------- MODULE ThreadPool -----------------------------
(***************************************************************************)
(* The thread pool of TextTrek, server/workers/main_worker.cpp: callers    *)
(* push requests and wait; each request is a task, and a request for a PDF *)
(* puts one more task per page image into the same queue and waits for     *)
(* them.  Every request asks and fills the Redis cache, whose protocol is  *)
(* RedisWorker, instantiated here with the pool's threads.                 *)
(***************************************************************************)
EXTENDS Documents, FiniteSets

CONSTANTS
    Workers,      \* the threads of the pool
    Callers,      \* the threads that call MainWorker::push
    MaxRequests,  \* bound: calls in a behaviour
    PollLimit, RedisFails, Crashes,  \* see RedisWorker
    TaskFails     \* may rendering, recognition or the creation of a task throw?

(* More threads than callers: eight in Config against one data-processing   *)
(* thread of the oatpp executor and one stream of the gRPC server.          *)
ASSUME ThreadsAssumption ==
    /\ IsFiniteSet(Workers) /\ IsFiniteSet(Callers)
    /\ Cardinality(Callers) < Cardinality(Workers)
    /\ Workers \cap Callers = {}
ASSUME BoundsAssumption ==
    /\ MaxRequests \in Nat /\ PollLimit \in Nat
    /\ RedisFails \in BOOLEAN /\ Crashes \in BOOLEAN /\ TaskFails \in BOOLEAN

VARIABLES
    queue,    \* queue[p]: the tasks enqueued by thread p and not yet dequeued
    asked,    \* the requests in the order they were pushed
    answer,   \* answer[n]: the future of the n-th request
    waiting,  \* waiting[c]: the request whose future caller c waits for, or 0
    pages,    \* pages[n]: the page futures request n has created, in order
    at,       \* at[w]: where worker w is in its task
    job,      \* job[w]: the task worker w runs
    next,     \* next[w]: the loop index of the spawning and collecting loops
    text,     \* text[w]: utf8, the page texts collected so far
    store, rpc, rkey, rval, minutes  \* the cache: see RedisWorker

calls == <<asked, answer, waiting>>
frame == <<next, text>>
cache == <<store, rpc, rkey, rval, minutes>>
vars == <<queue, calls, pages, at, job, frame, cache>>

R == INSTANCE RedisWorker WITH
    Threads <- Workers, Data <- Texts, NoData <- <<>>,
    Outcome <- [k \in Keys |-> {Result(r) : r \in {r \in Requests : Hash[r.doc] = k}}]

(* Task 0 of a request is the request, task i its i-th page.                *)
Task(n, i) == [ticket |-> n, page |-> i]
NoTask == Task(0, 0)
Tickets == 1..Len(asked)
Doc(n) == asked[n].doc
Format(n) == asked[n].format

(* A page future: pending, the text of one image, or an exception.          *)
PageState(s, t) == [state |-> s, text |-> t]
Unread == PageState("pending", <<>>)

Init ==
    /\ queue = [p \in Callers \cup Workers |-> <<>>]
    /\ asked = <<>> /\ answer = <<>> /\ pages = <<>>
    /\ waiting = [c \in Callers |-> 0]
    /\ at = [w \in Workers |-> "idle"]
    /\ job = [w \in Workers |-> NoTask]
    /\ next = [w \in Workers |-> 1]
    /\ text = [w \in Workers |-> <<>>]
    /\ R!Init

-----------------------------------------------------------------------------
(* The callers: MainWorker::push.                                           *)

Submit(c, r) ==
    /\ Len(asked) < MaxRequests
    /\ asked' = Append(asked, r)
    /\ answer' = Append(answer, Pending)
    /\ pages' = Append(pages, <<>>)
    /\ queue' = [queue EXCEPT ![c] = Append(@, Task(Len(asked) + 1, 0))]
    /\ waiting' = [waiting EXCEPT ![c] = Len(asked) + 1]
    /\ UNCHANGED <<at, job, frame, cache>>

(* Slip: the caller does not wait for the answer before it pushes again.    *)
PushWithoutWaiting(c, r) == Submit(c, r)

Push(c, r) == waiting[c] = 0 /\ Submit(c, r)

Receive(c) ==
    /\ waiting[c] # 0
    /\ answer[waiting[c]] # Pending
    /\ waiting' = [waiting EXCEPT ![c] = 0]
    /\ UNCHANGED <<queue, asked, answer, pages, at, job, frame, cache>>

-----------------------------------------------------------------------------
(* A worker's loop.  The queue keeps the order of each producer's tasks but *)
(* none between producers.                                                  *)

(* Slip: the task stays in the queue while it runs.                         *)
DequeuePeek(w, p) ==
    /\ at[w] = "idle"
    /\ queue[p] # <<>>
    /\ job' = [job EXCEPT ![w] = Head(queue[p])]
    /\ IF Head(queue[p]).page = 0
       THEN /\ at' = [at EXCEPT ![w] = "check"]
            /\ R!CallCheck(w, Hash[Doc(Head(queue[p]).ticket)])
       ELSE /\ at' = [at EXCEPT ![w] = "page"]
            /\ UNCHANGED cache
    /\ UNCHANGED <<queue, calls, pages, frame>>

Dequeue(w, p) ==
    /\ at[w] = "idle"
    /\ queue[p] # <<>>
    /\ queue' = [queue EXCEPT ![p] = Tail(@)]
    /\ job' = [job EXCEPT ![w] = Head(queue[p])]
    /\ IF Head(queue[p]).page = 0
       THEN /\ at' = [at EXCEPT ![w] = "check"]
            /\ R!CallCheck(w, Hash[Doc(Head(queue[p]).ticket)])
       ELSE /\ at' = [at EXCEPT ![w] = "page"]
            /\ UNCHANGED cache
    /\ UNCHANGED <<calls, pages, frame>>

(* Nothing to do: sleep and look again.                                     *)
Doze(w) ==
    /\ at[w] = "idle"
    /\ \A p \in DOMAIN queue : queue[p] = <<>>
    /\ UNCHANGED vars

(* A Redis command of check or push, or the clock of its polling loop.      *)
RedisStep(w) ==
    /\ R!Check(w) \/ R!Push(w) \/ R!Tick(w)
    /\ UNCHANGED <<queue, calls, pages, at, job, frame>>

(* The task of a request ends and its promise is fulfilled.                 *)
EndRequest(w, result) ==
    /\ answer' = [answer EXCEPT ![job[w].ticket] = result]
    /\ at' = [at EXCEPT ![w] = "idle"]
    /\ job' = [job EXCEPT ![w] = NoTask]
    /\ next' = [next EXCEPT ![w] = 1]
    /\ text' = [text EXCEPT ![w] = <<>>]
    /\ R!Leave(w)
    /\ UNCHANGED <<queue, asked, waiting, pages>>

Checked(w) == at[w] = "check" /\ rpc[w] = "returned"

(* A hit.  A PDF is rendered again, only for the text it carries itself.    *)
ServeHit(w) ==
    /\ Checked(w)
    /\ R!Full(rval[w])
    /\ EndRequest(w, Ready(rval[w]))

Miss(w, format) ==
    /\ Checked(w)
    /\ ~R!Full(rval[w])
    /\ Format(job[w].ticket) = format

(* redis->push of what was found.                                           *)
PushResult(w, images, lang) ==
    /\ at' = [at EXCEPT ![w] = "push"]
    /\ text' = [text EXCEPT ![w] = images]
    /\ R!CallPush(w, [data |-> Joined(images), lang |-> lang])
    /\ UNCHANGED <<queue, calls, pages, job, next>>

ReadPicture(w) == Miss(w, "IMAGE") /\ PushResult(w, Picture(Doc(job[w].ticket)), NoLang)

ReadNothing(w) == Miss(w, "AUTO") /\ PushResult(w, <<>>, NoLang)

Render(w) ==
    /\ Miss(w, "PDF")
    /\ at' = [at EXCEPT ![w] = "spawn"]
    /\ UNCHANGED <<queue, calls, pages, job, frame, cache>>

(* Slip: pages are numbered from 1 here and from 2 in the queue.            *)
SpawnPageOffByOne(w) ==
    /\ at[w] = "spawn"
    /\ LET n == job[w].ticket IN
       IF next[w] <= Pages[Doc(n)]
       THEN /\ queue' = [queue EXCEPT ![w] = Append(@, Task(n, next[w] + 1))]
            /\ pages' = [pages EXCEPT ![n] = Append(@, Unread)]
            /\ next' = [next EXCEPT ![w] = @ + 1]
            /\ UNCHANGED at
       ELSE /\ at' = [at EXCEPT ![w] = "collect"]
            /\ next' = [next EXCEPT ![w] = 1]
            /\ UNCHANGED <<queue, pages>>
    /\ UNCHANGED <<calls, job, text, cache>>

(* enqueueFromTask for the next page image; after the last one, collecting  *)
(* begins.                                                                  *)
SpawnPage(w) ==
    /\ at[w] = "spawn"
    /\ LET n == job[w].ticket IN
       IF next[w] <= Pages[Doc(n)]
       THEN /\ queue' = [queue EXCEPT ![w] = Append(@, Task(n, next[w]))]
            /\ pages' = [pages EXCEPT ![n] = Append(@, Unread)]
            /\ next' = [next EXCEPT ![w] = @ + 1]
            /\ UNCHANGED at
       ELSE /\ at' = [at EXCEPT ![w] = "collect"]
            /\ next' = [next EXCEPT ![w] = 1]
            /\ UNCHANGED <<queue, pages>>
    /\ UNCHANGED <<calls, job, text, cache>>

(* k.get().second of the next page, blocking until it is there.             *)
CollectPage(w) ==
    /\ at[w] = "collect"
    /\ LET n == job[w].ticket IN
       /\ next[w] <= Len(pages[n])
       /\ pages[n][next[w]].state = "ready"
       /\ text' = [text EXCEPT ![w] = @ \o pages[n][next[w]].text]
    /\ next' = [next EXCEPT ![w] = @ + 1]
    /\ UNCHANGED <<queue, calls, pages, at, job, cache>>

PushPdf(w) ==
    /\ at[w] = "collect"
    /\ next[w] > Len(pages[job[w].ticket])
    /\ PushResult(w, text[w], LangOf[Doc(job[w].ticket)])

Answer(w) ==
    /\ at[w] = "push"
    /\ rpc[w] = "pushed"
    /\ EndRequest(w, Ready(rval[w]))

(* A page task, whose future may have nobody left who waits for it.         *)
EndPage(w, result) ==
    /\ at[w] = "page"
    /\ pages' = [pages EXCEPT ![job[w].ticket][job[w].page] = result]
    /\ at' = [at EXCEPT ![w] = "idle"]
    /\ job' = [job EXCEPT ![w] = NoTask]
    /\ UNCHANGED <<queue, calls, frame, cache>>

ReadPage(w) ==
    EndPage(w, PageState("ready", << <<Doc(job[w].ticket), job[w].page>> >>))

(* Slip: the thread survives the exception, but the promise is forgotten.   *)
FailPageSilently(w) == TaskFails /\ EndPage(w, Unread)

FailPage(w) == TaskFails /\ EndPage(w, PageState("thrown", <<>>))

(* Slip: the pages read so far are cached before the exception is passed on.*)
KeepPartialResult(w) ==
    /\ at[w] = "collect"
    /\ next[w] <= Len(pages[job[w].ticket])
    /\ pages[job[w].ticket][next[w]].state = "thrown"
    /\ PushResult(w, text[w], LangOf[Doc(job[w].ticket)])

(* k.get() throws what a page threw: the request ends there.  Its remaining *)
(* page tasks stay in the queue, its placeholder in Redis.                  *)
RethrowPage(w) ==
    /\ at[w] = "collect"
    /\ next[w] <= Len(pages[job[w].ticket])
    /\ pages[job[w].ticket][next[w]].state = "thrown"
    /\ EndRequest(w, Thrown)

(* Rendering, recognition or enqueueFromTask throws.                        *)
FailRequest(w) ==
    /\ TaskFails
    /\ \/ Checked(w) /\ Format(job[w].ticket) = "PDF"
       \/ Miss(w, "IMAGE")
       \/ at[w] = "spawn" /\ next[w] <= Pages[Doc(job[w].ticket)]
    /\ EndRequest(w, Thrown)

-----------------------------------------------------------------------------
(* Some key's record expires.                                               *)
Lapse(k) == R!Lapse(k) /\ UNCHANGED <<queue, calls, pages, at, job, frame>>

(* The process dies and is started again: tasks, futures and calls are gone.*)
Crash ==
    /\ R!Crash
    /\ queue' = [p \in Callers \cup Workers |-> <<>>]
    /\ answer' = [n \in Tickets |-> IF answer[n] = Pending THEN Lost ELSE answer[n]]
    /\ pages' = [n \in Tickets |-> <<>>]
    /\ waiting' = [c \in Callers |-> 0]
    /\ at' = [w \in Workers |-> "idle"]
    /\ job' = [w \in Workers |-> NoTask]
    /\ next' = [w \in Workers |-> 1]
    /\ text' = [w \in Workers |-> <<>>]
    /\ UNCHANGED asked

-----------------------------------------------------------------------------
Serve(w) ==
    \/ ServeHit(w) \/ ReadPicture(w) \/ ReadNothing(w) \/ Render(w)
    \/ SpawnPage(w) \/ CollectPage(w) \/ PushPdf(w) \/ Answer(w)
    \/ ReadPage(w) \/ FailPage(w) \/ RethrowPage(w) \/ FailRequest(w)

Worker(w) ==
    \/ \E p \in Callers \cup Workers : Dequeue(w, p)
    \/ RedisStep(w) \/ Serve(w) \/ Doze(w)

Caller(c) == Receive(c) \/ \E r \in Requests : Push(c, r)

Next ==
    \/ \E w \in Workers : Worker(w)
    \/ \E c \in Callers : Caller(c)
    \/ \E k \in Keys : Lapse(k)
    \/ Crash

Spec == Init /\ [][Next]_vars

(* The threads run, commands return and time passes.  A caller's own thread *)
(* is woken by its future.                                                  *)
FairSpec ==
    /\ Spec
    /\ \A w \in Workers :
          /\ WF_vars(\E p \in Callers \cup Workers : Dequeue(w, p))
          /\ WF_vars(Serve(w))
          /\ WF_vars((R!Check(w) \/ R!Push(w)) /\ RedisStep(w))
          /\ WF_vars(R!Tick(w) /\ RedisStep(w))
    /\ \A c \in Callers : WF_vars(Receive(c))
-----------------------------------------------------------------------------
Tasks == [ticket : Nat \ {0}, page : Nat]
Answers == [state : {"pending", "ready", "thrown", "lost"}, data : Texts, lang : Langs]
PageFutures == [state : {"pending", "ready", "thrown"}, text : Texts]
Exists(task) ==
    task.ticket \in Tickets /\ task.page \in 0..Len(pages[task.ticket])

ValuesOK ==
    /\ queue \in [Callers \cup Workers -> Seq(Tasks)]
    /\ asked \in Seq(Requests) /\ Len(asked) <= MaxRequests
    /\ answer \in Seq(Answers) /\ Len(answer) = Len(asked)
    /\ pages \in Seq(Seq(PageFutures)) /\ Len(pages) = Len(asked)
    /\ waiting \in [Callers -> 0..Len(asked)]
    /\ at \in [Workers -> {"idle", "check", "spawn", "collect", "push", "page"}]
    /\ job \in [Workers -> Tasks \cup {NoTask}]
    /\ next \in [Workers -> Nat \ {0}]
    /\ text \in [Workers -> Texts]
TasksExist ==
    /\ \A p \in Callers \cup Workers : \A i \in 1..Len(queue[p]) : Exists(queue[p][i])
    /\ \A w \in Workers : IF at[w] = "idle" THEN job[w] = NoTask ELSE Exists(job[w])

(* Every variable stays in its range: a promise is fulfilled with a value   *)
(* of its own kind, and every task, queued or running, has a future.        *)
TypeOK == R!TypeOK /\ ValuesOK /\ TasksExist

(* A promise that is not fulfilled yet has its task in the queue or in one  *)
(* worker's hands, exactly once, and a fulfilled one has it nowhere: no     *)
(* task is lost or run twice, also when the request that spawned it died of *)
(* an exception of another page (main_worker.cpp:15-23, 44-46, 98, 115-117).*)
Open(n, i) ==
    IF i = 0 THEN answer[n] = Pending ELSE pages[n][i].state = "pending"
Places(task) ==
    {w \in Workers : job[w] = task} \cup
    UNION {{<<p, i>> : i \in {i \in DOMAIN queue[p] : queue[p][i] = task}} :
               p \in Callers \cup Workers}
EachTaskOnce ==
    \A n \in Tickets : \A i \in 0..Len(pages[n]) :
        Cardinality(Places(Task(n, i))) = IF Open(n, i) THEN 1 ELSE 0

(* The pool does not run out of threads: although a request holds its       *)
(* thread while it waits for its pages, some thread is always free of such  *)
(* waiting, so the page tasks are run.  It rests on MainWorker::push        *)
(* holding its caller until the answer is there (main_worker.cpp:96-99,     *)
(* 148-153).                                                                *)
Blocked(w) ==
    /\ at[w] = "collect"
    /\ next[w] <= Len(pages[job[w].ticket])
    /\ pages[job[w].ticket][next[w]].state = "pending"
SomeWorkerFree == \E w \in Workers : ~Blocked(w)

(* The pool uses the cache as its protocol demands: it pushes only after a  *)
(* miss, and only what processing a document of that very key yields,       *)
(* never a text cut short by an exception (main_worker.cpp:57-58, 104).     *)
UsesCacheProtocol == R!Spec

(* Seen from its callers the pool is the service OcrService describes: each *)
(* push returns, with the whole text of its document in page order and the  *)
(* language that belongs to it, or with an exception (main_worker.cpp:51-120*)
(* and 148-153).                                                            *)
Service == INSTANCE OcrService
ImplementsService == Service!FairSpec
=============================================================================

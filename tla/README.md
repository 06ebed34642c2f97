# TextTrek: a TLA+ model of the OCR server

TextTrek is a C++ server that turns documents into text. A client sends the bytes
of a document, its format (`AUTO`, `IMAGE` or `PDF`) and a list of languages, over
HTTP (oatpp) or over a gRPC stream (asio-grpc). The server renders a PDF into page
images (poppler), guesses its language (fastText), runs OCR on each page image
(Tesseract), and answers with the text. Results are kept for three hours in a Redis
cache that is also the lock with which concurrent requests for one document avoid
doing the work twice.

This directory models `src/server`: the server's own code, and the two libraries
that it carries in source, the moodycamel queue its pool is built on and fastText.
Line numbers below are lines of the named file.

## 1. The system's parts

| part | code | state | operations |
|---|---|---|---|
| `RedisWorker` | `workers/redis_worker.cpp` | one hash record `{data, lang}` per document hash, on the Redis server; nothing in the process but the connection | `check` (find, claim or wait for a result), `push` (store a result) |
| `ThreadPool` | `workers/main_worker.cpp` 7-120 | the queue of tasks, the futures, the worker threads, the map `fasttext_workers` | the constructor's threads, `enqueue` (one task per request), `enqueueFromTask` (one task per page), the destructor |
| `MainWorker` | `workers/main_worker.cpp` 139-153 | the pool | `push`: enqueue and block on the future |
| `PopplerWorker` | `workers/poppler_worker.cpp` | none between calls | `rendering_start`: texts and page images of a PDF; `write_png_memory` |
| `TesseractWorker` | `workers/tesseract_worker.cpp` | none between calls | `run_ocr_image`, `parse_lang` |
| `FasttextWorker` | `workers/fasttext_worker.cpp` | a model per pool thread | `run_work`: the language of a text |
| `GrpcServer`, `ServerShutdown` | `server_grpc.cpp` | the stream, the channel between reader and writer, the shutdown thread | the reader and writer coroutines, the signal handler, shutdown |
| `HttpServer`, `MyController` | `http/` | the oatpp executor and connection threads | `POST worker`, `run`, `stop` |
| `main` | `main.cpp` | the objects' life times | start the pool, HTTP, gRPC (whose constructor runs until shutdown); end them in reverse |
| task queue | `moodycamel/` (vendored) | sub-queues of blocks, one per producer; a hash from threads to producers; free list of blocks; chains of exit listeners; a semaphore | `enqueue`, `try_dequeue`, their bulk, token and waiting forms |
| fastText library | `fastText/src/` (vendored) | dictionary, matrices, losses, meters, the model's file | `train`, `quantize`, `saveModel`, `loadModel`, `predictLine`, `test`, autotune |

**How they interact.** `main` builds one `MainWorker` and hands it to both servers.
Both call `MainWorker::push`, which blocks its thread until the answer is ready. The
oatpp executor has one data-processing thread (`App.cpp` 36-40) and the gRPC server a
thread pool of one (`server_grpc.cpp` 169) for its only stream, so at most two pushes are
in flight, against eight pool threads (`config.h` 7). A request is one task of the
pool; for a PDF that task puts one more task per page **into the same queue** and blocks
on their futures. Every task of a request asks and fills the shared Redis record. A pool
thread is a producer of the queue without a token, found through the queue's hash of
thread ids; its permits come from the queue's semaphore. Each pool thread loads its own
fastText model and predicts with it; the training side of the library is run by
fastText's own program, to make those models.

## 2. What is hard here, and what makes each part correct

* **Cache protocol.** `EXISTS` and `HMSET` are two commands, so several threads may
  claim one key, and a late claim may wipe a result already stored. A hit must be one
  result of that document; a record cannot stay for good; a call returns although the
  claimer died. `EXPIRE` is a third command; a crash before it leaves a placeholder with
  no time to live.
* **Nested blocking.** A thread that waits for page futures does not run tasks. If every
  thread waits so, nothing runs any more. That state must not be reached, because fewer
  requests are in flight than the pool has threads.
* **Futures and exceptions.** An exception of a page aborts its request but leaves the other
  page tasks in the queue; they run later with nobody waiting. An answer contains the pages
  of its own document, each once and in order, whatever stale tasks the queue holds.
* **Stream and shutdown.** The reader and writer coroutines, the channel, the signal, the
  shutdown thread, the HTTP threads, and pool threads that never stop: who waits for whom,
  and who outlives whom.
* **Boundaries of the server.** `i > max_render` renders one page more than `max_render`;
  a longjmp out of libpng; `substr(9, lang.size() - 9)` relies on a wrapping subtraction.
* **The lock-free queue.** Counters that are loaded one after the other, claimed
  optimistically and given back, and that wrap; an index that the producer replaces under
  its consumers; blocks that must be in one place through bulks that fail half-way; ABA on
  the free list; ids of threads that are reused; tables that grow in front of each other;
  chains of listeners that are walked while queues are deleted; a timed wait that expires
  as it is served.
* **fastText.** Open addressing whose search ends only at a free cell; ids, table, n-grams
  and matrix rows that must be renumbered alike; a file read in a ring, where a newline is
  put back and the end of file is noticed twice; training threads that stop on unlocked
  words; a search ended by a timer and by an interrupt; heaps, a one-pass Huffman tree and a
  branch-and-bound search with ties; flags that decide how a file is read.

`PROJECT.json` lists these hazards with their lines and the properties about them.

## 3. The modules

| module | what it is |
|---|---|
| `RedisWorker`, `MCRedisWorker*` | the cache protocol: `check`, `push`, and the Redis records they share; its instances |
| `RedisWorkerProofs` | theorems about it |
| `Documents` | documents, requests, texts, languages, and the result of processing a request |
| `OcrService` | abstract: what `MainWorker::push` promises its callers |
| `ThreadPool`, `MCThreadPool*` | the pool, its callers, tasks and futures; instantiates `RedisWorker` and implements `OcrService`; its instances |
| `ThreadPoolProofs` | theorems about it |
| `GrpcServer`, `GrpcServer*.cfg` | the stream's coroutines, their channel, and the shutdown |
| `GrpcServerProofs` | theorems about it |
| `ServerLifecycle` | the process from `main` to its end: pool, HTTP and gRPC servers, their threads |
| `Rendering` | `rendering_start` and `write_png_memory` with libpng's jumps |
| `Languages`, `HttpRequest` | language detection and `parse_lang`; an upload from its parts to the trained data it is read with |
| `ServerProofs` | theorems about `ServerLifecycle`, `Rendering` and `HttpRequest` |
| `Semaphore`, `LightweightSemaphore` | abstract counter of permits; `lightweightsemaphore.h`, which implements it |
| `FreeList` | the free list of blocks and the blocks it lives from |
| `ProducerBase` | the four counters of a sub-queue and how consumers claim by them |
| `ImplicitProducer`, `ExplicitProducer` | the two kinds of sub-queues; both extend `ProducerBase` |
| `ProducerHash` | how a thread finds its sub-queue, and how one is given up and taken over |
| `QueueProofs` | theorems about `ProducerHash`, `FreeList`, `TaskQueue` and the counters of both kinds of sub-queues |
| `TaskQueue` | the whole blocking queue: list of sub-queues, permits, searches, tokens |
| `ThreadExit` | the chains of exit listeners of all queues |
| `QueueProgressProofs` | theorems about `LightweightSemaphore` and `ThreadExit` |
| `Dictionary`, `Subwords` | the vocabulary with its table and the matrix rows that belong to it; n-grams |
| `LineReading` | reading a text by words and lines |
| `TrainingRun`, `Training` | abstract run of training; the threads that implement it |
| `TrainingProofs` | theorems about `LineReading`, `Training` and `Autotune` |
| `Autotune`, `AutotuneStrategy`, `ModelSize` | the search with its timer and the interrupt, on `TrainingRun`; its choice of arguments; the size to prune to |
| `BoundedHeap`, `KBest`, `HierarchicalSoftmax` | the heap of predictions; the scans that use it; the tree and its search |
| `Meter` | precision, recall and their curves |
| `ModelFile` | one object through `train`, `quantize`, `saveModel`, `loadModel`, and the file |
| `ModelProofs` | theorems about `ModelFile`, `AutotuneStrategy`, `ModelSize`, `KBest` and `Subwords` |
| `MCServer`, `MCQueue`, `MCQueueProgress`, `MCTraining`, `MCModel` | instances of the parts for TLC, see section 4 |

### RedisWorker

| in the model | in `redis_worker.cpp` |
|---|---|
| `store[k]` | the hash record of key `k`: whether it exists, whether a time to live is set, its two fields |
| `rpc[t]`, `rkey[t]` | where thread `t` is inside `check` or `push`; its `string_hash_value` |
| `rval[t]` | the pair `check` returned (`Nothing` for the empty strings) or `push` was given |
| `minutes[t]` | `duration.count()` of the polling loop |
| `CheckExists`, `CheckHmget`, `Claim`, `ClaimExpire` | the commands of lines 25-31, one step each |
| `CheckError` | an exception in one of them, lines 34-37; the server may or may not have executed it |
| `PollExists`, `PollHmget`, `PollError`, `PollTimeout`, `Tick` | the loop of lines 44-66 and its clock |
| `PushHmset`, `PushExpire`, `PushError` | lines 74, 76, 78-81 |
| `Lapse` | Redis lets a record with a time to live expire (or evicts it) |
| `CallCheck`, `CallPush`, `Leave` | the caller; in `ThreadPool` these are parts of its own actions |
| `Crash` | the process dies and starts again; Redis keeps its records |

Texts and languages are values of small sets. A pass of the polling loop that finds no
record, or whose `EXISTS` throws, changes nothing and is not an action. `Outcome[k]` is
what processing a document of key `k` may push; in `ThreadPool` it is computed.

### ThreadPool

| in the model | in `main_worker.cpp` |
|---|---|
| `queue[p]` | the tasks that thread `p` put into `tasks` and nobody has taken. The moodycamel queue keeps the order of each producer and none between producers, so a worker takes the head of any part |
| `asked[n]`, `answer[n]`, `waiting[c]` | the `n`-th request, its future, and the future a caller blocks on in `MainWorker::push` |
| `pages[n]` | `complited_tasks` of request `n`: its page futures |
| `at[w]`, `job[w]` | where thread `w` is in the task it runs |
| `next[w]`, `text[w]` | the loop index of lines 91 and 96; `utf8` |
| `Push`, `Receive` | `MainWorker::push`, 148-153, with `enqueue`'s 111-119 |
| `Dequeue`, `Doze` | the loop of 14-23 |
| `RedisStep` | a command inside `redis->check` or `redis->push`, a step of `RedisWorker` |
| `ServeHit` | 58-69: a hit |
| `ReadPicture`, `ReadNothing`, `Render` | 76-81, a request of format `AUTO`, 82-90 |
| `SpawnPage`, `CollectPage`, `PushPdf` | 91-94, 96-99, 104 |
| `Answer` | 105-108: the promise is fulfilled after `redis->push` |
| `ReadPage`, `FailPage` | a page task of `enqueueFromTask`, 36-46 |
| `RethrowPage`, `FailRequest` | an exception of a page, or of the request's own work, ends its task; the promise takes the exception, nothing is pushed |
| `Crash` | `exit(1)` (`tesseract_worker.cpp` 16) or a fatal signal, then a restart |

A page image is a pair of document and number and stands for the text in it. `Blank` images
give the empty string; a text all of whose images are blank is the empty string, which
matters because an empty text is never a hit. The text layer of a PDF (`pdata` of the
response) only decides the language and is abstracted to `LangOf`. The languages of the
request are not modelled: neither the cache key nor the control depends on them.

### OcrService

What a caller may rely on. `Ask` and `Receive` are the call and the return. `Reply`
fulfils a promise with the request's own result, with a complete result that a PDF
request **of the same key** yields (that is what a hit can be: the key is the hash of the
bytes, so the format of the request and collisions do not matter to the code), or with an
exception. `Restart` loses the calls in progress. Its fairness says that every request gets
its reply and every caller is woken.

### GrpcServer

| in the model | in `server_grpc.cpp` |
|---|---|
| `rpc` | `handle_bidirectional_streaming_request`: waiting in `agrpc::request`, serving a call, or ended |
| `reader`, `writer`, `current` | where the two coroutines are (104-145); the request the writer works on |
| `read`, `sends`, `closed` | requests read so far; the detached sends no receive has taken; whether the reader has closed the channel |
| `answers`, `status` | what has been written to the client, and how its call ended |
| `shutdown`, `running` | the shutdown thread; whether `grpc_context.run()` has yet to return |
| `Connect`, `RefuseRequest` | 77-92: the one request of a call completes with true or false |
| `Read`, `ReadEnd`, `ReadCancelled` | 107-119, and the cancellation that an exception of the other side of `&&` causes (92) |
| `PushReturns`, `PushThrows` | 134-141: `main_worker->push` on the thread pool |
| `Write`, `WriteFails` | 141-144 and the next receive, 125-133 |
| `EndStream` | 92-103: `agrpc::finish`, or nothing if a write failed or push threw |
| `Signal`, `BeginShutdown`, `EndShutdown`, `RunReturns` | 3-32, 178 |
| `Send`, `WritesDone`, `Disconnect` | the client (external) |

The channel has no buffer (89), so a send completes only in a receive; sends are
detached and any number may wait. Whether a receive after `close` still gets a waiting send
depends on the version of asio: `closed` becomes "keeps" or "drops". `agrpc::read` has no
cancellation of its own, so a cancelled reader ends when its read completes.
`server.Shutdown()` has no deadline: it refuses new calls, waits for the open one and
cancels nothing. Only one call is ever requested, so there is one stream.

### ServerLifecycle, Rendering, HttpRequest, Languages

| in the model | in the code |
|---|---|
| `pool`, `workers`, `StartWorker`, `EndPool` | the pool's constructor and destructor (`main_worker.cpp` 7-33); its threads loop for ever, so the join never ends |
| `http`, `accepting`, `connections`, `RunHttp`, `StopServer`, `CloseConnections`, `JoinServer` | `HttpServer` (`App.cpp` 58-80): one status test, `stop`, the close of the handler, the join |
| `request[r]`, `handler`, `HandleHttp`, `AnswerHttp` | a request blocks the one data-processing thread in `push` (`MyController.hpp` 90) |
| `context`, `stream`, `shutdown`, `Signal`, `BeginShutdown`, `EndShutdown`, `RunReturns`, `EndGrpc` | `server_grpc.cpp` 3-32 and 157-188; the inside of the stream is `GrpcServer` |
| `Abort` | an exception before `run()`: an address that cannot be bound |
| `NextPage` ... `EndPages`; `Header`, `WriteRow`, `WriteEnd`; `FailHeader`, `FailRows` | the page loop (`poppler_worker.cpp` 64-87); the encoder; a libpng error jumps to what the last `setjmp` recorded, so `jump` is state and `structs`, `leaks` say what is freed |
| `Missing`, `Refuse`, `Parsed`, `Push` | `onUploaded`; the format that does not parse leaves `f` with any value |
| `ReadPicture`, `ReadNothing`, `ReadPdf`, `RunWork`, `ParseLang` | `main_worker.cpp` 73-101; `fasttext_worker.cpp` 21-50; `tesseract_worker.cpp` 40-68 |

`Cut` computes `substr(9, lang.size() - 9)` with the subtraction modulo `Sizes`, the
number of values of a `size_t`. Labels,
`LangToLang` and `SupportLang` are small tables with the shapes of the real ones: a label
without an entry, a language made of several trained data, one unknown to Tesseract.

### The queue

The queue's modules cut it where the code does: each models one lock-free structure step
by step and takes its neighbours by what they promise.

| in the model | in `concurrentqueue.h` |
|---|---|
| `FreeList`: `refs`, `should`, `Ref`, `LoadNext`, `Pop`, `Unref`, `Push*` | 1438-1545; a reference count with a bit for "should be on the list" |
| ... `pool`, `owned`, `Take` | 3056-3112: blocks nobody has got yet, those a thread has got; a thread may ask the list although the pool has blocks, which the code does only when it has none |
| `ProducerBase`: `LoadOvercommit`, `Desire`, `CountIn`, `Actual`, `GiveBack`, `Claim` | the first half of both kinds' `dequeue_bulk`, 1954-2003 and 2780-2801 |
| `ImplicitProducer`: `EnqueueBulk`, `Reserve`, `Grow`, `List`, `TakeBlock`, `NoBlock`, `Undo*`, `Fill`, `Throw`, `Publish` | 2423-2778: a call's blocks are taken and listed one at a time, and taken back the same way |
| ... `LoadIndex`, `LoadIndexTail`, `LocateEntry`, `TakeOut`, `SetEmpty`, `Unlist`, `FreeBlock`, `Destroy` | 2804-2870, 2948-2964, 2431-2484 |
| `ExplicitProducer`: `Reuse`, `Room`, `Inject`, `Reset`, `Fill`, `Revert`, `Walked`, `Destroy` | 1771-2245 and 2272-2343 |
| `ProducerHash`: `Search`, `Copy`, `Resize`, `Recycle`, `Create`, `Insert`; `Exit`, `Forget`, `Abandon` | 3227-3277, 3404-3532; the thread-exit callback, 3540-3563 |
| `TaskQueue`: `AddProducer`, `Enqueue`, `Permit`, `GetPermits`, `Score`, `NoneScored`, `TryBest`, `TryRest`, `PassBest`, `Bulk`, `Rotate`, `TryCurrent`, `TryOthers`, `OthersAgain` | 1120-1290, 1392-1430, 3245-3262; `blockingconcurrentqueue.h` 123-456 |
| `ThreadExit`: `Link`, `Subscribe`, `Exit`, `Callback`, `Onward`, `Exited`, `Delete`, `Bypass`, `Unsubscribe` | 574-617, 855-899, 2431-2441 |
| `LightweightSemaphore`: `TryWaitMany`, `Register`, `Wake`, `Expire`, `Unregister`, `SeeServed`, `Signal`, `Post` | `lightweightsemaphore.h` 198-424 |

An operation on an atomic variable is one step; a loop of load and `compare_exchange` is the
step of the exchange that succeeds. `enqueue` is the bulk of one and `dequeue` likewise: in
each kind both follow the same steps, and the differences (a single enqueue has no list of
blocks to take back but one) fall out of the count. An element is its index, which is what lets a
property say that a consumer got the right one.

`TaskQueue` takes a sub-queue as the number of its elements, and a dequeue from it as a visit: it
begins when the consumer comes to it (`In`) and takes effect when it leaves. A consumer that
has counted itself in where there was nothing hides an element that comes later until it gives
the count back (1954-2003, 2554-2615, 2780-2801; `ProducerBase` has every step of it). So a dequeue whose
consumer was `beside` another during its visit finds anything between nothing and what it
could have (`Finds`), and so do the two loads of `size_approx` (`Sizes`). Who was alone all the
visit finds what is there: all counts taken for nothing are given back when nobody is inside
(`CountsSettled`), so the one at hand is exact. This allows more than the code does: two
consumers of `TaskQueue` may hide elements from each other for ever.

### fastText

| in the model | in `fastText/src` |
|---|---|
| `Dictionary`: `Read`, `Threshold`, `Finish`, `Pretrained`, `Train`, `Quantize`, `SaveLoad`, `Find` | `dictionary.cc` 45-71, 234-292, 481-577; `fasttext.cc` 323-347, 680-768 |
| `Subwords`: `From`, `CharEnd`, `More`, `Ends`, `PushHash` | `dictionary.cc` 172-195, 459-471 |
| `LineReading`: `ReadWord`, `TokenSup`, `TokenSg`, `LineFull`, `Call`, `EndOfLine`, `Finish` | `dictionary.cc` 208-232, 348-412; `fasttext.cc` 431-451, 628-661 |
| `Training`: `Check`, `Progress`, `Line`, `Flush`, `Catch`; `StartThreads`, `Spawn`, `Waited`, `Join`, `Rethrow`, `ClearException`; `abort` | `fasttext.cc` 628-678, 771-816 |
| `Autotune`: the steps of `train`, of the timer thread and of the interrupt handler | `autotune.cc` 208-274, 383-475 |
| `AutotuneStrategy`: `ask`, `updateBest` | `autotune.cc` 91-206 |
| `ModelSize`: `getCutoffForFileSize`, `QuantizeRows`, `FileSize` | `autotune.cc` 321-362; what `fasttext.cc` 192-211 writes, to the byte |
| `KBest`, `HierarchicalSoftmax` | `loss.cc` 64-93, 192-301; `fasttext.cc` 573-605 |
| `Meter` | `meter.cc` 22-212 |
| `ModelFile`: `Train`, `Quantize`, `Save`, `Load`, `Crash` | `fasttext.cc` 192-272, 323-368, 743-769 |

Matrices are left out: a row is known by what it was trained for, a matrix by its kind and
by the dictionary it belongs to, a line of training by whether it finds a NaN, scores by
small integers (ties included). `TrainingRun` is both what `Training` is shown to implement
and what `Autotune` is built on.

## 4. What is checked

| run | instance | properties | distinct states |
|---|---|---|---|
| `redis_faults` | 2 threads, 1 key, limit 3 minutes; errors, expiry, crashes | `TypeOK`, `CacheProvenance`, `CallsReturn` | 12,447 |
| `redis_calm` | 3 threads, 1 key, limit 1 minute; expiry | `NoImmortalRecord` | 33,713 (symmetry) |
| `pool_crowd` | 3 workers, 2 callers, 3 requests, 2 documents with a key each | `TypeOK`, `SomeWorkerFree` | 423,624 (symmetry) |
| `pool_faults` | 2 workers, 1 caller, any 2 requests, 2 documents that share a key; every fault | `EachTaskOnce`, `ImplementsService` | 39,273 |
| `pool_contention` | 3 workers, 2 callers, 2 requests that share a key; tasks may throw | `UsesCacheProtocol` | 273,003 |
| `grpc` | 3 requests; push may throw; a closed channel keeps or drops what waits | `AnswersInOrder`, `FinishedMeansAnswered`, `RequestsAnswered`, `StreamEnds`, `OnlyClientHoldsShutdown` | 1,777 |
| `grpc_open_client` | 1 request | `ShutdownCompletes`: **violated**, see below | - |
| `server` | the process with 2 workers and 3 HTTP requests; PDFs of up to 4 pages; all uploads | `UsedWhileAlive`, `RenderedWhole`, `UploadsRead`, `ServerEnds` | 24,786 |
| `queue` | seven parts of the queue, safety | `CountsSettled`, `ElementsFound`, `BlocksHandedOutOnce`, `SingleWriter`, `SameProducer`, `ElementsPermitted`, `SpreadOut`, `NothingOverlooked` | about 1.49 million (symmetry) |
| `queue_progress` | five parts in which somebody waits or tries again | `PermitsSettled`, `ExitClean`, `ImplementsSemaphore`, `CallsEnd` | 182,761 |
| `fasttext_training` | reading, training by two threads and alone, the search with any timer | `LinesRead`, `StopsAsAsked`, `PromiseKept`, `BestKept`, `SearchEnds` | 355,731 |
| `fasttext_model` | eight parts of a model over all small inputs | `LibraryHolds`, `HoldsBest`, `SubwordsRight`, `ChosenAsAsked`, `FileHolds` | 1,261,067 |

**Runs of several parts.** `server`, `queue`, `queue_progress`, `fasttext_training` and
`fasttext_model` check modules that share no state. Their MC modules are disjoint sums: the
initial state picks a `part`, which keeps its value; `v1`, `v2`, ... hold the part's
variables, a part's constants are given where it is instantiated, and variables a part does
not have stay `Off`. A property names the part it is about, `part = "bulk" => Expl!FindsItsElements`,
so it is not disturbed by the others (that of an extended part holds of the state its variables
stay in), and a conjunction gathers the properties of one
concern. A part about which there are theorems is not instantiated but extended, so that
the run checks the very definition the theorem is about: `MCServer` extends
`ServerLifecycle`, `Rendering` and `HttpRequest`, `MCQueue` `ProducerHash`,
`FreeList`, `TaskQueue` and `ImplicitProducer` (whose counters the two explicit producers share), `MCQueueProgress` `LightweightSemaphore` and `ThreadExit`, `MCTraining` `LineReading`,
`Training` and `Autotune`, and `MCModel` `ModelFile`, `ModelSize` (on `AutotuneStrategy`), `KBest` and
`Subwords`. While another part runs, the extended module's variables stay as
its `Init` sets them. Fairness is stated per thread and per part. Nothing is lost against separate
runs: every behaviour of every part is a behaviour of the sum, and a violation is the
same trace with `part` in front of it.

What the properties say, part by part:

* `CacheProvenance`: a filled record, and a hit, is one pair that one push made for that key.
* `NoImmortalRecord`: without errors and crashes, a record with no time to live exists only
  while a thread is about to execute the `EXPIRE` that follows its own `HMSET`. (With a
  crash or a failing `EXPIRE` such records do stay. They cost later requests their polling
  time until one of them pushes; `CallsReturn` and `ImplementsService` hold all the same.)
* `CallsReturn`: `check` and `push` come back, whatever became of the record they wait for.
* `EachTaskOnce` (run with one caller and every fault): an unfulfilled promise has its task in
  exactly one place, a fulfilled one in none. `SomeWorkerFree`: the threads are never all blocked on page futures.
* `UsesCacheProtocol`: the pool implements `RedisWorker`'s specification, callers included.
  `ImplementsService`: the pool implements `OcrService`, its liveness included.
* `AnswersInOrder`: whatever waits and whatever fails, the client gets the answers to its
  first requests, each once and in order (and the variables keep their ranges).
* `FinishedMeansAnswered`: a call that ends with OK has answered every request, also those
  that waited when the channel was closed, if the close keeps them. With an asio that drops
  them, a client that half-closes early gets OK and too few answers.
* `RequestsAnswered`: unless push throws or the client leaves, each request is answered.
  `StreamEnds`: a client that stops writing or vanishes ends the call, also after a throw.
* `OnlyClientHoldsShutdown`: after a signal nothing but an open client delays `run()`'s return.
* `ShutdownCompletes` is what the comment of `ServerShutdown::shutdown` says (23-26): the
  signal makes every coroutine end and `run()` return. TLC refutes it with a client that keeps
  its stream open: `Shutdown()` waits for the call, and the pending read waits for the client.
* `UsedWhileAlive`: the pool with all its threads is there for every push, to the end; when
  `stop` has returned, nothing of the HTTP server is left that could push; the gRPC context
  is there while a stream is.
* `RenderedWhole`: the text is that of all pages that can be made, the images those of the
  first `max_render + 1` pages, each in its place; an image is whole or empty whatever libpng does, and what it
  allocated is lost only with an empty one.
* `UploadsRead`: exactly the uploads with all three parts are pushed, with a known format as
  sent; a PDF is read in English, the supported languages asked for and the one detected.
* `ServerEnds`: an accepted HTTP request ends although handlers run one at a time; once main
  stops the server it reaches the pool's destructor, if the accepting thread had begun; a
  call of the renderer returns.
* `CountsSettled`: each place counted in `dequeueOptimisticCount` is claimed, given back or in
  one consumer's hands, and `headIndex` never passes `tailIndex`, across their wrap.
* `ElementsFound`: the one count of threads leaves a free slot in every table of the hash, so
  that a search ends. The block and place a consumer arrives at hold its element, through
  whichever index it loaded; the destructor of an explicit producer destroys what is left
  and nothing else. To that end a block of an implicit producer is in one place, through
  calls that fail half-way, and a ring's emptied block can be used again.
* `BlocksHandedOutOnce`: a block is with an owner, on its way to or from the free list, left to
  whoever gives up its last reference, on the list or not yet taken, in one of them and once:
  it is not handed out twice, and not lost; its bit is clear when it is added and popped.
* `SingleWriter`: a producer has one living thread that writes to it, through exits, reused
  ids and tables.
  `SameProducer`: a thread gets the same producer in all its calls, so its tasks stay in order.
* `ElementsPermitted`: each element of the queue has its permit, waiting or in the hands of a
  consumer that searches, so that nobody sleeps beside a task.
* `NothingOverlooked`: a search fails only if each sub-queue was, at some time since it began,
  empty or visited by another consumer, who may hide what is in it. More is not to be had:
  the code's comment says "appeared empty" and "not guaranteed to be empty" (1120-1123).
  `SpreadOut`: tokens placed apart stay apart.
* `PermitsSettled`: posts and waits of the semaphore balance.
* `ImplementsSemaphore`: the semaphore never gives a permit that was not signalled and leaves
  nobody without timeout asleep who could have one.
* `CallsEnd`: waits whose time is over, enqueues, exits and deletions end, and so do searches
  with permits, unless another consumer is met in a sub-queue again and again; and among calls
  on the free list, which are only lock-free, some end always.
* `ExitClean`: of a thread that has exited no producer is left that is neither given up nor
  deleted, and no listener of a deleted queue is touched.
* `LinesRead`: a supervised call reads one line, no example reaches into the next, between two
  rewinds each token is read once, and a pass counts what the vocabulary counted.
* `StopsAsAsked`: the count overshoots by at most a flush per thread; after an exception a
  thread takes at most one more line; none runs when `startThreads` returns. `PromiseKept`:
  `Training` implements `TrainingRun`, so a run ends, with the exception that was raised, with
  two threads and with the caller alone (`NThreads` 1).
* `BestKept`: the best score is that of the arguments kept and above all others, and no abort
  meant for a trial hits the final training. `SearchEnds`: an interrupt ends the search; the
  duration does if the timer thread looks late enough (see below). What a trial does not catch
  (no words to train on, a matrix of too few rows to quantize, a metric's label that does not
  exist) leaves `train` with the timer thread unjoined, which ends the process: `Uncaught`.
* `LibraryHolds`, of the vocabulary: a search of the table ends, finds exactly the entries, counts are
  short only by what thresholds took; rows follow their words through pruning and vectors
  that are added. Of the tree: it has least cost; the search finds the best leaves although
  it leaves out subtrees. Of the meter: totals are sums; precision for a recall and recall for a
  precision are the best over all thresholds, against a definition that tries them all.
* `HoldsBest`: at each turn of a scan the heap holds the best of those asked for so far.
* `SubwordsRight`: a word's n-grams are the runs of its whole characters, each once, and stand
  beside their rows.
* `ChosenAsAsked`: what the user set stays through all trials; buckets are there when n-grams
  are; the size is kept but for the names of the words, or refused as too small.
* `FileHolds`: whatever was trained, quantized or loaded before, a whole file loads as
  the model it was saved from, and flags and matrices agree.

Each property of each passing run has a mutant in `PROJECT.json`: a slip one could make in
that code (an operator marked `Slip:` above the action), under which the run fails.

**Bounds.** One key is enough to contend for: keys do not interact but through the
caller. Three threads let two race around a third, so that a claim, a fill and an expiry can
all fall between two commands of one thread. `PollLimit` only counts; 0, 1 and 3 are used,
and clocks stop at the first minute that ends the loop. Two pages are the fewest that can be
out of order or half collected; two callers are what the servers have; three workers the
fewest that exceed them; `MaxRequests` of 2 or 3 gives a second request for a key that the
first has claimed, filled, abandoned or lost. Three requests on a stream let one be
computed, one wait in the channel and one be unread. Three HTTP requests: one handled,
one queued, one still to come when the server stops. Four pages with a limit of one image
give the image that is one too many, and a page beyond.

Sub-queues start at 28 of 32 indices with blocks of two, so head, tail and the other counters
wrap within the run, each at its own time; bulks of three span three blocks; indices
start with one slot and grow twice; five elements fill and empty a ring that is used again.
Consumers search up to three sub-queues for up to three elements (two in `queue_progress`), so
that the one scored best may be emptied or hidden with others before and after it in the list;
with tokens, sub-queues and elements are five at most together (`FewTokens`).
Misses are bounded (`MaxMissed`), for each moves two counters. Two consumers are the fewest
whose claims interleave. Three threads on two ids'
worth of slots make the hash grow once while another inserts, and ids are given to later
threads. Three threads and two blocks are the fewest with an ABA on the free list. Two
queues and three producers give a thread a chain of two listeners of which one belongs to a
queue that is being deleted.

Texts of four characters hold a word, blanks, a label prefix and a newline in any order,
read by up to three calls. A vocabulary of at most seven tokens in a table of five cells
passes the early thresholds twice. Trees of up to five labels with counts up to three give all
ties; scores of three values and four labels do for the heap. `IntHalf` of 128 and three
centroids in place of 2^31 and 256, and sizes on both sides of what they leave, bring the limits
of `ModelSize` within reach.

**Deadlock** is checked for the cache and the pool. The `grpc` runs and the sums do not check it:
the server stops, and a bounded part has an end.

**Fairness.** Each pool thread runs (it is an operating-system thread that loops), each Redis
command returns or throws, and the steady clock advances: weak fairness of a thread's
dequeuing, of its own steps, of its Redis step and of its clock. A caller's thread wakes
when its future is ready. Nothing is assumed of clients, signals, errors, expiry or crashes.
The context's thread and the shutdown thread run, and a push returns or throws: that is what
`ThreadPool` shows, and `GrpcServer` and `ServerLifecycle` assume.
Requests are finite in number, so fairness of dequeuing does not have to choose among
producers. In the queue each thread goes on with the call it is in, and nothing makes it
begin one; the operating system's semaphore wakes a waiter when it has a post. In
`Training` and `Autotune` the threads go on and time passes; an interrupt need not come.

**Assumptions of the models.** Memory is sequentially consistent: the orderings that the queue
asks for are not modelled. `trainException_`, an `exception_ptr` shared without a lock, is one
word. The 1e-5 of `std_log` is left out. Element constructors and allocations fail where the
code handles it; in the passing instances the explicit producer's failing calls need at most
one block and its constructors do not throw (next paragraph).

**What the code does that no run may pass.** While modelling, the following came to light;
they are facts of the modelled code, and the constant, bound or condition that keeps
each out of the passing runs is named:

* `ExplicitProducer`: a bulk that fails after it inserted or reused blocks takes the count of
  index slots back and keeps the blocks (`concurrentqueue.h` 2112-2122), so the index can be
  overwritten in place of grown; and a constructor that throws leaves a new block that is not
  marked empty (1912-1927). `FindsItsElements` fails when bulks that need two
  blocks may fail and the index is small (`BlockSize` 1, `FirstSize` 2, `AllocModes` `BOOLEAN`),
  `LeftAvailable` and `DestroysTheRest` with `Throws`. The pool uses neither tokens nor bulks.
* `TaskQueue!RotatesInTime`: a token's bulk that takes its quota from the sub-queues it moves on
  to does not rotate, and the single dequeue tests for equality with the quota (1264-1289).
* `ThreadExit` with `DeleteAnytime`: a destructor that finds its producer inactive skips the
  mutex (2439) while the walk may still stand at it. In the server the pool's queue
  outlives its threads.
* `ServerLifecycle`: an accepting thread that starts after `HttpServer::stop` has asked for the
  status is joined without having been stopped (`App.cpp` 66; `ServerEnds` asks only for a thread that
  has begun), and the gRPC context may be destroyed while the shutdown thread is inside
  `Shutdown()` (`server_grpc.cpp` 178-188; no property asks for the contrary).
* `Autotune`, `early`: the timer thread is created before `continueTraining_` is set (264-265);
  run at once, it ends and the duration is never enforced. `SearchEnds` asks that the duration ends
  the search only of behaviours in which the thread looked later.
  `BestSelected`: a score that is NaN and comes first is kept, for nothing is greater (422).
* `Subwords!Aligned`: in a pruned model `getNgramVectors` puts vectors beside the wrong
  n-grams, since `pushHash` leaves some out of one of the two lists (`fasttext.cc` 535).
* `ModelSize!FileWithinSize`: the estimate leaves out the bytes of the words' names and more, so
  the file can exceed the size asked for; and sizes above two gigabytes wrap an int.
* `ModelFile` with `LoadsAgain`: `loadModel` sets `quant_` and never resets it.

## 5. What is proved

All by TLAPS, for every value of the constants that satisfies the modules' assumptions: any
finite set of callers smaller than the finite set of workers (`ThreadsAssumption`: two and
eight in the code), any documents, keys, hash (collisions included), requests and bounds,
with or without each kind of fault; any number of threads at the semaphore, at the hash of
producers, at the free list, at their end and in training; any consumers with tokens or
without, sub-queues and elements; any consumers of one sub-queue; any queues, producers,
documents, uploads, scores, words and sizes. No proof uses fairness. A theorem that one module refines
another is about initial states and steps; the live half of that refinement stays with TLC.

* `RedisWorkerProofs!TypeCorrect`, `Provenance`. `CacheProvenance` is not inductive: a call
  starts by overwriting its key while it keeps its pair. The strengthening, `EmptyHanded`,
  says that a thread that is idle or inside `check` holds no pair.
* `RedisWorkerProofs!NoneImmortal`: `NoImmortalRecord` is inductive once the types are known.
  A step either leaves every record as it was or without need of an `EXPIRE`, and relieves no
  thread of the one it owes (`KeptIsEnough`), or is an `HMSET` whose thread owes the `EXPIRE`
  (`HmsetOwes`), or that `EXPIRE` (`ExpirePays`).
* `ThreadPoolProofs!TypeCorrect`, `FreeWorker`, `CacheUse`, `PoolProvenance`, all from one
  inductive invariant, `Inv`:
  * `CallInv`: each call in progress has one home. Its task is alone in its caller's part of
    the queue, or exactly one worker runs it, for a caller who waits. So the map from blocked
    workers to callers is injective, and `FreeWorker` is the pigeonhole principle: if every
    worker were blocked there would be at least as many callers as workers.
  * `PageInv`: what a request has spawned and collected so far is exactly the first pages of
    its document, and it works on its document's key. That gives `CacheUse`: the pair a
    request pushes is the whole result of a document of that key, so each step of the pool is
    a step of `RedisWorker!Next` or leaves the cache alone. With `RedisWorkerProofs!Provenance`
    this gives `PoolProvenance`.

  The proof has one lemma per action (`SubmitStep`, `DequeueStep`, `SpawnStep`, ...); steps that
  only change one request's local state share `LocalStep`. The cache's type invariant is
  taken over from `RedisWorkerProofs` through `CacheNext`, not proved again.
* `ThreadPoolProofs!TasksRunOnce`: `EachTaskOnce` counts the places of a task, which no step can
  be followed through; `OnceInv` says the same without counting. A task in the queue is at one
  position of one producer (`QueuedOnce`), a task that runs is in no other hands (`RunOnce`), and
  the tasks so held are those whose promise is open (`HeldAreOpen`, `OpenAreHeld`). Steps add a
  task (`AddedOnce`), move it (`DequeueOnce`), settle it (`SettledOnce`) or do neither (`KeptOnce`).
* `ThreadPoolProofs!PoolRefinesService`: the initial states and steps of the pool are those of
  `OcrService`. An answer is either what the worker has put together, which `PageInv` makes the
  result of its document, or a hit, and for that the proof follows pairs through the cache:
  every full record, and every full pair in a worker's hands, is the result of a request with that
  key that some caller has asked for (`OfAsked`, `PairOfTask`). An exception reaches a caller
  only if tasks may throw (`PagesMayFail`).
* `ServerProofs!PoolOutlivesUsers` (`UsedWhileAlive`). The invariant ties each server's
  threads to the place main has come to (`MainLeads`, `GrpcEndsFirst`): a request that is in `push`
  keeps the connections from closing, so main is not yet where it joins the pool
  (`ClosedIsEmpty`); a connection taken and not handed over is in the accepting thread's hands
  (`OneInHand`), which main joins before the pool.
* `ServerProofs!RendersWhole` (`RenderedWhole`), for documents of any length. The text and the
  images so far are those of the pages so far (`TextSoFar`, `ImagesSoFar`, with `Read` and `Pictured` the
  pages that count), whole or empty according to where `jump` would go (`WorkerAt`); what is
  leaked is counted with the empty ones; a picture comes to its place because the pages before
  it that can be made are those pictured so far (`PictureInPlace`). `ReadsUploads` (`UploadsRead`): what is pushed is what was
  uploaded (`PushedWhole`), what is answered is what was pushed (`AnsweredAsPushed`); that `Cut` returns the
  language's code is a fact about remainders, for any label shorter than a `size_t` can tell
  (`LabelsAssumption`).
* `GrpcServerProofs!OrderKept`, `NoneUnanswered`: the answers of a stream are in the order of
  its requests, and a call that ends with status OK has answered all of them, provided the
  channel hands out what it holds when the reader closes it. The inductive invariant says what
  waits in the channel: the requests right behind the one the writer received last, so that
  until a request is dropped the number of those read is the number of those received plus
  those that wait (`Waiting`); all requests
  received are answered but the one in the writer's hands (`Answered`); and the reader ends
  with requests left to read only when the client has left or a push has thrown (`ReadAll`).
* `QueueProgressProofs!BooksBalance` (`PermitsSettled`), `CountsPermits`. A negative count
  stands for waiters and posts on their way; that the two balance is inductive once a call's
  own numbers are fixed (`CallInv`: whoever waits asks for at least one, only a timed wait is
  ever over). Posts still to be made and waiters still registered are counted as
  cardinalities of sets, so each step adds or removes one element (`Registers`, `Leaves`,
  `PostsBegin`, `PostMade`). From it, each step is a step of `Semaphore` or none: a permit is given
  when a wait's exchange or decrement succeeds, or when it is served (`GetsPermits`).
* `QueueProofs!OneWriter` (`SingleWriter`), `StaysWithProducer` (`SameProducer`). `Owner` is the producer a
  thread has or is about to get; `OwnInv` says that it is not free for others and no other
  thread's. That alone is not inductive, for what a search finds in the tables becomes the
  owner. `EntryInv` says what an entry is worth: its thread's searches reach it, it holds the
  thread's owner, and while the thread exits only tables still to be gone through hold one;
  `KnownInv` that who has a producer has an entry its search can see, so that it is not given
  a second one; `ProbeInv` that the slots an insertion has passed were not free and so never
  will be, so that the place it takes is where later searches arrive, although probing goes
  around the table (`OccupiedIsFound`, from two facts about remainders, `ModDistinct` and
  `ModShift`). To the others a step is known by what it keeps (`Kept`, `OthersFrame`).
* `QueueProofs!HandedOutOnce` (`BlocksHandedOutOnce`), for any number of threads and blocks. That
  a node is in one place is not inductive: it rests on what the count says. `Counted`: `refs` is
  the number of threads that hold a reference (`Holders`), and one more from the step that
  publishes the node until it is popped (`Referred`). So a thread that sees the count fall to
  0 with the bit set is alone with the node, and a node that somebody links has no reader
  (`Refer`). `Apart`: the places exclude each other, and no thread moves a node whose bit is
  set once it is published. `ThreadAt`: whoever is about to exchange the head still knows the
  successor of its node, for nobody relinks a node to which there are references; that is why
  the exchange is not hit by ABA. `Acyclic`: a node of the list is not reached from its
  successor. The nodes of the list are the least set that is closed under the pointers
  (`From`), so what a step does to them follows without an induction along the list
  (`FromStep`, `FromKept`).
* `QueueProofs!PermitsElements` (`ElementsPermitted`), `OverlooksNone` (`NothingOverlooked`),
  `TokensSpread` (`SpreadOut`), from one inductive invariant, `TaskInv`, for any number of
  consumers, sub-queues, elements and any offsets. Permits and elements are sums over
  functions, which no step can follow; so both sides of `PermitsCovered` are counted as sets
  of units (`Units`, `UnitsSet`), of which a step adds or removes one sub-queue's or one
  consumer's (`Changed`). `SeenInv` gives what a search says about the past: `Ahead` are the
  sub-queues it has still to come to, and one that has had elements all the while is among
  them, whichever of the three walks the search is in, so a search with nothing ahead may
  fail. The walk of a token goes around the list, so the steps along it are facts about
  remainders (`AroundOne`, `AroundIn`, `IntDivMod`). A consumer that found less than it wanted
  emptied the sub-queue or was beside another, and a sub-queue in which two meet is no longer
  among those seen all the while (`NotAllFound`, `Watched`); that is the part of `SeenInv`
  about `beside`. `NotEmpty` says that nobody searches before
  there is a sub-queue. `PlacedInv`: where a token stands follows from its offset, the rotations
  it has followed and the number of producers there were when it was placed; two tokens that
  agree in the last two stand apart if their offsets do, in remainders (`Spread`).
* `QueueProofs!CountersSettled`, `TokenCountersSettled` (`CountsSettled`), for any number of
  consumers of a sub-queue and any block at which the indices start, so with their wrap in
  it. `Width` must be more than twice what `ProducerAssumption` adds up: elements sent,
  misses, and a call of each consumer and one more. In the code `Width` is 2^64, so this
  says that a sub-queue sees fewer than 2^63 elements and misses (the code relies on it too:
  `circular_less_than`, line 477, is right for differences below half the range). `Since` is
  what a counter has counted since the start, which does not wrap (`SinceMoves`,
  `SinceApart`, `LessIs`). What the consumers hold is counted as sets of units again: claims
  that are sure (`SureOf`), places still looked at (`LookOf`) and places to give back
  (`BackOf`); `BalanceInv` says that with the misses and the claims they make up what is
  counted in. That no claim passes `tailIndex` rests on more. Places follow each other
  (`InOrder`). `LookInv`: whoever is about to load the tail either comes behind all that is
  reserved and all that those before it look at, or there is enough for it and them
  together; so a stale load only lets it claim less. `MissesInv` bounds the misses, which
  the assumption on `Width` counts: a consumer can add to them only while it asks
  (`RiskOf`), unless it is alone in a queue with elements (`Lone`), and then it gets what it
  asks for. There is one lemma per action (`DesireStep`, `CountInStep`, `ActualStep`,
  `GiveBackStep`, ...). The explicit producer's claims are the same steps (`ExplClaiming`),
  the rest of it leaves the counters alone or publishes.
* `QueueProgressProofs!ExitsLeaveNothing` (`ExitClean`), for any threads, queues and producers,
  with and without `DeleteAnytime`. What an exit calls depends on pointers inside producers that other
  threads unlink, take over and delete. `ChainInv`: from where a thread's chain begins, or from where
  its exit has come to, the pointers reach just the listeners that are chained to it (`Chained`);
  so the chain of a thread that has exited is empty. `Acyclic`: a listener is not reached from its
  own successor, so that unlinking one leaves the others (`ReachBypass`). What is reachable is
  again the least closed set, and a producer that is not in a chain may change its pointer without
  harm to it (`ReachKept`). `LinkedInv` and `HeldInv` say that a producer that works is chained to
  its thread, but between the two steps in which it is taken or given up (`PlaceInv`); `FreedInv`
  that a deleted one is in no chain and no walk has come to it, which rests on `MutexInv`: nobody
  unsubscribes while somebody walks.
* `TrainingProofs!TrainingStops` (`StopsAsAsked`), `ThreadsRefineRun`. The count is below `Total` plus
  a flush for each thread that is `Settled`, that is, must look at the count before it adds to
  it again (`CountInv`): a thread leaves this set only when it finds the count below `Total`. `LateInv`
  follows a thread that has taken a line after an exception to its next check; `PhaseInv` and
  `EndInv` tie the caller to its threads. From them each step is one of `TrainingRun` or none, also with
  a single thread, which runs in the caller.
* `TrainingProofs!KeepsBest` (`BestKept`). Whoever is about to abort a training has stopped the
  search first (`StoppedFirst`); a timer that has seen the time pass does so before it is done
  (`TimeNoticed`), and the tuner joins it because it saw one or the other (`JoinedFor`); a handler
  runs on a thread that is there (`Hosted`). So after the join the search is stopped and nobody
  is left who would raise (`SearchStopped`).
* `TrainingProofs!ReadsLines` (`LinesRead`), for texts of any length, any place to start, any number of
  calls and any length of n-grams. What `readWord` does by searching, the property says of the text
  without reading it (`TokensFrom`: maximal runs of letters, and newlines). `WordIs` gives its
  three outcomes, `ReadNewLine`, `ReadRun` and `ReadNothing` that each adds to the tokens that
  end before the position (`Read`) the one token it returns and no other. That needs the position not
  to be inside a word (`Between`), which is what putting the newline back and consuming
  the blank keep. `PassSoFar` says that what was passed is what ends before the position,
  in order, and that the counts of the calls add up to its number; `CallSoFar` the same of the running
  call from where it began; `LineSoFar` that a call that goes on has met no newline, so that it stops at
  the first (`LineEnds`), and that a token that begins in a line ends in it (`LineCount`).
* `ModelProofs!FileRoundTrip` (`FileHolds`): `Holds(file, saved)` says field by field
  what a whole file holds of the object that was saved, with the version's exceptions; `ObjectInv`
  that flags and matrices of an object in use agree, which is what makes `save` and `load` write
  and read the same matrices. Under `LoadsAgain = FALSE`: no object is loaded over another, which
  no caller in the repository does (section 4 says what happens else).
* `ModelProofs!ChoosesAsAsked` (`ChosenAsAsked`), for any limits of the arguments, any number of
  trials, any matrices, centroids, sizes and half range of an int. That arguments are as set, and
  that there are buckets for n-grams, must hold of the best trial too, from which the next is made
  (`Good`). Of the size, the proof is the estimate's arithmetic: the cutoff is the quotient of what is
  left for the rows, or the limit (`CutoffFits`); neither the division towards zero nor the int
  changes it (`OverInt`, `IntKept`) unless what is left is beyond an int, which the property
  excepts; and a kept word costs no more than a row is reckoned at (`EntriesFit`, `FileFits`).
* `ModelProofs!KeepsHighest` (`HoldsBest`), for any number of items, scores, `k`, threshold and banned
  words. `BestOf` is inductive as it stands, for any choice among equal scores: a pair that is left out
  is below a full heap (`LeavingOutKeepsBest`), and one that is popped is no better than any that stays
  (`PushingKeepsBest`). The two lemmas serve `findKBest` and `getNN` alike.
* `ModelProofs!NgramsAreCharacters` (`SubwordsRight`), for words of any bytes and length. `WordInv` says
  which n-grams a place in the two loops has passed (`Passed`) and that `count` is the number of first
  bytes since the n-gram's start. A step of the inner loop passes one first byte more (`CharEndIs`,
  `BetweenGrows`), so at most one n-gram more, and the test of its length and marks takes
  exactly those that are; the loop that ends has passed all that begin where it began.

**Only model-checked**: `CallsReturn`, `CallsEnd`, `ServerEnds`, `SearchEnds` and the live halves of
`ImplementsService`, `ImplementsSemaphore` and `PromiseKept`, for liveness is out of the prover's
reach; what a recursive function or a fold computes on every input (`Meter`,
`HierarchicalSoftmax`, `Dictionary`'s sorting), for the induction theorems that would be needed
take an operator (that a set of numbers has a least one, `QueueProofs!Least` and
`TrainingProofs!LeastNat`, is as far as the proofs go); the free slot of each table of the hash, which TLC finds within its
bounds (one count serves all tables, and a thread that takes a reusable slot of an older table is
taken out of it although it copies its entry to the newer ones: why the quarter that is left
free is enough depends on the sizes of all tables); and everything about the modules
without a module of proofs: the blocks of sub-queues (`FindsItsElements`, `BlocksAccounted`), the rest of fastText.

## 6. What is not modelled

* poppler, Tesseract, leptonica, libpng, oatpp, gRPC, asio and the Redis client: external.
* The client-streaming call of `server_grpc.cpp`: the body of its registration is commented out
  and nothing starts its coroutine. The other calls of `cascade.proto` have no handler.
* The pool threads' insertions into the shared `unordered_map` (`main_worker.cpp` 13, 89):
  a data race inside a container has no set of outcomes to choose from, and nothing in the
  repository promises anything against it. The pool's modules begin when each worker has its
  entry.
* Of the queue: move and swap, sizes and statistics, the builds for other thread-local
  storage and for other systems' semaphores, weak memory.
* Of fastText: arithmetic of vectors, matrices and quantizers; the softmax, one-vs-all and
  negative-sampling losses and all gradients; parsing of arguments, the commands of `main.cc`,
  dumps, bindings.
* Texts as strings, images, layouts, logging, timing of the work itself.

Limits of what is modelled: the file of pretrained vectors leaves a free cell of the table
(`Dictionary!Pretrained`: the code does not check it, and more than seven million new words
would be needed), and where it is used the vocabulary's count is no longer that of the text, so
what `LinesRead` says of a pass is said of training without it; a literal `</s>` in a text, which
`readWord` returns as it returns a newline (`dictionary.cc` 208-232), is not among the tokens of
`LineReading`; `Quantize` is called with at least one label, as in supervised models;
tables of eight and more slots are out of `ProducerHash`'s bounds; `ModelFile` loads one
file into an object and cuts a file between its fields.

## 7. Plan

Done: `RedisWorker`; `ThreadPool` with `OcrService`; `GrpcServer`; `ServerLifecycle`,
`Rendering`, `Languages`, `HttpRequest`; the queue from its counters to its exit listeners;
fastText from its dictionary to its file.

Proved: the cache, the pool and its service, the stream, the life of the process, the
renderer, the uploads, the semaphore, the hash of producers, the free list, the searches of the
queue, its permits and tokens, the counters of its sub-queues, the end of threads and queues, the
reading of texts, training and its search, the model's file.

Left are proofs, in this order:

1. `ImplicitProducer` and `ExplicitProducer`: `FindsItsElements`, with the blocks between the
   claims (`CountersSettled`) and the tail as the elements that are there.
2. `ProducerHash`: a free slot in every table.

--------------------------- MODULE ServerLifecycle ---------------------------
(***************************************************************************)
(* The process from main to its end (server/main.cpp): the pool with its   *)
(* threads is made first, then the HTTP server with a thread that accepts  *)
(* and one that runs the handlers, then the gRPC server, whose constructor *)
(* returns when a signal has shut it down.  They are destroyed in the      *)
(* reverse order: the gRPC server joins its shutdown thread, the HTTP      *)
(* server stops (http/App.cpp), the pool joins its threads.                *)
(*                                                                         *)
(* A stream is open or not (GrpcServer has its inside), and a push is      *)
(* answered by some pool thread (ThreadPool has how).                      *)
(***************************************************************************)
EXTENDS Integers, FiniteSets

CONSTANTS
    Workers,      \* the threads of the pool
    Requests,     \* bound: the HTTP requests that ever come
    Nobody

ASSUME LifecycleAssumption ==
    IsFiniteSet(Workers) /\ IsFiniteSet(Requests) /\ Nobody \notin Requests

VARIABLES
    main,         \* where main is
    pool,         \* "none", "up", "joining": its destructor has been called
    workers,      \* pool threads that run
    request,      \* of an HTTP request: "none", "accepted", "queued", "pushed", "answered", "dropped"
    handler,      \* the request the data-processing thread blocks in
    connections,  \* "none", "open", "closed": connectionHandler
    http,         \* the status of the oatpp server
    accepting,    \* its thread: "none", "starting", "running", "handing", "done"
    context,      \* "none", "alive", "destroyed": grpc_context with its completion queue
    stream,       \* "none", "requested", "open", "over"
    shutdown      \* "none", "started", "draining", "returned": the shutdown thread

httpVars == <<request, handler, connections, http, accepting>>
grpcVars == <<context, stream, shutdown>>
vars == <<main, pool, workers, httpVars, grpcVars>>

Init ==
    /\ main = "pool" /\ pool = "none" /\ workers = {}
    /\ request = [r \in Requests |-> "none"] /\ handler = Nobody
    /\ connections = "none" /\ http = "none" /\ accepting = "none"
    /\ context = "none" /\ stream = "none" /\ shutdown = "none"

-----------------------------------------------------------------------------
(* Start.                                                                   *)

(* ThreadPool's constructor starts the threads one by one.                  *)
StartWorker(w) ==
    /\ main = "pool" /\ w \notin workers
    /\ workers' = workers \cup {w}
    /\ UNCHANGED <<main, pool, httpVars, grpcVars>>

StartHttp ==
    /\ main = "pool" /\ workers = Workers
    /\ pool' = "up" /\ main' = "grpc"
    /\ connections' = "open" /\ http' = "created" /\ accepting' = "starting"
    /\ UNCHANGED <<workers, request, handler, grpcVars>>

(* The constructor of GrpcServer, as far as the call of run().              *)
StartGrpc ==
    /\ main = "grpc"
    /\ main' = "running" /\ context' = "alive" /\ stream' = "requested"
    /\ UNCHANGED <<pool, workers, httpVars, shutdown>>

(* BuildAndStart gives no server: abort.                                    *)
Abort ==
    /\ main = "grpc"
    /\ main' = "aborted"
    /\ UNCHANGED <<pool, workers, httpVars, grpcVars>>

Alive == main # "aborted"

-----------------------------------------------------------------------------
(* HTTP.                                                                    *)

(* oatpp: run() of a server that is not created any more throws.            *)
RunHttp ==
    /\ Alive /\ accepting = "starting" /\ http = "created"
    /\ http' = "running" /\ accepting' = "running"
    /\ UNCHANGED <<main, pool, workers, request, handler, connections, grpcVars>>

(* A connection is taken while the server runs, and then handed over to the *)
(* handler, which may be closed by then.                                    *)
Accept(r) ==
    /\ Alive /\ accepting = "running" /\ http = "running" /\ request[r] = "none"
    /\ request' = [request EXCEPT ![r] = "accepted"] /\ accepting' = "handing"
    /\ UNCHANGED <<main, pool, workers, handler, connections, http, grpcVars>>

HandOver(r) ==
    /\ Alive /\ request[r] = "accepted"
    /\ request' = [request EXCEPT ![r] = IF connections = "open" THEN "queued" ELSE "dropped"]
    /\ accepting' = "running"
    /\ UNCHANGED <<main, pool, workers, handler, connections, http, grpcVars>>

LeaveHttp ==
    /\ Alive /\ accepting = "running" /\ http = "stopping"
    /\ accepting' = "done" /\ http' = "done"
    /\ UNCHANGED <<main, pool, workers, request, handler, connections, grpcVars>>

(* The one data-processing thread blocks in push until a worker answers.    *)
HandleHttp(r) ==
    /\ Alive /\ handler = Nobody /\ request[r] = "queued"
    /\ handler' = r
    /\ request' = [request EXCEPT ![r] = "pushed"]
    /\ UNCHANGED <<main, pool, workers, connections, http, accepting, grpcVars>>

AnswerHttp ==
    /\ Alive /\ handler # Nobody /\ workers # {}
    /\ request' = [request EXCEPT ![handler] = "answered"]
    /\ handler' = Nobody
    /\ UNCHANGED <<main, pool, workers, connections, http, accepting, grpcVars>>

-----------------------------------------------------------------------------
(* gRPC.                                                                    *)

Connect ==
    /\ Alive /\ stream = "requested" /\ shutdown \in {"none", "started"}
    /\ stream' = "open"
    /\ UNCHANGED <<main, pool, workers, httpVars, context, shutdown>>

(* The stream ends, or the request for one is refused.                      *)
EndStream ==
    /\ Alive
    /\ stream = "open" \/ (stream = "requested" /\ shutdown = "draining")
    /\ stream' = "over"
    /\ UNCHANGED <<main, pool, workers, httpVars, context, shutdown>>

Signal ==
    /\ main = "running" /\ shutdown = "none"
    /\ shutdown' = "started"
    /\ UNCHANGED <<main, pool, workers, httpVars, context, stream>>

BeginShutdown ==
    /\ Alive /\ shutdown = "started"
    /\ shutdown' = "draining"
    /\ UNCHANGED <<main, pool, workers, httpVars, context, stream>>

EndShutdown ==
    /\ Alive /\ shutdown = "draining" /\ stream = "over"
    /\ shutdown' = "returned"
    /\ UNCHANGED <<main, pool, workers, httpVars, context, stream>>

(* run() returns: "Shutdown completed", and the constructor destroys its    *)
(* locals, the context among them.                                          *)
RunReturns ==
    /\ main = "running" /\ stream = "over" /\ shutdown # "none"
    /\ main' = "endGrpc" /\ context' = "destroyed"
    /\ UNCHANGED <<pool, workers, httpVars, stream, shutdown>>

-----------------------------------------------------------------------------
(* The end of main.                                                         *)

(* ~GrpcServer: stop() does nothing more, ~ServerShutdown joins.            *)
EndGrpc ==
    /\ main = "endGrpc" /\ shutdown = "returned"
    /\ main' = "stopServer"
    /\ UNCHANGED <<pool, workers, httpVars, grpcVars>>

(* Slip: only the connections are stopped.                                  *)
StopNothing ==
    /\ main = "stopServer"
    /\ main' = "closeConnections"
    /\ UNCHANGED <<pool, workers, httpVars, grpcVars>>

(* HttpServer::stop asks for the status and stops a running server.         *)
StopServer ==
    /\ main = "stopServer"
    /\ http' = IF http = "running" THEN "stopping" ELSE http
    /\ main' = "closeConnections"
    /\ UNCHANGED <<pool, workers, request, handler, connections, accepting, grpcVars>>

(* Slip: closed without waiting.                                            *)
CloseAtOnce ==
    /\ main = "closeConnections"
    /\ connections' = "closed"
    /\ main' = "joinServer"
    /\ UNCHANGED <<pool, workers, request, handler, http, accepting, grpcVars>>

(* ... closes the connections and waits for those that run ...              *)
CloseConnections ==
    /\ main = "closeConnections"
    /\ \A r \in Requests : request[r] \notin {"queued", "pushed"}
    /\ connections' = "closed"
    /\ main' = "joinServer"
    /\ UNCHANGED <<pool, workers, request, handler, http, accepting, grpcVars>>

(* ... and joins the thread.                                                *)
JoinServer ==
    /\ main = "joinServer" /\ accepting = "done"
    /\ main' = "endPool"
    /\ UNCHANGED <<pool, workers, httpVars, grpcVars>>

(* ~MainWorker: ~ThreadPool joins threads whose loop has no end.            *)
EndPool ==
    /\ main = "endPool" /\ pool = "up"
    /\ pool' = "joining"
    /\ UNCHANGED <<main, workers, httpVars, grpcVars>>

Starting == (\E w \in Workers : StartWorker(w)) \/ StartHttp \/ StartGrpc
Serving == \E r \in Requests : HandleHttp(r)
Handing == \E r \in Requests : HandOver(r)
Ending == RunReturns \/ EndGrpc \/ StopServer \/ CloseConnections \/ JoinServer \/ EndPool
ShutdownThread == BeginShutdown \/ EndShutdown
Environment == Abort \/ (\E r \in Requests : Accept(r)) \/ Connect \/ Signal

Next ==
    \/ Starting \/ Ending \/ ShutdownThread \/ RunHttp \/ Handing \/ LeaveHttp \/ Serving \/ AnswerHttp
    \/ EndStream \/ Environment

(* Every thread runs, and streams end; nobody has to send a signal.         *)
Spec == Init /\ [][Next]_vars
             /\ WF_vars(Starting) /\ WF_vars(Ending) /\ WF_vars(ShutdownThread) /\ WF_vars(EndStream)
             /\ WF_vars(RunHttp) /\ WF_vars(Handing) /\ WF_vars(LeaveHttp) /\ WF_vars(AnswerHttp)
             /\ WF_vars(Serving)

-----------------------------------------------------------------------------
TypeOK ==
    /\ main \in {"pool", "grpc", "running", "aborted", "endGrpc", "stopServer",
                 "closeConnections", "joinServer", "endPool"}
    /\ pool \in {"none", "up", "joining"} /\ workers \subseteq Workers
    /\ request \in [Requests -> {"none", "accepted", "queued", "pushed", "answered", "dropped"}]
    /\ handler \in Requests \cup {Nobody}
    /\ \A r \in Requests : request[r] = "pushed" <=> handler = r
    /\ connections \in {"none", "open", "closed"}
    /\ http \in {"none", "created", "running", "stopping", "done"}
    /\ accepting \in {"none", "starting", "running", "handing", "done"}
    /\ accepting \in {"running", "handing"} <=> http \in {"running", "stopping"}
    /\ context \in {"none", "alive", "destroyed"}
    /\ stream \in {"none", "requested", "open", "over"}
    /\ shutdown \in {"none", "started", "draining", "returned"}

(* Who blocks in push finds the pool complete: it is made before anything   *)
(* can push, and its destructor is not called before the last answer        *)
(* (main.cpp:16-23, main_worker.cpp:28-33).                                 *)
PoolOutlives == handler # Nobody => pool = "up" /\ workers = Workers

(* HttpServer::stop leaves nothing behind that could still push: not a      *)
(* request in a handler, nor one accepted while it closed                   *)
(* (App.cpp:65-80).                                                         *)
NothingAfterStop ==
    main = "endPool" =>
        \A r \in Requests : request[r] \notin {"accepted", "queued", "pushed"}

(* The gRPC context lives as long as a stream that waits in its queue, and  *)
(* main has joined the shutdown thread before it stops the HTTP server      *)
(* (server_grpc.cpp:12-18, 162, 178-188).                                   *)
ContextOutlives ==
    /\ stream \in {"requested", "open"} => context = "alive"
    /\ main \in {"stopServer", "closeConnections", "joinServer", "endPool"} => shutdown = "returned"

(* The pool is there for whoever pushes, to the end, HttpServer::stop       *)
(* leaves nothing that could still push, and the gRPC server ends first     *)
(* (main.cpp:16-23, main_worker.cpp:28-33, App.cpp:65-80).                  *)
UsedWhileAlive == TypeOK /\ PoolOutlives /\ NothingAfterStop /\ ContextOutlives

(* One handler at a time blocks in push, and yet every request accepted is  *)
(* answered or its connection closed (MyController.hpp:90, App.cpp:36-40).  *)
Queued(r) == request[r] \in {"accepted", "queued"}
Done(r) == request[r] \in {"answered", "dropped"} \/ main = "aborted"
HttpServed == \A r \in Requests : Queued(r) ~> Done(r)

(* After the signal the HTTP server is stopped, and main comes to the       *)
(* destructor of the pool, provided the accepting thread has begun to run   *)
(* (App.cpp:65-78: "check if the server-thread has already stopped or if we *)
(* need to wait for the server to stop").  One that has not yet is not      *)
(* stopped, runs later and is waited for.                                   *)
Stopping == main = "stopServer" /\ accepting # "starting"
PoolEnds == pool = "joining"
StopReturns == Stopping ~> PoolEnds
=============================================================================

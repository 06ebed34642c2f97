----------------------------- MODULE GrpcServer -----------------------------
(***************************************************************************)
(* The gRPC side of TextTrek, server/server_grpc.cpp: the coroutines that  *)
(* read requests from the one bidirectional stream and write the answers,  *)
(* the channel between them, and the shutdown that a signal starts.        *)
(*                                                                         *)
(* Coroutines run on the thread of grpc_context.run() from one co_await to *)
(* the next; only the call of MainWorker::push runs on the thread pool of  *)
(* its own, and server.Shutdown() on the shutdown thread.  The channel has *)
(* no buffer: a send completes when a receive takes it, and as sends are   *)
(* detached any number of them may wait.  Requests are numbered in the     *)
(* order the client writes them.                                           *)
(***************************************************************************)
EXTENDS Naturals, Sequences

CONSTANT MaxSends  \* bound: requests the client writes

ASSUME GrpcAssumption == MaxSends \in Nat

VARIABLES
    client,    \* what the client does with its side of the stream
    sent,      \* how many requests it has written
    reader,    \* the reader coroutine
    read,      \* how many requests it has read
    sends,     \* the requests of async_send that no async_receive has taken
    closed,    \* "no"; or what the reader's close has done to waiting sends: "keeps", "drops"
    writer,    \* the writer coroutine
    current,   \* the request the writer has received last
    answers,   \* the requests whose answers have been written, in that order
    rpc,       \* handle_bidirectional_streaming_request
    status,    \* how the call ended for the client
    shutdown,  \* the shutdown thread
    running    \* has grpc_context.run() not returned yet?

stream == <<client, sent, status>>
pipe == <<read, sends, closed, current, answers>>
vars == <<stream, reader, writer, pipe, rpc, shutdown, running>>

Init ==
    /\ client = "absent" /\ sent = 0 /\ status = "none"
    /\ reader = "off" /\ writer = "off" /\ rpc = "requested"
    /\ read = 0 /\ sends = <<>> /\ closed = "no" /\ current = 0 /\ answers = <<>>
    /\ shutdown = "none" /\ running = TRUE

-----------------------------------------------------------------------------
(* The client.                                                              *)

(* agrpc::request completes: both coroutines start and wait.  No other      *)
(* call is requested, then or later.                                        *)
Connect ==
    /\ rpc = "requested"
    /\ shutdown \in {"none", "started"}
    /\ client' = "writing" /\ rpc' = "open"
    /\ reader' = "reading" /\ writer' = "receiving"
    /\ UNCHANGED <<sent, status, pipe, shutdown, running>>

Send ==
    /\ client = "writing" /\ rpc = "open"
    /\ sent < MaxSends
    /\ sent' = sent + 1
    /\ UNCHANGED <<client, status, reader, writer, pipe, rpc, shutdown, running>>

WritesDone ==
    /\ client = "writing"
    /\ client' = "done"
    /\ UNCHANGED <<sent, status, reader, writer, pipe, rpc, shutdown, running>>

Disconnect ==
    /\ client \in {"writing", "done"}
    /\ client' = "gone"
    /\ UNCHANGED <<sent, status, reader, writer, pipe, rpc, shutdown, running>>

-----------------------------------------------------------------------------
(* The reader.                                                              *)

(* Slip: a request that the writer does not wait for is dropped (try_send). *)
SendOrDrop ==
    /\ reader = "reading"
    /\ read < sent
    /\ read' = read + 1
    /\ IF writer = "receiving"
       THEN writer' = "computing" /\ current' = read + 1
       ELSE UNCHANGED <<writer, current>>
    /\ UNCHANGED <<stream, reader, sends, closed, answers, rpc, shutdown, running>>

(* A request is read and sent; a waiting receive takes it at once.          *)
Read ==
    /\ reader = "reading"
    /\ read < sent
    /\ read' = read + 1
    /\ IF writer = "receiving"
       THEN writer' = "computing" /\ current' = read + 1 /\ UNCHANGED sends
       ELSE sends' = Append(sends, read + 1) /\ UNCHANGED <<writer, current>>
    /\ UNCHANGED <<stream, reader, closed, answers, rpc, shutdown, running>>

NoMoreRequests == client = "gone" \/ (client = "done" /\ read = sent)

(* Slip: the channel is not closed.                                         *)
ReadEndWithoutClose ==
    /\ reader = "reading"
    /\ NoMoreRequests
    /\ reader' = "done"
    /\ UNCHANGED <<stream, writer, pipe, rpc, shutdown, running>>

(* agrpc::read returns false: the channel is closed, which also ends a      *)
(* receive that waits for a request.  Whether sends that wait can still be  *)
(* received depends on the version of asio.                                 *)
ReadEnd ==
    /\ reader = "reading"
    /\ NoMoreRequests
    /\ reader' = "done"
    /\ closed' \in {"keeps", "drops"}
    /\ sends' = IF closed' = "keeps" THEN sends ELSE <<>>
    /\ writer' = IF writer = "receiving" THEN "done" ELSE writer
    /\ UNCHANGED <<stream, read, current, answers, rpc, shutdown, running>>

(* The exception of the writer has cancelled the reader, which notices when *)
(* its read completes.                                                      *)
ReadCancelled ==
    /\ reader = "reading"
    /\ writer = "threw"
    /\ read < sent \/ NoMoreRequests
    /\ reader' = "done"
    /\ UNCHANGED <<stream, writer, pipe, rpc, shutdown, running>>

-----------------------------------------------------------------------------
(* The writer.                                                              *)

(* MainWorker::push returns on the thread pool, and the write begins.       *)
PushReturns ==
    /\ writer = "computing"
    /\ writer' = "writing"
    /\ UNCHANGED <<stream, reader, pipe, rpc, shutdown, running>>

PushThrows ==
    /\ writer = "computing"
    /\ writer' = "threw"
    /\ UNCHANGED <<stream, reader, pipe, rpc, shutdown, running>>

(* Slip: the request received last is answered first.                       *)
WriteTakeNewest ==
    /\ writer = "writing"
    /\ answers' = Append(answers, current)
    /\ IF sends # <<>>
       THEN /\ writer' = "computing"
            /\ current' = sends[Len(sends)]
            /\ sends' = SubSeq(sends, 1, Len(sends) - 1)
       ELSE /\ writer' = IF closed # "no" THEN "done" ELSE "receiving"
            /\ UNCHANGED <<current, sends>>
    /\ UNCHANGED <<stream, reader, read, closed, rpc, shutdown, running>>

(* Slip: the writer leaves when the channel is closed, whatever waits in it.*)
WriteStopIfClosed ==
    /\ writer = "writing"
    /\ answers' = Append(answers, current)
    /\ IF sends # <<>> /\ closed = "no"
       THEN writer' = "computing" /\ current' = Head(sends) /\ sends' = Tail(sends)
       ELSE /\ writer' = IF closed # "no" THEN "done" ELSE "receiving"
            /\ UNCHANGED <<current, sends>>
    /\ UNCHANGED <<stream, reader, read, closed, rpc, shutdown, running>>

(* agrpc::write returns true, and the loop comes to the next receive: of a  *)
(* request that waits, of the channel's end, or of nothing yet.             *)
Write ==
    /\ writer = "writing"
    /\ answers' = Append(answers, current)
    /\ IF sends # <<>>
       THEN writer' = "computing" /\ current' = Head(sends) /\ sends' = Tail(sends)
       ELSE /\ writer' = IF closed # "no" THEN "done" ELSE "receiving"
            /\ UNCHANGED <<current, sends>>
    /\ UNCHANGED <<stream, reader, read, closed, rpc, shutdown, running>>

WriteFails ==
    /\ writer = "writing"
    /\ client = "gone"
    /\ writer' = "failed"
    /\ UNCHANGED <<stream, reader, pipe, rpc, shutdown, running>>

(* Both coroutines have ended: the call is finished, or just dropped if a   *)
(* write failed or push threw.                                              *)
EndStream ==
    /\ rpc = "open"
    /\ reader = "done"
    /\ writer \in {"done", "failed", "threw"}
    /\ rpc' = "over"
    /\ status' = IF writer = "done" /\ client # "gone" THEN "OK" ELSE "broken"
    /\ UNCHANGED <<client, sent, reader, writer, pipe, shutdown, running>>

-----------------------------------------------------------------------------
(* Shutdown.                                                                *)

(* SIGINT or SIGTERM: the handler starts the shutdown thread.               *)
Signal ==
    /\ shutdown = "none"
    /\ shutdown' = "started"
    /\ UNCHANGED <<stream, reader, writer, pipe, rpc, running>>

(* server.Shutdown() takes no new calls and waits for those in progress.    *)
BeginShutdown ==
    /\ shutdown = "started"
    /\ shutdown' = "draining"
    /\ UNCHANGED <<stream, reader, writer, pipe, rpc, running>>

(* Slip: the call is requested again when the request has failed.           *)
RequestAgain ==
    /\ rpc = "requested"
    /\ shutdown \in {"draining", "returned"}
    /\ UNCHANGED vars

(* agrpc::request returns false.                                            *)
RefuseRequest ==
    /\ rpc = "requested"
    /\ shutdown \in {"draining", "returned"}
    /\ rpc' = "over"
    /\ UNCHANGED <<stream, reader, writer, pipe, shutdown, running>>

EndShutdown ==
    /\ shutdown = "draining"
    /\ rpc # "open"
    /\ shutdown' = "returned"
    /\ UNCHANGED <<stream, reader, writer, pipe, rpc, running>>

(* grpc_context.run() returns when no coroutine and no signal is waited for.*)
RunReturns ==
    /\ running
    /\ rpc = "over"
    /\ shutdown # "none"
    /\ running' = FALSE
    /\ UNCHANGED <<stream, reader, writer, pipe, rpc, shutdown>>

-----------------------------------------------------------------------------
Client == Connect \/ Send \/ WritesDone \/ Disconnect
Reader == Read \/ ReadEnd \/ ReadCancelled
Writer == PushReturns \/ PushThrows \/ Write \/ WriteFails
Ending == EndStream \/ RefuseRequest \/ RunReturns
ShutdownThread == BeginShutdown \/ EndShutdown

Next == Client \/ Reader \/ Writer \/ Ending \/ Signal \/ ShutdownThread

Spec == Init /\ [][Next]_vars

(* The context's thread and the shutdown thread run, and MainWorker::push   *)
(* returns (ThreadPool).  Nothing is assumed of clients and signals.        *)
FairSpec ==
    /\ Spec
    /\ WF_vars(Reader) /\ WF_vars(Writer)
    /\ WF_vars(Ending) /\ WF_vars(ShutdownThread)

-----------------------------------------------------------------------------
(* Every variable stays in its range, and a receive waits only while there  *)
(* is nothing to receive: a request that has been read is not forgotten in  *)
(* the channel.                                                             *)
TypeOK ==
    /\ client \in {"absent", "writing", "done", "gone"}
    /\ sent \in 0..MaxSends /\ read \in 0..sent
    /\ sends \in Seq(1..read) /\ answers \in Seq(1..read)
    /\ current \in 0..read /\ closed \in {"no", "keeps", "drops"}
    /\ reader \in {"off", "reading", "done"}
    /\ writer \in {"off", "receiving", "computing", "writing", "done", "failed", "threw"}
    /\ rpc \in {"requested", "open", "over"}
    /\ status \in {"none", "OK", "broken"}
    /\ shutdown \in {"none", "started", "draining", "returned"}
    /\ running \in BOOLEAN
    /\ writer = "receiving" => sends = <<>> /\ closed = "no"

(* The client gets the answers to its first requests, each once, in the     *)
(* order it asked, although requests arrive while others are computed, and  *)
(* a fiber waits on the channel only while nothing is in it                 *)
(* (server_grpc.cpp:104-145).                                               *)
AnswersInOrder == TypeOK /\ \A i \in 1..Len(answers) : answers[i] = i

(* A call that ends with status OK has answered every request, also those   *)
(* that waited in the channel when the reader closed it, provided the       *)
(* channel hands them out (server_grpc.cpp:92-100, 116-119, 128-133).       *)
FinishedMeansAnswered ==
    closed = "keeps" /\ status = "OK" => Len(answers) = sent

(* As long as push does not throw and the client stays, each of its         *)
(* requests is answered, whether it goes on writing or not, unless the      *)
(* close drops it (server_grpc.cpp:107-117, 125-143).                       *)
RequestsAnswered ==
    \A i \in 1..MaxSends :
        sent = i ~> Len(answers) >= i \/ client = "gone" \/ writer = "threw" \/ closed = "drops"

(* A client that stops writing or goes away ends the call, whatever reader  *)
(* and writer are doing, also after push has thrown                         *)
(* (server_grpc.cpp:92, 110-113, 119, 129-133, 141).                        *)
StreamEnds == client \in {"done", "gone"} ~> rpc = "over"

(* After a signal only a client that keeps its stream open can keep run()   *)
(* from returning (server_grpc.cpp:24-26, 84-88, 178).                      *)
OnlyClientHoldsShutdown ==
    shutdown # "none" /\ client # "writing" ~> ~running \/ client = "writing"

(* The comment of ServerShutdown::shutdown: the coroutines run to           *)
(* completion and run() returns (server_grpc.cpp:23-26).                    *)
ShutdownCompletes == shutdown # "none" ~> ~running
=============================================================================

-------------------------- MODULE GrpcServerProofs --------------------------
(***************************************************************************)
(* Theorems about the stream of GrpcServer, for any number of requests:    *)
(* whatever the client, the pool, the channel and a signal do, answers     *)
(* come in the order of the requests, and a call that ends well has        *)
(* answered all that its channel kept.                                     *)
(***************************************************************************)
EXTENDS GrpcServer, SequenceTheorems, TLAPS

(* Before the call is requested nothing has happened to the stream.         *)
Untouched ==
    rpc = "requested" =>
        /\ client = "absent" /\ reader = "off" /\ writer = "off"
        /\ sends = <<>> /\ closed = "no" /\ current = 0 /\ answers = <<>>

(* What waits in the channel are the requests behind the one the writer has *)
(* received last, up to the one the reader has read last.                   *)
Waiting ==
    /\ \A i \in 1..Len(sends) : sends[i] = current + i
    /\ closed # "drops" => current + Len(sends) = read
    /\ closed = "drops" => sends = <<>>

(* Everything received is answered, but for the one in the writer's hands.  *)
Answered ==
    /\ \A i \in 1..Len(answers) : answers[i] = i
    /\ Len(answers) = IF writer \in {"off", "receiving", "done"} THEN current ELSE current - 1
    /\ writer = "done" => sends = <<>>

(* The reader stops at the end of what the client writes, unless the client *)
(* is gone or push has thrown.                                              *)
ReadAll ==
    /\ closed # "no" => reader = "done"
    /\ writer = "done" => closed # "no"
    /\ reader = "done" /\ client # "gone" /\ writer # "threw" => client = "done" /\ read = sent
    /\ status = "OK" => reader = "done" /\ writer = "done" /\ client # "writing" /\ read = sent

Inv == TypeOK /\ Untouched /\ Waiting /\ Answered /\ ReadAll

-----------------------------------------------------------------------------
LEMMA InitInv == Init => Inv
  BY GrpcAssumption DEF Init, Inv, TypeOK, Untouched, Waiting, Answered, ReadAll

(* A request that is read goes to the end of what waits.                    *)
LEMMA ReadStep == Inv /\ Read => Inv'
<1> SUFFICES ASSUME Inv, Read
             PROVE  Inv'
  OBVIOUS
<1>1. /\ read' = read + 1 /\ read \in Nat /\ read < sent /\ closed = "no" /\ reader = "reading"
      /\ sent \in 0..MaxSends /\ MaxSends \in Nat
      /\ UNCHANGED <<client, sent, status, reader, closed, answers, rpc, shutdown, running>>
  BY GrpcAssumption DEF Inv, Read, stream, TypeOK, ReadAll
<1>2. sends \in Seq(1..read') /\ answers \in Seq(1..read')
  BY <1>1, SeqMonotonic, 1..read \subseteq 1..read' DEF Inv, TypeOK
<1>3. Untouched' /\ ReadAll'
  <2>1. rpc # "requested"
    BY <1>1 DEF Inv, Untouched
  <2>2. status # "OK"
    BY <1>1 DEF Inv, ReadAll
  <2>3. writer' \in {writer, "computing"}
    BY DEF Read
  <2>4. writer' # "done"
    BY <1>1, <2>3 DEF Inv, ReadAll
  <2> QED
    BY <1>1, <2>1, <2>2, <2>4 DEF Untouched, ReadAll
<1>4. CASE writer = "receiving"
  <2>1. /\ sends = <<>> /\ sends' = <<>> /\ current = read
        /\ writer' = "computing" /\ current' = read + 1
    BY <1>1, <1>4 DEF Inv, Read, TypeOK, Waiting
  <2>2. TypeOK'
    BY <1>1, <1>2, <2>1 DEF Inv, TypeOK
  <2>3. Waiting'
    BY <1>1, <2>1 DEF Waiting
  <2>4. Answered'
    BY <1>1, <1>4, <2>1 DEF Inv, Answered
  <2> QED
    BY <1>3, <2>2, <2>3, <2>4 DEF Inv
<1>5. CASE writer # "receiving"
  <2>1. sends' = Append(sends, read + 1) /\ UNCHANGED <<writer, current>>
    BY <1>5 DEF Read
  <2>2. /\ sends' \in Seq(1..read') /\ Len(sends') = Len(sends) + 1 /\ Len(sends) \in Nat
        /\ \A i \in 1..Len(sends) : sends'[i] = sends[i]
        /\ sends'[Len(sends) + 1] = read + 1
    BY <1>1, <1>2, <2>1, AppendProperties
  <2>3. TypeOK'
    BY <1>1, <1>2, <1>5, <2>1, <2>2 DEF Inv, TypeOK
  <2>4. current + Len(sends) = read /\ current \in Nat
    BY <1>1 DEF Inv, Waiting, TypeOK
  <2>5. Waiting'
    BY <1>1, <2>1, <2>2, <2>4 DEF Inv, Waiting
  <2>6. writer # "done"
    BY <1>1 DEF Inv, ReadAll
  <2>7. Answered'
    BY <1>1, <2>1, <2>6 DEF Inv, Answered
  <2> QED
    BY <1>3, <2>3, <2>5, <2>7 DEF Inv
<1> QED
  BY <1>4, <1>5

LEMMA ReadEndStep == Inv /\ ReadEnd => Inv'
<1> SUFFICES ASSUME Inv, ReadEnd
             PROVE  Inv'
  OBVIOUS
<1>1. closed = "no"
  BY DEF Inv, ReadEnd, ReadAll
<1>2. TypeOK'
  <2>1. sends' \in Seq(1..read)
    <3>1. sends' = sends \/ sends' = <<>>
      BY DEF ReadEnd
    <3> QED
      BY <3>1, EmptySeq DEF Inv, TypeOK
  <2>2. /\ closed' \in {"no", "keeps", "drops"} /\ reader' = "done"
        /\ writer' \in {writer, "done"} /\ writer' # "receiving"
    BY DEF Inv, ReadEnd, TypeOK
  <2> QED
    BY <2>1, <2>2 DEF Inv, ReadEnd, TypeOK, stream
<1>3. Untouched' /\ Waiting'
  BY <1>1 DEF Inv, ReadEnd, TypeOK, Untouched, Waiting, stream
<1>4. Answered'
  BY <1>1 DEF Inv, ReadEnd, TypeOK, Answered, stream
<1>5. ReadAll'
  BY <1>1 DEF Inv, ReadEnd, NoMoreRequests, TypeOK, ReadAll, stream
<1> QED
  BY <1>2, <1>3, <1>4, <1>5 DEF Inv

(* The answer written is the next in order, and so is the request received. *)
LEMMA WriteStep == Inv /\ Write => Inv'
<1> SUFFICES ASSUME Inv, Write
             PROVE  Inv'
  OBVIOUS
<1>1. /\ read \in Nat /\ current \in 1..read /\ Len(answers) = current - 1
      /\ answers \in Seq(1..read) /\ sends \in Seq(1..read)
  BY DEF Inv, Write, TypeOK, Answered
<1>2. /\ answers' = Append(answers, current) /\ answers' \in Seq(1..read)
      /\ Len(answers') = current
      /\ \A i \in 1..Len(answers') : answers'[i] = i
  BY <1>1 DEF Inv, Write, Answered
<1>3. CASE sends # <<>>
  <2>1. current' = Head(sends) /\ sends' = Tail(sends) /\ writer' = "computing"
    BY <1>3 DEF Write
  <2>2. /\ Len(sends) \in Nat \ {0} /\ current' = current + 1 /\ current' \in 1..read
        /\ sends' \in Seq(1..read) /\ Len(sends') = Len(sends) - 1
        /\ \A i \in 1..Len(sends') : sends'[i] = sends[i + 1]
    BY <1>1, <1>3, <2>1 DEF Inv, Waiting
  <2>3. TypeOK'
    BY <1>2, <2>1, <2>2 DEF Inv, Write, TypeOK, stream
  <2>4. Waiting'
    <3>1. closed' = closed /\ read' = read /\ closed # "drops"
      BY <1>3 DEF Inv, Write, Waiting
    <3>2. ASSUME NEW i \in 1..Len(sends')
          PROVE  sends'[i] = current' + i
      BY <1>1, <2>2, <3>2 DEF Inv, Waiting
    <3>3. current' + Len(sends') = read
      <4>1. current + Len(sends) = read
        BY <3>1 DEF Inv, Waiting
      <4>2. /\ current \in Int /\ Len(sends) \in Int
            /\ current' = current + 1 /\ Len(sends') = Len(sends) - 1
        BY <1>1, <2>2
      <4> QED
        BY <4>1, <4>2
    <3> QED
      BY <3>1, <3>2, <3>3 DEF Waiting
  <2>5. Answered'
    BY <1>1, <1>2, <2>1, <2>2 DEF Answered
  <2>6. Untouched' /\ ReadAll'
    BY <2>1 DEF Inv, Write, Untouched, ReadAll, stream
  <2> QED
    BY <2>3, <2>4, <2>5, <2>6 DEF Inv
<1>4. CASE sends = <<>>
  <2>1. /\ writer' = (IF closed # "no" THEN "done" ELSE "receiving")
        /\ UNCHANGED <<current, sends, stream, reader, read, closed, rpc, shutdown, running>>
    BY <1>4 DEF Write
  <2>2. TypeOK'
    BY <1>2, <1>4, <2>1 DEF Inv, TypeOK, stream
  <2>3. Waiting'
    BY <2>1 DEF Inv, Waiting
  <2>4. Answered'
    BY <1>2, <1>4, <2>1 DEF Answered
  <2>5. Untouched' /\ ReadAll'
    BY <2>1 DEF Inv, Write, Untouched, ReadAll, stream
  <2> QED
    BY <2>2, <2>3, <2>4, <2>5 DEF Inv
<1> QED
  BY <1>3, <1>4

(* The other steps move one participant and leave the channel alone.        *)
LEMMA ConnectStep == Inv /\ Connect => Inv'
  BY DEF Inv, Connect, TypeOK, Untouched, Waiting, Answered, ReadAll, pipe

LEMMA SendStep == Inv /\ Send => Inv'
<1> SUFFICES ASSUME Inv, Send
             PROVE  Inv'
  OBVIOUS
<1>1. TypeOK'
  BY GrpcAssumption DEF Inv, Send, TypeOK, pipe
<1>2. Untouched' /\ Waiting' /\ Answered'
  BY DEF Inv, Send, Untouched, Waiting, Answered, pipe
<1>3. ReadAll'
  BY DEF Inv, Send, ReadAll, pipe
<1> QED
  BY <1>1, <1>2, <1>3 DEF Inv

LEMMA LocalStep ==
    Inv /\ (WritesDone \/ Disconnect \/ ReadCancelled \/ PushReturns \/ PushThrows \/ WriteFails)
        => Inv'
<1> SUFFICES ASSUME Inv, WritesDone \/ Disconnect \/ ReadCancelled \/ PushReturns
                         \/ PushThrows \/ WriteFails
             PROVE  Inv'
  OBVIOUS
<1>1. UNCHANGED <<sent, status, pipe, rpc, shutdown, running>>
  BY DEF WritesDone, Disconnect, ReadCancelled, PushReturns, PushThrows, WriteFails, stream
<1>2. TypeOK'
  BY <1>1 DEF Inv, TypeOK, pipe, stream, WritesDone, Disconnect, ReadCancelled, PushReturns,
              PushThrows, WriteFails
<1>3. Untouched' /\ Waiting' /\ Answered'
  BY <1>1 DEF Inv, Untouched, Waiting, Answered, pipe, stream, WritesDone, Disconnect,
              ReadCancelled, PushReturns, PushThrows, WriteFails
<1>4. ReadAll'
  BY <1>1 DEF Inv, ReadAll, pipe, stream, WritesDone, Disconnect, ReadCancelled, PushReturns,
              PushThrows, WriteFails
<1> QED
  BY <1>2, <1>3, <1>4 DEF Inv

LEMMA EndingStep == Inv /\ (Ending \/ Signal \/ ShutdownThread) => Inv'
<1> SUFFICES ASSUME Inv, Ending \/ Signal \/ ShutdownThread
             PROVE  Inv'
  OBVIOUS
<1> USE DEF Ending, EndStream, RefuseRequest, RunReturns, Signal, ShutdownThread,
            BeginShutdown, EndShutdown
<1>1. UNCHANGED <<client, sent, reader, writer, pipe>>
  BY DEF stream
<1>2. TypeOK'
  <2>1. /\ rpc' \in {"requested", "open", "over"} /\ status' \in {"none", "OK", "broken"}
        /\ shutdown' \in {"none", "started", "draining", "returned"} /\ running' \in BOOLEAN
    BY DEF Inv, TypeOK, stream
  <2> QED
    BY <1>1, <2>1 DEF Inv, TypeOK, pipe
<1>3. Untouched' /\ Waiting' /\ Answered'
  BY <1>1 DEF Inv, Untouched, Waiting, Answered, pipe
<1>4. ReadAll'
  BY <1>1 DEF Inv, ReadAll, pipe, stream, TypeOK
<1> QED
  BY <1>2, <1>3, <1>4 DEF Inv

LEMMA Invariance == Spec => []Inv
<1>1. Inv /\ [Next]_vars => Inv'
  <2> SUFFICES ASSUME Inv, [Next]_vars
               PROVE  Inv'
    OBVIOUS
  <2>1. CASE UNCHANGED vars
    BY <2>1 DEF vars, stream, pipe, Inv, TypeOK, Untouched, Waiting, Answered, ReadAll
  <2> QED
    BY <2>1, ReadStep, ReadEndStep, WriteStep, ConnectStep, SendStep, LocalStep, EndingStep
       DEF Next, Client, Reader, Writer
<1> QED
  BY InitInv, <1>1, PTL DEF Spec

-----------------------------------------------------------------------------
(* The client gets the answers to its first requests, each once and in the  *)
(* order it asked, for any number of requests (server_grpc.cpp:104-145).    *)
THEOREM OrderKept == Spec => []AnswersInOrder
<1>1. Inv => AnswersInOrder
  BY DEF Inv, Answered, AnswersInOrder
<1> QED
  BY Invariance, <1>1, PTL

(* A call that ends with status OK has answered every request, provided the *)
(* channel hands out what waits in it when it is closed                     *)
(* (server_grpc.cpp:92-100, 116-119, 128-133).                              *)
THEOREM NoneUnanswered == Spec => []FinishedMeansAnswered
<1>1. Inv => FinishedMeansAnswered
  BY DEF Inv, TypeOK, Waiting, Answered, ReadAll, FinishedMeansAnswered
<1> QED
  BY Invariance, <1>1, PTL
=============================================================================

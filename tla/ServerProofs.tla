---------------------------- MODULE ServerProofs ----------------------------
(***************************************************************************)
(* The server outside the pool: the pool and the gRPC context outlive      *)
(* their users, a document is rendered whole, an upload is read in the     *)
(* languages it should be.  Proofs about ServerLifecycle, Rendering and    *)
(* HttpRequest, for any pool, any number of HTTP requests, any document,   *)
(* any labels and languages.                                               *)
(***************************************************************************)
EXTENDS ServerLifecycle, Rendering, HttpRequest, FiniteSetTheorems, TLAPS

(* The life of the process.                                                 *)

(* Where main is, the pool and the connections are: the pool is made last   *)
(* of all in the first step and joined only at the end; until the accepting *)
(* thread is there no request comes.                                        *)
MainLeads ==
    /\ pool = "none" <=> main = "pool"
    /\ pool = "joining" => main = "endPool"
    /\ pool # "none" => workers = Workers
    /\ main = "pool" => accepting = "none" /\ \A r \in Requests : request[r] = "none"
    /\ connections = "closed" <=> main \in {"joinServer", "endPool"}

(* A closed handler has no request left, and takes none any more.           *)
ClosedIsEmpty ==
    connections = "closed" => \A r \in Requests : request[r] \notin {"queued", "pushed"}

(* The accepting thread has the one connection that is not handed over yet. *)
OneInHand ==
    \A r \in Requests : request[r] = "accepted" =>
        accepting = "handing" /\ \A q \in Requests : request[q] = "accepted" => q = r
JoinedHttp == main = "endPool" => accepting = "done"

(* Before main comes to the HTTP server, the gRPC server has ended.         *)
GrpcEndsFirst ==
    /\ main \in {"pool", "grpc", "aborted"} => shutdown = "none" /\ stream = "none"
    /\ stream \in {"requested", "open"} => context = "alive"
    /\ main \in {"stopServer", "closeConnections", "joinServer", "endPool"} =>
          shutdown = "returned"

Inv == TypeOK /\ MainLeads /\ ClosedIsEmpty /\ OneInHand /\ JoinedHttp /\ GrpcEndsFirst

(* What the run checks follows: a request in push keeps the connections     *)
(* from being closed, and so the pool from being joined.                    *)
LEMMA InvImplies == Inv => UsedWhileAlive
<1> SUFFICES ASSUME Inv PROVE UsedWhileAlive
  OBVIOUS
<1>1. ASSUME handler # Nobody PROVE pool = "up" /\ workers = Workers
  <2>1. handler \in Requests /\ request[handler] = "pushed"
    BY <1>1 DEF Inv, TypeOK
  <2>2. connections # "closed" /\ main # "pool"
    BY <2>1 DEF Inv, ClosedIsEmpty, MainLeads
  <2> QED
    BY <2>2 DEF Inv, TypeOK, MainLeads
<1> QED
  BY <1>1 DEF Inv, UsedWhileAlive, PoolOutlives, NothingAfterStop, ContextOutlives, MainLeads,
              ClosedIsEmpty, OneInHand, JoinedHttp, GrpcEndsFirst

LEMMA InitInv == Init => Inv
BY LifecycleAssumption
   DEF Init, Inv, TypeOK, MainLeads, ClosedIsEmpty, OneInHand, JoinedHttp, GrpcEndsFirst

-----------------------------------------------------------------------------
(* What main does to start and to end.                                      *)
LEMMA StartingStep == Inv /\ Starting => Inv'
<1> SUFFICES ASSUME Inv, Starting PROVE Inv'
  OBVIOUS
<1> USE DEF Inv, TypeOK, MainLeads, ClosedIsEmpty, OneInHand, JoinedHttp, GrpcEndsFirst, httpVars, grpcVars
<1>1. ASSUME NEW w \in Workers, StartWorker(w) PROVE Inv'
  BY <1>1 DEF StartWorker
<1>2. CASE StartHttp
  BY <1>2 DEF StartHttp
<1>3. CASE StartGrpc
  BY <1>3 DEF StartGrpc
<1> QED
  BY <1>1, <1>2, <1>3 DEF Starting

LEMMA EndingStep == Inv /\ Ending => Inv'
<1> SUFFICES ASSUME Inv, Ending PROVE Inv'
  OBVIOUS
<1> USE DEF Inv, TypeOK, MainLeads, ClosedIsEmpty, OneInHand, JoinedHttp, GrpcEndsFirst, httpVars, grpcVars
<1>1. CASE RunReturns
  BY <1>1 DEF RunReturns
<1>2. CASE EndGrpc
  BY <1>2 DEF EndGrpc
<1>3. CASE StopServer
  BY <1>3 DEF StopServer
<1>4. CASE CloseConnections
  BY <1>4 DEF CloseConnections
<1>5. CASE JoinServer
  BY <1>5 DEF JoinServer
<1>6. CASE EndPool
  BY <1>6 DEF EndPool
<1> QED
  BY <1>1, <1>2, <1>3, <1>4, <1>5, <1>6 DEF Ending

(* The HTTP threads: a request is queued only in an open handler, and only  *)
(* the one data-processing thread has one in push.                          *)
LEMMA HttpStep ==
    Inv /\ (RunHttp \/ LeaveHttp \/ AnswerHttp
            \/ \E r \in Requests : Accept(r) \/ HandOver(r) \/ HandleHttp(r)) => Inv'
<1> SUFFICES ASSUME Inv, RunHttp \/ LeaveHttp \/ AnswerHttp
                         \/ \E r \in Requests : Accept(r) \/ HandOver(r) \/ HandleHttp(r)
             PROVE Inv'
  OBVIOUS
<1> USE LifecycleAssumption
        DEF Inv, TypeOK, MainLeads, ClosedIsEmpty, OneInHand, JoinedHttp, GrpcEndsFirst, httpVars, grpcVars
<1>1. CASE RunHttp
  BY <1>1 DEF RunHttp
<1>2. CASE LeaveHttp
  BY <1>2 DEF LeaveHttp
<1>3. CASE AnswerHttp
  BY <1>3 DEF AnswerHttp
<1>4. ASSUME NEW r \in Requests, Accept(r) PROVE Inv'
  BY <1>4 DEF Accept
<1>5. ASSUME NEW r \in Requests, HandleHttp(r) PROVE Inv'
  BY <1>5 DEF HandleHttp
<1>6. ASSUME NEW r \in Requests, HandOver(r) PROVE Inv'
  BY <1>6 DEF HandOver
<1> QED
  BY <1>1, <1>2, <1>3, <1>4, <1>5, <1>6

(* The stream, the signal, the shutdown thread, and a port that is taken.   *)
LEMMA GrpcStep ==
    Inv /\ (Connect \/ EndStream \/ Signal \/ ShutdownThread \/ Abort) => Inv'
<1> SUFFICES ASSUME Inv, Connect \/ EndStream \/ Signal \/ ShutdownThread \/ Abort PROVE Inv'
  OBVIOUS
<1> USE DEF Inv, TypeOK, MainLeads, ClosedIsEmpty, OneInHand, JoinedHttp, GrpcEndsFirst, httpVars, grpcVars
<1>1. CASE Connect
  BY <1>1 DEF Connect
<1>2. CASE EndStream
  BY <1>2 DEF EndStream
<1>3. CASE Signal
  BY <1>3 DEF Signal
<1>4. CASE BeginShutdown
  BY <1>4 DEF BeginShutdown
<1>5. CASE EndShutdown
  BY <1>5 DEF EndShutdown
<1>6. CASE Abort
  BY <1>6 DEF Abort
<1> QED
  BY <1>1, <1>2, <1>3, <1>4, <1>5, <1>6 DEF ShutdownThread

LEMMA NextInv == Inv /\ [Next]_vars => Inv'
<1> SUFFICES ASSUME Inv, [Next]_vars PROVE Inv'
  OBVIOUS
<1>1. CASE Next
  BY <1>1, StartingStep, EndingStep, HttpStep, GrpcStep DEF Next, Serving, Handing, Environment
<1>2. CASE UNCHANGED vars
  BY <1>2 DEF vars, httpVars, grpcVars, Inv, TypeOK, MainLeads, ClosedIsEmpty, OneInHand, JoinedHttp, GrpcEndsFirst
<1> QED
  BY <1>1, <1>2

(* In every behaviour of the process, whoever blocks in push has a complete *)
(* pool, HttpServer::stop leaves nothing that could still push, and the     *)
(* gRPC context outlives its stream (main.cpp:16-23, App.cpp:65-80).        *)
THEOREM PoolOutlivesUsers == Spec => []UsedWhileAlive
<1>1. Spec => []Inv
  BY InitInv, NextInv, PTL DEF Spec
<1> QED
  BY <1>1, InvImplies, PTL

-----------------------------------------------------------------------------
(* The renderer.                                                            *)

(* The page that is rendered is one whose text was taken.                   *)
InImage == at \in {"create", "header", "rows"}

Read == {n \in Made : n < i \/ (n = i /\ InImage)}
Pictured == {n \in Made : n < i /\ n <= MaxRender}
Image == {NoImage} \cup Nat \X Nat \X Nat
Empties == {k \in DOMAIN images : images[k] = NoImage}

RenderingTypes ==
    /\ doc \in {"none", "locked", "open"} /\ only_text \in BOOLEAN
    /\ pages \in Seq(BOOLEAN) /\ i \in 0..Len(pages)
    /\ utf8 \in Seq(Nat) /\ images \in Seq(Image)
    /\ at \in {"open", "page", "create", "header", "rows", "end"}
    /\ rows \in 0..MaxRows /\ y \in 0..MaxRows
    /\ jump \in {"header", "rows", "nowhere"}
    /\ structs \in BOOLEAN /\ leaks \in Nat

(* Where the worker is: in an image only of a page that is to be rendered,  *)
(* with the structures of libpng and a place to jump to; at the end past    *)
(* the last page.                                                           *)
WorkerAt ==
    /\ InImage => i < Len(pages) /\ pages[i + 1] /\ ~TooFar
    /\ at = "end" /\ doc = "open" => i = Len(pages)
    /\ at \in {"header", "rows"} <=> structs
    /\ (jump = "nowhere") <=> at \notin {"header", "rows"}

(* The text so far is that of the pages so far that can be made, ...        *)
TextSoFar ==
    /\ \A k \in 1..Len(utf8) : utf8[k] \in Read
    /\ \A n \in Read : \E k \in 1..Len(utf8) : utf8[k] = n
    /\ \A k, n \in 1..Len(utf8) : k < n => utf8[k] < utf8[n]

(* ... and so are the pictures, of those that are not too far on.           *)
ImagesSoFar == Len(images) = IF only_text THEN 0 ELSE Cardinality(Pictured)

RenderingInv ==
    /\ RenderingTypes /\ WorkerAt /\ TextSoFar /\ ImagesSoFar
    /\ PicturesInOrder /\ WholeOrEmpty /\ LeaksWithEmpties

-----------------------------------------------------------------------------
(* The pages that can be made are finitely many, of which one more page     *)
(* adds itself, if it can be made and is not too far on.                    *)
LEMMA OneMorePage ==
    ASSUME RenderingTypes, i < Len(pages), i' = i + 1, pages' = pages
    PROVE  /\ Cardinality(Pictured) \in Nat
           /\ pages[i + 1] /\ i <= MaxRender => Cardinality(Pictured') = Cardinality(Pictured) + 1
           /\ ~(pages[i + 1] /\ i <= MaxRender) => Pictured' = Pictured
<1> USE RenderingAssumption DEF RenderingTypes
<1>1. IsFiniteSet(Pictured)
  <2>1. IsFiniteSet(0..(Len(pages) - 1))
    BY FS_Interval
  <2> QED
    BY <2>1, FS_Subset DEF Pictured, Made
<1>2. i \in 0..(Len(pages) - 1) /\ (i \in Made <=> pages[i + 1]) /\ Made' = Made
  BY DEF Made
<1>3. ASSUME pages[i + 1], i <= MaxRender
      PROVE  Pictured' = Pictured \cup {i} /\ i \notin Pictured
  BY <1>2, <1>3 DEF Pictured, Made
<1>4. ASSUME ~(pages[i + 1] /\ i <= MaxRender) PROVE Pictured' = Pictured
  BY <1>2, <1>4 DEF Pictured, Made
<1> QED
  BY <1>1, <1>3, <1>4, FS_AddElement, FS_CardinalityType

(* What an image appended leaves of the books on those that are empty.      *)
LEMMA OneMoreImage ==
    ASSUME RenderingTypes, LeaksWithEmpties, WholeOrEmpty,
           NEW s \in Image, images' = Append(images, s),
           leaks' = leaks \/ (leaks' = leaks + 1 /\ s = NoImage),
           s = NoImage \/ s[2] = s[3]
    PROVE  LeaksWithEmpties' /\ WholeOrEmpty' /\ Len(images') = Len(images) + 1
<1> USE DEF RenderingTypes
<1>1. Len(images) \in Nat /\ DOMAIN images = 1..Len(images) /\ IsFiniteSet(1..Len(images))
  BY FS_Interval
<1>2. /\ Len(images') = Len(images) + 1 /\ DOMAIN images' = 1..(Len(images) + 1)
      /\ \A k \in 1..Len(images) : images'[k] = images[k]
      /\ images'[Len(images) + 1] = s
  BY <1>1
<1>3. WholeOrEmpty'
  BY <1>1, <1>2 DEF WholeOrEmpty
<1>4. IsFiniteSet(Empties) /\ Len(images) + 1 \notin Empties
  BY <1>1, FS_Subset DEF Empties
<1>5. leaks <= Cardinality(Empties) /\ Cardinality(Empties) \in Nat
  BY <1>4, FS_CardinalityType DEF LeaksWithEmpties, Empties
<1>6. leaks' <= Cardinality(Empties')
  <2>1. CASE s = NoImage
    <3>1. Empties' = Empties \cup {Len(images) + 1}
      BY <1>1, <1>2, <2>1 DEF Empties
    <3>2. Cardinality(Empties') = Cardinality(Empties) + 1
      BY <3>1, <1>4, FS_AddElement
    <3> QED
      BY <3>2, <1>5
  <2>2. CASE s # NoImage
    <3>1. Empties' = Empties
      BY <1>1, <1>2, <2>2 DEF Empties
    <3> QED
      BY <3>1, <1>5, <2>2
  <2> QED
    BY <2>1, <2>2
<1> QED
  BY <1>2, <1>3, <1>6 DEF LeaksWithEmpties, Empties

(* The pages rendered before the one at hand are those before it that can   *)
(* be made, for it is not too far on; so its picture is in its place.       *)
LEMMA PictureInPlace ==
    ASSUME RenderingInv, InImage, NEW s \in Image, s = NoImage \/ s[1] = i,
           images' = Append(images, s), pages' = pages
    PROVE  PicturesInOrder'
<1> USE RenderingAssumption
<1>1. RenderingTypes /\ i < Len(pages) /\ pages[i + 1] /\ i <= MaxRender /\ ~only_text
  BY DEF RenderingInv, WorkerAt, TooFar, RenderingTypes
<1>2. i \in Made /\ Made' = Made
  BY <1>1 DEF Made, RenderingTypes
<1>3. {n \in Made : n < i} = Pictured
  BY <1>1 DEF Pictured, Made, RenderingTypes
<1>4. Len(images) = Cardinality(Pictured)
  BY <1>1 DEF RenderingInv, ImagesSoFar
<1>5. /\ Len(images) \in Nat /\ DOMAIN images = 1..Len(images) /\ DOMAIN images' = 1..(Len(images) + 1)
      /\ \A k \in 1..Len(images) : images'[k] = images[k]
      /\ images'[Len(images) + 1] = s
  BY <1>1 DEF RenderingTypes
<1>6. s # NoImage => s[1] \in Made /\ Cardinality({n \in Made : n < s[1]}) = (Len(images) + 1) - 1
  <2>1. \A m \in Nat : m = (m + 1) - 1
    OBVIOUS
  <2>2. s # NoImage => s[1] = i /\ s[1] \in Made /\ Cardinality({n \in Made : n < s[1]}) = Len(images)
    <3>1. CASE s = NoImage
      BY <3>1
    <3>2. CASE s[1] = i
      BY <3>2, <1>2, <1>3, <1>4
    <3> QED
      BY <3>1, <3>2
  <2> QED
    BY <1>5, <2>1, <2>2
<1>7. \A k \in 1..Len(images) : images[k] # NoImage =>
          images[k][1] \in Made /\ Cardinality({n \in Made : n < images[k][1]}) = k - 1
  BY <1>5 DEF RenderingInv, PicturesInOrder
<1>8. \A k \in DOMAIN images' : k \in 1..Len(images) \/ k = Len(images) + 1
  BY <1>5
<1> QED
  BY <1>2, <1>5, <1>6, <1>7, <1>8 DEF PicturesInOrder

(* An image is returned: the page is done.                                  *)
LEMMA ImageReturned ==
    ASSUME RenderingInv, InImage, NEW s \in Image, ReturnImage(s),
           y' = y, structs' \in BOOLEAN, ~structs',
           leaks' = leaks \/ (leaks' = leaks + 1 /\ s = NoImage),
           s = NoImage \/ (s[1] = i /\ s[2] = s[3])
    PROVE  RenderingInv'
<1> USE RenderingAssumption DEF document, ReturnImage
<1>1. RenderingTypes /\ i < Len(pages) /\ pages[i + 1] /\ i <= MaxRender /\ ~only_text
  BY DEF RenderingInv, WorkerAt, TooFar, RenderingTypes
<1>2. LeaksWithEmpties' /\ WholeOrEmpty' /\ Len(images') = Len(images) + 1
  BY <1>1, OneMoreImage DEF RenderingInv
<1>3. RenderingTypes'
  BY <1>1 DEF RenderingTypes, RenderingInv, WorkerAt
<1>4. ImagesSoFar'
  BY <1>1, <1>2, OneMorePage DEF ImagesSoFar, RenderingInv, Pictured, Made
<1>5. WorkerAt'
  BY <1>1 DEF RenderingInv, WorkerAt, InImage, RenderingTypes, TooFar
<1>6. TextSoFar'
  <2>1. Read' = Read
    BY <1>1 DEF Read, InImage, Made, RenderingTypes
  <2> QED
    BY <2>1 DEF RenderingInv, TextSoFar
<1>7. PicturesInOrder'
  BY PictureInPlace
<1> QED
  BY <1>2, <1>3, <1>4, <1>5, <1>6, <1>7 DEF RenderingInv

(* A step of libpng between the first and the last of an image.             *)
LEMMA ImageStep ==
    ASSUME RenderingInv, Create \/ Header \/ WriteRow
    PROVE  RenderingInv'
<1> USE RenderingAssumption DEF document, result, png
<1>1. RenderingTypes /\ InImage /\ InImage'
  BY DEF RenderingInv, Create, Header, WriteRow, InImage
<1>2. UNCHANGED <<document, result>>
  BY DEF Create, Header, WriteRow
<1>3. RenderingTypes'
  <2>1. CASE Create
    BY <1>1, <2>1 DEF RenderingTypes, Create
  <2>2. CASE Header
    BY <1>1, <2>2 DEF RenderingTypes, Header
  <2>3. CASE WriteRow
    BY <1>1, <2>3 DEF RenderingTypes, WriteRow
  <2> QED
    BY <2>1, <2>2, <2>3
<1>4. WorkerAt'
  BY <1>1 DEF RenderingInv, WorkerAt, Create, Header, WriteRow, TooFar, InImage
<1>5. TextSoFar'
  BY <1>1, <1>2 DEF RenderingInv, TextSoFar, Read, Made
<1>6. ImagesSoFar' /\ PicturesInOrder' /\ WholeOrEmpty' /\ LeaksWithEmpties'
  BY <1>2 DEF RenderingInv, ImagesSoFar, PicturesInOrder, WholeOrEmpty, LeaksWithEmpties, Pictured, Made,
              Create, Header, WriteRow
<1> QED
  BY <1>3, <1>4, <1>5, <1>6 DEF RenderingInv

(* The ends of an image.                                                    *)
LEMMA ImageEnds ==
    ASSUME RenderingInv, CannotCreate \/ WriteEnd \/ FailHeader \/ FailRows
    PROVE  RenderingInv'
<1>1. InImage
  BY DEF CannotCreate, WriteEnd, FailHeader, FailRows, Fails, InImage
<1>2. NoImage \in Image /\ <<i, y, rows>> \in Image
  BY RenderingAssumption DEF Image, RenderingInv, RenderingTypes
<1>3. CASE CannotCreate
  <2>1. structs' \in BOOLEAN /\ ~structs'
    BY <1>3 DEF CannotCreate, RenderingInv, RenderingTypes, WorkerAt
  <2> QED
    BY <1>1, <1>2, <1>3, <2>1, ImageReturned DEF CannotCreate
<1>4. CASE WriteEnd
  <2>1. ReturnImage(<<i, y, rows>>) /\ <<i, y, rows>>[1] = i /\ <<i, y, rows>>[2] = <<i, y, rows>>[3]
    BY <1>4 DEF WriteEnd
  <2>2. structs' \in BOOLEAN /\ ~structs' /\ UNCHANGED <<y, leaks>>
    BY <1>4 DEF WriteEnd
  <2> QED
    BY <1>1, <1>2, <2>1, <2>2, ImageReturned
<1>5. CASE FailHeader
  <2>1. structs' \in BOOLEAN /\ ~structs'
    BY <1>5 DEF FailHeader
  <2> QED
    BY <1>1, <1>2, <1>5, <2>1, ImageReturned DEF FailHeader
<1>6. CASE FailRows
  <2>1. structs' \in BOOLEAN /\ ~structs'
    BY <1>6 DEF FailRows
  <2> QED
    BY <1>1, <1>2, <1>6, <2>1, ImageReturned DEF FailRows
<1> QED
  BY <1>3, <1>4, <1>5, <1>6

(* The steps from page to page.                                             *)
LEMMA PageStep ==
    ASSUME RenderingInv, Open \/ SkipPage \/ ReadPage \/ EndPages
    PROVE  RenderingInv'
<1> USE RenderingAssumption DEF document, result, png
<1>1. RenderingTypes /\ ~InImage /\ ~structs
  BY DEF RenderingInv, WorkerAt, Open, SkipPage, ReadPage, EndPages, InImage
<1>2. /\ PicturesInOrder' /\ WholeOrEmpty' /\ LeaksWithEmpties'
      /\ images' = images /\ UNCHANGED document
  BY DEF RenderingInv, Open, SkipPage, ReadPage, EndPages, NextPage, PicturesInOrder, Made,
         WholeOrEmpty, LeaksWithEmpties
<1>3. CASE Open \/ EndPages
  <2>1. RenderingTypes' /\ WorkerAt'
    BY <1>1, <1>3 DEF RenderingInv, RenderingTypes, WorkerAt, Open, EndPages, InImage
  <2>2. Read' = Read /\ UNCHANGED result
    BY <1>1, <1>3 DEF Read, Made, Open, EndPages, InImage
  <2>3. TextSoFar' /\ ImagesSoFar'
    BY <2>2, <1>2 DEF RenderingInv, TextSoFar, ImagesSoFar, Pictured, Made
  <2> QED
    BY <1>2, <2>1, <2>3 DEF RenderingInv
<1>4. CASE SkipPage
  <2>1. RenderingTypes' /\ WorkerAt'
    BY <1>1, <1>4 DEF RenderingInv, RenderingTypes, WorkerAt, SkipPage, NextPage, InImage
  <2>2. Read' = Read
    BY <1>1, <1>4 DEF RenderingTypes, Read, Made, SkipPage, NextPage, InImage
  <2>3. TextSoFar'
    BY <2>2, <1>4 DEF RenderingInv, TextSoFar, SkipPage, NextPage
  <2>4. ImagesSoFar'
    BY <1>1, <1>4, OneMorePage
       DEF RenderingInv, ImagesSoFar, Pictured, Made, SkipPage, NextPage
  <2> QED
    BY <1>2, <2>1, <2>3, <2>4 DEF RenderingInv
<1>5. CASE ReadPage
  <2>1. RenderingTypes'
    BY <1>1, <1>5 DEF RenderingTypes, ReadPage
  <2>2. WorkerAt'
    BY <1>1, <1>5 DEF RenderingInv, RenderingTypes, WorkerAt, ReadPage, InImage, TooFar
  <2>3. Read' = Read \cup {i} /\ \A n \in Read : n < i /\ n \in Nat
    BY <1>1, <1>5 DEF Read, Made, ReadPage, InImage, TooFar, RenderingTypes
  <2>4. /\ Len(utf8') = Len(utf8) + 1 /\ utf8'[Len(utf8) + 1] = i
        /\ \A k \in 1..Len(utf8) : utf8'[k] = utf8[k]
    BY <1>1, <1>5 DEF ReadPage, RenderingTypes
  <2>5. TextSoFar'
    <3>1. Len(utf8) \in Nat /\ Made' = Made /\ TextSoFar
      BY <1>1, <1>2 DEF RenderingTypes, Made, RenderingInv
    <3>2. \A k \in 1..Len(utf8') : utf8'[k] \in Read'
      BY <2>3, <2>4, <3>1 DEF TextSoFar
    <3>3. \A n \in Read' : \E k \in 1..Len(utf8') : utf8'[k] = n
      BY <2>3, <2>4, <3>1 DEF TextSoFar
    <3>4. \A k, n \in 1..Len(utf8') : k < n => utf8'[k] < utf8'[n]
      BY <2>3, <2>4, <3>1 DEF TextSoFar
    <3> QED
      BY <3>2, <3>3, <3>4 DEF TextSoFar
  <2>6. ImagesSoFar'
    <3>1. CASE TooFar
      <4>1. only_text \/ Pictured' = Pictured
        BY <1>1, <1>2, <1>5, <3>1, OneMorePage DEF ReadPage, TooFar, RenderingTypes
      <4> QED
        BY <4>1, <1>2 DEF RenderingInv, ImagesSoFar
    <3>2. CASE ~TooFar
      BY <1>2, <1>5, <3>2 DEF RenderingInv, ImagesSoFar, Pictured, Made, ReadPage
    <3> QED
      BY <3>1, <3>2
  <2> QED
    BY <1>2, <2>1, <2>2, <2>5, <2>6 DEF RenderingInv
<1> QED
  BY <1>3, <1>4, <1>5

(* The renderer begins in the invariant, each of its steps keeps it, and it *)
(* says what RenderedWhole does.                                            *)
LEMMA RenderingStarts == RenderingInit => RenderingInv
<1> SUFFICES ASSUME RenderingInit PROVE RenderingInv
  OBVIOUS
<1> USE RenderingAssumption DEF RenderingInit
<1>1. RenderingTypes
  <2>1. pages \in Seq(BOOLEAN)
    OBVIOUS
  <2>2. utf8 \in Seq(Nat) /\ images \in Seq(Image)
    OBVIOUS
  <2>3. i \in 0..Len(pages) /\ rows \in 0..MaxRows /\ y \in 0..MaxRows /\ leaks \in Nat
    BY <2>1
  <2>4. structs \in BOOLEAN
    OBVIOUS
  <2> QED
    BY <2>1, <2>2, <2>3, <2>4 DEF RenderingTypes
<1>2. Pictured = {} /\ Read = {}
  BY <1>1 DEF Pictured, Read, Made, RenderingTypes, InImage
<1>3. WorkerAt /\ TextSoFar
  BY <1>1, <1>2 DEF WorkerAt, TextSoFar, InImage
<1>4. ImagesSoFar /\ PicturesInOrder /\ WholeOrEmpty
  BY <1>2, FS_EmptySet DEF ImagesSoFar, PicturesInOrder, WholeOrEmpty
<1>5. Empties = {}
  BY DEF Empties
<1>6. LeaksWithEmpties
  BY <1>5, FS_EmptySet DEF LeaksWithEmpties, Empties
<1> QED
  BY <1>1, <1>3, <1>4, <1>6 DEF RenderingInv

LEMMA RenderingSteps == RenderingInv /\ [RenderingNext]_renderingVars => RenderingInv'
<1> SUFFICES ASSUME RenderingInv, [RenderingNext]_renderingVars PROVE RenderingInv'
  OBVIOUS
<1>1. CASE RenderingNext
  BY <1>1, PageStep, ImageStep, ImageEnds DEF RenderingNext
<1>2. CASE UNCHANGED renderingVars
  BY <1>2 DEF renderingVars, document, result, png, RenderingInv, RenderingTypes, WorkerAt, InImage,
              TooFar, TextSoFar, Read, Made, ImagesSoFar, Pictured, PicturesInOrder, WholeOrEmpty,
              LeaksWithEmpties
<1> QED
  BY <1>1, <1>2

LEMMA RenderingImplies == RenderingInv => RenderedWhole
<1> SUFFICES ASSUME RenderingInv PROVE RenderedWhole
  OBVIOUS
<1> USE RenderingAssumption
<1>1. RenderingTypeOK /\ PicturesInOrder /\ WholeOrEmpty /\ LeaksWithEmpties
  BY DEF RenderingInv, RenderingTypes, WorkerAt, RenderingTypeOK
<1>2. ASSUME at = "end", doc = "open" PROVE PagesAsAsked
  <2>1. RenderingTypes /\ i = Len(pages) /\ TextSoFar /\ ImagesSoFar
    BY <1>2 DEF RenderingInv, WorkerAt
  <2>2. Read = Made /\ DOMAIN utf8 = 1..Len(utf8)
    BY <2>1 DEF Read, Made, RenderingTypes
  <2>3. {utf8[k] : k \in DOMAIN utf8} = Made
    BY <2>1, <2>2 DEF TextSoFar
  <2>4. Pictured = {n \in Made : n <= MaxRender}
    BY <2>1 DEF Pictured, Made, RenderingTypes
  <2>5. \A k, n \in DOMAIN utf8 : k < n => utf8[k] < utf8[n]
    BY <2>1, <2>2 DEF TextSoFar
  <2>6. Len(images) = IF only_text THEN 0 ELSE Cardinality({n \in Made : n <= MaxRender})
    BY <2>1, <2>4 DEF ImagesSoFar
  <2> QED
    BY <2>3, <2>5, <2>6 DEF PagesAsAsked
<1> QED
  BY <1>1, <1>2 DEF RenderedWhole, PagesAsAsked

(* For any document and any errors of libpng: the text of every page that   *)
(* can be made, the pictures of the first ones, no part of an image, and    *)
(* nothing lost but with an empty one (poppler_worker.cpp:64-83, 106-111,   *)
(* 139-152).                                                                *)
THEOREM RendersWhole == RenderingSpec => []RenderedWhole
<1>1. RenderingSpec => []RenderingInv
  BY RenderingStarts, RenderingSteps, PTL DEF RenderingSpec
<1> QED
  BY <1>1, RenderingImplies, PTL

-----------------------------------------------------------------------------
(* An upload and its languages.                                             *)

Uploads ==
    [file : {"doc", Absent}, format : Formats \cup {"other", Absent}, language : Asked \cup {Absent}]

UploadTypes ==
    /\ upload \in Uploads /\ f \in Formats \cup {"other"} /\ model \in BOOLEAN
    /\ line \in {"none", "text"} /\ guess \in Predictions
    /\ stage \in {"uploaded", "refused", "crashed", "pushed", "answered"}

(* What is pushed is what was sent, whole.                                  *)
PushedWhole ==
    stage \in {"pushed", "answered"} =>
        /\ ~Missing /\ upload.language # Absent
        /\ message.language = upload.language
        /\ upload.format \in Formats => message.format = upload.format

(* Each format is answered by its branch.                                   *)
AnsweredAsPushed ==
    stage = "answered" =>
        /\ message.format = "IMAGE" =>
              answer = [language |-> "", read |-> ParseLang(message.language)]
        /\ message.format = "PDF" =>
              answer = [language |-> Identified, read |-> ParseLang(Append(message.language, Identified))]
        /\ message.format \notin {"IMAGE", "PDF"} => answer = NoAnswer

UploadInv ==
    /\ UploadTypes /\ PushedWhole /\ AnsweredAsPushed
    /\ stage = "refused" => Missing
    /\ stage = "crashed" => ~Missing
    /\ stage \in {"uploaded", "pushed"} => answer = NoAnswer

-----------------------------------------------------------------------------
(* A size of zero less six is the largest size but five: the length of the  *)
(* substring is no less than that of any code.                              *)
LEMMA CountIs == Count = Sizes - 6
<1>1. 3 - 9 = -6 /\ Sizes \in Nat /\ Sizes > 9
  BY LabelsAssumption
<1>2. (-6) % Sizes = Sizes - 6
  BY <1>1
<1> QED
  BY <1>1, <1>2 DEF Count

(* A label decides by its code alone.                                       *)
LEMMA WorkRun ==
    ASSUME NEW p \in Predictions
    PROVE  RunWork(p) = IF p # <<>> /\ p[1].label.code \in DOMAIN LangToLang
                        THEN LangToLang[p[1].label.code] ELSE Unknown
<1>1. CASE p = <<>>
  BY <1>1 DEF RunWork
<1>2. CASE p # <<>>
  <2>1. PICK l \in Labels, q \in {0, 49, 51, 100} : p = <<[label |-> l, p |-> q]>>
    BY <1>2 DEF Predictions
  <2>2. p[1].label = l /\ p[1].p = q
    BY <2>1
  <2>3. Exp(p[1].p) > 50
    BY <2>2 DEF Exp
  <2>4. Cut(l) = l.code
    BY CountIs, LabelsAssumption DEF Cut
  <2> QED
    BY <1>2, <2>2, <2>3, <2>4 DEF RunWork
<1> QED
  BY <1>1, <1>2

(* A language detected is the name of one, if only that of none.            *)
LEMMA Named ==
    ASSUME NEW p \in Predictions
    PROVE  RunWork(p) \in Words /\ RunWork(p) # ""
BY WorkRun, LanguagesAssumption

(* Tokens are read in the languages they name, and in English.              *)
LEMMA Parsing ==
    ASSUME NEW tokens \in Seq(Words)
    PROVE  /\ English \in ParseLang(tokens)
           /\ \A k \in DOMAIN tokens : tokens[k] \in DOMAIN SupportLang =>
                 SupportLang[tokens[k]] \subseteq ParseLang(tokens)
           /\ \A d \in ParseLang(tokens) : \E t \in DOMAIN SupportLang : d \in SupportLang[t]
BY LanguagesAssumption DEF ParseLang, Supported

(* The language detected comes after those asked for.                       *)
LEMMA Appended ==
    ASSUME NEW tokens \in Seq(Words), NEW x \in Words
    PROVE  /\ Append(tokens, x) \in Seq(Words)
           /\ \A k \in DOMAIN tokens :
                 k \in DOMAIN Append(tokens, x) /\ Append(tokens, x)[k] = tokens[k]
           /\ Len(tokens) + 1 \in DOMAIN Append(tokens, x)
           /\ Append(tokens, x)[Len(tokens) + 1] = x
OBVIOUS

-----------------------------------------------------------------------------
(* The same for an upload.                                                  *)
LEMMA UploadStarts == UploadInit => UploadInv
BY DEF UploadInit, UploadInv, UploadTypes, Uploads, PushedWhole, AnsweredAsPushed

LEMMA UploadSteps == UploadInv /\ [UploadNext]_uploadVars => UploadInv'
<1> SUFFICES ASSUME UploadInv, [UploadNext]_uploadVars PROVE UploadInv'
  OBVIOUS
<1> USE DEF UploadInv, UploadTypes, PushedWhole, AnsweredAsPushed, inputs, Missing
<1>1. CASE Refuse
  BY <1>1 DEF Refuse, Go
<1>2. CASE Dereference
  BY <1>2 DEF Dereference, Go
<1>3. CASE Push
  <2>1. /\ message' = [format |-> Parsed, language |-> upload.language]
        /\ stage' = "pushed" /\ stage = "uploaded" /\ UNCHANGED <<upload, model, line, guess, answer>>
        /\ f' = Parsed /\ ~Missing /\ upload.language # Absent
    BY <1>3 DEF Push
  <2>2. Parsed \in Formats \cup {"other"} /\ (upload.format \in Formats => Parsed = upload.format)
    BY DEF Parsed
  <2>3. message'.language = upload.language /\ message'.format = Parsed
    BY <2>1
  <2>4. answer = NoAnswer
    BY <2>1
  <2> QED
    BY <2>1, <2>2, <2>3, <2>4
<1>4. CASE ReadPicture
  BY <1>4 DEF ReadPicture
<1>5. CASE NoDictionary
  BY <1>5 DEF NoDictionary, Go
<1>6. CASE ReadPdf
  BY <1>6 DEF ReadPdf, Identified
<1>7. CASE ReadNothing
  BY <1>7 DEF ReadNothing, Go
<1>8. CASE UNCHANGED uploadVars
  BY <1>8 DEF uploadVars, Identified
<1> QED
  BY <1>1, <1>2, <1>3, <1>4, <1>5, <1>6, <1>7, <1>8 DEF UploadNext

LEMMA UploadImplies == UploadInv => UploadsRead
<1> SUFFICES ASSUME UploadInv PROVE UploadsRead
  OBVIOUS
<1>1. WholeOrRefused
  BY DEF UploadInv, UploadTypes, PushedWhole, Missing, WholeOrRefused
<1>2. Identified \in Words /\ Identified # ""
  <2>1. <<>> \in Predictions
    BY DEF Predictions
  <2>2. guess \in Predictions
    BY DEF UploadInv, UploadTypes
  <2> QED
    BY <2>1, <2>2, Named DEF Identified
<1>3. stage = "answered" => message.language \in Seq(Words)
  BY AskedAssumption DEF UploadInv, UploadTypes, Uploads, PushedWhole
<1>4. ASSUME stage = "answered", message.format = "PDF"
      PROVE  /\ answer.language = Identified
             /\ answer.read = ParseLang(Append(message.language, Identified))
             /\ Append(message.language, Identified) \in Seq(Words)
  <2>1. answer = [language |-> Identified, read |-> ParseLang(Append(message.language, Identified))]
    BY <1>4 DEF UploadInv, AnsweredAsPushed
  <2>2. Append(message.language, Identified) \in Seq(Words)
    BY <1>2, <1>3, <1>4, Appended
  <2> QED
    BY <2>1, <2>2
<1>5. FormatKept
  <2> SUFFICES ASSUME stage = "answered", upload.format \in Formats
               PROVE  /\ upload.format = "AUTO" <=> answer.read = {}
                      /\ upload.format = "PDF" <=> answer.language # ""
    BY DEF FormatKept
  <2>1. message.format = upload.format
    BY DEF UploadInv, PushedWhole
  <2>2. CASE upload.format = "AUTO"
    <3>1. answer = NoAnswer
      BY <2>1, <2>2 DEF UploadInv, AnsweredAsPushed
    <3> QED
      BY <2>2, <3>1 DEF NoAnswer
  <2>3. CASE upload.format = "IMAGE"
    <3>1. answer = [language |-> "", read |-> ParseLang(message.language)]
      BY <2>1, <2>3 DEF UploadInv, AnsweredAsPushed
    <3>2. answer.language = "" /\ English \in answer.read
      BY <1>3, <3>1, Parsing
    <3> QED
      BY <2>3, <3>2
  <2>4. CASE upload.format = "PDF"
    <3>1. answer.language # "" /\ English \in answer.read
      BY <1>2, <1>4, <2>1, <2>4, Parsing
    <3> QED
      BY <2>4, <3>1
  <2> QED
    BY <2>2, <2>3, <2>4 DEF Formats
<1>6. ReadAsDetected
  <2> SUFFICES ASSUME stage = "answered", message.format = "PDF"
               PROVE  /\ English \in answer.read
                      /\ \A t \in DOMAIN SupportLang :
                            (\E k \in DOMAIN message.language : message.language[k] = t)
                                \/ answer.language = t
                            => SupportLang[t] \subseteq answer.read
                      /\ \A d \in answer.read : \E t \in DOMAIN SupportLang : d \in SupportLang[t]
    BY DEF ReadAsDetected
  <2>1. PICK tokens \in Seq(Words) : tokens = Append(message.language, Identified)
    BY <1>4
  <2>2. /\ \A k \in DOMAIN message.language :
              k \in DOMAIN tokens /\ tokens[k] = message.language[k]
        /\ Len(message.language) + 1 \in DOMAIN tokens
        /\ tokens[Len(message.language) + 1] = Identified
    BY <1>2, <1>3, <2>1, Appended
  <2>3. answer.language = Identified /\ answer.read = ParseLang(tokens)
    BY <1>4, <2>1
  <2> QED
    BY <2>2, <2>3, Parsing
<1>7. LabelDecides
  BY <1>4, WorkRun DEF LabelDecides, Identified, UploadInv, UploadTypes
<1> QED
  BY <1>1, <1>5, <1>6, <1>7 DEF UploadsRead

(* For any client, any labels and any languages: what is pushed is whole, a *)
(* PDF is read in English, in what the client asked for and in the language *)
(* of its label, if the tables have them (MyController.hpp:81-90,           *)
(* main_worker.cpp:76-90, fasttext_worker.cpp:36-44,                        *)
(* tesseract_worker.cpp:40-67).                                             *)
THEOREM ReadsUploads == UploadSpec => []UploadsRead
<1>1. UploadSpec => []UploadInv
  BY UploadStarts, UploadSteps, PTL DEF UploadSpec
<1> QED
  BY <1>1, UploadImplies, PTL
=============================================================================

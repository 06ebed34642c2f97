------------------------------ MODULE Training ------------------------------
(***************************************************************************)
(* Training by several threads (fastText/src/fasttext.cc:628-678 and       *)
(* 771-816): each reads lines of the same file through a stream of its     *)
(* own, adds its tokens to a shared count once they exceed lrUpdateRate,   *)
(* and goes on until the count stands for all epochs or an exception is    *)
(* recorded.  The caller of startThreads waits for the same condition,     *)
(* joins the threads and throws the exception on.  abort may be called by  *)
(* another thread at any time.                                             *)
(*                                                                         *)
(* Matrices are left out: a line either updates them or finds a NaN.  The  *)
(* exception pointer is not atomic; it is modelled as one word.            *)
(***************************************************************************)
EXTENDS Integers, FiniteSets

CONSTANTS
  NThreads,      \* args_->thread
  Epoch,         \* args_->epoch
  NTokens,       \* dict_->ntokens()
  LrUpdateRate,  \* args_->lrUpdateRate
  MaxLine,       \* bound: the tokens of a line
  MaxAborts,     \* bound: calls of abort
  MaxRuns        \* bound: calls of startThreads

ASSUME TrainingAssumption ==
  /\ NThreads \in Nat \ {0} /\ Epoch \in Nat \ {0} /\ NTokens \in Nat \ {0}
  /\ LrUpdateRate \in Nat /\ MaxLine \in Nat \ {0}
  /\ MaxAborts \in Nat /\ MaxRuns \in Nat

Threads == 0 .. NThreads - 1
Total == Epoch * NTokens

VARIABLES
  tokenCount,  \* tokenCount_
  exc,         \* trainException_
  pc,          \* thread -> "none", "check", "progress", "line", "flush", "catch", "done"
  local,       \* thread -> localTokenCount
  seen,        \* thread -> the count its progress was computed from
  rest,        \* thread -> the tokens between its stream and the end of the file
  main,        \* the caller: "idle", "spawn", "wait", "join", "raise", "clear", "ended"
  next,        \* the thread that main creates or joins next
  outcome,     \* how the last run ended
  late,        \* ghost: thread -> the lines it took after an exception was set
  aborts, runs \* bounds: calls so far

vars == <<tokenCount, exc, pc, local, seen, rest, main, next, outcome, late, aborts, runs>>

keepTrainingCountOnly == tokenCount < Total  \* Slip: the exception is not looked at

keepTraining == tokenCount < Total /\ exc = "none"

Init ==
  /\ tokenCount = 0 /\ exc = "none"
  /\ pc = [t \in Threads |-> "none"]
  /\ local = [t \in Threads |-> 0]
  /\ seen = [t \in Threads |-> 0]
  /\ rest = [t \in Threads |-> 0]
  /\ main = "idle" /\ next = 0 /\ outcome = "idle"
  /\ late = [t \in Threads |-> 0]
  /\ aborts = 0 /\ runs = 0

-----------------------------------------------------------------------------
\* The caller of startThreads.
StartThreads ==
  /\ main \in {"idle", "ended"} /\ runs < MaxRuns
  /\ runs' = runs + 1
  /\ tokenCount' = 0
  /\ exc' = "none"
  /\ main' = "spawn" /\ next' = 0
  /\ late' = [t \in Threads |-> 0]
  /\ pc' = [t \in Threads |-> "none"]
  /\ UNCHANGED <<local, seen, rest, outcome, aborts>>

\* A thread seeks to its share of the file.  A single thread is the caller.
Spawn ==
  /\ main = "spawn"
  /\ NThreads > 1 \/ next = 0
  /\ next < NThreads
  /\ pc' = [pc EXCEPT ![next] = "check"]
  /\ local' = [local EXCEPT ![next] = 0]
  /\ rest' = [rest EXCEPT ![next] = NTokens - (next * NTokens) \div NThreads]
  /\ next' = next + 1
  /\ UNCHANGED <<tokenCount, exc, seen, main, outcome, late, aborts, runs>>

Spawned ==
  /\ main = "spawn" /\ next = NThreads
  /\ NThreads = 1 => pc[0] = "done"
  /\ main' = "wait"
  /\ UNCHANGED <<tokenCount, exc, pc, local, seen, rest, next, outcome, late, aborts, runs>>

\* The loop at 795: it polls until there is nothing to wait for.
Waited ==
  /\ main = "wait" /\ ~keepTraining
  /\ main' = "join" /\ next' = 0
  /\ UNCHANGED <<tokenCount, exc, pc, local, seen, rest, outcome, late, aborts, runs>>

Join ==
  /\ main = "join"
  /\ \/ /\ next < NThreads /\ pc[next] = "done"
        /\ next' = next + 1 /\ UNCHANGED main
     \/ /\ next = NThreads
        /\ main' = "raise" /\ UNCHANGED next
  /\ UNCHANGED <<tokenCount, exc, pc, local, seen, rest, outcome, late, aborts, runs>>

Return ==
  /\ main = "raise" /\ exc = "none"
  /\ outcome' = "well" /\ main' = "ended"
  /\ UNCHANGED <<tokenCount, exc, pc, local, seen, rest, next, late, aborts, runs>>

\* The pointer is copied (807), then cleared and thrown (808-809).
Rethrow ==
  /\ main = "raise" /\ exc # "none"
  /\ outcome' = exc /\ main' = "clear"
  /\ UNCHANGED <<tokenCount, exc, pc, local, seen, rest, next, late, aborts, runs>>

ClearException ==
  /\ main = "clear"
  /\ exc' = "none" /\ main' = "ended"
  /\ UNCHANGED <<tokenCount, pc, local, seen, rest, next, outcome, late, aborts, runs>>

-----------------------------------------------------------------------------
(***************************************************************************)
(* trainThread.  The two reads of keepTraining are one step: neither can   *)
(* turn back during a run, so what they say together was true at the first.*)
(* The count is read again for the progress, from which the learning rate  *)
(* follows: it may have passed the total in between.                       *)
(***************************************************************************)
Check(t) ==
  /\ pc[t] = "check"
  /\ pc' = [pc EXCEPT ![t] = IF keepTraining THEN "progress" ELSE "done"]
  /\ UNCHANGED <<tokenCount, exc, local, seen, rest, main, next, outcome, late, aborts, runs>>

Progress(t) ==
  /\ pc[t] = "progress"
  /\ seen' = [seen EXCEPT ![t] = tokenCount]
  /\ pc' = [pc EXCEPT ![t] = "line"]
  /\ UNCHANGED <<tokenCount, exc, local, rest, main, next, outcome, late, aborts, runs>>

\* A line is read, and the model updated with it; a NaN throws.  At the end of
\* the file a call returns nothing, and the next begins at the top.
Line(t) ==
  /\ pc[t] = "line"
  /\ \E n \in IF rest[t] = 0 THEN {0} ELSE 1 .. MaxLine :
       /\ n <= rest[t]
       /\ rest' = [rest EXCEPT ![t] = IF @ = 0 THEN NTokens ELSE @ - n]
       /\ \/ /\ local' = [local EXCEPT ![t] = @ + n]
             /\ pc' = [pc EXCEPT ![t] = "flush"]
          \/ /\ n > 0
             /\ pc' = [pc EXCEPT ![t] = "catch"]
             /\ UNCHANGED local
  /\ late' = [late EXCEPT ![t] = IF exc = "none" THEN @ ELSE @ + 1]
  /\ UNCHANGED <<tokenCount, exc, seen, main, next, outcome, aborts, runs>>

Flushed(t) == local[t] > LrUpdateRate

Flush(t) ==
  /\ pc[t] = "flush"
  /\ IF Flushed(t)
     THEN /\ tokenCount' = tokenCount + local[t]
          /\ local' = [local EXCEPT ![t] = 0]
     ELSE UNCHANGED <<tokenCount, local>>
  /\ pc' = [pc EXCEPT ![t] = "check"]
  /\ UNCHANGED <<exc, seen, rest, main, next, outcome, late, aborts, runs>>

CatchSilently(t) ==  \* Slip: the exception is swallowed
  /\ pc[t] = "catch"
  /\ pc' = [pc EXCEPT ![t] = "done"]
  /\ UNCHANGED <<tokenCount, exc, local, seen, rest, main, next, outcome, late, aborts, runs>>

Catch(t) ==
  /\ pc[t] = "catch"
  /\ exc' = "nan"
  /\ pc' = [pc EXCEPT ![t] = "done"]
  /\ UNCHANGED <<tokenCount, local, seen, rest, main, next, outcome, late, aborts, runs>>

\* abort, called from outside (autotune, a signal handler).
abort ==
  /\ aborts < MaxAborts
  /\ aborts' = aborts + 1
  /\ exc' = "abort"
  /\ UNCHANGED <<tokenCount, pc, local, seen, rest, main, next, outcome, late, runs>>

Main == \/ StartThreads \/ Spawn \/ Spawned \/ Waited \/ Join
        \/ Return \/ Rethrow \/ ClearException

Thread(t) == Check(t) \/ Progress(t) \/ Line(t) \/ Flush(t) \/ Catch(t)

Next == Main \/ abort \/ \E t \in Threads : Thread(t)

Spec == Init /\ [][Next]_vars /\ WF_vars(Main) /\ \A t \in Threads : WF_vars(Thread(t))

-----------------------------------------------------------------------------
PerThread == LrUpdateRate + MaxLine

\* The variables have their types (fasttext.cc:628-678, 771-816).
TypeOK ==
  /\ tokenCount \in Nat
  /\ exc \in {"none", "nan", "abort"}
  /\ pc \in [Threads -> {"none", "check", "progress", "line", "flush", "catch", "done"}]
  /\ local \in [Threads -> 0 .. PerThread] /\ rest \in [Threads -> 0 .. NTokens]
  /\ seen \in [Threads -> Nat]
  /\ late \in [Threads -> Nat]
  /\ main \in {"idle", "spawn", "wait", "join", "raise", "clear", "ended"}
  /\ next \in 0 .. NThreads
  /\ outcome \in {"idle", "well", "nan", "abort"}
  /\ aborts \in 0 .. MaxAborts /\ runs \in 0 .. MaxRuns

\* The count passes the total by at most one flush of each thread
\* (fasttext.cc:628-630, 643-668), and the progress that a learning rate is
\* computed from by one flush of each other thread: a rate may be negative,
\* but by no more than that.
OvershootBounded ==
  /\ tokenCount < Total + NThreads * PerThread
  /\ \A t \in Threads : seen[t] < Total + (NThreads - 1) * PerThread

\* Once an exception is recorded, by another thread or by abort, a thread
\* finishes the line it had decided on and takes no other (628-630, 643).
StopsWithinALine == \A t \in Threads : late[t] <= 1

\* When startThreads has returned, or thrown, no thread is left (803-805), and
\* a run that ended well has trained all epochs: the loop of the caller and
\* those of the threads agree on the end (795, 643).
AllDoneAtEnd ==
  main = "ended" =>
    /\ \A t \in Threads : pc[t] = "done"
    /\ outcome = "well" => tokenCount >= Total

\* The count overshoots by one flush of each thread, a thread stops within a
\* line of an exception, and none is left when startThreads returns
\* (fasttext.cc:628-630, 643-668, 795-805).
StopsAsAsked == TypeOK /\ OvershootBounded /\ StopsWithinALine /\ AllDoneAtEnd

-----------------------------------------------------------------------------
\* The caller's view: a run is on from the start until the exception is copied
\* or found missing.
RunView == IF main \in {"clear", "ended", "idle"} THEN outcome ELSE "running"

TR == INSTANCE TrainingRun WITH run <- RunView, raised <- exc

\* startThreads keeps its promise (TrainingRun): a run ends, and it ends with
\* the exception that was raised while it ran, whatever the threads do.
Promise == TR!RunSpec
=============================================================================

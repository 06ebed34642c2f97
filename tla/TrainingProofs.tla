--------------------------- MODULE TrainingProofs ---------------------------
(***************************************************************************)
(* Training by any number of threads stops as asked and keeps the promise  *)
(* of TrainingRun, the search for the best arguments keeps them and trains *)
(* with them undisturbed, and a text is read by its lines and tokens:      *)
(* proofs about Training, Autotune and LineReading.                        *)
(***************************************************************************)
EXTENDS LineReading, Training, Autotune, FiniteSetTheorems, NaturalsInduction, TLAPS

(* The threads live from their creation until the caller has joined them,   *)
(* who joins only when there is nothing left to wait for.                   *)
PhaseInv ==
  /\ main = "idle" => \A t \in Threads : pc[t] = "none"
  /\ main = "spawn" => \A t \in Threads : t < next <=> pc[t] # "none"
  /\ main = "wait" => \A t \in Threads : pc[t] # "none"
  /\ main = "join" => \A t \in Threads : pc[t] # "none" /\ (t < next => pc[t] = "done")
  /\ main \in {"raise", "clear", "ended"} => \A t \in Threads : pc[t] = "done"

EndInv ==
  /\ main \in {"join", "raise"} => ~keepTraining
  /\ main = "clear" => outcome \in {"nan", "abort"}
  /\ main = "ended" /\ outcome = "well" => tokenCount >= Total

(* Only a line that has just been read leaves more than LrUpdateRate tokens *)
(* uncounted.                                                               *)
LocalInv == \A t \in Threads : pc[t] # "flush" => local[t] <= LrUpdateRate

(* A thread that took a line after an exception has only the flush and the  *)
(* check behind it left, and the exception is still there for the check.    *)
LateInv ==
  \A t \in Threads : late[t] = 0 \/
    /\ late[t] = 1 /\ pc[t] \in {"flush", "check", "catch", "done"}
    /\ pc[t] \in {"flush", "check"} => exc # "none"

StepInv == TypeOK /\ PhaseInv /\ EndInv /\ LocalInv /\ LateInv

(* The threads that must look at the count again before they add to it.     *)
Settled == {t \in Threads : pc[t] \notin {"progress", "line", "flush"}}

(* Each of them may have added one flush to a count that was below the      *)
(* total when some thread last looked.                                      *)
CountInv ==
  /\ tokenCount < Total + PerThread * Cardinality(Settled)
  /\ \A t \in Threads : seen[t] < Total + (NThreads - 1) * PerThread

Inv == StepInv /\ CountInv

-----------------------------------------------------------------------------
(* Where a thread begins is a place of the file.                            *)
LEMMA ShareInFile ==
  ASSUME NEW t \in Threads PROVE NTokens - (t * NTokens) \div NThreads \in 0 .. NTokens
<1> DEFINE q == (t * NTokens) \div NThreads
<1>1. NThreads \in Nat /\ NThreads > 0 /\ NTokens \in Nat /\ t \in Nat /\ t <= NThreads
  BY TrainingAssumption DEF Threads
<1>2. t * NTokens \in Nat /\ t * NTokens <= NThreads * NTokens
  BY <1>1
<1>3. q \in Nat /\ NThreads * q <= t * NTokens
  BY <1>1, <1>2
<1>4. q <= NTokens
  <2>1. SUFFICES ASSUME q >= NTokens + 1 PROVE FALSE
    BY <1>1, <1>3
  <2>2. NThreads * q >= NThreads * (NTokens + 1)
    BY <2>1, <1>1, <1>3
  <2>3. NThreads * (NTokens + 1) = NThreads * NTokens + NThreads
    BY <1>1
  <2> HIDE DEF q
  <2> QED
    BY <1>1, <1>2, <1>3, <2>2, <2>3
<1> QED
  BY <1>1, <1>3, <1>4

(* The bounds of the count, as numbers.                                     *)
LEMMA Numbers ==
  /\ Total \in Nat /\ Total > 0 /\ PerThread \in Nat /\ PerThread > 0
  /\ IsFiniteSet(Threads) /\ Cardinality(Threads) = NThreads
<1>1. Epoch \in Nat /\ Epoch > 0 /\ NTokens \in Nat /\ NTokens > 0
  BY TrainingAssumption
<1>2. Epoch * NTokens \in Nat /\ Epoch * NTokens > 0
  BY <1>1
<1>3. IsFiniteSet(Threads) /\ Cardinality(Threads) = NThreads
  BY TrainingAssumption, FS_Interval DEF Threads
<1> QED
  BY <1>2, <1>3, TrainingAssumption DEF Total, PerThread

(* More settled threads allow a greater count.                              *)
LEMMA MoreSettled ==
  ASSUME NEW S \in SUBSET Threads, NEW T \in SUBSET Threads, S \subseteq T
  PROVE  /\ Cardinality(S) \in Nat /\ Cardinality(T) \in Nat
         /\ PerThread * Cardinality(S) \in Nat
         /\ PerThread * Cardinality(S) <= PerThread * Cardinality(T)
<1>1. IsFiniteSet(T) /\ IsFiniteSet(S) /\ Cardinality(S) <= Cardinality(T)
  BY Numbers, FS_Subset
<1>2. Cardinality(S) \in Nat /\ Cardinality(T) \in Nat
  BY <1>1, FS_CardinalityType
<1>3. \A a, b, c \in Nat : b <= c => a * b \in Nat /\ a * b <= a * c
  OBVIOUS
<1> QED
  BY <1>1, <1>2, <1>3, Numbers

LEMMA OneMoreSettled ==
  ASSUME NEW S \in SUBSET Threads, NEW t \in Threads \ S
  PROVE  PerThread * Cardinality(S \cup {t}) = PerThread * Cardinality(S) + PerThread
<1>1. IsFiniteSet(S)
  BY Numbers, FS_Subset
<1>2. Cardinality(S \cup {t}) = Cardinality(S) + 1 /\ Cardinality(S) \in Nat
  BY <1>1, FS_AddElement, FS_CardinalityType
<1>3. \A a, b \in Nat : a * (b + 1) = a * b + a
  OBVIOUS
<1> QED
  BY <1>2, <1>3, Numbers

-----------------------------------------------------------------------------
(* The types, the phases, the end and the lines after an exception.         *)
LEMMA InitStep == Init => StepInv
BY TrainingAssumption
   DEF Init, StepInv, TypeOK, PhaseInv, EndInv, LocalInv, LateInv, Threads, PerThread

(* The caller of startThreads.                                              *)
LEMMA MainStep == StepInv /\ Main => StepInv'
<1> SUFFICES ASSUME StepInv, Main PROVE StepInv'
  OBVIOUS
<1>0. CASE StartThreads
  <2>1. /\ main' = "spawn" /\ next' = 0 /\ tokenCount' = 0 /\ exc' = "none" /\ runs' = runs + 1
        /\ runs < MaxRuns /\ UNCHANGED <<local, seen, rest, outcome, aborts>>
        /\ late' = [t \in Threads |-> 0] /\ pc' = [t \in Threads |-> "none"]
    BY <1>0 DEF StartThreads
  <2>2. TypeOK'
    BY <2>1, TrainingAssumption, Numbers DEF StepInv, TypeOK
  <2>3. \A t \in Threads : ~(t < next') /\ pc'[t] = "none" /\ late'[t] = 0
    BY <2>1 DEF Threads
  <2>4. PhaseInv' /\ EndInv'
    BY <2>1, <2>3 DEF PhaseInv, EndInv
  <2>5. \A t \in Threads : local[t] <= LrUpdateRate \/ pc[t] = "flush"
    BY DEF StepInv, LocalInv
  <2>6. \A t \in Threads : pc[t] # "flush"
    BY <1>0 DEF StartThreads, StepInv, PhaseInv
  <2>7. LocalInv' /\ LateInv'
    BY <2>1, <2>3, <2>5, <2>6 DEF LocalInv, LateInv
  <2> QED
    BY <2>2, <2>4, <2>7 DEF StepInv
<1> USE TrainingAssumption
        DEF StepInv, TypeOK, PhaseInv, EndInv, LocalInv, LateInv, PerThread, keepTraining
<1>2. CASE Spawn
  <2>1. next \in Threads
    BY <1>2 DEF Spawn, Threads
  <2>2. NTokens - (next * NTokens) \div NThreads \in 0 .. NTokens
    BY <2>1, ShareInFile
  <2>3. TypeOK'
    BY <1>2, <2>1, <2>2 DEF Spawn
  <2>4. /\ pc' = [pc EXCEPT ![next] = "check"] /\ next' = next + 1
        /\ main = "spawn" /\ main' = "spawn"
    BY <1>2 DEF Spawn
  <2>5. \A t \in Threads : t < next' <=> pc'[t] # "none"
    <3>1. \A t \in Threads : t < next <=> pc[t] # "none"
      BY <2>4
    <3>2. \A t \in Threads : pc'[t] = IF t = next THEN "check" ELSE pc[t]
      BY <2>1, <2>4
    <3>3. \A t \in Threads : t \in Nat /\ next \in Nat
      BY <2>1 DEF Threads
    <3>4. \A t \in Threads : t < next' <=> t < next \/ t = next
      BY <2>4, <3>3
    <3> QED
      BY <3>1, <3>2, <3>4, Zenon
  <2>6. PhaseInv'
    BY <2>4, <2>5
  <2> QED
    BY <1>2, <2>1, <2>3, <2>6 DEF Spawn
<1>3. CASE Spawned
  BY <1>3 DEF Spawned, Threads
<1>4. CASE Waited
  BY <1>4 DEF Waited, Threads
<1>5. CASE Join
  <2>1. /\ main = "join" /\ main' \in {"join", "raise"} /\ next' \in 0 .. NThreads
        /\ UNCHANGED <<tokenCount, exc, pc, local, seen, rest, outcome, late, aborts, runs>>
    BY <1>5 DEF Join
  <2>2. \/ next' = next + 1 /\ pc[next] = "done" /\ main' = "join"
        \/ next = NThreads /\ next' = next
    BY <1>5 DEF Join
  <2>3. \A t \in Threads : t \in Int /\ t < NThreads
    BY DEF Threads
  <2>4. \A t \in Threads : t < next' => pc[t] = "done"
    <3> SUFFICES ASSUME NEW t \in Threads, t < next' PROVE pc[t] = "done"
      OBVIOUS
    <3>1. t = next \/ t < next
      BY <2>2, <2>3
    <3>2. t = next => pc[t] = "done"
      BY <2>2, <2>3
    <3> QED
      BY <2>1, <3>1, <3>2
  <2>5. main' = "raise" => \A t \in Threads : pc[t] = "done"
    BY <2>2, <2>3, <2>4
  <2>6. TypeOK' /\ LocalInv' /\ LateInv'
    BY <2>1
  <2>7. PhaseInv'
    BY <2>1, <2>4, <2>5
  <2>8. EndInv'
    BY <2>1
  <2> QED
    BY <2>6, <2>7, <2>8
<1>6. CASE Return
  BY <1>6, Numbers DEF Return
<1>7. CASE Rethrow
  BY <1>7 DEF Rethrow
<1>8. CASE ClearException
  BY <1>8 DEF ClearException
<1> QED
  BY <1>0, <1>2, <1>3, <1>4, <1>5, <1>6, <1>7, <1>8 DEF Main

(* A thread that does anything has not been joined.                         *)
LEMMA ThreadsLive ==
  ASSUME StepInv, NEW t \in Threads, pc[t] \notin {"none", "done"}
  PROVE  main \in {"spawn", "wait", "join"} /\ (main = "join" => ~(t < next))
BY DEF StepInv, TypeOK, PhaseInv

LEMMA ThreadStep == StepInv /\ (\E t \in Threads : Thread(t)) => StepInv'
<1> SUFFICES ASSUME StepInv, NEW t \in Threads, Thread(t) PROVE StepInv'
  OBVIOUS
<1>1. pc[t] \notin {"none", "done"}
  BY DEF Thread, Check, Progress, Line, Flush, Catch
<1>2. main \in {"spawn", "wait", "join"} /\ (main = "join" => ~(t < next))
  BY <1>1, ThreadsLive
<1> USE TrainingAssumption
        DEF StepInv, TypeOK, PhaseInv, EndInv, LocalInv, LateInv, PerThread, keepTraining
<1>3. CASE Check(t)
  BY <1>1, <1>2, <1>3 DEF Check
<1>4. CASE Progress(t)
  BY <1>1, <1>2, <1>4 DEF Progress
<1>5. CASE Line(t)
  <2>1. PICK n \in IF rest[t] = 0 THEN {0} ELSE 1 .. MaxLine :
          /\ n <= rest[t]
          /\ rest' = [rest EXCEPT ![t] = IF @ = 0 THEN NTokens ELSE @ - n]
          /\ \/ local' = [local EXCEPT ![t] = @ + n] /\ pc' = [pc EXCEPT ![t] = "flush"]
             \/ pc' = [pc EXCEPT ![t] = "catch"] /\ UNCHANGED local
    BY <1>5 DEF Line
  <2>2. /\ late' = [late EXCEPT ![t] = IF exc = "none" THEN @ ELSE @ + 1]
        /\ UNCHANGED <<tokenCount, exc, seen, main, next, outcome, aborts, runs>>
        /\ pc[t] = "line"
    BY <1>5 DEF Line
  <2>3. n \in 0 .. MaxLine
    OBVIOUS
  <2>4. TypeOK'
    BY <2>1, <2>2, <2>3
  <2>5. PhaseInv' /\ EndInv' /\ LocalInv'
    BY <2>1, <2>2, <1>2
  <2>6. LateInv'
    BY <2>1, <2>2
  <2> QED
    BY <2>4, <2>5, <2>6
<1>6. CASE Flush(t)
  BY <1>1, <1>2, <1>6, Numbers DEF Flush, Flushed
<1>7. CASE Catch(t)
  BY <1>1, <1>2, <1>7 DEF Catch
<1> QED
  BY <1>3, <1>4, <1>5, <1>6, <1>7 DEF Thread

LEMMA AbortStep == StepInv /\ abort => StepInv'
BY TrainingAssumption
   DEF abort, StepInv, TypeOK, PhaseInv, EndInv, LocalInv, LateInv, keepTraining

LEMMA NextStep == StepInv /\ [Next]_vars => StepInv'
<1> SUFFICES ASSUME StepInv, [Next]_vars PROVE StepInv'
  OBVIOUS
<1>1. CASE Next
  BY <1>1, MainStep, ThreadStep, AbortStep DEF Next
<1>2. CASE UNCHANGED vars
  BY <1>2 DEF vars, StepInv, TypeOK, PhaseInv, EndInv, LocalInv, LateInv, keepTraining
<1> QED
  BY <1>1, <1>2

-----------------------------------------------------------------------------
(* The count and what is seen of it.                                        *)
LEMMA InitCount == Init => CountInv
<1> SUFFICES ASSUME Init PROVE CountInv
  OBVIOUS
<1>1. Settled = Threads
  BY DEF Init, Settled
<1>2. NThreads \in Nat /\ NThreads >= 1
  BY TrainingAssumption
<1>3. PerThread * Cardinality(Settled) \in Nat
  BY <1>1, MoreSettled
<1>4. (NThreads - 1) * PerThread \in Nat
  <2>1. \A a, b \in Nat : a * b \in Nat
    OBVIOUS
  <2> QED
    BY <2>1, <1>2, Numbers
<1> QED
  BY <1>3, <1>4, Numbers DEF Init, CountInv

(* A step that leaves the count alone, or takes it below the total, keeps   *)
(* the bound when no thread begins to owe a flush.                          *)
LEMMA CountKept ==
  ASSUME CountInv, TypeOK, TypeOK', UNCHANGED seen,
         \/ tokenCount' = tokenCount /\ Settled \subseteq Settled'
         \/ tokenCount' < Total
  PROVE  CountInv'
<1>1. /\ Settled \in SUBSET Threads /\ Settled' \in SUBSET Threads
  BY DEF Settled
<1>2. tokenCount \in Nat /\ tokenCount' \in Nat
  BY DEF TypeOK
<1>3. /\ PerThread * Cardinality(Settled) \in Nat
      /\ PerThread * Cardinality(Settled') \in Nat
  BY <1>1, MoreSettled
<1>4. tokenCount' < Total + PerThread * Cardinality(Settled')
  <2>1. CASE tokenCount' = tokenCount /\ Settled \subseteq Settled'
    <3>1. PerThread * Cardinality(Settled) <= PerThread * Cardinality(Settled')
      BY <1>1, <2>1, MoreSettled
    <3> QED
      BY <2>1, <3>1, <1>2, <1>3, Numbers DEF CountInv
  <2>2. CASE tokenCount' < Total
    BY <2>2, <1>2, <1>3, Numbers
  <2> QED
    BY <2>1, <2>2
<1> QED
  BY <1>4 DEF CountInv

(* Progress is computed from a count that this thread has not yet added to. *)
LEMMA ProgressCount ==
  ASSUME CountInv, TypeOK, TypeOK', NEW t \in Threads, Progress(t)
  PROVE  CountInv'
<1>1. Settled' = Settled /\ t \notin Settled /\ Settled \in SUBSET Threads
  BY DEF Progress, Settled, TypeOK
<1>2. PerThread * Cardinality(Settled) + PerThread <= PerThread * NThreads
  <2>1. PerThread * Cardinality(Settled \cup {t}) = PerThread * Cardinality(Settled) + PerThread
    BY <1>1, OneMoreSettled
  <2>2. PerThread * Cardinality(Settled \cup {t}) <= PerThread * Cardinality(Threads)
    BY <1>1, MoreSettled
  <2> QED
    BY <2>1, <2>2, Numbers
<1>3. PerThread * NThreads = (NThreads - 1) * PerThread + PerThread
  <2>1. \A a, b \in Nat : b > 0 => a * b = (b - 1) * a + a /\ (b - 1) * a \in Nat
    OBVIOUS
  <2> QED
    BY <2>1, Numbers, TrainingAssumption
<1>4. PerThread * Cardinality(Settled) \in Nat /\ tokenCount \in Nat
  BY <1>1, MoreSettled DEF TypeOK
<1>5. (NThreads - 1) * PerThread \in Int
  <2>1. \A a, b \in Int : a * b \in Int
    OBVIOUS
  <2> QED
    BY <2>1, TrainingAssumption, Numbers
<1>6. PerThread * NThreads \in Int
  BY <1>3, <1>5, Numbers
<1>7. tokenCount < Total + (NThreads - 1) * PerThread
  BY <1>2, <1>3, <1>4, <1>5, <1>6, Numbers DEF CountInv
<1>8. seen' = [seen EXCEPT ![t] = tokenCount] /\ tokenCount' = tokenCount
  BY DEF Progress
<1> QED
  BY <1>1, <1>7, <1>8 DEF CountInv, TypeOK

(* A flush adds at most PerThread, and settles its thread.                  *)
LEMMA FlushCount ==
  ASSUME CountInv, TypeOK, TypeOK', NEW t \in Threads, Flush(t)
  PROVE  CountInv'
<1>1. Settled' = Settled \cup {t} /\ t \notin Settled /\ Settled \in SUBSET Threads
  BY DEF Flush, Settled, TypeOK
<1>2. PerThread * Cardinality(Settled') = PerThread * Cardinality(Settled) + PerThread
  BY <1>1, OneMoreSettled
<1>3. tokenCount' <= tokenCount + PerThread
  <2>1. local[t] \in 0 .. PerThread
    BY DEF TypeOK
  <2>2. tokenCount' \in {tokenCount, tokenCount + local[t]}
    BY DEF Flush
  <2> QED
    BY <2>1, <2>2, Numbers DEF TypeOK
<1>4. PerThread * Cardinality(Settled) \in Nat /\ tokenCount \in Nat /\ tokenCount' \in Nat
  BY <1>1, MoreSettled DEF TypeOK
<1>5. tokenCount' < Total + PerThread * Cardinality(Settled')
  BY <1>2, <1>3, <1>4, Numbers DEF CountInv
<1> QED
  BY <1>5 DEF CountInv, Flush

LEMMA NextCount == StepInv /\ CountInv /\ [Next]_vars => CountInv'
<1> SUFFICES ASSUME StepInv, CountInv, [Next]_vars PROVE CountInv'
  OBVIOUS
<1>1. TypeOK /\ TypeOK'
  BY NextStep DEF StepInv
<1>2. ASSUME Main \/ abort \/ UNCHANGED vars PROVE CountInv'
  <2>1. UNCHANGED seen
    BY <1>2 DEF Main, StartThreads, Spawn, Spawned, Waited, Join, Return, Rethrow,
                ClearException, abort, vars
  <2>2. tokenCount' < Total \/ (tokenCount' = tokenCount /\ Settled \subseteq Settled')
    <3>1. CASE StartThreads
      BY <3>1, Numbers DEF StartThreads
    <3>2. CASE Spawn
      BY <3>2, <1>1 DEF Spawn, Settled, TypeOK
    <3>3. CASE Spawned \/ Waited \/ Join \/ Return \/ Rethrow \/ ClearException \/ abort
               \/ UNCHANGED vars
      BY <3>3 DEF Spawned, Waited, Join, Return, Rethrow, ClearException, abort, vars, Settled
    <3> QED
      BY <1>2, <3>1, <3>2, <3>3 DEF Main
  <2> QED
    BY <1>1, <2>1, <2>2, CountKept
<1>3. ASSUME NEW t \in Threads, Thread(t) PROVE CountInv'
  <2>1. CASE Check(t)
    BY <1>1, <2>1, CountKept DEF Check, Settled, TypeOK, keepTraining
  <2>2. CASE Progress(t)
    BY <1>1, <2>2, ProgressCount
  <2>3. CASE Line(t)
    <3>1. tokenCount' = tokenCount /\ UNCHANGED seen /\ Settled \subseteq Settled'
      BY <2>3, <1>1 DEF Line, Settled, TypeOK
    <3> QED
      BY <1>1, <3>1, CountKept
  <2>4. CASE Flush(t)
    BY <1>1, <2>4, FlushCount
  <2>5. CASE Catch(t)
    BY <1>1, <2>5, CountKept DEF Catch, Settled, TypeOK
  <2> QED
    BY <1>3, <2>1, <2>2, <2>3, <2>4, <2>5 DEF Thread
<1> QED
  BY <1>2, <1>3 DEF Next

-----------------------------------------------------------------------------
(* What the run checks follows.                                             *)
LEMMA InvImplies == Inv => StopsAsAsked
<1> SUFFICES ASSUME Inv PROVE StopsAsAsked
  OBVIOUS
<1>1. tokenCount < Total + NThreads * PerThread
  <2>1. Settled \in SUBSET Threads
    BY DEF Settled
  <2>2. /\ PerThread * Cardinality(Settled) \in Nat
        /\ PerThread * Cardinality(Settled) <= PerThread * NThreads
    BY <2>1, MoreSettled, Numbers
  <2>3. PerThread * NThreads = NThreads * PerThread /\ NThreads * PerThread \in Nat
    <3>1. \A a, b \in Nat : a * b = b * a /\ b * a \in Nat
      OBVIOUS
    <3> QED
      BY <3>1, Numbers, TrainingAssumption
  <2> QED
    BY <2>2, <2>3, Numbers DEF Inv, CountInv, StepInv, TypeOK
<1>2. StopsWithinALine
  BY DEF Inv, StepInv, LateInv, StopsWithinALine
<1>3. AllDoneAtEnd
  BY DEF Inv, StepInv, PhaseInv, EndInv, AllDoneAtEnd
<1> QED
  BY <1>1, <1>2, <1>3 DEF Inv, StepInv, CountInv, StopsAsAsked, OvershootBounded

LEMMA AlwaysInv == Spec => []Inv
<1>1. Init => Inv
  BY InitStep, InitCount DEF Inv
<1>2. Inv /\ [Next]_vars => Inv'
  BY NextStep, NextCount DEF Inv
<1> QED
  BY <1>1, <1>2, PTL DEF Spec

(* For any number of threads, any epochs, file, rate and line: the count    *)
(* overshoots by at most a flush of each thread, a thread stops within a    *)
(* line of an exception, and when startThreads returns no thread is left    *)
(* and a run that ended well trained all epochs                             *)
(* (fasttext.cc:628-630, 643-668, 795-805).                                 *)
THEOREM TrainingStops == Spec => []StopsAsAsked
BY AlwaysInv, InvImplies, PTL

-----------------------------------------------------------------------------
(* The threads as one run: a step of theirs is a step of TrainingRun or     *)
(* none.                                                                    *)
LEMMA RunStep == Inv /\ [Next]_vars => [TR!RunNext]_(TR!runVars)
<1> SUFFICES ASSUME Inv, [Next]_vars PROVE [TR!RunNext]_(TR!runVars)
  OBVIOUS
<1> USE DEF Inv, StepInv, TypeOK, PhaseInv, EndInv, RunView, TR!RunNext, TR!runVars
<1>1. CASE StartThreads
  BY <1>1 DEF StartThreads, TR!Start
<1>2. CASE Spawn \/ Spawned \/ Waited \/ Join
  BY <1>2 DEF Spawn, Spawned, Waited, Join
<1>3. CASE Return
  BY <1>3 DEF Return, TR!EndWell
<1>4. CASE Rethrow
  BY <1>4 DEF Rethrow, TR!EndBadly
<1>5. CASE ClearException
  BY <1>5 DEF ClearException, TR!Clear
<1>6. CASE abort
  BY <1>6 DEF abort, TR!Abort
<1>7. ASSUME NEW t \in Threads, Thread(t) PROVE [TR!RunNext]_(TR!runVars)
  <2>1. CASE Catch(t)
    <3>1. main \in {"spawn", "wait", "join"}
      BY <2>1, ThreadsLive DEF Catch
    <3> QED
      BY <2>1, <3>1 DEF Catch, TR!Diverge
  <2>2. CASE Check(t) \/ Progress(t) \/ Line(t) \/ Flush(t)
    BY <2>2 DEF Check, Progress, Line, Flush
  <2> QED
    BY <1>7, <2>1, <2>2 DEF Thread
<1>8. CASE UNCHANGED vars
  BY <1>8 DEF vars
<1> QED
  BY <1>1, <1>2, <1>3, <1>4, <1>5, <1>6, <1>7, <1>8 DEF Next, Main

(* Whatever the threads, abort and their exceptions do, startThreads begins *)
(* and ends its runs as TrainingRun promises: never well after an exception *)
(* and never with another one than was raised (fasttext.cc:771-816).        *)
THEOREM ThreadsRefineRun == Spec => TR!RunInit /\ [][TR!RunNext]_(TR!runVars)
<1>1. Init => TR!RunInit
  BY DEF Init, TR!RunInit, RunView
<1>2. Inv /\ [Next]_vars => [TR!RunNext]_(TR!runVars)
  BY RunStep
<1> QED
  BY <1>1, <1>2, AlwaysInv, PTL DEF Spec

-----------------------------------------------------------------------------
(* The search: where the tuner's training runs.                              *)
Trains == {"training", "retraining", "againTraining", "againRetraining"}
WhenRunning == run = "running" <=> tuner \in Trains

(* Before startTimer is through, nothing but the timer thread has happened.  *)
QuietStart ==
  tuner \in Starting =>
    /\ ~continue /\ ~elapsedOver /\ timer \notin {"sleep", "raise"}
    /\ handler = "none" /\ raised = "none" /\ scored = {}
TimerMade == timer = "none" <=> tuner = "startTimer"

(* Whoever is about to abort the training has first stopped the search, and *)
(* so has whoever did.                                                      *)
StoppedFirst ==
  timer = "raise" \/ handler = "raise" \/ raised = "abort" => ~continue

(* A timer that has seen the time pass stops the search before it is done.  *)
TimeNoticed ==
  /\ timer \in {"none", "start", "sleep"} => ~elapsedOver
  /\ elapsedOver /\ timer \in {"raise", "done"} => ~continue
JoinedFor == tuner = "join" => ~continue \/ elapsedOver

(* A handler runs on a thread that is there, and that waits for it.         *)
Hosted ==
  handler # "none" =>
    /\ host = "timer" => timer \notin {"none", "done"}
    /\ host = "trainer" => run = "running"

(* After the join nobody is left who would raise.                           *)
SearchStopped == SearchOver => timer = "done" /\ ~continue /\ handler # "raise"

(* Where the tuner, the timer and the handler may be together.              *)
TuneControl ==
  /\ TuneTypeOK /\ WhenRunning /\ QuietStart /\ TimerMade /\ StoppedFirst
  /\ TimeNoticed /\ JoinedFor /\ Hosted /\ SearchStopped /\ FinalUndisturbed

(* The best score is unknown only as long as no trial had one.              *)
NothingScored == tuner \notin Starting /\ bestScore = Unknown => scored = {}
TuneInv == TuneControl /\ BestSoFar /\ NothingScored

(* The search begins in these states ...                                    *)
LEMMA TuneStarts == TuneInit => TuneInv
<1> SUFFICES ASSUME TuneInit PROVE TuneInv
  OBVIOUS
<1>1. /\ run = "idle" /\ raised = "none" /\ tuner = "startTimer" /\ timer = "none"
      /\ handler = "none" /\ host = "main" /\ ~interrupted /\ interrupted \in BOOLEAN /\ bestArgs = Unknown
      /\ scored = {} /\ ~continue /\ ~over /\ ~elapsedOver /\ ~early
      /\ continue \in BOOLEAN /\ over \in BOOLEAN /\ elapsedOver \in BOOLEAN /\ early \in BOOLEAN
  BY DEF TuneInit, RunInit
<1> HIDE DEF TuneInit
<1>2. TuneControl
  BY <1>1, AutotuneAssumption DEF TuneControl, TuneTypeOK, WhenRunning, QuietStart,
    TimerMade, StoppedFirst, TimeNoticed, JoinedFor, Hosted, SearchStopped,
    FinalUndisturbed, Starting, Trains, SearchOver, TunerSteps, Ended
<1> QED
  BY <1>1, <1>2 DEF TuneInv, BestSoFar, NothingScored, Starting

(* ... and every step of the tuner, the timer and the handler stays in the  *)
(* control part ...                                                         *)
LEMMA ControlSteps == TuneControl /\ [TuneNext]_tuneVars => TuneControl'
<1> SUFFICES ASSUME TuneControl, [TuneNext]_tuneVars PROVE TuneControl'
  OBVIOUS
<1> USE AutotuneAssumption DEF TuneControl, TuneTypeOK, WhenRunning, QuietStart, TimerMade, StoppedFirst,
  TimeNoticed, JoinedFor, Hosted, SearchStopped, FinalUndisturbed, Starting, Trains, SearchOver,
  TunerSteps, Ended, TunerAt, TimerAt, On, Alive, keepTuning, Ends, Start, Diverge, Abort, EndWell, EndBadly
<1>1. CASE StartTimer
  BY <1>1 DEF StartTimer
<1>2. CASE SetContinue
  BY <1>2 DEF SetContinue
<1>3. CASE BeginTrial
  BY <1>3 DEF BeginTrial
<1>4. CASE Vocabulary
  BY <1>4 DEF Vocabulary
<1>5. CASE TrialEnds
  BY <1>5 DEF TrialEnds
<1>6. CASE Quantize
  BY <1>6 DEF Quantize
<1>7. CASE RetrainingEnds
  BY <1>7 DEF RetrainingEnds
<1>8. CASE Test
  BY <1>8 DEF Test
<1>9. CASE JoinTimer
  BY <1>9 DEF JoinTimer
<1>10. CASE Choose
  BY <1>10 DEF Choose
<1>11. CASE TrainAgain
  BY <1>11 DEF TrainAgain
<1>12. CASE AgainEnds
  BY <1>12 DEF AgainEnds
<1>13. CASE QuantizeAgain
  BY <1>13 DEF QuantizeAgain
<1>14. CASE AgainRetrainingEnds
  BY <1>14 DEF AgainRetrainingEnds
<1>15. CASE TimePasses
  BY <1>15 DEF TimePasses
<1>16. CASE LossDiverges
  BY <1>16 DEF LossDiverges
<1>17. CASE TimerStarts
  <2>1. TimerAt("start") /\ ~elapsedOver' /\ elapsedOver' \in BOOLEAN /\ early' \in BOOLEAN /\ timer' = "loop"
        /\ UNCHANGED <<run, raised, tuner, handler, host, interrupted, over, bestScore, bestArgs, scored, continue>>
    BY <1>17 DEF TimerStarts
  <2> QED
    BY <2>1
<1>18. CASE TimerChecks
  BY <1>18 DEF TimerChecks
<1>19. CASE TimerSleeps
  <2>1. TimerAt("sleep") /\ elapsedOver' \in BOOLEAN /\ timer' = "loop"
        /\ UNCHANGED <<run, raised, tuner, handler, host, interrupted, over, bestScore, bestArgs, scored, continue, early>>
    BY <1>19 DEF TimerSleeps
  <2> QED
    BY <2>1
<1>20. CASE TimerAborts
  <2>1. TimerAt("abort") /\ ~continue' /\ continue' \in BOOLEAN /\ timer' \in {"raise", "done"} /\ (timer' = "raise" => continue)
        /\ UNCHANGED <<run, raised, tuner, handler, host, interrupted, over, bestScore, bestArgs, scored, elapsedOver, early>>
    BY <1>20 DEF TimerAborts
  <2> QED
    BY <2>1
<1>21. CASE TimerRaises
  BY <1>21 DEF TimerRaises
<1>22. CASE Interrupt
  BY <1>22 DEF Interrupt
<1>23. CASE HandlerAborts
  <2>1. handler = "abort" /\ ~continue' /\ continue' \in BOOLEAN /\ handler' \in {"raise", "none"} /\ (handler' = "raise" => continue)
        /\ UNCHANGED <<run, raised, tuner, timer, host, interrupted, over, elapsedOver,
                       bestScore, bestArgs, scored, early>>
    BY <1>23 DEF HandlerAborts
  <2> QED
    BY <2>1
<1>24. CASE HandlerRaises
  BY <1>24 DEF HandlerRaises
<1>25. CASE Uncaught
  BY <1>25 DEF Uncaught
<1>26. CASE UNCHANGED tuneVars
  BY <1>26 DEF tuneVars
<1> QED
  BY <1>1, <1>2, <1>3, <1>4, <1>5, <1>6, <1>7, <1>8, <1>9, <1>10, <1>11, <1>12, <1>13, <1>14, <1>15, <1>16, <1>17, <1>18, <1>19, <1>20, <1>21, <1>22, <1>23, <1>24, <1>25, <1>26 DEF TuneNext, Tuner, Timer, Handler

(* ... and in all of it: only SetContinue and Test touch the scores.        *)
LEMMA TuneSteps == TuneInv /\ [TuneNext]_tuneVars => TuneInv'
<1> SUFFICES ASSUME TuneInv, [TuneNext]_tuneVars PROVE TuneInv'
  OBVIOUS
<1>1. TuneControl'
  BY ControlSteps DEF TuneInv
<1>2. TuneTypeOK
  BY DEF TuneInv, TuneControl
<1>3. CASE SetContinue
  <2>1. scored = {} /\ scored' = {} /\ bestScore' = Unknown
    BY <1>3 DEF TuneInv, TuneControl, QuietStart, SetContinue, TunerAt, Starting
  <2> QED
    BY <1>1, <2>1, AutotuneAssumption DEF TuneInv, BestSoFar, NothingScored
<1>4. CASE Test
  <2>1. tuner = "test" /\ tuner \notin Starting /\ tuner' = "loop"
    BY <1>4 DEF Test, TunerAt, Starting
  <2>2. PICK s \in Scores \cup {NaN} :
          /\ scored' = scored \cup {s}
          /\ IF Better(s)
             THEN bestScore' = s /\ bestArgs' = s
             ELSE UNCHANGED <<bestScore, bestArgs>>
    BY <1>4 DEF Test
  <2>3. /\ Scores \subseteq Nat /\ NaN \notin Scores /\ Unknown \notin Scores /\ NaN # Unknown
        /\ bestScore \in Scores \cup {NaN, Unknown} /\ scored \subseteq Scores \cup {NaN}
    BY <1>2, <2>1, AutotuneAssumption DEF TuneTypeOK
  <2>4. /\ bestScore = Unknown => scored = {}
        /\ bestScore \in Scores =>
             bestArgs = bestScore /\ \A x \in scored \ {NaN} : x <= bestScore
    BY <2>1 DEF TuneInv, BestSoFar, NothingScored
  <2>5. NothingScored'
    BY <2>2, <2>3 DEF NothingScored, Better
  <2>6. CASE Better(s)
    BY <2>2, <2>3, <2>4, <2>6, <2>5, <1>1 DEF TuneInv, BestSoFar, Better
  <2>7. CASE ~Better(s)
    <3>1. UNCHANGED <<bestScore, bestArgs>>
      BY <2>2, <2>7
    <3>2. bestScore \in Scores => s = NaN \/ s <= bestScore
      BY <2>3, <2>7 DEF Better
    <3>3. BestSoFar'
      BY <2>2, <2>4, <3>1, <3>2 DEF BestSoFar
    <3> QED
      BY <3>3, <2>5, <1>1 DEF TuneInv
  <2> QED
    BY <2>6, <2>7
<1>5. CASE ~SetContinue /\ ~Test
  <2>1. UNCHANGED <<bestScore, bestArgs, scored>> /\ (tuner' \notin Starting => tuner \notin Starting)
    BY <1>5 DEF TuneNext, Tuner, Timer, Handler, tuneVars, Starting, TunerAt,
      StartTimer, BeginTrial, Vocabulary, TrialEnds, Quantize, RetrainingEnds, JoinTimer,
      Choose, TrainAgain, AgainEnds, QuantizeAgain, AgainRetrainingEnds, TimePasses,
      Uncaught, LossDiverges, TimerStarts, TimerChecks, TimerSleeps, TimerAborts, TimerRaises,
      Interrupt, HandlerAborts, HandlerRaises
  <2> QED
    BY <1>1, <2>1 DEF TuneInv, BestSoFar, NothingScored
<1> QED
  BY <1>3, <1>4, <1>5

(* The search keeps the best of any scores, and its final training is never *)
(* aborted, by the timer or an interrupt (autotune.cc:254-259, 422-426,     *)
(* 450-452, 472).                                                           *)
THEOREM KeepsBest == TuneSpec => []BestKept
<1>1. TuneInv => BestKept
  BY DEF TuneInv, TuneControl, BestKept
<1> QED
  BY <1>1, TuneStarts, TuneSteps, PTL DEF TuneSpec

-----------------------------------------------------------------------------
(* A set of positions has a first.                                          *)
LEMMA LeastNat ==
  ASSUME NEW T \in SUBSET Nat, T # {}
  PROVE  \E x \in T : \A y \in T : x <= y
<1>1. PICK x \in T : \A y \in T : ~(<<y, x>> \in OpToRel(<, Nat))
  BY NatLessThanWellFounded, WFMin
<1>2. \A y \in T : ~(y < x)
  BY <1>1 DEF OpToRel
<1> QED
  BY <1>2

(* A text of MaxLen characters at most, and the position behind it.         *)
LEMMA TextIs ==
  ASSUME text \in Lines
  PROVE  /\ Len(text) \in 0 .. MaxLen /\ text \in [1 .. Len(text) -> Chars]
         /\ End \in Nat \ {0} /\ End = Len(text) + 1
<1>1. PICK n \in 0 .. MaxLen : text \in [1 .. n -> Chars]
  BY DEF Lines
<1>2. n \in Nat
  BY LineReadingAssumption
<1>3. text \in Seq(Chars)
  BY <1>1, <1>2
<1>4. Len(text) = n
  BY <1>1, <1>2, <1>3
<1> QED
  BY <1>1, <1>2, <1>4, LineReadingAssumption DEF End

(* First finds the first position.                                          *)
LEMMA FirstIs ==
  ASSUME text \in Lines, NEW p \in 1 .. End, NEW cs
  PROVE  /\ First(p, cs) \in p .. End
         /\ First(p, cs) # End => text[First(p, cs)] \in cs
         /\ \A i \in p .. First(p, cs) - 1 : text[i] \notin cs
<1>0. Len(text) \in Nat /\ End = Len(text) + 1 /\ p \in Nat /\ p >= 1
  BY TextIs, LineReadingAssumption
<1>1. CASE \E q \in p .. Len(text) : text[q] \in cs
  <2> DEFINE T == {q \in p .. Len(text) : text[q] \in cs}
  <2>1. PICK x \in T : \A y \in T : x <= y
    <3>1. T \in SUBSET Nat /\ T # {}
      BY <1>0, <1>1
    <3> HIDE DEF T
    <3> QED
      BY <3>1, LeastNat
  <2>2. x \in p .. Len(text) /\ text[x] \in cs /\ \A i \in p .. x - 1 : text[i] \notin cs
    BY <2>1, <1>0
  <2>3. /\ First(p, cs) \in p .. Len(text) /\ text[First(p, cs)] \in cs
        /\ \A i \in p .. First(p, cs) - 1 : text[i] \notin cs
    BY <1>1, <2>2 DEF First
  <2> QED
    BY <2>3, <1>0
<1>2. CASE ~\E q \in p .. Len(text) : text[q] \in cs
  <2>1. First(p, cs) = End
    BY <1>2 DEF First
  <2> QED
    BY <2>1, <1>2, <1>0
<1> QED
  BY <1>1, <1>2

(* The only one that is first.                                              *)
LEMMA FirstOnly ==
  ASSUME text \in Lines, NEW p \in 1 .. End, NEW cs, NEW f \in p .. End,
         f # End => text[f] \in cs, \A i \in p .. f - 1 : text[i] \notin cs
  PROVE  First(p, cs) = f
<1>0. Len(text) \in Nat /\ End = Len(text) + 1 /\ p \in Nat
  BY TextIs, LineReadingAssumption
<1>1. PICK g \in p .. End : /\ g = First(p, cs) /\ (g # End => text[g] \in cs)
                            /\ \A i \in p .. g - 1 : text[i] \notin cs
  BY FirstIs
<1>2. ~(f < g) /\ ~(g < f)
  BY <1>0, <1>1
<1> QED
  BY <1>0, <1>1, <1>2

(* What readWord finds: nothing but blanks, a newline behind blanks, or a   *)
(* word behind blanks and what ends it.                                     *)
Blanks(p, q) == \A i \in p .. q - 1 : text[i] = " "
LineAt(p, q) == p <= q /\ q < End /\ text[q] = "n" /\ Blanks(p, q)
WordAt(p, q, z, e) ==
  /\ p <= q /\ q <= z /\ z < End /\ Blanks(p, q) /\ \A i \in q .. z : text[i] \in Letters
  /\ \/ e = z + 1 /\ (e = End \/ (e < End /\ text[e] = "n"))
     \/ e = z + 2 /\ z + 1 < End /\ text[z + 1] = " "

(* What ReadWord answers, with and without a token.                         *)
Found(x, y, e, last) == [ok |-> TRUE, token |-> <<x, y>>, pos |-> e, eof |-> last]
NotFound(x) == [ok |-> FALSE, token |-> x, pos |-> End, eof |-> TRUE]

(* readWord (dictionary.cc:208-232) by its three outcomes.                  *)
LEMMA WordIs ==
  ASSUME text \in Lines, NEW p \in 1 .. End
  PROVE  \/ Blanks(p, End) /\ \E x : ReadWord(p) = NotFound(x)
         \/ \E q \in Nat : LineAt(p, q) /\ ReadWord(p) = Found(q, q, q + 1, FALSE)
         \/ \E q, z, e \in Nat : WordAt(p, q, z, e) /\ ReadWord(p) = Found(q, z, e, e = End /\ z + 1 = End)
<1>0. /\ Len(text) \in Nat /\ End = Len(text) + 1 /\ p \in Nat /\ p >= 1
      /\ \A i \in 1 .. Len(text) : text[i] \in Chars
  BY TextIs, LineReadingAssumption
<1>1. PICK q \in p .. End :
         /\ q = First(p, Chars \ {" "}) /\ (q # End => text[q] \in Chars \ {" "})
         /\ \A i \in p .. q - 1 : text[i] \notin Chars \ {" "}
  BY FirstIs
<1>2. q \in 1 .. End /\ q \in Nat
  BY <1>0
<1>3. PICK r \in q .. End :
         /\ r = First(q, Chars \ Letters) /\ (r # End => text[r] \in Chars \ Letters)
         /\ \A i \in q .. r - 1 : text[i] \notin Chars \ Letters
  BY <1>2, FirstIs
<1>4. Blanks(p, q)
  <2>1. ASSUME NEW i \in p .. q - 1 PROVE text[i] = " "
    <3>1. i \in 1 .. Len(text)
      BY <1>0, <1>2
    <3>2. text[i] \in Chars /\ text[i] \notin Chars \ {" "}
      BY <3>1, <1>0, <1>1
    <3> QED
      BY <3>2
  <2> QED
    BY <2>1 DEF Blanks
<1>5. ReadWord(p) =
         IF q = End THEN [ok |-> FALSE, token |-> <<q, q>>, pos |-> End, eof |-> TRUE]
         ELSE IF text[q] = "n"
         THEN [ok |-> TRUE, token |-> <<q, q>>, pos |-> q + 1, eof |-> FALSE]
         ELSE [ok |-> TRUE, token |-> <<q, r - 1>>,
               pos |-> IF r = End \/ text[r] = "n" THEN r ELSE r + 1, eof |-> r = End]
  BY <1>1, <1>3 DEF ReadWord
<1>6. CASE q = End
  <2>1. ReadWord(p) = NotFound(<<q, q>>)
    BY <1>5, <1>6 DEF NotFound
  <2> QED
    BY <2>1, <1>4, <1>6
<1>7. CASE q # End /\ text[q] = "n"
  <2>1. ReadWord(p) = Found(q, q, q + 1, FALSE)
    BY <1>5, <1>7 DEF Found
  <2>2. LineAt(p, q)
    BY <1>0, <1>2, <1>4, <1>7 DEF LineAt
  <2> QED
    BY <2>1, <2>2, <1>2
<1>8. CASE q # End /\ text[q] # "n"
  <2>1. text[q] \in Letters
    BY <1>1, <1>8 DEF Chars, Letters
  <2>2. r > q /\ \A i \in q .. r - 1 : text[i] \in Letters
    <3>1. r # q
      BY <2>1, <1>3, <1>8
    <3>2. ASSUME NEW i \in q .. r - 1 PROVE text[i] \in Letters
      <4>1. i \in 1 .. Len(text)
        BY <1>0, <1>2
      <4> QED
        BY <4>1, <1>0, <1>3
    <3> QED
      BY <3>1, <3>2, <1>2, <1>3
  <2>3. r # End => text[r] = " " \/ text[r] = "n"
    BY <1>3 DEF Chars, Letters
  <2>4. PICK z \in Nat : z = r - 1
    BY <2>2, <1>0, <1>2
  <2>5. z + 1 = r /\ p <= q /\ q <= z /\ z < End /\ (r # End => r < End) /\ r \in Nat /\ r + 1 \in Nat
    BY <2>4, <2>2, <1>0, <1>2
  <2>6. \A i \in q .. z : text[i] \in Letters
    BY <2>2, <2>4
  <2>7. CASE r = End \/ text[r] = "n"
    <3>1. ReadWord(p) = Found(q, z, r, r = End /\ z + 1 = End)
      <4>1. (r = End) = (r = End /\ z + 1 = End)
        BY <2>5
      <4>2. ReadWord(p) = [ok |-> TRUE, token |-> <<q, z>>, pos |-> r, eof |-> r = End]
        BY <1>5, <1>8, <2>4, <2>7
      <4> QED
        BY <4>1, <4>2 DEF Found
    <3>2. WordAt(p, q, z, r)
      BY <1>4, <2>5, <2>6, <2>7 DEF WordAt
    <3> QED
      BY <3>1, <3>2, <2>5, <1>2
  <2>8. CASE r # End /\ text[r] = " "
    <3>1. ReadWord(p) = Found(q, z, r + 1, r + 1 = End /\ z + 1 = End)
      <4>1. (r = End) = (r + 1 = End /\ z + 1 = End) /\ text[r] # "n"
        BY <2>5, <2>8
      <4>2. ReadWord(p) = [ok |-> TRUE, token |-> <<q, z>>, pos |-> r + 1, eof |-> r = End]
        BY <4>1, <1>5, <1>8, <2>4, <2>8
      <4> QED
        BY <4>1, <4>2 DEF Found
    <3>2. r + 1 = z + 2
      BY <2>5
    <3>3. WordAt(p, q, z, r + 1)
      BY <3>2, <1>4, <2>5, <2>6, <2>8 DEF WordAt
    <3> QED
      BY <3>1, <3>3, <2>5, <1>2
  <2> QED
    BY <2>3, <2>7, <2>8
<1> QED
  BY <1>6, <1>7, <1>8

(* A position from which the tokens that begin at a can be read on: none of *)
(* them is cut there.                                                       *)
Between(a, p) ==
  /\ a \in 1 .. End /\ p \in a .. End
  /\ p = a \/ p = End \/ text[p - 1] \notin Letters \/ text[p] \notin Letters

(* The tokens that end before p.                                            *)
Read(a, p) == {t \in TokensFrom(a) : t[2] < p}

(* A token by its two ends.                                                 *)
RunOf(a, x, y) ==
  /\ a <= x /\ x <= y /\ y < End /\ \A i \in x .. y : text[i] \in Letters
  /\ x = a \/ text[x - 1] \notin Letters
  /\ y + 1 = End \/ text[y + 1] \notin Letters
(* A token that is a newline.                                               *)
LineOf(a, x) == a <= x /\ x < End /\ text[x] = "n"

(* The tokens are these two and no others.                                  *)
LEMMA TokenIs ==
  ASSUME text \in Lines, NEW a \in 1 .. End
  PROVE  /\ \A t \in TokensFrom(a) :
              /\ t[1] \in Nat /\ t[2] \in Nat /\ t = <<t[1], t[2]>>
              /\ (t[1] = t[2] /\ LineOf(a, t[1])) \/ RunOf(a, t[1], t[2])
         /\ \A x \in Nat : LineOf(a, x) => <<x, x>> \in TokensFrom(a)
         /\ \A x, y \in Nat : RunOf(a, x, y) => <<x, y>> \in TokensFrom(a)
<1>0. Len(text) \in Nat /\ End = Len(text) + 1 /\ a \in Nat /\ a >= 1
  BY TextIs, LineReadingAssumption
<1>1. ASSUME NEW t \in TokensFrom(a)
      PROVE  /\ t[1] \in Nat /\ t[2] \in Nat /\ t = <<t[1], t[2]>>
             /\ (t[1] = t[2] /\ LineOf(a, t[1])) \/ RunOf(a, t[1], t[2])
  <2>1. PICK x \in a .. Len(text), y \in a .. Len(text) : t = <<x, y>>
    BY <1>1 DEF TokensFrom
  <2>2. \/ x = y /\ text[x] = "n"
        \/ /\ x <= y /\ \A i \in x .. y : text[i] \in Letters
           /\ x = a \/ text[x - 1] \notin Letters
           /\ y = Len(text) \/ text[y + 1] \notin Letters
    BY <1>1, <2>1 DEF TokensFrom
  <2>3. x \in Nat /\ y \in Nat /\ a <= x /\ a <= y /\ x < End /\ y < End /\ (y = Len(text) <=> y + 1 = End)
    BY <1>0
  <2> QED
    BY <2>1, <2>2, <2>3 DEF LineOf, RunOf
<1>2. ASSUME NEW x \in Nat, LineOf(a, x) PROVE <<x, x>> \in TokensFrom(a)
  <2>1. x \in a .. Len(text) /\ text[x] = "n"
    BY <1>0, <1>2 DEF LineOf
  <2> QED
    BY <2>1 DEF TokensFrom
<1>3. ASSUME NEW x \in Nat, NEW y \in Nat, RunOf(a, x, y) PROVE <<x, y>> \in TokensFrom(a)
  <2>1. x \in a .. Len(text) /\ y \in a .. Len(text) /\ (y + 1 = End <=> y = Len(text))
    BY <1>0, <1>3 DEF RunOf
  <2> QED
    BY <1>3, <2>1 DEF TokensFrom, RunOf
<1> QED
  BY <1>1, <1>2, <1>3

(* Nothing has been read at the beginning, all at the end.                  *)
LEMMA ReadEnds ==
  ASSUME text \in Lines, NEW a \in 1 .. End
  PROVE  Read(a, a) = {} /\ Read(a, End) = TokensFrom(a)
<1>0. End \in Nat /\ a \in Nat
  BY TextIs
<1>1. ASSUME NEW t \in TokensFrom(a) PROVE ~(t[2] < a) /\ t[2] < End
  <2>1. PICK x \in Nat, y \in Nat : x = t[1] /\ y = t[2] /\ ((x = y /\ LineOf(a, x)) \/ RunOf(a, x, y))
    BY TokenIs
  <2> QED
    BY <1>0, <2>1 DEF LineOf, RunOf
<1> QED
  BY <1>1 DEF Read

(* readWord reads one token and nothing else.                               *)
LEMMA ReadNewLine ==
  ASSUME text \in Lines, NEW a, NEW p, Between(a, p), NEW q \in Nat, LineAt(p, q)
  PROVE  Between(a, q + 1) /\ Read(a, q + 1) = Read(a, p) \cup {<<q, q>>}
<1>0. /\ End \in Nat /\ a \in 1 .. End /\ p \in a .. End /\ a \in Nat /\ p \in Nat /\ q \in Nat
      /\ a >= 1 /\ a <= p /\ p <= q /\ q < End
      /\ text[q] = "n" /\ Blanks(p, q)
  BY TextIs DEF Between, LineAt
<1>1. "n" \notin Letters /\ " " \notin Letters /\ "n" # " "
  BY DEF Letters
<1>2. Between(a, q + 1)
  <2>1. q + 1 \in a .. End /\ (q + 1) - 1 = q
    BY <1>0
  <2> QED
    BY <1>0, <1>1, <2>1 DEF Between
<1>3. <<q, q>> \in TokensFrom(a)
  <2>1. LineOf(a, q)
    BY <1>0 DEF LineOf
  <2> QED
    BY <2>1, <1>0, TokenIs
<1>4. ASSUME NEW t \in TokensFrom(a), t[2] < q + 1, ~(t[2] < p) PROVE t = <<q, q>>
  <2>1. PICK x \in Nat, y \in Nat : t = <<x, y>> /\ x = t[1] /\ y = t[2]
                                    /\ ((x = y /\ LineOf(a, x)) \/ RunOf(a, x, y))
    BY <1>0, TokenIs
  <2>2. y \in p .. q /\ (y # q => text[y] = " ")
    <3>1. ~(y < p) /\ y < q + 1
      BY <1>4, <2>1
    <3>2. y \in p .. q /\ (y # q => y \in p .. q - 1)
      BY <3>1, <1>0
    <3> QED
      BY <3>2, <1>0 DEF Blanks
  <2>3. CASE x = y /\ LineOf(a, x)
    BY <2>1, <2>2, <2>3, <1>1 DEF LineOf
  <2>4. CASE RunOf(a, x, y)
    <3>1. text[y] \in Letters
      BY <2>4 DEF RunOf
    <3> QED
      BY <3>1, <2>2, <1>0, <1>1
  <2> QED
    BY <2>1, <2>3, <2>4
<1>5. ASSUME NEW t \in TokensFrom(a), t[2] < p PROVE t[2] < q + 1
  <2>1. t[2] \in Nat
    BY <1>0, TokenIs
  <2> QED
    BY <2>1, <1>0, <1>5
<1>6. Read(a, q + 1) = Read(a, p) \cup {<<q, q>>}
  <2>1. <<q, q>>[2] < q + 1
    BY <1>0
  <2> QED
    BY <2>1, <1>3, <1>4, <1>5 DEF Read
<1> QED
  BY <1>2, <1>6

(* The same of a word: it is the whole run of letters, and the only one.    *)
LEMMA ReadRun ==
  ASSUME text \in Lines, NEW a, NEW p, Between(a, p), NEW q \in Nat, NEW z \in Nat, NEW e \in Nat,
         WordAt(p, q, z, e)
  PROVE  Between(a, e) /\ Read(a, e) = Read(a, p) \cup {<<q, z>>}
<1>0. /\ End \in Nat /\ a \in 1 .. End /\ p \in a .. End
      /\ a \in Nat /\ p \in Nat /\ q \in Nat /\ z \in Nat
      /\ a >= 1 /\ a <= p /\ p <= q /\ q <= z /\ z < End
      /\ Blanks(p, q) /\ \A i \in q .. z : text[i] \in Letters
  <2>1. End \in Nat /\ a \in 1 .. End /\ p \in a .. End
    BY TextIs DEF Between
  <2>2. /\ p <= q /\ q <= z /\ z < End
        /\ Blanks(p, q) /\ \A i \in q .. z : text[i] \in Letters
    BY DEF WordAt
  <2>3. a \in Nat /\ p \in Nat /\ a >= 1 /\ a <= p
    BY <2>1
  <2> QED
    BY <2>1, <2>2, <2>3
<1>1. "n" \notin Letters /\ " " \notin Letters /\ "n" # " "
  BY DEF Letters
<1>2. /\ e \in a .. End /\ z < e
      /\ \/ e = z + 1 /\ (e = End \/ (e < End /\ text[e] = "n"))
         \/ e = z + 2 /\ z + 1 < End /\ text[z + 1] = " "
  <2>1. \/ e = z + 1 /\ (e = End \/ (e < End /\ text[e] = "n"))
        \/ e = z + 2 /\ z + 1 < End /\ text[z + 1] = " "
    BY DEF WordAt
  <2>2. e = z + 1 \/ (e = z + 2 /\ z + 1 < End)
    BY <2>1
  <2>3. e \in a .. End /\ z < e
    BY <2>2, <1>0
  <2> QED
    BY <2>1, <2>3
<1>3. Between(a, e)
  <2>1. (z + 2) - 1 = z + 1
    BY <1>0
  <2> QED
    BY <1>0, <1>1, <1>2, <2>1 DEF Between
<1>4. q - 1 >= p => text[q - 1] = " "
  <2>1. q - 1 >= p => q - 1 \in p .. q - 1
    BY <1>0
  <2> QED
    BY <2>1, <1>0 DEF Blanks
<1>5. p # a /\ q = p => text[p - 1] \notin Letters
  <2>1. q = p => text[p] \in Letters /\ p # End
    BY <1>0
  <2> QED
    BY <2>1 DEF Between
<1>6. <<q, z>> \in TokensFrom(a)
  <2>1. q = a \/ text[q - 1] \notin Letters
    <3>1. CASE q = p
      BY <3>1, <1>5
    <3>2. CASE q # p
      <4>1. q - 1 >= p
        BY <1>0, <3>2
      <4> QED
        BY <4>1, <1>1, <1>4
    <3> QED
      BY <3>1, <3>2
  <2>2. z + 1 = End \/ text[z + 1] \notin Letters
    BY <1>1, <1>2
  <2>3. RunOf(a, q, z)
    BY <1>0, <2>1, <2>2 DEF RunOf
  <2> QED
    BY <2>3, <1>0, TokenIs
<1>7. ASSUME NEW t \in TokensFrom(a), t[2] < e, ~(t[2] < p) PROVE t = <<q, z>>
  <2>1. PICK x \in Nat, y \in Nat : t = <<x, y>> /\ x = t[1] /\ y = t[2]
                                    /\ ((x = y /\ LineOf(a, x)) \/ RunOf(a, x, y))
    BY <1>0, TokenIs
  <2>2. /\ p <= y /\ y < e
        /\ y < q => text[y] = " "
        /\ q <= y /\ y <= z => text[y] \in Letters
        /\ y > z => text[y] = " "
    <3>1. p <= y /\ y < e
      <4>1. y < e /\ ~(y < p)
        BY <1>7, <2>1
      <4> QED
        BY <4>1, <1>0
    <3>2. y < q => y \in p .. q - 1
      BY <3>1, <1>0
    <3>3. q <= y /\ y <= z => y \in q .. z
      BY <1>0
    <3>4. y > z => y = z + 1 /\ text[z + 1] = " "
      <4>1. e = z + 1 \/ e = z + 2
        BY <1>2
      <4>2. e # z + 1 => text[z + 1] = " "
        BY <1>2
      <4>3. y > z => y = z + 1 /\ e # z + 1
        BY <4>1, <3>1, <1>0
      <4> QED
        BY <4>2, <4>3
    <3> QED
      BY <3>1, <3>2, <3>3, <3>4, <1>0 DEF Blanks
  <2>3. CASE x = y /\ LineOf(a, x)
    <3>1. text[y] = "n"
      BY <2>3 DEF LineOf
    <3>2. ~(y < q) /\ ~(y > z)
      BY <3>1, <2>2, <1>1
    <3>3. q <= y /\ y <= z
      BY <3>2, <1>0
    <3> QED
      BY <3>1, <3>3, <2>2, <1>1
  <2>4. CASE RunOf(a, x, y)
    <3>1. /\ a <= x /\ x <= y /\ \A i \in x .. y : text[i] \in Letters
          /\ x = a \/ text[x - 1] \notin Letters
          /\ y + 1 = End \/ text[y + 1] \notin Letters
      BY <2>4 DEF RunOf
    <3>2. q <= y /\ y <= z
      <4>1. text[y] \in Letters
        BY <3>1
      <4>2. ~(y < q) /\ ~(y > z)
        BY <4>1, <2>2, <1>1
      <4> QED
        BY <4>2, <1>0
    <3>3. y = z
      <4>1. y < z => y + 1 \in q .. z /\ y + 1 # End
        BY <3>2, <1>0
      <4>2. ~(y < z)
        BY <4>1, <3>1, <1>0
      <4> QED
        BY <4>2, <3>2, <1>0
    <3>4. ~(x > q)
      <4>1. x > q => x - 1 \in q .. z /\ x # a
        BY <3>1, <3>2, <1>0
      <4> QED
        BY <4>1, <3>1, <1>0
    <3>5. ~(x < q)
      <4>1. SUFFICES ASSUME x < q PROVE FALSE
        OBVIOUS
      <4>2. q - 1 \in x .. y /\ text[q - 1] \in Letters
        BY <4>1, <3>1, <3>2, <1>0
      <4>3. q = p
        <5>1. ~(q - 1 >= p)
          BY <4>2, <1>1, <1>4
        <5> QED
          BY <5>1, <1>0
      <4>4. p # a
        BY <4>1, <4>3, <3>1, <1>0
      <4> QED
        BY <4>2, <4>3, <4>4, <1>5
    <3>6. x = q
      BY <3>4, <3>5, <1>0
    <3> QED
      BY <3>3, <3>6, <2>1
  <2> QED
    BY <2>1, <2>3, <2>4
<1>8. ASSUME NEW t \in TokensFrom(a), t[2] < p PROVE t[2] < e
  <2>1. t[2] \in Nat
    BY <1>0, TokenIs
  <2>2. p < e
    <3>1. z < e
      BY <1>2
    <3> QED
      BY <3>1, <1>0
  <2> QED
    BY <2>1, <2>2, <1>0, <1>8
<1>9. Read(a, e) = Read(a, p) \cup {<<q, z>>}
  <2>1. <<q, z>>[2] < e
    BY <1>0, <1>2
  <2> QED
    BY <2>1, <1>6, <1>7, <1>8 DEF Read
<1> QED
  BY <1>3, <1>9

(* Nor does it miss one at the end.                                         *)
LEMMA ReadNothing ==
  ASSUME text \in Lines, NEW a, NEW p, Between(a, p), Blanks(p, End)
  PROVE  Between(a, End) /\ Read(a, End) = Read(a, p)
<1>0. /\ End \in Nat /\ a \in 1 .. End /\ p \in a .. End /\ a \in Nat /\ p \in Nat
      /\ a >= 1 /\ a <= p /\ p <= End
  BY TextIs DEF Between
<1>1. "n" \notin Letters /\ " " \notin Letters /\ "n" # " "
  BY DEF Letters
<1>2. ASSUME NEW t \in TokensFrom(a) PROVE t[2] < p /\ t[2] < End
  <2>1. PICK x \in Nat, y \in Nat : t = <<x, y>> /\ x = t[1] /\ y = t[2]
                                    /\ ((x = y /\ LineOf(a, x)) \/ RunOf(a, x, y))
    BY <1>0, TokenIs
  <2>2. y < End /\ (text[y] = "n" \/ text[y] \in Letters)
    BY <2>1 DEF LineOf, RunOf
  <2>3. y >= p => text[y] = " "
    <3>1. y >= p => y \in p .. End - 1
      BY <2>2, <1>0
    <3> QED
      BY <3>1 DEF Blanks
  <2>4. ~(y >= p)
    BY <2>2, <2>3, <1>1
  <2>5. y < p
    BY <2>4, <1>0
  <2> QED
    BY <2>1, <2>2, <2>5
<1> QED
  BY <1>0, <1>2 DEF Read, Between

-----------------------------------------------------------------------------
(* No line ends from a up to p.                                             *)
NoNewline(a, p) == \A i \in a .. p - 1 : text[i] # "n"

(* Two stretches without a newline are one.                                 *)
LEMMA NoNewlineOn ==
  ASSUME NEW a \in Nat, NEW p \in Nat, NEW e \in Int, NoNewline(a, p), NoNewline(p, e)
  PROVE  NoNewline(a, e)
<1>1. ASSUME NEW i \in a .. e - 1 PROVE i \in a .. p - 1 \/ i \in p .. e - 1
  OBVIOUS
<1> QED
  BY <1>1 DEF NoNewline

(* One call of readWord, whatever it finds.                                 *)
Reads(p, x, y, e) ==
  /\ p <= x /\ x <= y /\ y < e /\ e <= End
  /\ NoNewline(p, y)
  /\ \/ text[x] = "n" /\ x = y /\ e = y + 1
     \/ text[x] # "n" /\ NoNewline(p, e)
  /\ \A a : Between(a, p) => Between(a, e) /\ Read(a, e) = Read(a, p) \cup {<<x, y>>}

(* readWord either reaches the end with nothing left to read, or reads one  *)
(* token as Reads says.                                                     *)
LEMMA ReadStep ==
  ASSUME text \in Lines, NEW p \in 1 .. End
  PROVE  \/ /\ ~ReadWord(p).ok /\ ReadWord(p).pos = End /\ ReadWord(p).eof = TRUE
            /\ NoNewline(p, End)
            /\ \A a : Between(a, p) => Between(a, End) /\ Read(a, End) = Read(a, p)
         \/ /\ ReadWord(p).ok /\ ReadWord(p).eof \in BOOLEAN
            /\ \E x, y, e \in Nat : /\ ReadWord(p).token = <<x, y>> /\ ReadWord(p).pos = e
                                    /\ Reads(p, x, y, e)
<1>0. End \in Nat /\ p \in Nat /\ p <= End
  BY TextIs
<1>1. "n" \notin Letters /\ " " # "n"
  BY DEF Letters
<1>2. CASE Blanks(p, End) /\ \E x : ReadWord(p) = NotFound(x)
  <2>1. ~ReadWord(p).ok /\ ReadWord(p).pos = End /\ ReadWord(p).eof = TRUE
    BY <1>2 DEF NotFound
  <2>2. NoNewline(p, End)
    BY <1>1, <1>2 DEF NoNewline, Blanks
  <2>3. \A a : Between(a, p) => Between(a, End) /\ Read(a, End) = Read(a, p)
    BY <1>2, ReadNothing
  <2> QED
    BY <2>1, <2>2, <2>3
<1>3. CASE \E q \in Nat : LineAt(p, q) /\ ReadWord(p) = Found(q, q, q + 1, FALSE)
  <2>1. PICK q \in Nat : LineAt(p, q) /\ ReadWord(p) = Found(q, q, q + 1, FALSE)
    BY <1>3
  <2>2. PICK e \in Nat : e = q + 1
    OBVIOUS
  <2>3. ReadWord(p) = [ok |-> TRUE, token |-> <<q, q>>, pos |-> e, eof |-> FALSE]
    BY <2>1, <2>2 DEF Found
  <2>4. p <= q /\ q < End /\ text[q] = "n" /\ Blanks(p, q)
    BY <2>1 DEF LineAt
  <2>5. p <= q /\ q <= q /\ q < e /\ e <= End
    BY <2>2, <2>4, <1>0
  <2>6. NoNewline(p, q)
    BY <2>4, <1>1 DEF NoNewline, Blanks
  <2>7. \A a : Between(a, p) => Between(a, e) /\ Read(a, e) = Read(a, p) \cup {<<q, q>>}
    BY <2>1, <2>2, ReadNewLine
  <2>8. Reads(p, q, q, e)
    BY <2>2, <2>4, <2>5, <2>6, <2>7 DEF Reads
  <2> QED
    BY <2>3, <2>8
<1>4. CASE \E q, z, e \in Nat : WordAt(p, q, z, e) /\ ReadWord(p) = Found(q, z, e, e = End /\ z + 1 = End)
  <2>1. PICK q \in Nat, z \in Nat, e \in Nat :
           WordAt(p, q, z, e) /\ ReadWord(p) = Found(q, z, e, e = End /\ z + 1 = End)
    BY <1>4
  <2>2. ReadWord(p) = [ok |-> TRUE, token |-> <<q, z>>, pos |-> e, eof |-> e = End /\ z + 1 = End]
    BY <2>1 DEF Found
  <2>3. p <= q /\ q <= z /\ z < End /\ Blanks(p, q) /\ \A i \in q .. z : text[i] \in Letters
    BY <2>1 DEF WordAt
  <2>4. e = z + 1 \/ (e = z + 2 /\ z + 1 < End)
    BY <2>1 DEF WordAt
  <2>5. z < e /\ e <= End
    BY <2>3, <2>4, <1>0
  <2>6. e = z + 2 => text[z + 1] = " "
    <3>1. z + 2 # z + 1
      OBVIOUS
    <3> QED
      BY <3>1, <2>1 DEF WordAt
  <2>7. NoNewline(p, e)
    <3>1. ASSUME NEW i \in p .. e - 1 PROVE text[i] # "n"
      <4>1. i \in p .. q - 1 \/ i \in q .. z \/ (i = z + 1 /\ e = z + 2)
        BY <2>3, <2>4, <1>0
      <4> QED
        BY <4>1, <2>3, <2>6, <1>1 DEF Blanks
    <3> QED
      BY <3>1 DEF NoNewline
  <2>8. NoNewline(p, z)
    <3>1. \A i \in p .. z - 1 : i \in p .. e - 1
      BY <2>5, <1>0
    <3> QED
      BY <3>1, <2>7 DEF NoNewline
  <2>9. text[q] # "n"
    <3>1. q \in q .. z
      BY <2>3
    <3> QED
      BY <3>1, <2>3, <1>1
  <2>10. \A a : Between(a, p) => Between(a, e) /\ Read(a, e) = Read(a, p) \cup {<<q, z>>}
    BY <2>1, ReadRun
  <2>11. Reads(p, q, z, e)
    BY <2>3, <2>5, <2>7, <2>8, <2>9, <2>10 DEF Reads
  <2>12. ReadWord(p).eof \in BOOLEAN /\ ReadWord(p).ok /\ ReadWord(p).token = <<q, z>> /\ ReadWord(p).pos = e
    BY <2>2
  <2> QED
    BY <2>11, <2>12
<1> QED
  BY WordIs, <1>2, <1>3, <1>4

(* A token that is read is one more.                                        *)
LEMMA OneMore ==
  ASSUME text \in Lines, NEW a, NEW p, Between(a, p), NEW x \in Nat, NEW y \in Nat, NEW e \in Nat,
         Reads(p, x, y, e), IsFiniteSet(Read(a, p))
  PROVE  /\ IsFiniteSet(Read(a, e))
         /\ Cardinality(Read(a, e)) = Cardinality(Read(a, p)) + 1
<1>1. p \in Nat /\ p <= x /\ x <= y
  <2>1. End \in Nat /\ a \in 1 .. End /\ p \in a .. End
    BY TextIs DEF Between
  <2> QED
    BY <2>1 DEF Reads
<1>2. Read(a, e) = Read(a, p) \cup {<<x, y>>}
  BY DEF Reads
<1>3. <<x, y>> \notin Read(a, p)
  <2>1. ~(<<x, y>>[2] < p)
    BY <1>1
  <2> QED
    BY <2>1 DEF Read
<1> QED
  BY <1>2, <1>3, FS_AddElement

(* Where a line ends, and what is in it.                                    *)
LEMMA LineEnds ==
  ASSUME text \in Lines, NEW a \in 1 .. End, NEW p \in a .. End, NoNewline(a, p)
  PROVE  /\ p = End => LineEnd(a) = End
         /\ (p < End /\ text[p] = "n") => LineEnd(a) = p + 1
<1>0. End \in Nat /\ a \in Nat /\ p \in Nat
  BY TextIs
<1>1. ASSUME p = End \/ text[p] = "n" PROVE First(a, {"n"}) = p
  <2>1. \A i \in a .. p - 1 : text[i] \notin {"n"}
    BY DEF NoNewline
  <2> QED
    BY <1>1, <2>1, FirstOnly
<1> QED
  BY <1>0, <1>1 DEF LineEnd

(* A token begins in a line exactly when it ends in it.                     *)
LEMMA LineCount ==
  ASSUME text \in Lines, NEW a \in 1 .. End
  PROVE  {t \in TokensFrom(a) : t[1] < LineEnd(a)} = Read(a, LineEnd(a))
<1>0. End \in Nat /\ a \in Nat
  BY TextIs
<1>1. PICK n \in a .. End :
         n = First(a, {"n"}) /\ (n # End => text[n] = "n")
  BY FirstIs
<1>2. PICK l \in Nat : l = LineEnd(a) /\ l = IF n = End THEN End ELSE n + 1
  BY <1>0, <1>1 DEF LineEnd
<1>3. "n" \notin Letters
  BY DEF Letters
<1>4. ASSUME NEW t \in TokensFrom(a) PROVE t[1] < l <=> t[2] < l
  <2>1. PICK x \in Nat, y \in Nat : x = t[1] /\ y = t[2] /\ ((x = y /\ LineOf(a, x)) \/ RunOf(a, x, y))
    BY TokenIs
  <2>2. CASE x = y
    BY <2>1, <2>2
  <2>3. CASE RunOf(a, x, y)
    <3>1. x <= y /\ y < End /\ \A i \in x .. y : text[i] \in Letters
      BY <2>3 DEF RunOf
    <3>2. y < l => x < l
      BY <3>1, <1>2
    <3>3. n = End => y < l
      BY <3>1, <1>2
    <3>4. n # End => ~(n \in x .. y)
      BY <3>1, <1>1, <1>3
    <3>5. (n # End /\ x < l) => y < l
      BY <3>1, <3>4, <1>0, <1>1, <1>2
    <3> QED
      BY <2>1, <3>2, <3>3, <3>5
  <2> QED
    BY <2>1, <2>2, <2>3
<1> QED
  BY <1>2, <1>4 DEF Read

-----------------------------------------------------------------------------
(* Positions, counts and tokens; a call has counted at most one token per   *)
(* character it has passed.                                                 *)
LinesShape ==
  /\ text \in Lines /\ caller \in {"sup", "sg", "test"} /\ eosKnown \in BOOLEAN
  /\ pos \in 1 .. End /\ start \in 1 .. pos /\ eof \in BOOLEAN
  /\ reading \in {"ready", "in", "done"}
  /\ calls \in 0 .. MaxCalls /\ counted \in Nat
  /\ ntokens \in Nat /\ ntokens <= pos - start
  /\ passed \in Seq(Nat \X Nat) /\ hashed \in Seq(Nat \X Nat)

(* Where the call stands.                                                   *)
CallSoFar ==
  /\ Between(start, pos)
  /\ caller # "sg" => /\ IsFiniteSet(Read(start, pos))
                      /\ ntokens = Cardinality(Read(start, pos))

(* Where the pass stands.                                                   *)
PassSoFar ==
  fromTop =>
    /\ Between(1, pos)
    /\ \A i, j \in DOMAIN passed : i < j => passed[i][2] < passed[j][1]
    /\ Range(passed) = Read(1, pos)
    /\ caller # "sg" =>
         /\ IsFiniteSet(Read(1, pos))
         /\ Cardinality(Read(1, pos)) = counted + (IF reading = "in" THEN ntokens ELSE 0)

(* One line and no other.                                                   *)
LineSoFar ==
  /\ (reading = "in" /\ (caller = "sg" => eosKnown)) => NoNewline(start, pos)
  /\ (reading = "ready" /\ caller # "sg" /\ (calls > 0 \/ ntokens > 0)) => pos = LineEnd(start)
  /\ (caller = "sg" => eosKnown) =>
       \A t \in words \cup labels \cup Range(hashed) : NoNewline(start, t[2])

(* Together they are inductive.                                             *)
LinesInv == LinesShape /\ CallSoFar /\ PassSoFar /\ LineSoFar

(* One token more at the end.                                               *)
LEMMA Appending ==
  ASSUME NEW s \in Seq(Nat \X Nat), NEW t \in Nat \X Nat
  PROVE  /\ Append(s, t) \in Seq(Nat \X Nat) /\ Range(Append(s, t)) = Range(s) \cup {t}
         /\ DOMAIN s = 1 .. Len(s) /\ DOMAIN Append(s, t) = 1 .. Len(s) + 1
         /\ \A i \in 1 .. Len(s) : Append(s, t)[i] = s[i]
         /\ Append(s, t)[Len(s) + 1] = t
<1>1. /\ Append(s, t) \in Seq(Nat \X Nat) /\ Len(s) \in Nat
      /\ DOMAIN s = 1 .. Len(s) /\ DOMAIN Append(s, t) = 1 .. Len(s) + 1
      /\ \A i \in 1 .. Len(s) : Append(s, t)[i] = s[i]
      /\ Append(s, t)[Len(s) + 1] = t
  OBVIOUS
<1>2. \A i \in 1 .. Len(s) + 1 : i \in 1 .. Len(s) \/ i = Len(s) + 1
  BY <1>1
<1>3. \A i \in 1 .. Len(s) : i \in 1 .. Len(s) + 1
  BY <1>1
<1>4. Len(s) + 1 \in 1 .. Len(s) + 1
  BY <1>1
<1>5. Range(Append(s, t)) \subseteq Range(s) \cup {t}
  BY <1>1, <1>2 DEF Range
<1>6. Range(s) \cup {t} \subseteq Range(Append(s, t))
  BY <1>1, <1>3, <1>4 DEF Range
<1> QED
  BY <1>1, <1>5, <1>6

(* Each token ends before the next begins.                                  *)
InOrder(ts) == \A i, j \in DOMAIN ts : i < j => ts[i][2] < ts[j][1]

(* One token more of the call and of the pass.                              *)
LEMMA CallReads ==
  ASSUME LinesShape, CallSoFar, PassSoFar, NEW x \in Nat, NEW y \in Nat, NEW e \in Nat,
         Reads(pos, x, y, e)
  PROVE  /\ e \in 1 .. End /\ start \in 1 .. e /\ ntokens + 1 <= e - start
         /\ Between(start, e)
         /\ caller # "sg" => /\ IsFiniteSet(Read(start, e))
                             /\ Cardinality(Read(start, e)) = ntokens + 1
         /\ fromTop =>
              /\ Between(1, e)
              /\ InOrder(Append(passed, <<x, y>>))
              /\ Range(Append(passed, <<x, y>>)) = Read(1, e)
              /\ caller # "sg" =>
                   /\ IsFiniteSet(Read(1, e))
                   /\ Cardinality(Read(1, e)) = Cardinality(Read(1, pos)) + 1
<1>0. /\ End \in Nat /\ pos \in Nat /\ start \in Nat /\ ntokens \in Nat /\ start >= 1
      /\ start <= pos /\ pos <= End /\ ntokens <= pos - start /\ text \in Lines
  BY TextIs DEF LinesShape
<1>1. pos <= x /\ x <= y /\ y < e /\ e <= End
  BY DEF Reads
<1>2. e \in 1 .. End /\ start \in 1 .. e /\ ntokens + 1 <= e - start
  BY <1>0, <1>1
<1>3. \A a : Between(a, pos) => Between(a, e) /\ Read(a, e) = Read(a, pos) \cup {<<x, y>>}
  BY DEF Reads
<1>4. Between(start, e)
  BY <1>3 DEF CallSoFar
<1>5. ASSUME caller # "sg"
      PROVE  IsFiniteSet(Read(start, e)) /\ Cardinality(Read(start, e)) = ntokens + 1
  <2>1. Between(start, pos) /\ IsFiniteSet(Read(start, pos)) /\ ntokens = Cardinality(Read(start, pos))
    BY <1>5 DEF CallSoFar
  <2> QED
    BY <2>1, <1>0, OneMore
<1>6. ASSUME fromTop
      PROVE  /\ Between(1, e) /\ InOrder(Append(passed, <<x, y>>))
             /\ Range(Append(passed, <<x, y>>)) = Read(1, e)
             /\ caller # "sg" =>
                  /\ IsFiniteSet(Read(1, e))
                  /\ Cardinality(Read(1, e)) = Cardinality(Read(1, pos)) + 1
  <2>1. Between(1, pos) /\ InOrder(passed) /\ Range(passed) = Read(1, pos)
    BY <1>6 DEF PassSoFar, InOrder
  <2>2. passed \in Seq(Nat \X Nat) /\ <<x, y>> \in Nat \X Nat
    BY DEF LinesShape
  <2> DEFINE more == Append(passed, <<x, y>>)
  <2>3. PICK n \in Nat :
           /\ n = Len(passed) /\ DOMAIN passed = 1 .. n /\ DOMAIN more = 1 .. n + 1
           /\ \A i \in 1 .. n : more[i] = passed[i]
           /\ more[n + 1] = <<x, y>> /\ Range(more) = Range(passed) \cup {<<x, y>>}
    <3>1. Len(passed) \in Nat
      BY <2>2
    <3>2. /\ Range(more) = Range(passed) \cup {<<x, y>>}
          /\ DOMAIN passed = 1 .. Len(passed) /\ DOMAIN more = 1 .. Len(passed) + 1
          /\ \A i \in 1 .. Len(passed) : more[i] = passed[i]
          /\ more[Len(passed) + 1] = <<x, y>>
      BY ONLY <2>2, Appending
    <3> HIDE DEF more
    <3> QED
      BY <3>1, <3>2
  <2>4. Range(more) = Read(1, e) /\ Between(1, e)
    BY <2>1, <2>3, <1>3
  <2>5. InOrder(more)
    <3>1. SUFFICES ASSUME NEW i \in 1 .. n + 1, NEW j \in 1 .. n + 1, i < j
                   PROVE  more[i][2] < more[j][1]
      BY <2>3 DEF InOrder
    <3>2. i \in 1 .. n /\ (j \in 1 .. n \/ j = n + 1)
      BY <3>1
    <3>3. CASE j \in 1 .. n
      BY <3>1, <3>2, <3>3, <2>1, <2>3 DEF InOrder
    <3>4. CASE j = n + 1
      <4>1. passed[i] \in Read(1, pos)
        BY <3>2, <2>1, <2>3 DEF Range
      <4>2. PICK k \in Nat : k = passed[i][2] /\ k < pos
        <5>1. passed[i] \in TokensFrom(1) /\ passed[i][2] < pos
          BY <4>1 DEF Read
        <5>2. 1 \in 1 .. End
          BY <1>0
        <5>3. passed[i][2] \in Nat
          BY <5>1, <5>2, <1>0, TokenIs
        <5> QED
          BY <5>1, <5>3
      <4>3. k < x
        BY <4>2, <1>0, <1>1
      <4>4. more[j][1] = x /\ more[i][2] = k
        BY <3>2, <3>4, <2>3, <4>2
      <4> QED
        BY <4>3, <4>4
    <3> QED
      BY <3>2, <3>3, <3>4
  <2>6. ASSUME caller # "sg"
        PROVE  IsFiniteSet(Read(1, e)) /\ Cardinality(Read(1, e)) = Cardinality(Read(1, pos)) + 1
    <3>1. IsFiniteSet(Read(1, pos))
      BY <1>6, <2>6 DEF PassSoFar
    <3> QED
      BY <3>1, <2>1, <1>0, OneMore
  <2> QED
    BY <2>1, <2>4, <2>5, <2>6
<1> QED
  BY <1>2, <1>4, <1>5, <1>6

(* What it is of the line.                                                  *)
LEMMA LineReads ==
  ASSUME LinesShape, NoNewline(start, pos), NEW x \in Nat, NEW y \in Nat, NEW e \in Nat,
         Reads(pos, x, y, e)
  PROVE  /\ NoNewline(start, y)
         /\ text[x] = "n" => LineEnd(start) = e
         /\ text[x] # "n" => NoNewline(start, e)
<1>0. /\ End \in Nat /\ pos \in Nat /\ start \in Nat /\ start >= 1
      /\ start <= pos /\ pos <= End /\ text \in Lines
  BY TextIs DEF LinesShape
<1>1. /\ pos <= x /\ x <= y /\ y < e /\ e <= End /\ NoNewline(pos, y)
      /\ \/ text[x] = "n" /\ x = y /\ e = y + 1
         \/ text[x] # "n" /\ NoNewline(pos, e)
  BY DEF Reads
<1>2. NoNewline(start, y)
  BY <1>0, <1>1, NoNewlineOn
<1>3. ASSUME text[x] = "n" PROVE LineEnd(start) = e
  <2>1. x = y /\ e = y + 1 /\ text[y] = "n"
    BY <1>1, <1>3
  <2>2. start \in 1 .. End /\ y \in start .. End /\ y < End
    BY <2>1, <1>0, <1>1
  <2> QED
    BY <2>1, <2>2, <1>0, <1>2, LineEnds
<1>4. ASSUME text[x] # "n" PROVE NoNewline(start, e)
  <2>1. NoNewline(pos, e)
    BY <1>1, <1>4
  <2> QED
    BY <2>1, <1>0, NoNewlineOn
<1> QED
  BY <1>2, <1>3, <1>4

(* The end of the text is the end of its last line.                         *)
LEMMA LastLine ==
  ASSUME LinesShape, NoNewline(start, pos), NoNewline(pos, End)
  PROVE  LineEnd(start) = End /\ NoNewline(start, End)
<1>0. /\ End \in Nat /\ pos \in Nat /\ start \in Nat /\ start >= 1
      /\ start <= pos /\ pos <= End /\ text \in Lines
  BY TextIs DEF LinesShape
<1>1. NoNewline(start, End)
  BY <1>0, NoNewlineOn
<1>2. start \in 1 .. End /\ End \in start .. End
  BY <1>0
<1> QED
  BY <1>0, <1>1, <1>2, LineEnds

(* The text stays, and so does what is said of it.                          *)
LEMMA SameText ==
  ASSUME text' = text
  PROVE  /\ End' = End
         /\ Between(start, pos)' <=> Between(start', pos')
         /\ Between(1, pos)' <=> Between(1, pos')
         /\ Read(start, pos)' = Read(start', pos')
         /\ Read(1, pos)' = Read(1, pos')
         /\ NoNewline(start, pos)' <=> NoNewline(start', pos')
         /\ \A y : NoNewline(start, y)' <=> NoNewline(start', y)
         /\ LineEnd(start)' = LineEnd(start')
<1>1. End' = End
  BY DEF End
<1>2. Between(start, pos)' <=> Between(start', pos')
  BY <1>1 DEF Between
<1>3. Between(1, pos)' <=> Between(1, pos')
  BY <1>1 DEF Between
<1>4. Read(start, pos)' = Read(start', pos')
  BY DEF Read, TokensFrom
<1>5. Read(1, pos)' = Read(1, pos')
  BY DEF Read, TokensFrom
<1>6. NoNewline(start, pos)' <=> NoNewline(start', pos')
  BY DEF NoNewline
<1>7. \A y : NoNewline(start, y)' <=> NoNewline(start', y)
  BY DEF NoNewline
<1>8. LineEnd(start)' = LineEnd(start')
  BY DEF LineEnd, First, End
<1> QED
  BY <1>1, <1>2, <1>3, <1>4, <1>5, <1>6, <1>7, <1>8

(* Wherever the stream is put at first.                                     *)
LEMMA LinesStart == LinesInit => LinesInv
<1>1. SUFFICES ASSUME LinesInit PROVE LinesInv
  OBVIOUS
<1>2. /\ text \in Lines /\ caller \in {"sup", "sg", "test"} /\ eosKnown \in BOOLEAN
      /\ eof = FALSE /\ start = pos /\ words = {} /\ hashed = <<>> /\ labels = {} /\ ntokens = 0
      /\ calls = 0 /\ passed = <<>> /\ counted = 0 /\ fromTop = (pos = 1) /\ reading = "ready"
      /\ pos \in IF caller = "test" THEN {1} ELSE 1 .. Len(text) + 1
  BY <1>1 DEF LinesInit
<1>3. End \in Nat \ {0} /\ End = Len(text) + 1
  BY <1>2, TextIs
<1>4. pos \in 1 .. End /\ start \in 1 .. pos /\ 0 <= pos - start /\ pos \in pos .. End
  BY <1>2, <1>3
<1>5. LinesShape
  <2>1. 0 \in 0 .. MaxCalls
    BY LineReadingAssumption
  <2>2. <<>> \in Seq(Nat \X Nat) /\ 0 \in Nat
    OBVIOUS
  <2>3. ntokens \in Nat /\ counted \in Nat /\ ntokens <= pos - start
    BY <1>2, <1>4
  <2> QED
    BY <1>2, <1>4, <2>1, <2>2, <2>3 DEF LinesShape
<1>6. Between(pos, pos) /\ Read(pos, pos) = {}
  <2>1. Read(pos, pos) = {}
    BY <1>2, <1>4, ReadEnds
  <2> QED
    BY <2>1, <1>4 DEF Between
<1>7. IsFiniteSet({}) /\ Cardinality({}) = 0
  BY FS_EmptySet
<1>8. CallSoFar
  BY <1>2, <1>6, <1>7 DEF CallSoFar
<1>9. PassSoFar
  <2>1. Range(<<>>) = {} /\ DOMAIN <<>> = {}
    BY DEF Range
  <2>2. fromTop => pos = 1
    BY <1>2
  <2>3. 0 = counted + (IF reading = "in" THEN ntokens ELSE 0)
    BY <1>2
  <2> QED
    BY <2>1, <2>2, <2>3, <1>2, <1>6, <1>7 DEF PassSoFar
<1>10. LineSoFar
  <2>1. Range(<<>>) = {} /\ ~(0 > 0)
    BY DEF Range
  <2> QED
    BY <2>1, <1>2 DEF LineSoFar
<1> QED
  BY <1>5, <1>8, <1>9, <1>10 DEF LinesInv

(* A call begins where the last one stopped, or at the beginning.           *)
LEMMA CallStep == LinesInv /\ Call => LinesInv'
<1>1. SUFFICES ASSUME LinesInv, Call PROVE LinesInv'
  OBVIOUS
<1>2. /\ text' = text /\ caller' = caller /\ eosKnown' = eosKnown /\ reading = "ready"
      /\ pos' = (IF eof THEN 1 ELSE pos) /\ start' = pos' /\ eof' = FALSE
      /\ passed' = (IF eof THEN <<>> ELSE passed) /\ counted' = (IF eof THEN 0 ELSE counted)
      /\ fromTop' = (eof \/ fromTop) /\ words' = {} /\ hashed' = <<>> /\ labels' = {}
      /\ ntokens' = 0 /\ reading' = "in" /\ Wanted
      /\ calls' = IF caller = "test" THEN calls ELSE calls + 1
  BY <1>1 DEF Call
<1>3. LinesShape /\ CallSoFar /\ PassSoFar /\ LineSoFar
  BY <1>1 DEF LinesInv
<1>4. End \in Nat \ {0} /\ text \in Lines /\ End' = End
  BY <1>2, <1>3, TextIs, SameText DEF LinesShape
<1>5. pos' \in Nat /\ pos' \in 1 .. End /\ pos' \in 1 .. pos' /\ 0 <= pos' - pos' /\ pos' \in pos' .. End
  <2>1. PICK p \in Nat : p = pos' /\ p \in 1 .. End
    BY <1>2, <1>3, <1>4 DEF LinesShape
  <2>2. p \in 1 .. p /\ 0 <= p - p /\ p \in p .. End
    <3>1. p >= 1 /\ p <= End
      BY <2>1, <1>4
    <3> QED
      BY ONLY <3>1, <1>4
  <2> QED
    BY <2>1, <2>2
<1>6. LinesShape'
  <2>1. calls' \in 0 .. MaxCalls
    BY <1>2, <1>3, LineReadingAssumption DEF LinesShape, Wanted
  <2>2. passed' \in Seq(Nat \X Nat) /\ hashed' \in Seq(Nat \X Nat) /\ counted' \in Nat
    BY <1>2, <1>3 DEF LinesShape
  <2> QED
    BY <1>2, <1>3, <1>4, <1>5, <2>1, <2>2 DEF LinesShape
<1>7. Between(pos', pos') /\ Read(pos', pos') = {}
  <2>1. Read(pos', pos') = {}
    BY <1>4, <1>5, ReadEnds
  <2> QED
    BY <2>1, <1>5 DEF Between
<1>8. IsFiniteSet({}) /\ Cardinality({}) = 0
  BY FS_EmptySet
<1>9. CallSoFar'
  BY <1>2, <1>7, <1>8, SameText DEF CallSoFar
<1>10. PassSoFar'
  <2>1. CASE eof
    <3>1. Range(<<>>) = {} /\ DOMAIN <<>> = {} /\ 0 + 0 = 0
      BY DEF Range
    <3>2. pos' = 1 /\ passed' = <<>> /\ counted' = 0
      BY <1>2, <2>1
    <3> QED
      BY <3>1, <3>2, <1>2, <1>7, <1>8, SameText DEF PassSoFar
  <2>2. CASE ~eof
    <3>1. pos' = pos /\ passed' = passed /\ counted' = counted /\ (fromTop' => fromTop)
      BY <1>2, <2>2
    <3>2. (IF reading = "in" THEN ntokens ELSE 0) = 0
      BY <1>2
    <3>3. (IF reading' = "in" THEN ntokens' ELSE 0) = 0
      BY <1>2
    <3> QED
      BY <3>1, <3>2, <3>3, <1>2, <1>3, SameText DEF PassSoFar
  <2> QED
    BY <1>3, <2>1, <2>2 DEF LinesShape
<1>11. LineSoFar'
  <2>1. Range(<<>>) = {}
    BY DEF Range
  <2>2. NoNewline(pos', pos')
    <3>1. \A n \in Nat : NoNewline(n, n)
      BY DEF NoNewline
    <3> QED
      BY <3>1, <1>5
  <2> QED
    BY <2>1, <2>2, <1>2, SameText DEF LineSoFar
<1> QED
  BY <1>6, <1>9, <1>10, <1>11 DEF LinesInv

(* test ends and changes nothing that was read.                             *)
LEMMA FinishStep == LinesInv /\ Finish => LinesInv'
<1>1. SUFFICES ASSUME LinesInv, Finish PROVE LinesInv'
  OBVIOUS
<1>2. /\ UNCHANGED <<text, caller, eosKnown, pos, start, words, hashed, labels, ntokens,
                     calls, passed, counted, fromTop>>
      /\ reading = "ready" /\ reading' = "done" /\ eof' = TRUE
  BY <1>1 DEF Finish
<1>3. LinesShape'
  BY <1>1, <1>2, SameText DEF LinesInv, LinesShape
<1>4. CallSoFar'
  BY <1>1, <1>2, SameText DEF LinesInv, CallSoFar
<1>5. PassSoFar'
  BY <1>1, <1>2, SameText DEF LinesInv, PassSoFar
<1>6. LineSoFar'
  BY <1>1, <1>2, SameText DEF LinesInv, LineSoFar
<1> QED
  BY <1>3, <1>4, <1>5, <1>6 DEF LinesInv

(* An n-gram ends where one of its tokens does.                             *)
LEMMA NgramEnds ==
  ASSUME NEW hs \in Seq(Nat \X Nat), NEW a, \A t \in Range(hs) : NoNewline(a, t[2])
  PROVE  \A t \in WordNgramsOf(hs) : NoNewline(a, t[2])
<1>1. SUFFICES ASSUME NEW t \in WordNgramsOf(hs) PROVE NoNewline(a, t[2])
  OBVIOUS
<1>2. PICK m \in (DOMAIN hs) \X (DOMAIN hs) : t = <<hs[m[1]][1], hs[m[2]][2]>>
  BY <1>1 DEF WordNgramsOf
<1>3. hs[m[2]] \in Range(hs) /\ t[2] = hs[m[2]][2]
  BY <1>2 DEF Range
<1> QED
  BY <1>3

(* With labels: every token counts and every newline ends the line.         *)
LEMMA TokenSupStep == LinesInv /\ TokenSup => LinesInv'
<1>1. SUFFICES ASSUME LinesInv, TokenSup PROVE LinesInv'
  OBVIOUS
<1>2. /\ text' = text /\ caller' = caller /\ eosKnown' = eosKnown /\ start' = start
      /\ calls' = calls /\ fromTop' = fromTop /\ reading = "in" /\ caller # "sg"
      /\ pos' = ReadWord(pos).pos /\ eof' = ReadWord(pos).eof
  BY <1>1 DEF TokenSup
<1>3. LinesShape /\ CallSoFar /\ PassSoFar /\ LineSoFar
  BY <1>1 DEF LinesInv
<1>4. /\ End \in Nat \ {0} /\ text \in Lines /\ End' = End /\ pos \in 1 .. End
      /\ start \in 1 .. pos /\ ntokens \in Nat /\ ntokens <= pos - start /\ counted \in Nat
      /\ passed \in Seq(Nat \X Nat) /\ hashed \in Seq(Nat \X Nat)
  BY <1>2, <1>3, TextIs, SameText DEF LinesShape
<1>5. /\ NoNewline(start, pos)
      /\ \A t \in words \cup labels \cup Range(hashed) : NoNewline(start, t[2])
  BY <1>2, <1>3 DEF LineSoFar
<1>6. /\ Between(start, pos) /\ IsFiniteSet(Read(start, pos))
      /\ ntokens = Cardinality(Read(start, pos))
  BY <1>2, <1>3 DEF CallSoFar
<1>7. fromTop =>
        /\ Between(1, pos) /\ InOrder(passed) /\ Range(passed) = Read(1, pos)
        /\ IsFiniteSet(Read(1, pos)) /\ Cardinality(Read(1, pos)) = counted + ntokens
  BY <1>2, <1>3 DEF PassSoFar, InOrder
<1>8. CASE /\ ~ReadWord(pos).ok /\ ReadWord(pos).pos = End /\ ReadWord(pos).eof = TRUE
           /\ NoNewline(pos, End)
           /\ \A a : Between(a, pos) => Between(a, End) /\ Read(a, End) = Read(a, pos)
  <2>1. /\ pos' = End /\ hashed' = hashed /\ labels' = labels /\ ntokens' = ntokens
        /\ passed' = passed /\ words' = words \cup WordNgramsOf(hashed)
        /\ counted' = counted + ntokens /\ reading' = "ready" /\ eof' = TRUE
    BY <1>1, <1>2, <1>8 DEF TokenSup, EndOfLine
  <2>2. LinesShape'
    <3>1. End \in 1 .. End /\ start \in 1 .. End /\ ntokens <= End - start /\ counted + ntokens \in Nat
      BY <1>4
    <3> QED
      BY <3>1, <2>1, <1>2, <1>3, <1>4 DEF LinesShape
  <2>3. CallSoFar'
    BY <2>1, <1>2, <1>6, <1>8, SameText DEF CallSoFar
  <2>4. PassSoFar'
    <3>1. counted' + (IF reading' = "in" THEN ntokens' ELSE 0) = counted + ntokens
      BY <2>1, <1>4
    <3> QED
      BY <3>1, <2>1, <1>2, <1>7, <1>8, SameText DEF PassSoFar, InOrder
  <2>5. LineEnd(start) = End
    BY <1>3, <1>5, <1>8, LastLine
  <2>6. \A t \in WordNgramsOf(hashed) : NoNewline(start, t[2])
    BY <1>4, <1>5, NgramEnds
  <2>7. LineSoFar'
    BY <2>1, <2>5, <2>6, <1>2, <1>5, SameText DEF LineSoFar
  <2> QED
    BY <2>2, <2>3, <2>4, <2>7 DEF LinesInv
<1>9. CASE /\ ReadWord(pos).ok /\ ReadWord(pos).eof \in BOOLEAN
           /\ \E x, y, e \in Nat : /\ ReadWord(pos).token = <<x, y>> /\ ReadWord(pos).pos = e
                                   /\ Reads(pos, x, y, e)
  <2>1. PICK x \in Nat, y \in Nat, e \in Nat :
           ReadWord(pos).token = <<x, y>> /\ ReadWord(pos).pos = e /\ Reads(pos, x, y, e)
    BY <1>9
  <2> DEFINE tok == <<x, y>>
  <2>2. tok \in Nat \X Nat /\ tok[2] = y /\ tok[1] = x
    OBVIOUS
  <2>3. /\ pos' = e /\ ntokens' = ntokens + 1 /\ passed' = Append(passed, tok)
        /\ labels' \subseteq labels \cup {tok}
        /\ hashed' = hashed \/ hashed' = Append(hashed, tok)
        /\ words' \subseteq words \cup {tok} \cup WordNgramsOf(hashed')
        /\ text[x] = "n" => counted' = counted + ntokens' /\ reading' = "ready"
        /\ text[x] # "n" => counted' = counted /\ reading' = "in"
        /\ eof' \in BOOLEAN
    <3>1. IsEOS(tok) <=> text[x] = "n"
      BY <2>2 DEF IsEOS
    <3> HIDE DEF tok
    <3>2. ReadWord(pos).token = tok
      BY <2>1 DEF tok
    <3>3. /\ ntokens' = ntokens + 1 /\ passed' = Append(passed, tok)
          /\ labels' = IF IsLabel(tok) /\ Known(tok) THEN labels \cup {tok} ELSE labels
          /\ hashed' = IF IsLabel(tok) THEN hashed ELSE Append(hashed, tok)
          /\ LET own == IF IsLabel(tok) \/ (IsEOS(tok) /\ ~eosKnown) THEN {} ELSE {tok}
             IN IF IsEOS(tok) THEN EndOfLine(own \cup WordNgramsOf(hashed'))
                ELSE words' = words \cup own /\ UNCHANGED <<counted, reading>>
      BY <3>2, <1>1, <1>9 DEF TokenSup
    <3>4. pos' = e /\ eof' \in BOOLEAN
      BY <2>1, <1>2, <1>9
    <3> QED
      BY <3>1, <3>3, <3>4, <1>2 DEF EndOfLine
  <2>4. /\ e \in 1 .. End /\ start \in 1 .. e /\ ntokens + 1 <= e - start
        /\ Between(start, e) /\ IsFiniteSet(Read(start, e))
        /\ Cardinality(Read(start, e)) = ntokens + 1
        /\ fromTop =>
             /\ Between(1, e) /\ InOrder(Append(passed, tok))
             /\ Range(Append(passed, tok)) = Read(1, e)
             /\ IsFiniteSet(Read(1, e)) /\ Cardinality(Read(1, e)) = Cardinality(Read(1, pos)) + 1
    BY <2>1, <1>2, <1>3, CallReads
  <2>5. /\ NoNewline(start, y)
        /\ text[x] = "n" => LineEnd(start) = e
        /\ text[x] # "n" => NoNewline(start, e)
    BY <2>1, <1>3, <1>5, LineReads
  <2>6. hashed' \in Seq(Nat \X Nat) /\ Range(hashed') \subseteq Range(hashed) \cup {tok}
    <3>1. Append(hashed, tok) \in Seq(Nat \X Nat) /\ Range(Append(hashed, tok)) = Range(hashed) \cup {tok}
      BY <2>2, <1>4, Appending
    <3> QED
      BY <3>1, <2>3, <1>4
  <2>7. passed' \in Seq(Nat \X Nat)
    BY <2>2, <2>3, <1>4, Appending
  <2> HIDE DEF tok
  <2>8. LinesShape'
    <3>1. counted' \in Nat /\ ntokens' \in Nat /\ reading' \in {"ready", "in", "done"}
      <4>1. ntokens + 1 \in Nat /\ counted + (ntokens + 1) \in Nat
        BY <1>4
      <4> QED
        BY <4>1, <2>3, <1>4
    <3> QED
      BY <3>1, <2>3, <2>4, <2>6, <2>7, <1>2, <1>3, <1>4 DEF LinesShape
  <2>9. CallSoFar'
    BY <2>3, <2>4, <1>2, SameText DEF CallSoFar
  <2>10. PassSoFar'
    <3>1. counted' + (IF reading' = "in" THEN ntokens' ELSE 0) = (counted + ntokens) + 1
      <4>1. CASE text[x] = "n"
        <5>1. (IF reading' = "in" THEN ntokens' ELSE 0) = 0 /\ counted' = counted + (ntokens + 1)
          BY <4>1, <2>3
        <5>2. (counted + (ntokens + 1)) + 0 = (counted + ntokens) + 1
          BY <1>4
        <5> QED
          BY <5>1, <5>2
      <4>2. CASE text[x] # "n"
        <5>1. (IF reading' = "in" THEN ntokens' ELSE 0) = ntokens + 1 /\ counted' = counted
          BY <4>2, <2>3
        <5>2. counted + (ntokens + 1) = (counted + ntokens) + 1
          BY <1>4
        <5> QED
          BY <5>1, <5>2
      <4> QED
        BY <4>1, <4>2
    <3>2. fromTop => Cardinality(Read(1, e)) = (counted + ntokens) + 1
      BY <2>4, <1>7
    <3> QED
      BY <3>1, <3>2, <2>3, <2>4, <1>2, SameText DEF PassSoFar, InOrder
  <2>11. LineSoFar'
    <3>1. \A t \in Range(hashed') : NoNewline(start, t[2])
      BY <2>2, <2>5, <2>6, <1>5
    <3>2. \A t \in WordNgramsOf(hashed') : NoNewline(start, t[2])
      BY <3>1, <2>6, NgramEnds
    <3>3. \A t \in words' \cup labels' \cup Range(hashed') : NoNewline(start, t[2])
      BY <3>1, <3>2, <2>2, <2>3, <2>5, <1>5
    <3>4. reading' = "in" => text[x] # "n"
      BY <2>3
    <3>5. reading' = "ready" => text[x] = "n"
      BY <2>3
    <3> QED
      BY <3>3, <3>4, <3>5, <2>3, <2>5, <1>2, SameText DEF LineSoFar
  <2> QED
    BY <2>8, <2>9, <2>10, <2>11 DEF LinesInv
<1> QED
  BY <1>4, <1>8, <1>9, ReadStep

(* Without: only a newline that is in the vocabulary ends the line.         *)
LEMMA TokenSgStep == LinesInv /\ TokenSg => LinesInv'
<1>1. SUFFICES ASSUME LinesInv, TokenSg PROVE LinesInv'
  OBVIOUS
<1>2. /\ text' = text /\ caller' = caller /\ eosKnown' = eosKnown /\ start' = start
      /\ calls' = calls /\ fromTop' = fromTop /\ hashed' = hashed /\ labels' = labels
      /\ reading = "in" /\ caller = "sg"
      /\ pos' = ReadWord(pos).pos /\ eof' = ReadWord(pos).eof
  BY <1>1 DEF TokenSg
<1>3. LinesShape /\ CallSoFar /\ PassSoFar /\ LineSoFar
  BY <1>1 DEF LinesInv
<1>4. /\ End \in Nat \ {0} /\ text \in Lines /\ End' = End /\ pos \in 1 .. End
      /\ start \in 1 .. pos /\ ntokens \in Nat /\ ntokens <= pos - start /\ counted \in Nat
      /\ passed \in Seq(Nat \X Nat) /\ hashed \in Seq(Nat \X Nat)
  BY <1>2, <1>3, TextIs, SameText DEF LinesShape
<1>5. eosKnown => /\ NoNewline(start, pos)
                  /\ \A t \in words \cup labels \cup Range(hashed) : NoNewline(start, t[2])
  BY <1>2, <1>3 DEF LineSoFar
<1>6. Between(start, pos)
  BY <1>3 DEF CallSoFar
<1>7. fromTop => Between(1, pos) /\ InOrder(passed) /\ Range(passed) = Read(1, pos)
  BY <1>3 DEF PassSoFar, InOrder
<1>8. CASE /\ ~ReadWord(pos).ok /\ ReadWord(pos).pos = End /\ ReadWord(pos).eof = TRUE
           /\ NoNewline(pos, End)
           /\ \A a : Between(a, pos) => Between(a, End) /\ Read(a, End) = Read(a, pos)
  <2>1. /\ pos' = End /\ ntokens' = ntokens /\ passed' = passed /\ words' = words
        /\ counted' = counted + ntokens /\ reading' = "ready" /\ eof' = TRUE
    BY <1>1, <1>2, <1>8 DEF TokenSg, EndOfLine
  <2>2. LinesShape'
    <3>1. End \in 1 .. End /\ start \in 1 .. End /\ ntokens <= End - start /\ counted + ntokens \in Nat
      BY <1>4
    <3> QED
      BY <3>1, <2>1, <1>2, <1>3, <1>4 DEF LinesShape
  <2>3. CallSoFar'
    BY <2>1, <1>2, <1>6, <1>8, SameText DEF CallSoFar
  <2>4. PassSoFar'
    BY <2>1, <1>2, <1>7, <1>8, SameText DEF PassSoFar, InOrder
  <2>5. LineSoFar'
    BY <2>1, <1>2, <1>5, SameText DEF LineSoFar
  <2> QED
    BY <2>2, <2>3, <2>4, <2>5 DEF LinesInv
<1>9. CASE /\ ReadWord(pos).ok /\ ReadWord(pos).eof \in BOOLEAN
           /\ \E x, y, e \in Nat : /\ ReadWord(pos).token = <<x, y>> /\ ReadWord(pos).pos = e
                                   /\ Reads(pos, x, y, e)
  <2>1. PICK x \in Nat, y \in Nat, e \in Nat :
           ReadWord(pos).token = <<x, y>> /\ ReadWord(pos).pos = e /\ Reads(pos, x, y, e)
    BY <1>9
  <2> DEFINE tok == <<x, y>>
  <2>2. tok \in Nat \X Nat /\ tok[2] = y /\ tok[1] = x
    OBVIOUS
  <2>3. /\ pos' = e /\ eof' \in BOOLEAN /\ passed' = Append(passed, tok)
        /\ words' \subseteq words \cup {tok}
        /\ ntokens' = ntokens \/ ntokens' = ntokens + 1
        /\ counted' = counted \/ counted' = counted + ntokens'
        /\ reading' = "in" \/ reading' = "ready"
        /\ (eosKnown /\ text[x] = "n") => reading' = "ready"
    <3>1. IsEOS(tok) <=> text[x] = "n"
      BY <2>2 DEF IsEOS
    <3>2. (eosKnown /\ IsEOS(tok)) => Known(tok)
      BY DEF Known
    <3> HIDE DEF tok
    <3>3. ReadWord(pos).token = tok
      BY <2>1 DEF tok
    <3>4. /\ passed' = Append(passed, tok)
          /\ \/ ~Known(tok) /\ UNCHANGED <<words, ntokens, counted, reading>>
             \/ /\ Known(tok) /\ ntokens' = ntokens + 1
                /\ words' = words \/ words' = words \cup {tok}
                /\ IF LineFull(ntokens', tok)
                   THEN counted' = counted + ntokens' /\ reading' = "ready"
                   ELSE UNCHANGED <<counted, reading>>
      BY <3>3, <1>1, <1>9 DEF TokenSg
    <3>5. IsEOS(tok) => LineFull(ntokens', tok)
      BY DEF LineFull
    <3>6. pos' = e /\ eof' \in BOOLEAN
      BY <2>1, <1>2, <1>9
    <3> QED
      BY <3>1, <3>2, <3>4, <3>5, <3>6, <1>2
  <2>4. /\ e \in 1 .. End /\ start \in 1 .. e /\ ntokens + 1 <= e - start
        /\ Between(start, e)
        /\ fromTop => /\ Between(1, e) /\ InOrder(Append(passed, tok))
                      /\ Range(Append(passed, tok)) = Read(1, e)
    BY <2>1, <1>3, CallReads
  <2>5. eosKnown => /\ NoNewline(start, y)
                    /\ text[x] # "n" => NoNewline(start, e)
    BY <2>1, <1>3, <1>5, LineReads
  <2>6. passed' \in Seq(Nat \X Nat)
    BY <2>2, <2>3, <1>4, Appending
  <2> HIDE DEF tok
  <2>7. LinesShape'
    <3>1. ntokens' \in Nat /\ ntokens' <= e - start
      <4>1. e - start \in Int /\ ntokens + 1 \in Nat /\ ntokens <= e - start
        BY <2>4, <1>4
      <4> QED
        BY <4>1, <2>3, <2>4, <1>4
    <3>2. counted' \in Nat
      <4>1. counted + ntokens' \in Nat
        <5>1. \A m, n \in Nat : m + n \in Nat
          OBVIOUS
        <5> QED
          BY ONLY <5>1, <3>1, <1>4
      <4> QED
        BY <4>1, <2>3, <1>4
    <3> QED
      BY <3>1, <3>2, <2>3, <2>4, <2>6, <1>2, <1>3, <1>4 DEF LinesShape
  <2>8. CallSoFar'
    BY <2>3, <2>4, <1>2, SameText DEF CallSoFar
  <2>9. PassSoFar'
    BY <2>3, <2>4, <1>2, SameText DEF PassSoFar, InOrder
  <2>10. LineSoFar'
    <3>1. eosKnown => \A t \in words' \cup labels' \cup Range(hashed') : NoNewline(start, t[2])
      BY <2>2, <2>3, <2>5, <1>2, <1>5
    <3>2. (eosKnown /\ reading' = "in") => NoNewline(start, e)
      BY <2>3, <2>5
    <3> QED
      BY <3>1, <3>2, <2>3, <1>2, SameText DEF LineSoFar
  <2> QED
    BY <2>7, <2>8, <2>9, <2>10 DEF LinesInv
<1> QED
  BY <1>4, <1>8, <1>9, ReadStep

(* Steps that change nothing.                                               *)
LEMMA LinesStutter == LinesInv /\ UNCHANGED lineVars => LinesInv'
<1>1. SUFFICES ASSUME LinesInv, UNCHANGED lineVars PROVE LinesInv'
  OBVIOUS
<1>2. UNCHANGED <<text, caller, eosKnown, pos, eof, start, words, hashed, labels, ntokens,
                  calls, passed, counted, fromTop, reading>>
  BY <1>1 DEF lineVars
<1>3. LinesShape'
  BY <1>1, <1>2, SameText DEF LinesInv, LinesShape
<1>4. CallSoFar'
  BY <1>1, <1>2, SameText DEF LinesInv, CallSoFar
<1>5. PassSoFar'
  BY <1>1, <1>2, SameText DEF LinesInv, PassSoFar
<1>6. LineSoFar'
  BY <1>1, <1>2, SameText DEF LinesInv, LineSoFar
<1> QED
  BY <1>3, <1>4, <1>5, <1>6 DEF LinesInv

(* What the invariant says of lines, of tokens and of passes.               *)
LEMMA LinesInvRead == LinesInv => LinesRead
<1>1. SUFFICES ASSUME LinesInv PROVE LinesRead
  OBVIOUS
<1>2. LinesShape /\ CallSoFar /\ PassSoFar /\ LineSoFar
  BY <1>1 DEF LinesInv
<1>3. /\ text \in Lines /\ End \in Nat \ {0} /\ End = Len(text) + 1 /\ Len(text) \in 0 .. MaxLen
      /\ start \in Nat /\ pos \in Nat /\ start >= 1 /\ start <= pos /\ pos <= End
      /\ ntokens \in Nat /\ ntokens <= pos - start
  BY <1>2, TextIs DEF LinesShape
<1>4. LinesTypeOK
  <2>1. start \in 1 .. End /\ ntokens \in 0 .. MaxLen
    BY <1>3, LineReadingAssumption
  <2> QED
    BY <1>2, <2>1 DEF LinesShape, LinesTypeOK
<1>5. OneLine
  <2>1. SUFFICES ASSUME reading = "ready", caller # "sg", calls > 0 \/ ntokens > 0
                 PROVE  /\ pos = LineEnd(start)
                        /\ ntokens = Cardinality({t \in TokensFrom(start) : t[1] < LineEnd(start)})
    BY DEF OneLine, Returned
  <2>2. pos = LineEnd(start)
    BY <2>1, <1>2 DEF LineSoFar
  <2>3. ntokens = Cardinality(Read(start, pos))
    BY <2>1, <1>2 DEF CallSoFar
  <2>4. start \in 1 .. End
    BY <1>3
  <2>5. {t \in TokensFrom(start) : t[1] < LineEnd(start)} = Read(start, LineEnd(start))
    BY <2>4, <1>3, LineCount
  <2> QED
    BY <2>2, <2>3, <2>5
<1>6. NoneFromNextLine
  BY <1>2 DEF NoneFromNextLine, LineSoFar, NoNewline
<1>7. EachTokenOnce
  BY <1>2 DEF EachTokenOnce, PassSoFar, Read
<1>8. EpochIsOnePass
  <2>1. SUFFICES ASSUME fromTop, caller # "sg", reading # "in", pos = End
                 PROVE  counted = Cardinality(TokensFrom(1))
    BY DEF EpochIsOnePass
  <2>2. (IF reading = "in" THEN ntokens ELSE 0) = 0
    BY <2>1
  <2>3. Cardinality(Read(1, pos)) = counted + 0
    BY <2>1, <2>2, <1>2 DEF PassSoFar
  <2>4. counted \in Nat
    BY <1>2 DEF LinesShape
  <2>5. Read(1, End) = TokensFrom(1)
    <3>1. 1 \in 1 .. End
      BY <1>3
    <3> QED
      BY <3>1, <1>3, ReadEnds
  <2> QED
    BY <2>1, <2>3, <2>4, <2>5
<1> QED
  BY <1>4, <1>5, <1>6, <1>7, <1>8 DEF LinesRead

(* For every text and however the calls cut it: a supervised call reads one *)
(* line and counts its tokens, no example reaches over a newline, and       *)
(* between two rewinds every token of the file is read once and in order,   *)
(* which makes one epoch (dictionary.cc:208-232, 312-323, 348-412;          *)
(* fasttext.cc:628-661).                                                    *)
THEOREM ReadsLines == LinesSpec => []LinesRead
<1>1. LinesInv /\ [LinesNext]_lineVars => LinesInv'
  BY CallStep, TokenSupStep, TokenSgStep, FinishStep, LinesStutter DEF LinesNext
<1> QED
  BY <1>1, LinesStart, LinesInvRead, PTL DEF LinesSpec
=============================================================================

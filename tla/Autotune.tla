------------------------------ MODULE Autotune ------------------------------
(***************************************************************************)
(* The search for the best arguments (fastText/src/autotune.cc): trials of *)
(* training until a timer thread, or an interrupt, aborts the one that     *)
(* runs; then training again with the arguments that scored best.  The     *)
(* training itself is TrainingRun, which Training implements.              *)
(*                                                                         *)
(* Time is one bit: whether the duration is over.  Arguments are known by  *)
(* the score their trial had.  An interrupt is handled on the thread it    *)
(* happens to be delivered to, which goes on when the handler is done.     *)
(* It is the first one: the handler restores the handler before it.        *)
(***************************************************************************)
EXTENDS Integers, TrainingRun

CONSTANTS
  Scores,       \* the scores a trial may have, natural numbers
  NaN,          \* the score when nothing was predicted right
  Unknown,      \* kUnknownBestScore
  SizeLimited   \* whether a model size was asked for

ASSUME AutotuneAssumption ==
  /\ Scores \subseteq Nat /\ NaN \notin Scores /\ Unknown \notin Scores /\ NaN # Unknown
  /\ SizeLimited \in BOOLEAN

VARIABLES
  tuner,       \* the thread in train, see TunerSteps
  timer,       \* "none", "start", "loop", "sleep", "abort", "raise", "done"
  handler,     \* the interrupt handler: "none", "abort", "raise"
  host,        \* the thread it runs on
  interrupted, \* whether the user's interrupt has come
  continue,    \* continueTraining_
  over,        \* whether the duration has passed
  elapsedOver, \* whether elapsed_ says so
  bestScore,   \* bestScore_
  bestArgs,    \* bestTrainArgs, by their score
  scored,      \* ghost: the scores of all trials that had one
  early        \* ghost: whether the timer thread first ran before startTimer was through

tuneVars == <<run, raised, tuner, timer, handler, host, interrupted, continue, over,
          elapsedOver, bestScore, bestArgs, scored, early>>

TunerSteps == {"startTimer", "started", "loop", "vocabulary", "training", "trained",
              "retraining", "test", "join", "choose", "again", "againTraining",
              "againQuantize", "againRetraining", "finished", "failed", "terminated"}

\* Before startTimer is through.
Starting == {"startTimer", "started"}

\* A thread goes on unless the handler runs on it or the process is gone.
Alive == tuner # "terminated"
On(t) == Alive /\ (handler = "none" \/ host # t)

TunerAt(s) == tuner = s /\ On("main")
TimerAt(s) == timer = s /\ On("timer")

keepTuning == continue /\ ~elapsedOver

TuneInit ==
  /\ RunInit
  /\ tuner = "startTimer" /\ timer = "none"
  /\ handler = "none" /\ host = "main" /\ interrupted = FALSE
  /\ continue = FALSE
  /\ over = FALSE /\ elapsedOver = FALSE
  /\ bestScore = 0 /\ bestArgs = Unknown
  /\ scored = {} /\ early = FALSE

TimePasses ==
  /\ ~over /\ over' = TRUE
  /\ UNCHANGED <<run, raised, tuner, timer, handler, host, interrupted, continue,
                 elapsedOver, bestScore, bestArgs, scored, early>>

-----------------------------------------------------------------------------
\* startTimer creates the thread first (264) ...
StartTimer ==
  /\ TunerAt("startTimer")
  /\ timer' = "start" /\ tuner' = "started"
  /\ UNCHANGED <<run, raised, handler, host, interrupted, continue, over, elapsedOver,
                 bestScore, bestArgs, scored, early>>

\* ... and then sets what it reads (265-267).
SetContinue ==
  /\ TunerAt("started")
  /\ continue' = TRUE
  /\ bestScore' = Unknown
  /\ tuner' = "loop"
  /\ UNCHANGED <<run, raised, timer, handler, host, interrupted, over, elapsedOver, bestArgs, scored, early>>

\* A turn of the loop: train reads the vocabulary first.
BeginTrial ==
  /\ TunerAt("loop")
  /\ tuner' = IF keepTuning THEN "vocabulary" ELSE "join"
  /\ UNCHANGED <<run, raised, timer, handler, host, interrupted, continue, over,
                 elapsedOver, bestScore, bestArgs, scored, early>>

\* A sample of arguments may ask for too much memory, which ends the trial.
Vocabulary ==
  /\ TunerAt("vocabulary")
  /\ \/ Start /\ tuner' = "training"
     \/ tuner' = "loop" /\ UNCHANGED <<run, raised>>
  /\ UNCHANGED <<timer, handler, host, interrupted, continue, over, elapsedOver,
                 bestScore, bestArgs, scored, early>>

\* The end of startThreads, and what the handlers of train make of it.
Ends(good, diverged, aborted) ==
  /\ \/ EndWell /\ tuner' = good
     \/ EndBadly /\ tuner' = IF raised = "nan" THEN diverged ELSE aborted
  /\ On("trainer")

TrialEnds ==
  /\ TunerAt("training")
  /\ Ends("trained", "loop", "join")
  /\ UNCHANGED <<timer, handler, host, interrupted, continue, over, elapsedOver,
                 bestScore, bestArgs, scored, early>>

\* quantize: nothing to do without a limit; a limit too small gives up the
\* trial; otherwise the model is pruned, and trained again if that left a
\* row out.
Quantize ==
  /\ TunerAt("trained")
  /\ \/ tuner' = "test" /\ UNCHANGED <<run, raised>>
     \/ SizeLimited /\ tuner' = "loop" /\ UNCHANGED <<run, raised>>
     \/ SizeLimited /\ Start /\ tuner' = "retraining"
  /\ UNCHANGED <<timer, handler, host, interrupted, continue, over, elapsedOver,
                 bestScore, bestArgs, scored, early>>

RetrainingEnds ==
  /\ TunerAt("retraining")
  /\ Ends("test", "loop", "join")
  /\ UNCHANGED <<timer, handler, host, interrupted, continue, over, elapsedOver,
                 bestScore, bestArgs, scored, early>>

\* The comparison at 422, as doubles compare: with NaN it is never true.
Better(s) ==
  bestScore = Unknown \/ (s # NaN /\ bestScore # NaN /\ s > bestScore)

\* The test on the validation file, and the comparison of its score.
Test ==
  /\ TunerAt("test")
  /\ \E s \in Scores \cup {NaN} :
       /\ scored' = scored \cup {s}
       /\ IF Better(s)
          THEN bestScore' = s /\ bestArgs' = s
          ELSE UNCHANGED <<bestScore, bestArgs>>
  /\ tuner' = "loop"
  /\ UNCHANGED <<run, raised, timer, handler, host, interrupted, continue, over, elapsedOver, early>>

JoinNobody ==  \* Slip: the timer is left to itself
  /\ TunerAt("join")
  /\ tuner' = "choose"
  /\ UNCHANGED <<run, raised, timer, handler, host, interrupted, continue, over,
                 elapsedOver, bestScore, bestArgs, scored, early>>

\* timer_.join()
JoinTimer ==
  /\ TunerAt("join") /\ timer = "done"
  /\ tuner' = "choose"
  /\ UNCHANGED <<run, raised, timer, handler, host, interrupted, continue, over,
                 elapsedOver, bestScore, bestArgs, scored, early>>

\* Without a score there is nothing to train again with, and train throws.
Choose ==
  /\ TunerAt("choose")
  /\ tuner' = IF bestScore = Unknown THEN "failed" ELSE "again"
  /\ UNCHANGED <<run, raised, timer, handler, host, interrupted, continue, over,
                 elapsedOver, bestScore, bestArgs, scored, early>>

TrainAgain ==
  /\ TunerAt("again")
  /\ Start
  /\ tuner' = "againTraining"
  /\ UNCHANGED <<timer, handler, host, interrupted, continue, over, elapsedOver,
                 bestScore, bestArgs, scored, early>>

AgainEnds ==
  /\ TunerAt("againTraining")
  /\ Ends("againQuantize", "failed", "failed")
  /\ UNCHANGED <<timer, handler, host, interrupted, continue, over, elapsedOver,
                 bestScore, bestArgs, scored, early>>

QuantizeAgain ==
  /\ TunerAt("againQuantize")
  /\ \/ tuner' = "finished" /\ UNCHANGED <<run, raised>>
     \/ SizeLimited /\ tuner' = "failed" /\ UNCHANGED <<run, raised>>
     \/ SizeLimited /\ Start /\ tuner' = "againRetraining"
  /\ UNCHANGED <<timer, handler, host, interrupted, continue, over, elapsedOver,
                 bestScore, bestArgs, scored, early>>

AgainRetrainingEnds ==
  /\ TunerAt("againRetraining")
  /\ \E good \in {"finished", "failed"} : Ends(good, "failed", "failed")
  /\ UNCHANGED <<timer, handler, host, interrupted, continue, over, elapsedOver,
                 bestScore, bestArgs, scored, early>>

\* What no handler of the trial catches leaves train while the timer thread is
\* not joined, whose destructor ends the process: no words to train on, a matrix
\* too small to be quantized, a metric's label that does not exist.
Uncaught ==
  /\ TunerAt("vocabulary") \/ (TunerAt("trained") /\ SizeLimited) \/ TunerAt("test")
  /\ tuner' = "terminated"
  /\ UNCHANGED <<run, raised, timer, handler, host, interrupted, continue, over,
                 elapsedOver, bestScore, bestArgs, scored, early>>

Tuner == \/ StartTimer \/ SetContinue \/ BeginTrial \/ Vocabulary \/ TrialEnds
        \/ Quantize \/ RetrainingEnds \/ Test \/ JoinTimer \/ Choose \/ TrainAgain
        \/ AgainEnds \/ QuantizeAgain \/ AgainRetrainingEnds \/ Uncaught

\* A loss may diverge in a training thread.
LossDiverges ==
  /\ Diverge /\ On("trainer")
  /\ UNCHANGED <<tuner, timer, handler, host, interrupted, continue, over,
                 elapsedOver, bestScore, bestArgs, scored, early>>

-----------------------------------------------------------------------------
\* The timer thread.
TimerStarts ==
  /\ TimerAt("start")
  /\ early' = (tuner = "started")
  /\ elapsedOver' = FALSE
  /\ timer' = "loop"
  /\ UNCHANGED <<run, raised, tuner, handler, host, interrupted, continue, over,
                 bestScore, bestArgs, scored>>

TimerChecks ==
  /\ TimerAt("loop")
  /\ timer' = IF keepTuning THEN "sleep" ELSE "abort"
  /\ UNCHANGED <<run, raised, tuner, handler, host, interrupted, continue, over,
                 elapsedOver, bestScore, bestArgs, scored, early>>

TimerSleeps ==
  /\ TimerAt("sleep")
  /\ elapsedOver' = over
  /\ timer' = "loop"
  /\ UNCHANGED <<run, raised, tuner, handler, host, interrupted, continue, over,
                 bestScore, bestArgs, scored, early>>

\* Autotune::abort in the timer thread: the test and the store (255-256), and
\* the abort of the training (257).
TimerAborts ==
  /\ TimerAt("abort")
  /\ continue' = FALSE
  /\ timer' = IF continue THEN "raise" ELSE "done"
  /\ UNCHANGED <<run, raised, tuner, handler, host, interrupted, over, elapsedOver,
                 bestScore, bestArgs, scored, early>>

TimerRaises ==
  /\ TimerAt("raise")
  /\ Abort
  /\ timer' = "done"
  /\ UNCHANGED <<tuner, handler, host, interrupted, continue, over, elapsedOver,
                 bestScore, bestArgs, scored, early>>

Timer == TimerStarts \/ TimerChecks \/ TimerSleeps \/ TimerAborts \/ TimerRaises

-----------------------------------------------------------------------------
\* An interrupt once startTimer has set its handler, on any thread that runs.
Interrupt ==
  /\ ~interrupted /\ interrupted' = TRUE
  /\ handler = "none" /\ tuner \notin Starting \cup {"finished", "failed", "terminated"}
  /\ host' \in {"main"} \cup (IF timer \notin {"none", "done"} THEN {"timer"} ELSE {})
                        \cup (IF run = "running" THEN {"trainer"} ELSE {})
  /\ handler' = "abort"
  /\ UNCHANGED <<run, raised, tuner, timer, continue, over, elapsedOver, bestScore, bestArgs, scored, early>>

HandlerAbortsTraining ==  \* Slip: only the training that runs is told
  /\ handler = "abort" /\ Alive
  /\ handler' = "raise"
  /\ UNCHANGED <<run, raised, tuner, timer, host, interrupted, continue, over, elapsedOver,
                 bestScore, bestArgs, scored, early>>

HandlerAborts ==
  /\ handler = "abort" /\ Alive
  /\ continue' = FALSE
  /\ handler' = IF continue THEN "raise" ELSE "none"
  /\ UNCHANGED <<run, raised, tuner, timer, host, interrupted, over, elapsedOver,
                 bestScore, bestArgs, scored, early>>

HandlerRaises ==
  /\ handler = "raise" /\ Alive
  /\ Abort
  /\ handler' = "none"
  /\ UNCHANGED <<tuner, timer, host, interrupted, continue, over, elapsedOver,
                 bestScore, bestArgs, scored, early>>

Handler == HandlerAborts \/ HandlerRaises

TuneNext == Tuner \/ TimePasses \/ LossDiverges \/ Timer \/ Interrupt \/ Handler

\* Each thread runs, time passes; a loss need not diverge and nobody need
\* interrupt.  A trial that runs comes to its end as Training shows.
TuneSpec ==
  /\ TuneInit /\ [][TuneNext]_tuneVars
  /\ WF_tuneVars(Tuner) /\ WF_tuneVars(Timer) /\ WF_tuneVars(Handler)
  /\ WF_tuneVars(TimePasses)

-----------------------------------------------------------------------------
\* The variables have their types (autotune.cc:208-275, 383-475).
TuneTypeOK ==
  /\ run \in Ended \cup {"idle", "running"} /\ raised \in {"none", "nan", "abort"}
  /\ tuner \in TunerSteps
  /\ timer \in {"none", "start", "loop", "sleep", "abort", "raise", "done"}
  /\ handler \in {"none", "abort", "raise"} /\ host \in {"main", "timer", "trainer"}
  /\ interrupted \in BOOLEAN /\ continue \in BOOLEAN /\ over \in BOOLEAN /\ elapsedOver \in BOOLEAN
  /\ bestArgs \in Scores \cup {NaN, Unknown} /\ scored \subseteq Scores \cup {NaN}
  /\ tuner \notin Starting => bestScore \in Scores \cup {NaN, Unknown}
  /\ early \in BOOLEAN

\* The training with the best arguments is never aborted, neither by the timer
\* nor by an interrupt that came earlier (254-259, 450-452, 472): whoever was
\* about to raise has raised before it starts.
FinalUndisturbed ==
  tuner \in {"againTraining", "againRetraining"} => raised # "abort" /\ run # "abort"

\* The best score is that of the arguments kept for it, and it is above every
\* score but NaN, if it is not NaN itself (422-426).
BestSoFar ==
  tuner \notin Starting /\ bestScore \in Scores =>
    /\ bestArgs = bestScore
    /\ \A s \in scored \ {NaN} : s <= bestScore

\* The arguments trained again with are the best of all trials that had a
\* score (468, 472).
BestSelected ==
  tuner = "againTraining" => \A s \in scored \ {NaN} : bestArgs # NaN /\ s <= bestArgs

\* The best score is that of the arguments kept for it and above all others,
\* and no abort of the search, by the timer or by an interrupt, hits the
\* training with them (autotune.cc:254-259, 422-426, 450-452, 472).
BestKept == TuneTypeOK /\ FinalUndisturbed /\ BestSoFar

\* When the duration is over, the search ends (autotune.cc:238-252, 399-452;
\* args.cc:305): it is trained again with the best, or train throws, or an
\* exception nobody catches has ended the process.  That needs a timer thread
\* that first runs when startTimer is through.
SearchOver == tuner \in {"choose", "again", "againTraining", "againQuantize",
                        "againRetraining", "finished", "failed"}
SearchLeft == SearchOver \/ ~Alive
Overdue == over /\ ~early /\ tuner \notin Starting

\* An interrupt ends the search too, whatever has become of the timer
\* (autotune.cc:254-259, 269-274), and also when training does not notice it.
Interrupted == handler = "raise"
=============================================================================

----------------------------- MODULE MCTraining -----------------------------
(***************************************************************************)
(* What runs while fastText trains, for TLC: the reading of lines, the     *)
(* training by two threads and by the caller alone, the search for the     *)
(* best arguments.  A behaviour is one of one part, which the initial      *)
(* state picks.  The training by the caller alone has v1..v12, the others   *)
(* have variables of their own.                                             *)
(***************************************************************************)
EXTENDS LineReading, Training, Autotune

VARIABLES
    part, \* which part runs, and the variables of the caller alone
    v1, v2, v3, v4, v5, v6, v7, v8, v9, v10, v11, v12

others == <<v1, v2, v3, v4, v5, v6, v7, v8, v9, v10, v11, v12>>
mcvars == <<part, lineVars, vars, tuneVars, others>>

One == INSTANCE Training WITH
    NThreads <- 1, tokenCount <- v1, exc <- v2, pc <- v3,
    local <- v4, seen <- v5, rest <- v6, main <- v7, next <- v8,
    outcome <- v9, late <- v10, aborts <- v11, runs <- v12

ASSUME PartsAssumption == One!TrainingAssumption

-----------------------------------------------------------------------------
Off == 0  \* a variable that the part does not have

MCInit ==
    /\ LinesInit /\ Init /\ TuneInit
    /\ part \in {"lines", "training", "alone", "autotune"}
    /\ part = "lines" \/ (text = <<>> /\ caller = "sg" /\ eosKnown)
    /\ \/ part = "alone" /\ One!Init
       \/ /\ part # "alone"
          /\ v1 = Off /\ v2 = Off /\ v3 = Off /\ v4 = Off /\ v5 = Off /\ v6 = Off
          /\ v7 = Off /\ v8 = Off /\ v9 = Off /\ v10 = Off /\ v11 = Off /\ v12 = Off

Unused ==
    /\ UNCHANGED part
    /\ part = "lines" \/ UNCHANGED lineVars
    /\ part = "training" \/ UNCHANGED vars
    /\ part = "autotune" \/ UNCHANGED tuneVars
    /\ part = "alone" \/ UNCHANGED others

MCNext ==
    /\ Unused
    /\ \/ part = "lines" /\ LinesNext
       \/ part = "training" /\ Next
       \/ part = "alone" /\ One!Next
       \/ part = "autotune" /\ TuneNext

(* The threads of each part go on when they can, and time passes.           *)
MainGoesOn ==
    /\ Unused
    /\ \/ part = "training" /\ Main
       \/ part = "alone" /\ One!Main
       \/ part = "autotune" /\ Tuner

TimerGoesOn == Unused /\ part = "autotune" /\ Timer

HandlerGoesOn == Unused /\ part = "autotune" /\ Handler

TimeGoesOn == Unused /\ part = "autotune" /\ TimePasses

ThreadGoesOn(t) ==
    /\ Unused
    /\ \/ part = "training" /\ Thread(t)
       \/ part = "alone" /\ t \in One!Threads /\ One!Thread(t)

MCSpec ==
    /\ MCInit /\ [][MCNext]_mcvars
    /\ WF_mcvars(MainGoesOn) /\ WF_mcvars(TimerGoesOn) /\ WF_mcvars(HandlerGoesOn)
    /\ WF_mcvars(TimeGoesOn) /\ \A t \in Threads : WF_mcvars(ThreadGoesOn(t))

-----------------------------------------------------------------------------
(* Training, by several threads or by the caller alone, implements          *)
(* TrainingRun: a run ends, with the exception that was raised while it ran *)
(* (fasttext.cc:771-816).                                                   *)
Run == INSTANCE TrainingRun WITH
    run <- IF part = "alone" THEN One!RunView ELSE RunView,
    raised <- IF part = "alone" THEN v2 ELSE exc
PromiseKept == Run!RunSpec

(* Autotune: when the duration is over the search ends, if startTimer was   *)
(* through before the timer thread looked; an interrupt ends it in any      *)
(* case (autotune.cc:238-274, 399-452, args.cc:305), and so does the end of *)
(* the process by an exception that is not caught.                          *)
SearchEnds == (Overdue ~> SearchLeft) /\ (Interrupted ~> SearchLeft)
=============================================================================

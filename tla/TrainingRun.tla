----------------------------- MODULE TrainingRun -----------------------------
(***************************************************************************)
(* What FastText::startThreads promises its callers (fasttext.cc:771-816): *)
(* a run of training that ends well, or with the exception of a loss that  *)
(* diverged or of an abort that came while it ran.  An abort that comes    *)
(* before the run starts is forgotten; one that comes when it has ended    *)
(* waits for the next start and is forgotten there.                        *)
(***************************************************************************)
VARIABLES
  run,   \* "idle"; "running"; how the last run ended: "well", "nan", "abort"
  raised \* trainException_: "none", "nan" or "abort"

runVars == <<run, raised>>

Ended == {"well", "nan", "abort"}

RunInit == run = "idle" /\ raised = "none"

Start == run # "running" /\ run' = "running" /\ raised' = "none"

Diverge == run = "running" /\ raised' = "nan" /\ UNCHANGED run

Abort == raised' = "abort" /\ UNCHANGED run

EndWell == run = "running" /\ raised = "none" /\ run' = "well" /\ UNCHANGED raised

EndBadly == run = "running" /\ raised # "none" /\ run' = raised /\ UNCHANGED raised

\* trainException_ is cleared before it is thrown on.
Clear == run \in {"nan", "abort"} /\ raised' = "none" /\ UNCHANGED run

RunNext == Start \/ Diverge \/ Abort \/ EndWell \/ EndBadly \/ Clear

\* A run ends: with an exception once one was raised, and otherwise well.
RunSpec == RunInit /\ [][RunNext]_runVars /\ WF_runVars(EndWell \/ EndBadly)
=============================================================================

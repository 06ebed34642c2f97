----------------------------- MODULE Semaphore ------------------------------
(***************************************************************************)
(* What moodycamel::LightweightSemaphore promises its users: a counter of  *)
(* permits that threads wait for.  A thread that waits takes some of the   *)
(* permits there are, at least one and at most as many as it asked for, or *)
(* gives up because its time is over.                                      *)
(***************************************************************************)
EXTENDS Naturals

CONSTANTS
    Threads,
    MaxWant      \* the most permits a call of waitMany asks for

SemaphoreAssumption == MaxWant \in Nat \ {0}

VARIABLES
    permits,     \* how many can be taken
    asking,      \* what each thread waits for: 0 if it does not
    patient      \* the threads that wait without a timeout

vars == <<permits, asking, patient>>

Init == permits = 0 /\ asking = [t \in Threads |-> 0] /\ patient = {}

Ask(t) ==
    /\ asking[t] = 0
    /\ \E n \in 1..MaxWant : asking' = [asking EXCEPT ![t] = n]
    /\ patient' \in {patient, patient \union {t}}
    /\ UNCHANGED permits

Take(t) ==
    /\ \E k \in 1..asking[t] : k <= permits /\ permits' = permits - k
    /\ asking' = [asking EXCEPT ![t] = 0]
    /\ patient' = patient \ {t}

GiveUp(t) ==
    /\ asking[t] > 0 /\ t \notin patient
    /\ asking' = [asking EXCEPT ![t] = 0]
    /\ UNCHANGED <<permits, patient>>

(* A second helping of waitMany takes what is left and never waits.         *)
TakeMore(t) ==
    /\ asking[t] = 0
    /\ \E k \in 1..MaxWant : k <= permits /\ permits' = permits - k
    /\ UNCHANGED <<asking, patient>>

Signal ==
    /\ \E n \in 1..MaxWant : permits' = permits + n
    /\ UNCHANGED <<asking, patient>>

Next ==
    \/ \E t \in Threads : Ask(t) \/ Take(t) \/ GiveUp(t) \/ TakeMore(t)
    \/ Signal

(* Permits and threads that wait without a timeout do not face each other   *)
(* for good.                                                                *)
TakeForPatient == patient # {} /\ \E t \in Threads : Take(t)

Spec == Init /\ [][Next]_vars /\ WF_vars(TakeForPatient)
=============================================================================

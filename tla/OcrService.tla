----------------------------- MODULE OcrService -----------------------------
(***************************************************************************)
(* What MainWorker::push promises its callers, whatever happens inside the *)
(* pool: every call returns, with the result of its own request, with a    *)
(* complete result that an earlier or concurrent PDF request for the same  *)
(* key produced, or with an exception.                                     *)
(***************************************************************************)
EXTENDS Documents

CONSTANTS
    Callers,      \* the threads that call MainWorker::push
    MaxRequests,  \* bound: calls in a behaviour
    TaskFails,    \* may rendering or recognition throw?
    Crashes       \* may the server process die and be started again?

VARIABLES
    asked,    \* the requests in the order they were pushed
    answer,   \* answer[n]: the future of the n-th request
    waiting   \* waiting[c]: the request whose future c waits for, or 0

svars == <<asked, answer, waiting>>

Tickets == 1..Len(asked)
Complete(p) == p.data # <<>> /\ p.lang # NoLang

(* The results a cache hit may answer request n with.                       *)
Cached(n) ==
    {p \in {Result(asked[m]) : m \in {m \in Tickets :
                asked[m].format = "PDF" /\ SameKey(asked[m], asked[n])}} : Complete(p)}

Init ==
    /\ asked = <<>>
    /\ answer = <<>>
    /\ waiting = [c \in Callers |-> 0]

Ask(c, r) ==
    /\ Len(asked) < MaxRequests
    /\ waiting[c] = 0
    /\ asked' = Append(asked, r)
    /\ answer' = Append(answer, Pending)
    /\ waiting' = [waiting EXCEPT ![c] = Len(asked) + 1]

Reply(n) ==
    /\ answer[n] = Pending
    /\ \E a \in {Ready(p) : p \in Cached(n) \cup {Result(asked[n])}}
              \cup {x \in {Thrown} : TaskFails} :
           answer' = [answer EXCEPT ![n] = a]
    /\ UNCHANGED <<asked, waiting>>

Receive(c) ==
    /\ waiting[c] # 0
    /\ answer[waiting[c]] # Pending
    /\ waiting' = [waiting EXCEPT ![c] = 0]
    /\ UNCHANGED <<asked, answer>>

Restart ==
    /\ Crashes
    /\ answer' = [n \in Tickets |-> IF answer[n] = Pending THEN Lost ELSE answer[n]]
    /\ waiting' = [c \in Callers |-> 0]
    /\ UNCHANGED asked

Next ==
    \/ \E c \in Callers : Receive(c) \/ \E r \in Requests : Ask(c, r)
    \/ \E n \in Tickets : Reply(n)
    \/ Restart

Spec == Init /\ [][Next]_svars

(* Tickets are bounded by MaxRequests, so fairness can name them.           *)
FairSpec ==
    /\ Spec
    /\ \A c \in Callers : WF_svars(Receive(c))
    /\ \A n \in 1..MaxRequests : WF_svars(n \in Tickets /\ Reply(n))
=============================================================================

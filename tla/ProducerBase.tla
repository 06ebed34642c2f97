---------------------------- MODULE ProducerBase ----------------------------
(***************************************************************************)
(* The counters of one moodycamel producer and how consumers claim         *)
(* elements by them (concurrentqueue.h, ProducerBase and the first half of *)
(* dequeue and dequeue_bulk, the same in both kinds of producer).  The     *)
(* indices are unsigned and wrap.  A consumer first counts itself in       *)
(* optimistically, looks again whether there was something for it, and     *)
(* gives back in dequeueOvercommit what it counted in vain; only then does *)
(* it advance headIndex.                                                   *)
(*                                                                         *)
(* An operation on an atomic variable is one step.  What a consumer does   *)
(* with the elements it claimed, and how the producer stores them, is left *)
(* to the modules that extend this one.                                    *)
(***************************************************************************)
EXTENDS Integers, FiniteSets, FiniteSetsExt

CONSTANTS
    Takers,
    Width,       \* the indices wrap at Width
    BlockSize,   \* BLOCK_SIZE
    Start,       \* elements that had come and gone before: where the indices start
    MaxCall,     \* bound: elements in one call
    MaxSent,     \* bound: elements enqueued
    MaxMissed    \* bound: misses, after which only a lone consumer of a
                 \* queue with elements calls

ProducerAssumption ==
    /\ BlockSize \in Nat \ {0} /\ Start \in Nat /\ MaxCall \in Nat \ {0}
    /\ MaxSent \in Nat /\ MaxMissed \in Nat /\ IsFiniteSet(Takers)
    /\ Width \in Nat /\ Start < Width
    /\ Width > 2 * (MaxSent + MaxMissed + (Cardinality(Takers) + 1) * MaxCall)
    /\ Width % BlockSize = 0 /\ Start % BlockSize = 0

VARIABLES
    tailIndex, headIndex,
    dequeueOptimisticCount, dequeueOvercommit,
    stage,       \* where each consumer is
    wanted,      \* elements it wants, has counted itself in for, or has claimed
    seen,        \* the tailIndex it has loaded; later its place in the count
    over,        \* the dequeueOvercommit it has loaded; later what to give back
    first        \* the next element it has claimed

registers == <<wanted, seen, over, first>>
claimVars == <<tailIndex, headIndex, dequeueOptimisticCount, dequeueOvercommit, stage, registers>>

Wrap(i) == i % Width
Signed(i) == IF 2 * Wrap(i) < Width THEN Wrap(i) ELSE Wrap(i) - Width

(* circular_less_than: a is behind b by less than half the range.           *)
Less(a, b) == 2 * Wrap(a - b) > Width

Base(i) == BlockSize * (i \div BlockSize)

Sent == Wrap(tailIndex - Start)
Size == IF Less(headIndex, tailIndex) THEN Wrap(tailIndex - headIndex) ELSE 0

ClaimInit ==
    /\ tailIndex = Start /\ headIndex = Start
    /\ dequeueOptimisticCount = Start /\ dequeueOvercommit = 0
    /\ stage = [c \in Takers |-> "idle"]
    /\ wanted = [c \in Takers |-> 0] /\ seen = wanted /\ over = wanted /\ first = wanted

Move(c, l) == stage' = [stage EXCEPT ![c] = l]

-----------------------------------------------------------------------------
(* dequeue asks for one, dequeue_bulk for up to max; load tailIndex.        *)
Call(c) ==
    /\ stage[c] = "idle"
    /\ \/ dequeueOvercommit < MaxMissed
       \/ Size > 0 /\ \A d \in Takers : stage[d] = "idle"
    /\ \E max \in 1..MaxCall : wanted' = [wanted EXCEPT ![c] = max]
    /\ seen' = [seen EXCEPT ![c] = tailIndex]
    /\ Move(c, "overcommit")
    /\ UNCHANGED <<tailIndex, headIndex, dequeueOptimisticCount, dequeueOvercommit, over, first>>

LoadOvercommit(c) ==
    /\ stage[c] = "overcommit"
    /\ over' = [over EXCEPT ![c] = dequeueOvercommit]
    /\ Move(c, "desire")
    /\ UNCHANGED <<tailIndex, headIndex, dequeueOptimisticCount, dequeueOvercommit, wanted, seen, first>>

Leave(c) ==
    /\ Move(c, "idle")
    /\ wanted' = [wanted EXCEPT ![c] = 0] /\ seen' = [seen EXCEPT ![c] = 0]
    /\ over' = [over EXCEPT ![c] = 0] /\ first' = [first EXCEPT ![c] = 0]

(* How much there seems to be, by the three counters loaded apart.          *)
Desire(c) ==
    LET desired == Wrap(seen[c] - (dequeueOptimisticCount - over[c]))
    IN  /\ stage[c] = "desire"
        /\ IF Less(0, desired)
           THEN /\ wanted' = [wanted EXCEPT ![c] = Min({desired, @})]
                /\ Move(c, "count")
                /\ UNCHANGED <<seen, over, first>>
           ELSE Leave(c)
        /\ UNCHANGED <<tailIndex, headIndex, dequeueOptimisticCount, dequeueOvercommit>>

CountIn(c) ==
    /\ stage[c] = "count"
    /\ seen' = [seen EXCEPT ![c] = dequeueOptimisticCount]
    /\ dequeueOptimisticCount' = Wrap(dequeueOptimisticCount + wanted[c])
    /\ Move(c, "actual")
    /\ UNCHANGED <<tailIndex, headIndex, dequeueOvercommit, wanted, over, first>>

(* The second look: what of the count is really there.                      *)
Actual(c) ==
    LET actual == Wrap(tailIndex - (seen[c] - over[c]))
        mine == IF Less(0, actual) THEN Min({wanted[c], actual}) ELSE 0
    IN  /\ stage[c] = "actual"
        /\ wanted' = [wanted EXCEPT ![c] = mine]
        /\ over' = [over EXCEPT ![c] = wanted[c] - mine]
        /\ Move(c, IF mine < wanted[c] THEN "giveback" ELSE "claim")
        /\ UNCHANGED <<tailIndex, headIndex, dequeueOptimisticCount, dequeueOvercommit, seen, first>>

(* Slip: a consumer that gets a part does not give back the rest.           *)
GiveBackOnlyAll(c) ==
    /\ stage[c] = "giveback"
    /\ dequeueOvercommit' = IF wanted[c] > 0 THEN dequeueOvercommit
                            ELSE Wrap(dequeueOvercommit + over[c])
    /\ IF wanted[c] > 0
       THEN Move(c, "claim") /\ over' = [over EXCEPT ![c] = 0] /\ UNCHANGED <<wanted, seen, first>>
       ELSE Leave(c)
    /\ UNCHANGED <<tailIndex, headIndex, dequeueOptimisticCount>>

GiveBack(c) ==
    /\ stage[c] = "giveback"
    /\ dequeueOvercommit' = Wrap(dequeueOvercommit + over[c])
    /\ IF wanted[c] > 0
       THEN Move(c, "claim") /\ over' = [over EXCEPT ![c] = 0] /\ UNCHANGED <<wanted, seen, first>>
       ELSE Leave(c)
    /\ UNCHANGED <<tailIndex, headIndex, dequeueOptimisticCount>>

Claim(c) ==
    /\ stage[c] = "claim"
    /\ first' = [first EXCEPT ![c] = headIndex]
    /\ headIndex' = Wrap(headIndex + wanted[c])
    /\ Move(c, "claimed")
    /\ seen' = [seen EXCEPT ![c] = 0] /\ over' = [over EXCEPT ![c] = 0]
    /\ UNCHANGED <<tailIndex, dequeueOptimisticCount, dequeueOvercommit, wanted>>

Claiming(c) ==
    \/ Call(c) \/ LoadOvercommit(c) \/ Desire(c) \/ CountIn(c)
    \/ Actual(c) \/ GiveBack(c) \/ Claim(c)

(* The producer makes k more elements visible.                              *)
Publish(k) == tailIndex' = Wrap(tailIndex + k)

-----------------------------------------------------------------------------
Index == 0..(Width - 1)

CountersTypeOK ==
    /\ {tailIndex, headIndex, dequeueOptimisticCount, dequeueOvercommit} \subseteq Index
    /\ wanted \in [Takers -> 0..MaxCall]
    /\ {seen[c] : c \in Takers} \union {first[c] : c \in Takers} \subseteq Index
    /\ {over[c] : c \in Takers} \subseteq Index

(* The places that the takers in S have, f[c] each.                         *)
Held(S, f) == {ci \in S \X (1..MaxCall) : ci[2] <= f[ci[1]]}

InFlight == {c \in Takers : stage[c] \in {"actual", "giveback", "claim"}}
GivingBack == {c \in Takers : stage[c] = "giveback"}
Sure == {c \in Takers : stage[c] \in {"giveback", "claim"}}

(* Every place ever counted is taken, given back, or in the hands of one    *)
(* consumer on its way to do the one or the other: so a queue is never      *)
(* taken for empty because of an old failed attempt                         *)
(* (concurrentqueue.h:2555-2562, 2613-2615, 2783-2801).                     *)
EveryCountSettled ==
    Wrap(dequeueOptimisticCount - dequeueOvercommit - headIndex)
        = Wrap(Cardinality(Held(InFlight, wanted)) + Cardinality(Held(GivingBack, over)))

(* However stale the three loads were, nobody claims an element that is not *)
(* there: the head never passes the tail, even by the claims that consumers *)
(* are about to make (concurrentqueue.h:2559-2562, 2789-2801).              *)
HeadStaysBehind ==
    Signed(tailIndex - headIndex) >= Cardinality(Held(Sure, wanted))

(* The counters of a sub-queue as a whole (concurrentqueue.h:2783-2801).    *)
CountsSettled == EveryCountSettled /\ HeadStaysBehind
=============================================================================

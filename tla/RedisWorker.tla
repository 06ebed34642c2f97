---------------------------- MODULE RedisWorker ----------------------------
(***************************************************************************)
(* The result cache of TextTrek: RedisWorker::check and RedisWorker::push  *)
(* of server/workers/redis_worker.cpp, called concurrently by the threads  *)
(* of the pool, and the hash records they share on one Redis server.       *)
(*                                                                         *)
(* A record is keyed by std::hash of the document and holds two fields.    *)
(* A thread that finds no record creates an empty one, the placeholder,    *)
(* which tells the others that somebody is at work, and is told to do the  *)
(* work itself (a miss).  A thread that finds a record with an empty field *)
(* polls it until it is filled (a hit) or until PollLimit whole minutes    *)
(* have passed (a miss).  Every Redis command is a step of its own, so     *)
(* other threads, expiry and crashes may come between any two.             *)
(***************************************************************************)
EXTENDS Naturals

CONSTANTS
    Threads,      \* the threads that call check and push
    Keys,         \* the decimal hashes used as Redis keys
    Data, Langs,  \* values of the two fields, the empty string included
    NoData, NoLang,  \* the empty string of each field
    Outcome,      \* Outcome[k]: the pairs that processing a document of key k may push
    PollLimit,    \* the 3 of "duration.count() > 3", in minutes
    RedisFails,   \* may a Redis command throw sw::redis::Error?
    Crashes       \* may the server process die and be started again?

VARIABLES
    store,    \* the Redis server: the record of every key
    rpc,      \* where each thread is inside check or push
    rkey,     \* the key of the thread's call
    rval,     \* the pair check returns, or the pair push was given
    minutes   \* whole minutes since the thread's polling loop began

rvars == <<store, rpc, rkey, rval, minutes>>

Pairs == [data : Data, lang : Langs]
Nothing == [data |-> NoData, lang |-> NoLang]

ASSUME FieldsAssumption == NoData \in Data /\ NoLang \in Langs
ASSUME OutcomeAssumption == Outcome \in [Keys -> SUBSET Pairs]
ASSUME LimitsAssumption ==
    PollLimit \in Nat /\ RedisFails \in BOOLEAN /\ Crashes \in BOOLEAN

(* The record of a key on the server.  `here` is what EXISTS answers and    *)
(* `ttl` whether a time to live is set, so whether the record will expire.  *)
Records == [here : BOOLEAN, ttl : BOOLEAN, data : Data, lang : Langs]
Absent == [here |-> FALSE, ttl |-> FALSE, data |-> NoData, lang |-> NoLang]

(* Both fields are set: the condition on vals of check, and the one with    *)
(* which ThreadPool::enqueue recognises a hit.                              *)
Full(p) == p.data # NoData /\ p.lang # NoLang

InCheck == {"exists", "hmget", "claim", "claimExpire", "poll", "pollHmget"}
InPush == {"fill", "fillExpire"}

Init ==
    /\ store = [k \in Keys |-> Absent]
    /\ rpc = [t \in Threads |-> "idle"]
    /\ rkey \in [Threads -> Keys]   \* no call yet: any value will do
    /\ rval = [t \in Threads |-> Nothing]
    /\ minutes = [t \in Threads |-> 0]

-----------------------------------------------------------------------------
(* The server.                                                              *)

(* HMSET writes both fields at once; on an existing key the time to live    *)
(* stays as it is, a key it creates has none.                               *)
Hmset(k, p) ==
    store' = [store EXCEPT ![k] = [here |-> TRUE, ttl |-> store[k].ttl,
                                   data |-> p.data, lang |-> p.lang]]

(* EXPIRE of a key that has gone meanwhile does nothing.                    *)
Expire(k) == store' = [store EXCEPT ![k].ttl = store[k].here]

(* Three hours are over, or the server evicted the key.                     *)
Lapse(k) ==
    /\ store[k].ttl
    /\ store' = [store EXCEPT ![k] = Absent]
    /\ UNCHANGED <<rpc, rkey, rval, minutes>>

-----------------------------------------------------------------------------
(* RedisWorker::check                                                       *)

Goto(t, pc) == rpc' = [rpc EXCEPT ![t] = pc]
Return(t, pair) == Goto(t, "returned") /\ rval' = [rval EXCEPT ![t] = pair]
StartPolling(t) == Goto(t, "poll") /\ minutes' = [minutes EXCEPT ![t] = 0]

CallCheck(t, k) ==
    /\ rpc[t] = "idle"
    /\ Goto(t, "exists")
    /\ rkey' = [rkey EXCEPT ![t] = k]
    /\ UNCHANGED <<store, rval, minutes>>

CheckExists(t) ==
    /\ rpc[t] = "exists"
    /\ Goto(t, IF store[rkey[t]].here THEN "hmget" ELSE "claim")
    /\ UNCHANGED <<store, rkey, rval, minutes>>

(* HMGET of a record that lapsed after EXISTS yields nil fields, which do   *)
(* not parse as strings: vals does not become a full pair either way.       *)
CheckHmget(t) ==
    /\ rpc[t] = "hmget"
    /\ LET r == store[rkey[t]] IN
       IF Full(r)
       THEN Return(t, [data |-> r.data, lang |-> r.lang]) /\ UNCHANGED minutes
       ELSE StartPolling(t) /\ UNCHANGED rval
    /\ UNCHANGED <<store, rkey>>

Claim(t) ==
    /\ rpc[t] = "claim"
    /\ Hmset(rkey[t], Nothing)
    /\ Goto(t, "claimExpire")
    /\ UNCHANGED <<rkey, rval, minutes>>

ClaimExpire(t) ==
    /\ rpc[t] = "claimExpire"
    /\ Expire(rkey[t])
    /\ Return(t, Nothing)
    /\ UNCHANGED <<rkey, minutes>>

(* A command of the first try block throws.  The handler only logs, so the  *)
(* thread goes on to the polling loop with an empty vals.  The server may   *)
(* have executed the command before the connection was lost.                *)
CheckError(t) ==
    /\ RedisFails
    /\ rpc[t] \in {"exists", "hmget", "claim", "claimExpire"}
    /\ StartPolling(t)
    /\ \/ UNCHANGED store
       \/ rpc[t] = "claim" /\ Hmset(rkey[t], Nothing)
       \/ rpc[t] = "claimExpire" /\ Expire(rkey[t])
    /\ UNCHANGED <<rkey, rval>>

(* Slip: the timeout is looked at only in a pass that finds no record.      *)
PollTimeoutIfAbsent(t) ==
    /\ rpc[t] = "poll"
    /\ minutes[t] > PollLimit
    /\ ~store[rkey[t]].here
    /\ Return(t, Nothing)
    /\ UNCHANGED <<store, rkey, minutes>>

(* The polling loop, one pass every 20 ms.  A pass that finds no record, or *)
(* whose EXISTS throws, changes nothing.                                    *)
PollTimeout(t) ==
    /\ rpc[t] = "poll"
    /\ minutes[t] > PollLimit
    /\ Return(t, Nothing)
    /\ UNCHANGED <<store, rkey, minutes>>

PollExists(t) ==
    /\ rpc[t] = "poll"
    /\ minutes[t] <= PollLimit
    /\ store[rkey[t]].here
    /\ Goto(t, "pollHmget")
    /\ UNCHANGED <<store, rkey, rval, minutes>>

PollHmget(t) ==
    /\ rpc[t] = "pollHmget"
    /\ LET r == store[rkey[t]] IN
       IF Full(r)
       THEN Return(t, [data |-> r.data, lang |-> r.lang])
       ELSE Goto(t, "poll") /\ UNCHANGED rval
    /\ UNCHANGED <<store, rkey, minutes>>

PollError(t) ==
    /\ RedisFails
    /\ rpc[t] = "pollHmget"
    /\ Goto(t, "poll")
    /\ UNCHANGED <<store, rkey, rval, minutes>>

(* Slip: the loop runs one minute too long.                                 *)
TickOnceMore(t) ==
    /\ rpc[t] \in {"poll", "pollHmget"}
    /\ minutes[t] <= PollLimit + 1
    /\ minutes' = [minutes EXCEPT ![t] = @ + 1]
    /\ UNCHANGED <<store, rpc, rkey, rval>>

(* The steady clock of a polling thread.  It is capped at the first value   *)
(* that ends the loop: past it the thread does not tell values apart.       *)
Tick(t) ==
    /\ rpc[t] \in {"poll", "pollHmget"}
    /\ minutes[t] <= PollLimit
    /\ minutes' = [minutes EXCEPT ![t] = @ + 1]
    /\ UNCHANGED <<store, rpc, rkey, rval>>

-----------------------------------------------------------------------------
(* RedisWorker::push                                                        *)

(* Slip: only the fields that have a value are written.                     *)
PushNonEmptyFields(t) ==
    /\ rpc[t] = "fill"
    /\ LET r == store[rkey[t]] p == rval[t] IN
       Hmset(rkey[t], [data |-> IF p.data = NoData THEN r.data ELSE p.data,
                       lang |-> IF p.lang = NoLang THEN r.lang ELSE p.lang])
    /\ Goto(t, "fillExpire")
    /\ UNCHANGED <<rkey, rval, minutes>>

(* Slip: no EXPIRE, because the claim has already set the time to live.     *)
PushHmsetOnly(t) ==
    /\ rpc[t] = "fill"
    /\ Hmset(rkey[t], rval[t])
    /\ Goto(t, "pushed")
    /\ UNCHANGED <<rkey, rval, minutes>>

PushHmset(t) ==
    /\ rpc[t] = "fill"
    /\ Hmset(rkey[t], rval[t])
    /\ Goto(t, "fillExpire")
    /\ UNCHANGED <<rkey, rval, minutes>>

PushExpire(t) ==
    /\ rpc[t] = "fillExpire"
    /\ Expire(rkey[t])
    /\ Goto(t, "pushed")
    /\ UNCHANGED <<rkey, rval, minutes>>

PushError(t) ==
    /\ RedisFails
    /\ rpc[t] \in InPush
    /\ Goto(t, "pushed")
    /\ \/ UNCHANGED store
       \/ rpc[t] = "fill" /\ Hmset(rkey[t], rval[t])
       \/ rpc[t] = "fillExpire" /\ Expire(rkey[t])
    /\ UNCHANGED <<rkey, rval, minutes>>

-----------------------------------------------------------------------------
(* The caller, ThreadPool::enqueue: it answers from a hit, processes the    *)
(* document and pushes what it found after a miss, or leaves by an          *)
(* exception and pushes nothing.                                            *)

CallPush(t, pair) ==
    /\ rpc[t] = "returned"
    /\ ~Full(rval[t])
    /\ Goto(t, "fill")
    /\ rval' = [rval EXCEPT ![t] = pair]
    /\ UNCHANGED <<store, rkey, minutes>>

Leave(t) ==
    /\ rpc[t] \in {"returned", "pushed"}
    /\ Goto(t, "idle")
    /\ rval' = [rval EXCEPT ![t] = Nothing]
    /\ minutes' = [minutes EXCEPT ![t] = 0]
    /\ UNCHANGED <<store, rkey>>

(* The process dies (an uncaught signal, or exit(1) when Tesseract does not *)
(* initialise) and is started again.  Redis keeps what it has.              *)
Crash ==
    /\ Crashes
    /\ rpc' = [t \in Threads |-> "idle"]
    /\ rval' = [t \in Threads |-> Nothing]
    /\ minutes' = [t \in Threads |-> 0]
    /\ UNCHANGED <<store, rkey>>

-----------------------------------------------------------------------------
Check(t) ==
    \/ CheckExists(t) \/ CheckHmget(t) \/ Claim(t) \/ ClaimExpire(t)
    \/ CheckError(t)
    \/ PollTimeout(t) \/ PollExists(t) \/ PollHmget(t) \/ PollError(t)

Push(t) == PushHmset(t) \/ PushExpire(t) \/ PushError(t)

Caller(t) ==
    \/ \E k \in Keys : CallCheck(t, k)
    \/ \E pair \in Outcome[rkey[t]] : CallPush(t, pair)
    \/ Leave(t)

Next ==
    \/ \E t \in Threads : Check(t) \/ Push(t) \/ Tick(t) \/ Caller(t)
    \/ \E k \in Keys : Lapse(k)
    \/ Crash

Spec == Init /\ [][Next]_rvars

(* A command returns or throws, and time passes.  Nothing is assumed of the *)
(* callers, of expiry or of crashes.                                        *)
FairSpec ==
    /\ Spec
    /\ \A t \in Threads : WF_rvars(Check(t) \/ Push(t)) /\ WF_rvars(Tick(t))

-----------------------------------------------------------------------------
(* Every variable stays in its range: the record keeps both fields, and a   *)
(* thread's clock never passes the minute that ends its polling.            *)
TypeOK ==
    /\ store \in [Keys -> Records]
    /\ rpc \in [Threads -> {"idle", "returned", "pushed"} \cup InCheck \cup InPush]
    /\ rkey \in [Threads -> Keys]
    /\ rval \in [Threads -> Pairs]
    /\ minutes \in [Threads -> 0..(PollLimit + 1)]

(* What the cache serves is one result of the right document: a filled      *)
(* record, and a pair with which check reports a hit, is a pair that one    *)
(* push made for that key.  No interleaving of claims, pushes, expiries and *)
(* errors mixes the text of one push with the language of another           *)
(* (redis_worker.cpp:38-40, 62-64, 74).                                     *)
FromOnePush(p, k) == Full(p) => [data |-> p.data, lang |-> p.lang] \in Outcome[k]
CacheProvenance ==
    /\ \A k \in Keys : FromOnePush(store[k], k)
    /\ \A t \in Threads : FromOnePush(rval[t], rkey[t])

(* A record with no time to live would hold its key for good.  When no      *)
(* command throws and the process does not die, such a record exists only   *)
(* while some thread still has to execute the EXPIRE of its own HMSET, even *)
(* when records lapse while they are being rewritten                        *)
(* (redis_worker.cpp:29-30, 74-76).                                         *)
OwesExpire(t, k) == rpc[t] \in {"claimExpire", "fillExpire"} /\ rkey[t] = k
NoImmortalRecord ==
    (~RedisFails /\ ~Crashes) =>
        \A k \in Keys :
            store[k].here /\ ~store[k].ttl => \E t \in Threads : OwesExpire(t, k)

(* A call of check or push always comes back, whatever other threads, Redis *)
(* errors and expiry do: a placeholder nobody will ever fill holds a thread *)
(* for a bounded time only (redis_worker.cpp:45-49).                        *)
CallsReturn ==
    \A t \in Threads :
        rpc[t] \in InCheck \cup InPush ~> rpc[t] \in {"idle", "returned", "pushed"}
=============================================================================

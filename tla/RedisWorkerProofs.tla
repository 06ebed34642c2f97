------------------------- MODULE RedisWorkerProofs -------------------------
(***************************************************************************)
(* Proofs about the result cache, for any threads, keys, texts, languages  *)
(* and polling limit, with or without Redis errors and crashes.            *)
(***************************************************************************)
EXTENDS RedisWorker, TLAPS

(* The cache starts empty, with every variable in its range.                *)
LEMMA InitTypeOK == Init => TypeOK
  BY FieldsAssumption, LimitsAssumption
  DEF Init, TypeOK, Absent, Nothing, Records, Pairs

(* A step keeps every variable in its range.                                *)
LEMMA NextTypeOK == TypeOK /\ [Next]_rvars => TypeOK'
<1> SUFFICES ASSUME TypeOK, [Next]_rvars
             PROVE  TypeOK'
  OBVIOUS
<1> USE FieldsAssumption, LimitsAssumption
    DEF TypeOK, Records, Pairs, InCheck, InPush
<1>a1. ASSUME NEW k \in Keys
      PROVE  [data |-> store[k].data, lang |-> store[k].lang] \in Pairs
  BY <1>a1
<1>a2. ASSUME NEW k \in Keys, NEW p \in Pairs, Hmset(k, p)
          PROVE  store' \in [Keys -> Records]
  BY <1>a2 DEF Hmset
<1>a3. ASSUME NEW k \in Keys, Expire(k)
           PROVE  store' \in [Keys -> Records]
  BY <1>a3 DEF Expire
<1>a4. Nothing \in Pairs
  BY DEF Nothing
<1>a5. ASSUME NEW t \in Threads, NEW p \in Pairs, Return(t, p)
      PROVE  /\ rpc' \in [Threads -> {"idle", "returned", "pushed"} \cup InCheck \cup InPush]
             /\ rval' \in [Threads -> Pairs]
  BY <1>a5 DEF Return, Goto
<1>1. ASSUME NEW t \in Threads, Check(t)
      PROVE  TypeOK'
  <2>1. CASE CheckExists(t)
    BY <2>1 DEF CheckExists, Goto
  <2>2. CASE CheckHmget(t)
    <3>1. CASE Full(store[rkey[t]])
      <4>1. Return(t, [data |-> store[rkey[t]].data, lang |-> store[rkey[t]].lang])
        BY <2>2, <3>1 DEF CheckHmget
      <4> QED
        BY <2>2, <3>1, <4>1, <1>a1, <1>a5 DEF CheckHmget
    <3>2. CASE ~Full(store[rkey[t]])
      BY <2>2, <3>2 DEF CheckHmget, StartPolling, Goto
    <3> QED
      BY <3>1, <3>2
  <2>3. CASE Claim(t)
    BY <2>3, <1>a2, <1>a4 DEF Claim, Goto
  <2>4. CASE ClaimExpire(t)
    BY <2>4, <1>a3, <1>a4 DEF ClaimExpire, Return, Goto
  <2>5. CASE CheckError(t)
    <3>1. store' \in [Keys -> Records]
      BY <2>5, <1>a2, <1>a3, <1>a4 DEF CheckError
    <3>2. rpc' \in [Threads -> {"idle", "returned", "pushed"} \cup InCheck \cup InPush]
      BY <2>5 DEF CheckError, StartPolling, Goto
    <3>3. /\ rkey' \in [Threads -> Keys]
          /\ rval' \in [Threads -> Pairs]
          /\ minutes' \in [Threads -> 0..(PollLimit + 1)]
      BY <2>5 DEF CheckError, StartPolling
    <3> QED
      BY <3>1, <3>2, <3>3
  <2>6. CASE PollTimeout(t)
    BY <2>6 DEF PollTimeout, Return, Goto, Nothing
  <2>7. CASE PollExists(t)
    BY <2>7 DEF PollExists, Goto
  <2>8. CASE PollHmget(t)
    <3>1. CASE Full(store[rkey[t]])
      <4>1. Return(t, [data |-> store[rkey[t]].data, lang |-> store[rkey[t]].lang])
        BY <2>8, <3>1 DEF PollHmget
      <4> QED
        BY <2>8, <4>1, <1>a1, <1>a5 DEF PollHmget
    <3>2. CASE ~Full(store[rkey[t]])
      BY <2>8, <3>2 DEF PollHmget, Goto
    <3> QED
      BY <3>1, <3>2
  <2>9. CASE PollError(t)
    BY <2>9 DEF PollError, Goto
  <2> QED
    BY <1>1, <2>1, <2>2, <2>3, <2>4, <2>5, <2>6, <2>7, <2>8, <2>9 DEF Check
<1>2. ASSUME NEW t \in Threads, Push(t)
      PROVE  TypeOK'
  <2>1. CASE PushHmset(t)
    BY <2>1, <1>a2 DEF PushHmset, Goto
  <2>2. CASE PushExpire(t)
    BY <2>2, <1>a3 DEF PushExpire, Goto
  <2>3. CASE PushError(t)
    <3>1. store' \in [Keys -> Records]
      BY <2>3, <1>a2, <1>a3 DEF PushError
    <3>2. rpc' \in [Threads -> {"idle", "returned", "pushed"} \cup InCheck \cup InPush]
      BY <2>3 DEF PushError, Goto
    <3> QED
      BY <2>3, <3>1, <3>2 DEF PushError
  <2> QED
    BY <1>2, <2>1, <2>2, <2>3 DEF Push
<1>3. ASSUME NEW t \in Threads, Tick(t)
      PROVE  TypeOK'
  BY <1>3 DEF Tick
<1>4. ASSUME NEW t \in Threads, Caller(t)
      PROVE  TypeOK'
  <2>1. ASSUME NEW k \in Keys, CallCheck(t, k)
        PROVE  TypeOK'
    BY <2>1 DEF CallCheck, Goto
  <2>2. ASSUME NEW pair \in Outcome[rkey[t]], CallPush(t, pair)
        PROVE  TypeOK'
    BY <2>2, OutcomeAssumption DEF CallPush, Goto
  <2>3. CASE Leave(t)
    BY <2>3 DEF Leave, Goto, Nothing
  <2> QED
    BY <1>4, <2>1, <2>2, <2>3 DEF Caller
<1>5. ASSUME NEW k \in Keys, Lapse(k)
      PROVE  TypeOK'
  BY <1>5 DEF Lapse, Absent
<1>6. CASE Crash
  BY <1>6 DEF Crash, Nothing
<1>7. CASE UNCHANGED rvars
  BY <1>7 DEF rvars
<1> QED
  BY <1>1, <1>2, <1>3, <1>4, <1>5, <1>6, <1>7 DEF Next

(* Every variable of the cache stays in its range, through the two Redis    *)
(* calls, their error paths, expiry and a restart (redis_worker.cpp:19-82). *)
THEOREM TypeCorrect == Spec => []TypeOK
  BY InitTypeOK, NextTypeOK, PTL DEF Spec

-----------------------------------------------------------------------------
(* What makes CacheProvenance inductive: until check returns, a thread      *)
(* holds no pair, so the key of a new call cannot meet the pair of an old   *)
(* one.                                                                     *)
EmptyHanded ==
    \A t \in Threads : rpc[t] \in {"idle"} \cup InCheck => rval[t] = Nothing

(* Writing a pair of one push, or an empty pair, keeps every record one     *)
(* push's.                                                                  *)
LEMMA HmsetKeepsProvenance ==
    ASSUME TypeOK, CacheProvenance,
           NEW k \in Keys, NEW p \in Pairs, FromOnePush(p, k), Hmset(k, p)
    PROVE  \A j \in Keys : FromOnePush(store'[j], j)
<1> TAKE j \in Keys
<1>1. CASE j = k
  BY <1>1 DEF TypeOK, Hmset, FromOnePush, Full
<1>2. CASE j # k
  BY <1>2 DEF TypeOK, Hmset, CacheProvenance
<1> QED
  BY <1>1, <1>2

(* EXPIRE touches no field.                                                 *)
LEMMA ExpireKeepsProvenance ==
    ASSUME TypeOK, CacheProvenance, NEW k \in Keys, Expire(k)
    PROVE  \A j \in Keys : FromOnePush(store'[j], j)
<1> TAKE j \in Keys
<1>1. store'[j].data = store[j].data /\ store'[j].lang = store[j].lang
  BY DEF TypeOK, Expire, Records
<1> QED
  BY <1>1 DEF CacheProvenance, FromOnePush, Full

(* No interleaving of the steps of any number of threads, with errors,      *)
(* expiry and crashes, makes the cache serve a text with the language of    *)
(* another run or a pair of another document (redis_worker.cpp:38, 62, 74). *)
THEOREM Provenance == Spec => []CacheProvenance
<1>0. ~Full(Nothing) /\ ~Full(Absent) /\ Nothing \in Pairs
  BY FieldsAssumption DEF Full, Nothing, Absent, Pairs
<1>1. Init => EmptyHanded /\ CacheProvenance
  BY <1>0 DEF Init, EmptyHanded, CacheProvenance, FromOnePush
<1>2. TypeOK /\ EmptyHanded /\ CacheProvenance /\ [Next]_rvars
        => EmptyHanded' /\ CacheProvenance'
  <2> SUFFICES ASSUME TypeOK, EmptyHanded, CacheProvenance, [Next]_rvars
               PROVE  EmptyHanded' /\ CacheProvenance'
    OBVIOUS
  <2> USE <1>0
  <2>a1. ASSUME UNCHANGED store
         PROVE  \A j \in Keys : FromOnePush(store'[j], j)
    BY <2>a1 DEF CacheProvenance
  <2>a2. ASSUME NEW t \in Threads, rpc[t] \in InCheck
         PROVE  rval[t] = Nothing
    BY <2>a2 DEF EmptyHanded
  <2>a3. \A k : FromOnePush(Nothing, k)
    BY DEF FromOnePush
  \* A thread that goes on inside check, changing neither its key nor its pair.
  <2>a4. ASSUME NEW t \in Threads, NEW pc, Goto(t, pc), UNCHANGED <<rkey, rval>>,
                pc \in {"idle"} \cup InCheck => rval[t] = Nothing,
                \A j \in Keys : FromOnePush(store'[j], j)
         PROVE  EmptyHanded' /\ CacheProvenance'
    <3>1. EmptyHanded'
      BY <2>a4 DEF EmptyHanded, Goto, TypeOK
    <3>2. CacheProvenance'
      BY <2>a4 DEF CacheProvenance
    <3> QED
      BY <3>1, <3>2
  \* A thread that returns a pair of its key.
  <2>a5. ASSUME NEW t \in Threads, NEW p, Return(t, p), UNCHANGED rkey,
                FromOnePush(p, rkey[t]), \A j \in Keys : FromOnePush(store'[j], j)
         PROVE  EmptyHanded' /\ CacheProvenance'
    <3>1. EmptyHanded'
      BY <2>a5 DEF EmptyHanded, Return, Goto, TypeOK, InCheck
    <3>2. CacheProvenance'
      BY <2>a5 DEF CacheProvenance, Return, TypeOK
    <3> QED
      BY <3>1, <3>2
  <2>a6. ASSUME NEW t \in Threads, Full(store[rkey[t]])
         PROVE  FromOnePush([data |-> store[rkey[t]].data,
                             lang |-> store[rkey[t]].lang], rkey[t])
    BY <2>a6 DEF CacheProvenance, FromOnePush, TypeOK
  <2>1. ASSUME NEW t \in Threads, Check(t)
        PROVE  EmptyHanded' /\ CacheProvenance'
    <3>0. rkey[t] \in Keys
      BY DEF TypeOK
    <3>1. CASE CheckExists(t)
      BY <3>1, <2>a1, <2>a2, <2>a4 DEF CheckExists, InCheck
    <3>2. CASE CheckHmget(t)
      <4>1. CASE Full(store[rkey[t]])
        BY <3>2, <4>1, <2>a1, <2>a5, <2>a6 DEF CheckHmget
      <4>2. CASE ~Full(store[rkey[t]])
        BY <3>2, <4>2, <2>a1, <2>a2, <2>a4 DEF CheckHmget, StartPolling, InCheck
      <4> QED
        BY <4>1, <4>2
    <3>3. CASE Claim(t)
      <4>1. \A j \in Keys : FromOnePush(store'[j], j)
        BY <3>3, <3>0, <2>a3, HmsetKeepsProvenance DEF Claim
      <4> QED
        BY <3>3, <4>1, <2>a2, <2>a4 DEF Claim, InCheck
    <3>4. CASE ClaimExpire(t)
      <4>1. \A j \in Keys : FromOnePush(store'[j], j)
        BY <3>4, <3>0, ExpireKeepsProvenance DEF ClaimExpire
      <4> QED
        BY <3>4, <4>1, <2>a3, <2>a5 DEF ClaimExpire
    <3>5. CASE CheckError(t)
      <4>1. \A j \in Keys : FromOnePush(store'[j], j)
        <5>1. CASE UNCHANGED store
          BY <5>1, <2>a1
        <5>2. CASE Hmset(rkey[t], Nothing)
          BY <5>2, <3>0, <2>a3, HmsetKeepsProvenance
        <5>3. CASE Expire(rkey[t])
          BY <5>3, <3>0, ExpireKeepsProvenance
        <5> QED
          BY <3>5, <5>1, <5>2, <5>3 DEF CheckError
      <4> QED
        BY <3>5, <4>1, <2>a2, <2>a4 DEF CheckError, StartPolling, InCheck
    <3>6. CASE PollTimeout(t)
      BY <3>6, <2>a1, <2>a3, <2>a5 DEF PollTimeout
    <3>7. CASE PollExists(t)
      BY <3>7, <2>a1, <2>a2, <2>a4 DEF PollExists, InCheck
    <3>8. CASE PollHmget(t)
      <4>1. CASE Full(store[rkey[t]])
        BY <3>8, <4>1, <2>a1, <2>a5, <2>a6 DEF PollHmget
      <4>2. CASE ~Full(store[rkey[t]])
        BY <3>8, <4>2, <2>a1, <2>a2, <2>a4 DEF PollHmget, InCheck
      <4> QED
        BY <4>1, <4>2
    <3>9. CASE PollError(t)
      BY <3>9, <2>a1, <2>a2, <2>a4 DEF PollError, InCheck
    <3> QED
      BY <2>1, <3>1, <3>2, <3>3, <3>4, <3>5, <3>6, <3>7, <3>8, <3>9 DEF Check
  <2>2. ASSUME NEW t \in Threads, Push(t)
        PROVE  EmptyHanded' /\ CacheProvenance'
    <3>0. /\ rkey[t] \in Keys
          /\ rval[t] \in Pairs
          /\ FromOnePush(rval[t], rkey[t])
      BY DEF TypeOK, CacheProvenance
    <3>1. \A j \in Keys : FromOnePush(store'[j], j)
      <4>1. CASE UNCHANGED store
        BY <4>1, <2>a1
      <4>2. CASE Hmset(rkey[t], rval[t])
        BY <4>2, <3>0, HmsetKeepsProvenance
      <4>3. CASE Expire(rkey[t])
        BY <4>3, <3>0, ExpireKeepsProvenance
      <4> QED
        BY <2>2, <4>1, <4>2, <4>3 DEF Push, PushHmset, PushExpire, PushError
    <3> QED
      BY <2>2, <3>1, <2>a4 DEF Push, PushHmset, PushExpire, PushError, InCheck
  <2>3. ASSUME NEW t \in Threads, Tick(t)
        PROVE  EmptyHanded' /\ CacheProvenance'
    BY <2>3 DEF Tick, EmptyHanded, CacheProvenance
  <2>4. ASSUME NEW t \in Threads, Caller(t)
        PROVE  EmptyHanded' /\ CacheProvenance'
    <3>1. ASSUME NEW k \in Keys, CallCheck(t, k)
          PROVE  EmptyHanded' /\ CacheProvenance'
      <4>1. rval[t] = Nothing /\ UNCHANGED <<store, rval>>
        BY <3>1 DEF CallCheck, EmptyHanded
      <4>2. EmptyHanded'
        BY <3>1, <4>1 DEF CallCheck, Goto, EmptyHanded, TypeOK
      <4>3. CacheProvenance'
        BY <3>1, <4>1, <2>a3 DEF CallCheck, CacheProvenance, TypeOK
      <4> QED
        BY <4>2, <4>3
    <3>2. ASSUME NEW pair \in Outcome[rkey[t]], CallPush(t, pair)
          PROVE  EmptyHanded' /\ CacheProvenance'
      <4>0. pair = [data |-> pair.data, lang |-> pair.lang]
        BY <3>2, OutcomeAssumption DEF TypeOK, Pairs
      <4>1. FromOnePush(pair, rkey[t])
        BY <3>2, <4>0 DEF FromOnePush
      <4>2. EmptyHanded'
        BY <3>2 DEF CallPush, Goto, EmptyHanded, TypeOK, InCheck
      <4>3. CacheProvenance'
        BY <3>2, <4>1 DEF CallPush, CacheProvenance, TypeOK
      <4> QED
        BY <4>2, <4>3
    <3>3. CASE Leave(t)
      <4>1. EmptyHanded'
        BY <3>3 DEF Leave, Goto, EmptyHanded, TypeOK
      <4>2. CacheProvenance'
        BY <3>3, <2>a3 DEF Leave, CacheProvenance, TypeOK
      <4> QED
        BY <4>1, <4>2
    <3> QED
      BY <2>4, <3>1, <3>2, <3>3 DEF Caller
  <2>5. ASSUME NEW k \in Keys, Lapse(k)
        PROVE  EmptyHanded' /\ CacheProvenance'
    <3>1. \A j \in Keys : FromOnePush(store'[j], j)
      BY <2>5 DEF Lapse, CacheProvenance, FromOnePush, TypeOK
    <3> QED
      BY <2>5, <3>1 DEF Lapse, EmptyHanded, CacheProvenance
  <2>6. CASE Crash
    BY <2>6, <2>a1, <2>a3 DEF Crash, EmptyHanded, CacheProvenance
  <2>7. CASE UNCHANGED rvars
    BY <2>7 DEF rvars, EmptyHanded, CacheProvenance
  <2> QED
    BY <2>1, <2>2, <2>3, <2>4, <2>5, <2>6, <2>7 DEF Next
<1> QED
  BY <1>1, <1>2, TypeCorrect, PTL DEF Spec
-----------------------------------------------------------------------------
(* The record of a key is kept as it was, or is no immortal one.            *)
Kept(k) == store'[k] = store[k] \/ ~store'[k].here \/ store'[k].ttl

(* A thread that owed an EXPIRE and still owes it, on the same key.         *)
Owed(t, k) == OwesExpire(t, k) => OwesExpire(t, k)'

(* A step that makes no immortal record, and relieves no thread of the      *)
(* EXPIRE it owes, keeps the invariant.                                     *)
LEMMA KeptIsEnough ==
    ASSUME NoImmortalRecord,
           \A k \in Keys : Kept(k),
           \A k \in Keys, t \in Threads : Owed(t, k)
    PROVE  NoImmortalRecord'
<1> SUFFICES ASSUME ~RedisFails, ~Crashes, NEW k \in Keys,
                    store'[k].here, ~store'[k].ttl
             PROVE  \E t \in Threads : OwesExpire(t, k)'
  BY DEF NoImmortalRecord
<1>1. store'[k] = store[k]
  BY DEF Kept
<1>2. PICK t \in Threads : OwesExpire(t, k)
  BY <1>1 DEF NoImmortalRecord
<1> QED
  BY <1>2 DEF Owed

(* HMSET by a thread that goes on to its EXPIRE: the record it may make     *)
(* immortal is the one it owes an EXPIRE for.                               *)
LEMMA HmsetOwes ==
    ASSUME TypeOK, NoImmortalRecord, NEW t \in Threads, NEW p, NEW pc,
           Hmset(rkey[t], p), Goto(t, pc),
           pc \in {"claimExpire", "fillExpire"}, rkey' = rkey
    PROVE  NoImmortalRecord'
<1> SUFFICES ASSUME ~RedisFails, ~Crashes, NEW k \in Keys,
                    store'[k].here, ~store'[k].ttl
             PROVE  \E s \in Threads : OwesExpire(s, k)'
  BY DEF NoImmortalRecord
<1>1. CASE k = rkey[t]
  BY <1>1 DEF OwesExpire, Goto, TypeOK
<1>2. CASE k # rkey[t]
  <2>1. store'[k] = store[k]
    BY <1>2 DEF Hmset, TypeOK
  <2>2. PICK s \in Threads : OwesExpire(s, k)
    BY <2>1 DEF NoImmortalRecord
  <2>3. OwesExpire(s, k)'
    BY <1>2, <2>2 DEF OwesExpire, Goto, TypeOK
  <2> QED
    BY <2>3
<1> QED
  BY <1>1, <1>2

(* EXPIRE by a thread that is done with it: its own record, if it is still  *)
(* there, has a time to live now, and no other thread is relieved.          *)
LEMMA ExpirePays ==
    ASSUME TypeOK, NoImmortalRecord, NEW t \in Threads, NEW pc,
           Expire(rkey[t]), Goto(t, pc), rkey' = rkey
    PROVE  NoImmortalRecord'
<1> SUFFICES ASSUME ~RedisFails, ~Crashes, NEW k \in Keys,
                    store'[k].here, ~store'[k].ttl
             PROVE  \E s \in Threads : OwesExpire(s, k)'
  BY DEF NoImmortalRecord
<1>1. rkey[t] \in Keys /\ store[rkey[t]] \in Records
  BY DEF TypeOK
<1>2. k # rkey[t]
  BY <1>1 DEF Expire, TypeOK, Records
<1>3. store'[k] = store[k]
  BY <1>2 DEF Expire, TypeOK
<1>4. PICK s \in Threads : OwesExpire(s, k)
  BY <1>3 DEF NoImmortalRecord
<1>5. OwesExpire(s, k)'
  BY <1>2, <1>4 DEF OwesExpire, Goto, TypeOK
<1> QED
  BY <1>5

(* A thread that owes no EXPIRE moves on, and the cache stays as it is.     *)
LEMMA MoveKeeps ==
    ASSUME TypeOK, NoImmortalRecord, NEW t \in Threads, NEW pc,
           rpc[t] \notin {"claimExpire", "fillExpire"}, Goto(t, pc),
           store' = store,
           \A s \in Threads : s = t \/ rkey'[s] = rkey[s]
    PROVE  NoImmortalRecord'
<1>1. \A k \in Keys : Kept(k)
  BY DEF Kept
<1>2. \A k \in Keys, s \in Threads : Owed(s, k)
  BY DEF Owed, OwesExpire, Goto, TypeOK
<1> QED
  BY <1>1, <1>2, KeptIsEnough

(* No step leaves a record without a time to live and without a thread that *)
(* is about to set it.                                                      *)
LEMMA NextNoImmortal ==
    TypeOK /\ NoImmortalRecord /\ [Next]_rvars => NoImmortalRecord'
<1> SUFFICES ASSUME TypeOK, NoImmortalRecord, [Next]_rvars, ~RedisFails, ~Crashes
             PROVE  NoImmortalRecord'
  BY DEF NoImmortalRecord
<1>1. ASSUME NEW t \in Threads, Check(t)
      PROVE  NoImmortalRecord'
  <2>1. CASE CheckExists(t)
    BY <2>1, MoveKeeps DEF CheckExists
  <2>2. CASE CheckHmget(t)
    <3>1. Goto(t, "returned") \/ Goto(t, "poll")
      BY <2>2 DEF CheckHmget, Return, StartPolling
    <3> QED
      BY <2>2, <3>1, MoveKeeps DEF CheckHmget
  <2>3. CASE Claim(t)
    BY <2>3, HmsetOwes DEF Claim
  <2>4. CASE ClaimExpire(t)
    BY <2>4, ExpirePays DEF ClaimExpire, Return
  <2>5. CASE PollTimeout(t)
    BY <2>5, MoveKeeps DEF PollTimeout, Return
  <2>6. CASE PollExists(t)
    BY <2>6, MoveKeeps DEF PollExists
  <2>7. CASE PollHmget(t)
    <3>1. Goto(t, "returned") \/ Goto(t, "poll")
      BY <2>7 DEF PollHmget, Return
    <3> QED
      BY <2>7, <3>1, MoveKeeps DEF PollHmget
  <2> QED
    BY <1>1, <2>1, <2>2, <2>3, <2>4, <2>5, <2>6, <2>7
    DEF Check, CheckError, PollError
<1>2. ASSUME NEW t \in Threads, Push(t)
      PROVE  NoImmortalRecord'
  <2>1. CASE PushHmset(t)
    BY <2>1, HmsetOwes DEF PushHmset
  <2>2. CASE PushExpire(t)
    BY <2>2, ExpirePays DEF PushExpire
  <2> QED
    BY <1>2, <2>1, <2>2 DEF Push, PushError
<1>3. ASSUME NEW t \in Threads, Tick(t)
      PROVE  NoImmortalRecord'
  BY <1>3, KeptIsEnough DEF Tick, Kept, Owed, OwesExpire
<1>4. ASSUME NEW t \in Threads, Caller(t)
      PROVE  NoImmortalRecord'
  <2>1. ASSUME NEW k \in Keys, CallCheck(t, k)
        PROVE  NoImmortalRecord'
    <3>1. \A s \in Threads : s = t \/ rkey'[s] = rkey[s]
      BY <2>1 DEF CallCheck, TypeOK
    <3> QED
      BY <2>1, <3>1, MoveKeeps DEF CallCheck
  <2>2. ASSUME NEW pair \in Outcome[rkey[t]], CallPush(t, pair)
        PROVE  NoImmortalRecord'
    BY <2>2, MoveKeeps DEF CallPush
  <2>3. CASE Leave(t)
    BY <2>3, MoveKeeps DEF Leave
  <2> QED
    BY <1>4, <2>1, <2>2, <2>3 DEF Caller
<1>5. ASSUME NEW k \in Keys, Lapse(k)
      PROVE  NoImmortalRecord'
  <2>1. \A j \in Keys : Kept(j)
    BY <1>5 DEF Lapse, Kept, Absent, TypeOK
  <2>2. \A j \in Keys, t \in Threads : Owed(t, j)
    BY <1>5 DEF Lapse, Owed, OwesExpire
  <2> QED
    BY <2>1, <2>2, KeptIsEnough
<1>6. CASE UNCHANGED rvars
  BY <1>6, KeptIsEnough DEF rvars, Kept, Owed, OwesExpire
<1> QED
  BY <1>1, <1>2, <1>3, <1>4, <1>5, <1>6 DEF Next, Crash

(* When no command throws and the process does not die, no key is held for  *)
(* good: whoever left a record without a time to live is still about to set *)
(* it, whatever lapses meanwhile (redis_worker.cpp:29-30, 74-76).           *)
THEOREM NoneImmortal == Spec => []NoImmortalRecord
<1>1. Init => NoImmortalRecord
  BY DEF Init, Absent, NoImmortalRecord
<1>2. TypeOK /\ NoImmortalRecord /\ [Next]_rvars => NoImmortalRecord'
  BY NextNoImmortal
<1> QED
  BY <1>1, <1>2, TypeCorrect, PTL DEF Spec
=============================================================================

------------------------------ MODULE QueueProofs ---------------------------
(***************************************************************************)
(* Proofs about four parts of the moodycamel queue.  ProducerHash: each    *)
(* sub-queue has one writer, for any number of threads and whatever ids    *)
(* are used again.  FreeList: no block is handed out twice or lost,        *)
(* however the calls of any number of threads interleave.  TaskQueue: a    *)
(* consumer with a permit has an element to find, no search passes over    *)
(* one, and tokens stay apart, for any numbers of them and of sub-queues.  *)
(* ImplicitProducer and ExplicitProducer: the counters of a sub-queue      *)
(* never lose a place and never let a consumer claim what is not there,    *)
(* for any number of consumers and wherever the indices wrap.              *)
(***************************************************************************)
EXTENDS ProducerHash, FreeList, TaskQueue, ImplicitProducer,
        FiniteSetTheorems, WellFoundedInduction, TLAPS

Keys == Ids \cup {Free, Gone}
TableOf(c) == [keys : [0..(c - 1) -> Keys], values : [0..(c - 1) -> Nat \cup {Null}]]
Table == UNION {TableOf(c) : c \in Nat \ {0}}

Places ==
    {"dead", "idle", "search", "copy", "decide", "locked", "unlock", "giveup",
     "recycle", "insert", "uncount", "return", "exit"}

TypeInv ==
    /\ tables \in Seq(Table) /\ Len(tables) >= 1
    /\ inactive \in Seq(BOOLEAN)
    /\ pc \in [Ids -> Places]
    /\ main \in [Ids -> Nat] /\ index \in [Ids -> Nat] /\ ptr \in [Ids -> Nat]
    /\ got \in [Ids -> Nat \cup {Null}] /\ mine \in [Ids -> Nat \cup {Null}]

(* The producer that a thread has been given, or is to be given.            *)
Owner(t) == IF mine[t] # Null THEN mine[t] ELSE got[t]

OwnInv ==
    /\ \A t \in Ids : Owner(t) # Null => Owner(t) \in 1..Len(inactive) /\ ~inactive[Owner(t)]
    /\ \A t, u \in Ids : t # u /\ Owner(t) # Null => Owner(t) # Owner(u)

(* The slot where the n-th probe of a table falls, and that t's search of a *)
(* table comes to its key at slot i before a free one.                      *)
Slot(tab, n) == n % Cardinality(DOMAIN tab.keys)

Reaches(tab, t, i) ==
    \E k \in 0..(Cardinality(DOMAIN tab.keys) - 1) :
        /\ i = Slot(tab, Hash[t] + k) /\ tab.keys[i] = t
        /\ \A j \in 0..(k - 1) : tab.keys[Slot(tab, Hash[t] + j)] \notin {t, Free}

(* What a thread knows at each place.                                       *)
LocalInv(t) ==
    /\ main[t] <= Len(tables) /\ ptr[t] <= Len(inactive)
    /\ pc[t] \notin {"dead", "idle", "exit"} => main[t] # 0
    /\ pc[t] = "dead" => mine[t] = Null
    /\ pc[t] \in {"dead", "idle", "search", "exit"} => got[t] = Null
    /\ pc[t] \in {"decide", "locked", "unlock", "giveup", "recycle"} => Owner(t) = Null
    /\ pc[t] = "insert" => mine[t] = Null /\ got[t] # Null
    /\ pc[t] = "exit" => mine[t] # Null
    /\ pc[t] \in {"copy", "uncount", "return"} /\ mine[t] # Null => got[t] = mine[t]
    /\ pc[t] = "copy" => mine[t] # Null

(* An entry leads its thread to its producer: a search finds it, and it is  *)
(* gone before the producer is.                                             *)
EntryInv(t) ==
    \A h \in 1..Len(tables) : \A i \in DOMAIN tables[h].keys : tables[h].keys[i] = t =>
        /\ Reaches(tables[h], t, i)
        /\ tables[h].values[i] = Owner(t) /\ Owner(t) # Null
        /\ pc[t] # "insert"
        /\ pc[t] = "copy" => h # main[t]
        /\ pc[t] = "exit" => h <= main[t]

(* Who has a producer has an entry, which the tables it searches hold.      *)
KnownInv(t) ==
    Owner(t) # Null /\ pc[t] \notin {"insert", "exit"} =>
        \E h \in 1..Len(tables) :
            /\ pc[t] = "search" => h <= main[t]
            /\ \E i \in DOMAIN tables[h].keys : tables[h].keys[i] = t

(* The slots that a thread has passed were in use, and are never free again.*)
ProbeInv(t) ==
    /\ pc[t] \in {"decide", "locked", "unlock", "recycle"} => index[t] = Hash[t]
    /\ pc[t] \in {"copy", "insert"} =>
          /\ index[t] >= Hash[t]
          /\ \A k \in 0..(index[t] - Hash[t] - 1) :
                tables[main[t]].keys[Slot(tables[main[t]], Hash[t] + k)] # Free

ThreadInv(t) == LocalInv(t) /\ EntryInv(t) /\ KnownInv(t) /\ ProbeInv(t)

Inv == TypeInv /\ OwnInv /\ \A t \in Ids : ThreadInv(t)
-----------------------------------------------------------------------------
(* A set of natural numbers has a least one, a bounded one a greatest.      *)
LEMMA Least ==
    ASSUME NEW T \in SUBSET Nat, T # {}
    PROVE  \E x \in T : \A y \in T : x <= y
<1>1. PICK x \in T : \A y \in T : ~(<<y, x>> \in OpToRel(<, Nat))
  BY NatLessThanWellFounded, WFMin
<1>2. \A y \in T : ~(y < x)
  BY <1>1 DEF OpToRel
<1> QED
  BY <1>2

(* What Max takes from a set of tables.                                     *)
LEMMA MaxIs ==
    ASSUME NEW n \in Nat, NEW S \in SUBSET (1..n), S # {}
    PROVE  Max(S) \in S /\ \A y \in S : Max(S) >= y
<1>1. PICK T \in SUBSET Nat : \A m \in Nat : m \in T <=> n - m \in S
  <2> WITNESS {m \in Nat : n - m \in S} \in SUBSET Nat
  <2> QED
    OBVIOUS
<1>2. \A x \in S : n - x \in Nat /\ n - (n - x) = x
  OBVIOUS
<1>3. T # {}
  BY <1>1, <1>2
<1>4. PICK z \in T : \A y \in T : z <= y
  BY <1>3, Least
<1>5. \A y \in S : n - z >= y
  BY <1>1, <1>2, <1>4
<1>6. n - z \in S
  BY <1>1, <1>4
<1> QED
  BY <1>5, <1>6 DEF Max

-----------------------------------------------------------------------------
(* Remainders: what % gives.                                                *)
LEMMA DivMod ==
    ASSUME NEW a \in Nat, NEW c \in Nat \ {0}
    PROVE  a = c * (a \div c) + (a % c) /\ a \div c \in Nat /\ a % c \in 0..(c - 1)
OBVIOUS

(* A number is a multiple of another and a remainder.                       *)
LEMMA Residue ==
    ASSUME NEW a \in Nat, NEW c \in Nat \ {0}
    PROVE  \E q \in Nat : a = c * q + (a % c)
BY DivMod

(* The remainder is the one number in range that makes it so.               *)
LEMMA ModUnique ==
    ASSUME NEW q \in Nat, NEW r \in Nat, NEW c \in Nat \ {0}, r < c
    PROVE  (c * q + r) % c = r
OBVIOUS

(* A positive multiple is no less than the number.                          *)
LEMMA Times ==
    ASSUME NEW c \in Nat \ {0}, NEW q \in Int, q > 0
    PROVE  c * q >= c
OBVIOUS

(* The difference of two multiples.                                         *)
LEMMA Minus ==
    ASSUME NEW c \in Int, NEW p \in Int, NEW q \in Int
    PROVE  c * q - c * p = c * (q - p)
OBVIOUS

(* Two probes less than a whole table apart fall on different slots.        *)
LEMMA ModDistinct ==
    ASSUME NEW a \in Nat, NEW c \in Nat \ {0}, NEW j \in Nat, NEW k \in Nat, j < k, k < c
    PROVE  (a + j) % c # (a + k) % c
<1> SUFFICES ASSUME (a + j) % c = (a + k) % c PROVE FALSE
  OBVIOUS
<1>1. PICK p \in Nat : a + j = c * p + ((a + j) % c)
  BY Residue, a + j \in Nat
<1>2. PICK q \in Nat : a + k = c * q + ((a + k) % c)
  BY Residue, a + k \in Nat
<1>3. (a + j) % c \in Nat
  BY DivMod, a + j \in Nat
<1>4. PICK r \in Nat : a + j = c * p + r /\ a + k = c * q + r
  BY <1>1, <1>2, <1>3
<1>5. k - j = c * q - c * p
  BY <1>4
<1>6. c * q - c * p = c * (q - p)
  BY Minus
<1>7. CASE q - p > 0
  <2>1. c * (q - p) >= c
    BY <1>7, <1>4, Times
  <2> QED
    BY <2>1, <1>5, <1>6
<1>8. CASE ~(q - p > 0)
  <2>1. p = q \/ p - q > 0
    BY <1>8
  <2>2. CASE p - q > 0
    <3>1. c * (p - q) >= c
      BY <2>2, <1>4, Times
    <3>2. c * p - c * q = c * (p - q)
      BY <1>4, Minus
    <3> QED
      BY <3>1, <3>2, <1>5, <1>4
  <2> QED
    BY <2>1, <2>2, <1>5
<1> QED
  BY <1>7, <1>8

(* Going on from where a probe falls is going on from the probe.            *)
LEMMA ModShift ==
    ASSUME NEW a \in Nat, NEW b \in Nat, NEW c \in Nat \ {0}
    PROVE  (a + (b % c)) % c = (a + b) % c
<1> DEFINE q == b \div c
           r == b % c
           p == (a + r) \div c
           s == (a + r) % c
<1>1. b = c * q + r /\ q \in Nat /\ r \in Nat
  BY DivMod
<1>2. a + r = c * p + s /\ p \in Nat /\ s \in Nat /\ s < c
  BY <1>1, DivMod, a + r \in Nat
<1>3. c * p + c * q = c * (p + q)
  BY <1>1, <1>2
<1>4. a + b = c * (p + q) + s
  BY <1>1, <1>2, <1>3
<1>5. (c * (p + q) + s) % c = s
  BY <1>2, <1>1, ModUnique, p + q \in Nat
<1> QED
  BY <1>4, <1>5

-----------------------------------------------------------------------------
(* One table.                                                               *)
LEMMA TableFacts ==
    ASSUME NEW c \in Nat \ {0}, NEW tab \in TableOf(c)
    PROVE  /\ DOMAIN tab.keys = 0..(c - 1) /\ DOMAIN tab.values = 0..(c - 1)
           /\ Cardinality(DOMAIN tab.keys) = c
           /\ \A i \in 0..(c - 1) : tab.keys[i] \in Keys /\ tab.values[i] \in Nat \cup {Null}
           /\ \A n \in Nat : Slot(tab, n) = n % c /\ Slot(tab, n) \in 0..(c - 1)
<1>1. /\ DOMAIN tab.keys = 0..(c - 1) /\ DOMAIN tab.values = 0..(c - 1)
      /\ \A i \in 0..(c - 1) : tab.keys[i] \in Keys /\ tab.values[i] \in Nat \cup {Null}
  BY DEF TableOf
<1>2. Cardinality(0..(c - 1)) = c
  BY FS_Interval
<1>3. ASSUME NEW n \in Nat PROVE n % c \in 0..(c - 1)
  BY DivMod
<1> QED
  BY <1>1, <1>2, <1>3 DEF Slot

(* Each table has a size.                                                   *)
LEMMA ATable ==
    ASSUME NEW tab \in Table
    PROVE  \E c \in Nat \ {0} : tab \in TableOf(c)
BY DEF Table

(* What another thread may do to a table, as far as thread t can tell.      *)
Kept(a, b, t) ==
    /\ DOMAIN b.keys = DOMAIN a.keys
    /\ \A i \in DOMAIN a.keys :
          /\ b.keys[i] = t <=> a.keys[i] = t
          /\ a.keys[i] = t => b.values[i] = a.values[i]
          /\ b.keys[i] = Free => a.keys[i] = Free

(* What others write does not end a search sooner or later.                 *)
LEMMA ReachKept ==
    ASSUME NEW c \in Nat \ {0}, NEW a \in TableOf(c), NEW b, NEW t \in Ids, NEW i,
           Kept(a, b, t), Reaches(a, t, i)
    PROVE  Reaches(b, t, i)
<1>1. PICK k \in 0..(c - 1) :
          /\ i = Slot(a, Hash[t] + k) /\ a.keys[i] = t
          /\ \A j \in 0..(k - 1) : a.keys[Slot(a, Hash[t] + j)] \notin {t, Free}
  BY TableFacts DEF Reaches
<1>2. Hash[t] \in Nat /\ \A n \in Nat : Slot(b, n) = Slot(a, n) /\ Slot(a, n) \in DOMAIN a.keys
  <2>1. Hash[t] \in Nat
    BY ProducerHashAssumption DEF HashAssumption
  <2>2. \A n \in Nat : Slot(a, n) \in DOMAIN a.keys
    BY TableFacts
  <2>3. \A n \in Nat : Slot(b, n) = Slot(a, n)
    BY DEF Kept, Slot
  <2> QED
    BY <2>1, <2>2, <2>3
<1>3. ASSUME NEW j \in 0..(k - 1) PROVE b.keys[Slot(b, Hash[t] + j)] \notin {t, Free}
  <2>1. Hash[t] + j \in Nat /\ a.keys[Slot(a, Hash[t] + j)] \notin {t, Free}
    BY <1>1, <1>2
  <2> QED
    BY <2>1, <1>2 DEF Kept
<1>4. i = Slot(b, Hash[t] + k) /\ b.keys[i] = t
  BY <1>1, <1>2 DEF Kept
<1>5. k \in 0..(Cardinality(DOMAIN b.keys) - 1)
  BY TableFacts DEF Kept
<1> QED
  BY <1>3, <1>4, <1>5 DEF Reaches

(* A thread writes its key into a slot that is free or may be used again.   *)
LEMMA Occupies ==
    ASSUME NEW c \in Nat \ {0}, NEW a \in TableOf(c), NEW t \in Ids, NEW s \in 0..(c - 1),
           NEW p \in Nat, a.keys[s] \in {Free, Gone},
           NEW b, b = [keys |-> [a.keys EXCEPT ![s] = t], values |-> [a.values EXCEPT ![s] = p]]
    PROVE  /\ b \in TableOf(c)
           /\ \A u \in Ids \ {t} : Kept(a, b, u)
           /\ \A i \in DOMAIN a.keys : b.keys[i] = IF i = s THEN t ELSE a.keys[i]
           /\ \A i \in DOMAIN a.keys : b.values[i] = IF i = s THEN p ELSE a.values[i]
           /\ DOMAIN b.keys = DOMAIN a.keys
<1> USE ProducerHashAssumption DEF HashAssumption
<1>1. /\ b.keys = [a.keys EXCEPT ![s] = t] /\ b.values = [a.values EXCEPT ![s] = p]
      /\ b = [keys |-> b.keys, values |-> b.values]
  BY DEF TableOf
<1>2. b \in TableOf(c)
  BY <1>1 DEF TableOf, Keys
<1>3. \A i \in DOMAIN a.keys : /\ b.keys[i] = IF i = s THEN t ELSE a.keys[i]
                              /\ b.values[i] = IF i = s THEN p ELSE a.values[i]
  BY <1>1, TableFacts
<1>4. DOMAIN b.keys = DOMAIN a.keys
  BY <1>1
<1> QED
  BY <1>2, <1>3, <1>4 DEF Kept

(* The place is the one where the thread's later searches end.              *)
LEMMA OccupiedIsFound ==
    ASSUME NEW c \in Nat \ {0}, NEW a \in TableOf(c), NEW b \in TableOf(c), NEW t \in Ids,
           NEW n \in Nat, n >= Hash[t],
           \A i \in DOMAIN a.keys : a.keys[i] # t,
           \A k \in 0..(n - Hash[t] - 1) : a.keys[Slot(a, Hash[t] + k)] # Free,
           \A i \in DOMAIN a.keys : b.keys[i] = IF i = Slot(a, n) THEN t ELSE a.keys[i]
    PROVE  Reaches(b, t, Slot(a, n))
<1> DEFINE m == n - Hash[t]
           k == m % c
<1>1. Hash[t] \in Nat /\ m \in Nat /\ n = Hash[t] + m
  BY ProducerHashAssumption DEF HashAssumption
<1>2. k \in 0..(c - 1) /\ k \in Nat /\ k <= m
  <2>1. m % c \in 0..(c - 1) /\ m = c * (m \div c) + (m % c) /\ m \div c \in Nat
    BY <1>1, DivMod
  <2>2. c * (m \div c) >= 0
    BY <2>1
  <2> QED
    BY <2>1, <2>2, <1>1
<1> HIDE DEF m
<1>3. (Hash[t] + k) % c = n % c
  <2>1. (Hash[t] + (m % c)) % c = (Hash[t] + m) % c
    BY <1>1, ModShift
  <2> QED
    BY <2>1, <1>1
<1> HIDE DEF k
<1>4. \A x \in Nat : Slot(a, x) = x % c /\ Slot(b, x) = x % c /\ x % c \in DOMAIN a.keys
  BY TableFacts
<1>5. Slot(a, n) = Slot(b, Hash[t] + k) /\ b.keys[Slot(a, n)] = t
  BY <1>1, <1>2, <1>3, <1>4
<1>6. ASSUME NEW j \in 0..(k - 1) PROVE b.keys[Slot(b, Hash[t] + j)] \notin {t, Free}
  <2>1. j \in Nat /\ j < k /\ k < c /\ j \in 0..(n - Hash[t] - 1) /\ Hash[t] + j \in Nat
    BY <1>1, <1>2
  <2>2. (Hash[t] + j) % c # (Hash[t] + k) % c
    BY <2>1, <1>1, <1>2, ModDistinct
  <2>3. Slot(b, Hash[t] + j) = Slot(a, Hash[t] + j) /\ Slot(a, Hash[t] + j) # Slot(a, n)
    BY <2>1, <2>2, <1>1, <1>3, <1>4
  <2>4. Slot(a, Hash[t] + j) \in DOMAIN a.keys
    BY <2>1, <1>4
  <2>5. b.keys[Slot(b, Hash[t] + j)] = a.keys[Slot(a, Hash[t] + j)]
    BY <2>3, <2>4
  <2> QED
    BY <2>1, <2>4, <2>5
<1>7. k \in 0..(Cardinality(DOMAIN b.keys) - 1)
  BY <1>2, TableFacts
<1> QED
  BY <1>5, <1>6, <1>7 DEF Reaches

(* An exiting thread's key is replaced wherever it is.                      *)
LEMMA Forgets ==
    ASSUME NEW c \in Nat \ {0}, NEW a \in TableOf(c), NEW t \in Ids,
           NEW f, DOMAIN f = DOMAIN a.keys, f = [i \in DOMAIN f |-> f[i]],
           \A i \in DOMAIN a.keys : f[i] = IF a.keys[i] = t THEN Gone ELSE a.keys[i],
           NEW b, b = [keys |-> f, values |-> a.values]
    PROVE  /\ b \in TableOf(c)
           /\ \A u \in Ids \ {t} : Kept(a, b, u)
           /\ DOMAIN b.keys = DOMAIN a.keys
           /\ \A i \in DOMAIN b.keys : b.keys[i] # t
<1> USE ProducerHashAssumption DEF HashAssumption
<1>1. b.keys = f /\ b.values = a.values
  OBVIOUS
<1>2. f \in [0..(c - 1) -> Keys]
  BY TableFacts DEF Keys
<1>3. b \in TableOf(c)
  BY <1>1, <1>2 DEF TableOf
<1> QED
  BY <1>1, <1>3 DEF Kept

(* A new table is empty.                                                    *)
LEMMA NewIsEmpty ==
    ASSUME NEW c \in Nat \ {0}
    PROVE  /\ NewTable(c) \in TableOf(c)
           /\ \A i \in DOMAIN NewTable(c).keys : NewTable(c).keys[i] = Free
BY DEF NewTable, TableOf, Keys

-----------------------------------------------------------------------------
(* The tables of the chain.                                                 *)
LEMMA TableAt ==
    ASSUME TypeInv, NEW h \in 1..Len(tables)
    PROVE  /\ Capacity(h) \in Nat \ {0} /\ tables[h] \in TableOf(Capacity(h))
           /\ DOMAIN tables[h].keys = 0..(Capacity(h) - 1)
           /\ \A n \in Nat : At(h, n) = Slot(tables[h], n) /\ At(h, n) \in 0..(Capacity(h) - 1)
<1>1. tables[h] \in Table
  BY DEF TypeInv
<1>2. PICK c \in Nat \ {0} : tables[h] \in TableOf(c)
  BY <1>1, ATable
<1>3. Capacity(h) = c
  BY <1>2, TableFacts DEF Capacity
<1> QED
  BY <1>2, <1>3, TableFacts DEF At, Capacity, Slot

(* Found is what a search reaches.                                          *)
LEMMA FoundReaches ==
    ASSUME TypeInv, NEW h \in 1..Len(tables), NEW t \in Ids, NEW i
    PROVE  i \in Found(h, t) <=> i \in DOMAIN tables[h].keys /\ Reaches(tables[h], t, i)
<1>0. Capacity(h) \in Nat \ {0} /\ Hash[t] \in Nat
  BY TableAt, ProducerHashAssumption DEF HashAssumption
<1>1. \A k \in 0..(Capacity(h) - 1) : Hash[t] + k \in Nat
  BY <1>0
<1>2. \A k \in 0..(Capacity(h) - 1) : At(h, Hash[t] + k) \in DOMAIN tables[h].keys
  BY <1>1, TableAt
<1>3. \A n : At(h, n) = Slot(tables[h], n)
  BY DEF At, Slot, Capacity
<1>4. i \in Found(h, t) <=>
        \E k \in 0..(Capacity(h) - 1) :
            /\ i = At(h, Hash[t] + k) /\ tables[h].keys[At(h, Hash[t] + k)] = t
            /\ \A j \in 0..(k - 1) : tables[h].keys[At(h, Hash[t] + j)] \notin {t, Free}
  BY DEF Found
<1> QED
  BY <1>2, <1>3, <1>4 DEF Reaches, Capacity

(* A search finds each entry.                                               *)
LEMMA EntryFound ==
    ASSUME TypeInv, NEW t \in Ids, EntryInv(t), NEW h \in 1..Len(tables)
    PROVE  \A i \in DOMAIN tables[h].keys : i \in Found(h, t) <=> tables[h].keys[i] = t
BY FoundReaches DEF EntryInv, Reaches

-----------------------------------------------------------------------------
(* What a step of one thread is to the others.                              *)
SameLocals(u) ==
    /\ pc'[u] = pc[u] /\ main'[u] = main[u] /\ index'[u] = index[u] /\ ptr'[u] = ptr[u]
    /\ got'[u] = got[u] /\ mine'[u] = mine[u]

TablesKept(u) ==
    /\ Len(tables) <= Len(tables')
    /\ \A h \in 1..Len(tables) : Kept(tables[h], tables'[h], u)
    /\ \A h \in (Len(tables) + 1)..Len(tables') :
          \A i \in DOMAIN tables'[h].keys : tables'[h].keys[i] # u

(* A step that writes to no table.                                          *)
LEMMA Unchanged ==
    ASSUME TypeInv, UNCHANGED tables
    PROVE  \A u \in Ids : TablesKept(u)
BY DEF TypeInv, TablesKept, Kept

(* What a thread knows stays true when another one steps.                   *)
LEMMA OthersFrame ==
    ASSUME TypeInv, TypeInv', NEW u \in Ids, ThreadInv(u), SameLocals(u), TablesKept(u),
           Len(inactive) <= Len(inactive')
    PROVE  ThreadInv(u)'
<1>0. Len(tables) \in Nat /\ Len(tables') \in Nat /\ Len(inactive) \in Nat /\ Len(inactive') \in Nat
  BY DEF TypeInv
<1>1. LocalInv(u)'
  BY <1>0 DEF ThreadInv, LocalInv, SameLocals, TablesKept, Owner, TypeInv
<1>2. ASSUME NEW h \in 1..Len(tables'), NEW i \in DOMAIN tables'[h].keys, tables'[h].keys[i] = u
      PROVE  /\ h \in 1..Len(tables) /\ i \in DOMAIN tables[h].keys /\ tables[h].keys[i] = u
             /\ tables'[h].values[i] = tables[h].values[i]
  <2>1. h \in 1..Len(tables)
    BY <1>0, <1>2 DEF TablesKept
  <2> QED
    BY <2>1, <1>2 DEF TablesKept, Kept
<1>3. EntryInv(u)'
  <2> SUFFICES ASSUME NEW h \in 1..Len(tables'), NEW i \in DOMAIN tables'[h].keys,
                      tables'[h].keys[i] = u
               PROVE  /\ Reaches(tables'[h], u, i)
                      /\ tables'[h].values[i] = Owner(u)' /\ Owner(u)' # Null
                      /\ pc'[u] # "insert"
                      /\ pc'[u] = "copy" => h # main'[u]
                      /\ pc'[u] = "exit" => h <= main'[u]
    BY DEF EntryInv
  <2>1. /\ h \in 1..Len(tables) /\ i \in DOMAIN tables[h].keys /\ tables[h].keys[i] = u
        /\ tables'[h].values[i] = tables[h].values[i]
    BY <1>2
  <2>2. /\ Reaches(tables[h], u, i)
        /\ tables[h].values[i] = Owner(u) /\ Owner(u) # Null
        /\ pc[u] # "insert"
        /\ pc[u] = "copy" => h # main[u]
        /\ pc[u] = "exit" => h <= main[u]
    BY <2>1 DEF ThreadInv, EntryInv
  <2>3. Reaches(tables'[h], u, i)
    BY <2>1, <2>2, TableAt, ReachKept DEF TablesKept
  <2> QED
    BY <2>1, <2>2, <2>3 DEF SameLocals, Owner
<1>4. KnownInv(u)'
  <2> SUFFICES ASSUME Owner(u) # Null, pc[u] \notin {"insert", "exit"}
               PROVE  \E h \in 1..Len(tables') :
                         /\ pc[u] = "search" => h <= main[u]
                         /\ \E i \in DOMAIN tables'[h].keys : tables'[h].keys[i] = u
    BY DEF KnownInv, SameLocals, Owner
  <2>1. PICK h \in 1..Len(tables) : /\ pc[u] = "search" => h <= main[u]
                                    /\ \E i \in DOMAIN tables[h].keys : tables[h].keys[i] = u
    BY DEF ThreadInv, KnownInv
  <2> QED
    BY <2>1, <1>0 DEF TablesKept, Kept
<1>5. ProbeInv(u)'
  <2>1. CASE pc[u] \in {"copy", "insert"}
    <3>1. main[u] \in 1..Len(tables)
      BY <2>1 DEF ThreadInv, LocalInv, TypeInv
    <3>2. Kept(tables[main[u]], tables'[main[u]], u)
      BY <3>1 DEF TablesKept
    <3>3. /\ index[u] >= Hash[u] /\ index[u] \in Nat /\ Hash[u] \in Nat
          /\ \A k \in 0..(index[u] - Hash[u] - 1) :
                tables[main[u]].keys[Slot(tables[main[u]], Hash[u] + k)] # Free
      BY <2>1, ProducerHashAssumption DEF ThreadInv, ProbeInv, TypeInv, HashAssumption
    <3>4. ASSUME NEW k \in 0..(index[u] - Hash[u] - 1)
          PROVE  tables'[main[u]].keys[Slot(tables'[main[u]], Hash[u] + k)] # Free
      <4>1. Hash[u] + k \in Nat
        BY <3>3
      <4>2. Slot(tables[main[u]], Hash[u] + k) \in DOMAIN tables[main[u]].keys
        BY <4>1, <3>1, TableAt
      <4>3. Slot(tables'[main[u]], Hash[u] + k) = Slot(tables[main[u]], Hash[u] + k)
        BY <3>2 DEF Kept, Slot
      <4> QED
        BY <4>2, <4>3, <3>2, <3>3 DEF Kept
    <3> QED
      BY <2>1, <3>3, <3>4 DEF ProbeInv, SameLocals
  <2>2. CASE pc[u] \notin {"copy", "insert"}
    BY <2>2 DEF ThreadInv, ProbeInv, SameLocals
  <2> QED
    BY <2>1, <2>2
<1> QED
  BY <1>1, <1>3, <1>4, <1>5 DEF ThreadInv

(* A step keeps the invariant when it does for the thread that takes it.    *)
LEMMA Together ==
    ASSUME Inv, NEW t \in Ids, TypeInv', OwnInv', ThreadInv(t)', Len(inactive) <= Len(inactive'),
           \A u \in Ids \ {t} : SameLocals(u) /\ TablesKept(u)
    PROVE  Inv'
<1>1. ASSUME NEW u \in Ids \ {t} PROVE ThreadInv(u)'
  BY <1>1, OthersFrame DEF Inv
<1> QED
  BY <1>1 DEF Inv

-----------------------------------------------------------------------------
(* Steps that neither write to a table nor give a producer.                 *)
Plain(t) ==
    \/ Begin(t) \/ LoadMain(t) \/ Decide(t) \/ Unlock(t) \/ ResizeFails(t) \/ GiveUp(t)
    \/ CreateFails(t) \/ Uncount(t) \/ Exit(t)

(* These steps keep the invariant.                                          *)
LEMMA PlainStep == ASSUME Inv, NEW t \in Ids, Plain(t) PROVE Inv'
<1> USE DEF shared, locals
<1>0. Len(tables) \in Nat /\ Len(tables) >= 1 /\ Len(inactive) \in Nat
  BY DEF Inv, TypeInv
<1>1. TypeInv' /\ UNCHANGED <<tables, inactive, mine, got>>
  <2>1. TypeInv
    BY DEF Inv
  <2>2. CASE Begin(t) \/ LoadMain(t) \/ Exit(t)
    BY <1>0, <2>1, <2>2 DEF TypeInv, Begin, LoadMain, Exit, Go, Places
  <2>3. CASE Decide(t) \/ Unlock(t)
    BY <1>0, <2>1, <2>3 DEF TypeInv, Decide, Unlock, Go, Places
  <2>4. CASE ResizeFails(t) \/ GiveUp(t) \/ CreateFails(t) \/ Uncount(t)
    BY <1>0, <2>1, <2>4 DEF TypeInv, ResizeFails, GiveUp, CreateFails, Uncount, Go, Places
  <2> QED
    BY <2>2, <2>3, <2>4 DEF Plain
<1>2. \A u \in Ids \ {t} : SameLocals(u) /\ TablesKept(u)
  <2>1. \A u \in Ids \ {t} : SameLocals(u)
    BY <1>1 DEF SameLocals, Inv, TypeInv, Plain, Begin, LoadMain, Decide, Unlock, ResizeFails,
       GiveUp, CreateFails, Uncount, Exit, Go
  <2> QED
    BY <1>1, <2>1, Unchanged DEF Inv
<1>3. OwnInv' /\ Owner(t)' = Owner(t)
  BY <1>1 DEF Inv, OwnInv, Owner
<1>4. /\ main'[t] \in {main[t], Len(tables)} /\ ptr'[t] \in {ptr[t], Len(inactive)}
      /\ index'[t] = index[t]
      /\ \/ pc[t] = "dead" /\ pc'[t] = "idle"
         \/ pc[t] = "idle" /\ pc'[t] \in {"search", "exit"} /\ main'[t] = Len(tables)
         \/ pc[t] = "idle" /\ pc'[t] = "dead"
         \/ pc[t] \in {"decide", "unlock"} /\ pc'[t] \in {"decide", "locked", "recycle"}
         \/ pc[t] = "locked" /\ pc'[t] = "giveup"
         \/ pc[t] \in {"giveup", "recycle", "uncount"} /\ pc'[t] = "return"
      /\ pc'[t] = "dead" => mine[t] = Null
      /\ pc'[t] = "exit" => mine[t] # Null
  BY <1>0 DEF Inv, TypeInv, Plain, Begin, LoadMain, Decide, Unlock, ResizeFails, GiveUp,
      CreateFails, Uncount, Exit, Go
<1>5. /\ LocalInv(t) /\ EntryInv(t) /\ KnownInv(t) /\ ProbeInv(t)
      /\ main[t] \in Nat /\ ptr[t] \in Nat
  BY DEF Inv, ThreadInv, TypeInv
<1>6. LocalInv(t)'
  BY <1>0, <1>1, <1>4, <1>5 DEF LocalInv, Owner
<1>7. EntryInv(t)'
  BY <1>0, <1>1, <1>3, <1>4, <1>5 DEF EntryInv
<1>8. KnownInv(t)'
  BY <1>0, <1>1, <1>3, <1>4, <1>5 DEF KnownInv
<1>9. ProbeInv(t)'
  BY <1>4, <1>5 DEF ProbeInv
<1> QED
  BY <1>0, <1>1, <1>2, <1>3, <1>6, <1>7, <1>8, <1>9, Together DEF ThreadInv

-----------------------------------------------------------------------------
(* The search comes to the thread's producer if it has one.                 *)
LEMMA SearchStep == ASSUME Inv, NEW t \in Ids, Search(t) PROVE Inv'
<1>1. /\ Len(tables) \in Nat /\ Len(inactive) \in Nat /\ Null \notin Nat
      /\ Hash[t] \in Nat /\ main[t] \in Nat /\ t \in DOMAIN index
  BY ProducerHashAssumption DEF Inv, TypeInv, HashAssumption
<1>2. LocalInv(t) /\ EntryInv(t) /\ KnownInv(t)
  BY DEF Inv, ThreadInv
<1>3. /\ pc[t] = "search" /\ UNCHANGED <<tables, inactive, main, ptr, mine>>
      /\ index' = [index EXCEPT ![t] = Hash[t]]
  BY DEF Search
<1>4. main[t] \in 1..Len(tables) /\ got[t] = Null /\ index'[t] = Hash[t]
  BY <1>1, <1>2, <1>3 DEF LocalInv
<1>5. ASSUME NEW h \in 1..Len(tables)
      PROVE  Found(h, t) # {} <=> \E i \in DOMAIN tables[h].keys : tables[h].keys[i] = t
  <2>1. \A i \in Found(h, t) : i \in DOMAIN tables[h].keys
    BY FoundReaches DEF Inv
  <2> QED
    BY <1>2, <2>1, EntryFound DEF Inv
<1>6. ASSUME NEW h \in 1..Len(tables), NEW i \in Found(h, t)
      PROVE  tables[h].values[i] = Owner(t) /\ Owner(t) # Null
  <2>1. i \in DOMAIN tables[h].keys /\ tables[h].keys[i] = t
    BY <1>2, FoundReaches, EntryFound DEF Inv
  <2> QED
    BY <2>1, <1>2 DEF EntryInv
<1>7. CASE Knows(t) # {}
  <2> DEFINE h == Max(Knows(t))
             i == CHOOSE i \in Found(h, t) : TRUE
  <2>1. h \in Knows(t) /\ \A g \in Knows(t) : h >= g
    <3>1. Knows(t) \in SUBSET (1..main[t])
      BY DEF Knows
    <3> QED
      BY <1>1, <1>7, <3>1, MaxIs
  <2>2. h \in 1..main[t] /\ h \in 1..Len(tables) /\ i \in Found(h, t)
    <3>1. h \in 1..main[t] /\ Found(h, t) # {}
      BY <2>1 DEF Knows
    <3>2. i \in Found(h, t)
      BY <3>1
    <3> QED
      BY <3>1, <3>2, <1>1, <1>4
  <2>3. tables[h].values[i] = mine[t] /\ mine[t] # Null
    BY <2>2, <1>6, <1>4 DEF Owner
  <2>4. /\ got' = [got EXCEPT ![t] = mine[t]]
        /\ pc' = [pc EXCEPT ![t] = IF h = main[t] THEN "return" ELSE "copy"]
    BY <1>7, <2>3 DEF Search, Go
  <2>5. h # main[t] => \A j \in DOMAIN tables[main[t]].keys : tables[main[t]].keys[j] # t
    <3>1. ASSUME h # main[t] PROVE main[t] \notin Knows(t)
      BY <3>1, <2>1, <2>2, <1>1, <1>3, <1>4
    <3> QED
      BY <3>1, <1>4, <1>5 DEF Knows
  <2> HIDE DEF h, i
  <2>6. TypeInv'
    BY <1>1, <1>2, <1>3, <1>4, <2>4 DEF Inv, TypeInv, Places
  <2>7. \A u \in Ids : Owner(u)' = Owner(u)
    BY <1>1, <1>2, <1>3, <1>4, <2>3, <2>4 DEF Inv, TypeInv, Owner
  <2>8. OwnInv'
    BY <1>1, <1>2, <1>3, <1>4, <2>7 DEF Inv, OwnInv
  <2>9. pc'[t] = (IF h = main[t] THEN "return" ELSE "copy") /\ got'[t] = mine[t]
    BY <2>4 DEF Inv, TypeInv
  <2>10. LocalInv(t)' /\ KnownInv(t)'
    BY <1>1, <1>2, <1>3, <1>4, <2>2, <2>3, <2>7, <2>9 DEF LocalInv, KnownInv
  <2>11. EntryInv(t)'
    BY <1>1, <1>2, <1>3, <1>4, <2>5, <2>7, <2>9 DEF EntryInv
  <2>12. ProbeInv(t)'
    BY <1>1, <1>2, <1>3, <1>4, <2>9 DEF ProbeInv
  <2>13. \A u \in Ids \ {t} : SameLocals(u) /\ TablesKept(u)
    BY <1>1, <1>2, <1>3, <1>4, <2>4, Unchanged DEF SameLocals, Inv, TypeInv
  <2> QED
    BY <1>1, <1>2, <1>3, <1>4, <2>6, <2>8, <2>10, <2>11, <2>12, <2>13, Together DEF ThreadInv
<1>8. CASE Knows(t) = {}
  <2>1. Owner(t) = Null
    BY <1>1, <1>2, <1>3, <1>4, <1>5, <1>8 DEF KnownInv, Knows
  <2>2. pc' = [pc EXCEPT ![t] = "decide"] /\ UNCHANGED got
    BY <1>8 DEF Search, Go
  <2>3. TypeInv'
    BY <1>1, <1>2, <1>3, <1>4, <2>2 DEF Inv, TypeInv, Places
  <2>4. OwnInv' /\ Owner(t)' = Owner(t)
    BY <1>1, <1>2, <1>3, <1>4, <2>2 DEF Inv, OwnInv, Owner
  <2>5. pc'[t] = "decide"
    BY <2>2 DEF Inv, TypeInv
  <2>6. LocalInv(t)' /\ KnownInv(t)' /\ EntryInv(t)' /\ ProbeInv(t)'
    BY <1>1, <1>2, <1>3, <1>4, <2>1, <2>2, <2>4, <2>5 DEF LocalInv, KnownInv, EntryInv, ProbeInv
  <2>7. \A u \in Ids \ {t} : SameLocals(u) /\ TablesKept(u)
    BY <1>1, <1>2, <1>3, <1>4, <2>2, Unchanged DEF SameLocals, Inv, TypeInv
  <2> QED
    BY <1>1, <1>2, <1>3, <1>4, <2>3, <2>4, <2>6, <2>7, Together DEF ThreadInv
<1> QED
  BY <1>7, <1>8

(* What a call returns becomes the thread's producer, or is it already.     *)
LEMMA ReturnStep ==
    ASSUME Inv, NEW t \in Ids, Return(t)
    PROVE  Inv' /\ (mine[t] # Null => mine'[t] = mine[t])
<1>0. /\ Len(inactive) \in Nat /\ LocalInv(t) /\ EntryInv(t) /\ KnownInv(t)
      /\ pc[t] = "return" /\ UNCHANGED <<tables, inactive>>
  BY DEF Inv, TypeInv, ThreadInv, Return, shared
<1>1. /\ pc'[t] = "idle" /\ mine'[t] = got[t] /\ got'[t] = Null /\ main'[t] = 0 /\ ptr'[t] = 0
      /\ TypeInv'
  BY DEF Inv, TypeInv, Return, Go, Places, shared
<1>2. Owner(t)' = Owner(t) /\ (mine[t] # Null => mine'[t] = mine[t])
  BY <1>0, <1>1 DEF Owner, LocalInv
<1>3. \A u \in Ids \ {t} : SameLocals(u) /\ TablesKept(u) /\ Owner(u)' = Owner(u)
  BY <1>0, Unchanged DEF SameLocals, Inv, TypeInv, Return, Go, Owner
<1>4. OwnInv'
  BY <1>0, <1>2, <1>3 DEF Inv, OwnInv
<1>5. LocalInv(t)' /\ EntryInv(t)' /\ KnownInv(t)' /\ ProbeInv(t)'
  <2>1. Len(tables) \in Nat
    BY DEF Inv, TypeInv
  <2> QED
    BY <2>1, <1>0, <1>1, <1>2 DEF LocalInv, EntryInv, KnownInv, ProbeInv
<1> QED
  BY <1>0, <1>1, <1>2, <1>3, <1>4, <1>5, Together DEF ThreadInv

-----------------------------------------------------------------------------
(* Taking a producer: one that was left, or a new one.                      *)
LEMMA RecycleStep == ASSUME Inv, NEW t \in Ids, Recycle(t) \/ Create(t) PROVE Inv'
<1>1. /\ Len(inactive) \in Nat /\ ptr[t] \in Nat /\ main[t] \in Nat /\ Null \notin Nat
      /\ Len(tables) \in Nat /\ inactive \in Seq(BOOLEAN)
  BY ProducerHashAssumption DEF Inv, TypeInv, HashAssumption
<1>2. LocalInv(t) /\ EntryInv(t) /\ ProbeInv(t)
  BY DEF Inv, ThreadInv
<1>3. pc[t] = "recycle" /\ UNCHANGED <<tables, main, index, mine>>
  BY DEF Recycle, Create
<1>4. Owner(t) = Null /\ mine[t] = Null /\ got[t] = Null /\ index[t] = Hash[t]
  BY <1>2, <1>3 DEF LocalInv, ProbeInv, Owner
<1>5. \A h \in 1..Len(tables) : \A i \in DOMAIN tables[h].keys : tables[h].keys[i] # t
  BY <1>2, <1>4 DEF EntryInv
<1>6. ASSUME NEW p \in Nat \ {0}, got' = [got EXCEPT ![t] = p], pc' = [pc EXCEPT ![t] = "insert"],
             UNCHANGED ptr, inactive' \in Seq(BOOLEAN), Len(inactive) <= Len(inactive'),
             p \in 1..Len(inactive'), ~inactive'[p],
             p \in 1..Len(inactive) => inactive[p],
             \A q \in 1..Len(inactive) : q # p => inactive'[q] = inactive[q]
      PROVE  Inv'
  <2>1. TypeInv'
    BY <1>3, <1>6 DEF Inv, TypeInv, Places
  <2>2. pc'[t] = "insert" /\ got'[t] = p /\ Owner(t)' = p
    BY <1>3, <1>4, <1>6 DEF Inv, TypeInv, Owner
  <2>3. \A u \in Ids \ {t} : SameLocals(u) /\ TablesKept(u) /\ Owner(u)' = Owner(u)
    BY <1>3, <1>6, Unchanged DEF SameLocals, Inv, TypeInv, Owner
  <2>4. \A u \in Ids \ {t} : Owner(u) # p
    BY <1>1, <1>6 DEF Inv, OwnInv
  <2>5. OwnInv'
    <3>1. ASSUME NEW u \in Ids, Owner(u)' # Null
          PROVE  Owner(u)' \in 1..Len(inactive') /\ ~inactive'[Owner(u)']
      <4>1. CASE u = t
        BY <4>1, <1>6, <2>2
      <4>2. CASE u # t
        <5>1. Owner(u)' = Owner(u) /\ Owner(u) # p
          BY <4>2, <2>3, <2>4
        <5>2. Owner(u) \in 1..Len(inactive) /\ ~inactive[Owner(u)]
          BY <3>1, <5>1 DEF Inv, OwnInv
        <5> QED
          BY <1>1, <1>6, <5>1, <5>2
      <4> QED
        BY <4>1, <4>2
    <3>2. ASSUME NEW u \in Ids, NEW w \in Ids, u # w, Owner(u)' # Null
          PROVE  Owner(u)' # Owner(w)'
      <4>1. Owner(u)' = (IF u = t THEN p ELSE Owner(u)) /\ Owner(w)' = (IF w = t THEN p ELSE Owner(w))
        BY <2>2, <2>3
      <4> QED
        BY <3>2, <4>1, <2>4 DEF Inv, OwnInv
    <3> QED
      BY <3>1, <3>2 DEF OwnInv
  <2>6. LocalInv(t)' /\ EntryInv(t)' /\ KnownInv(t)'
    BY <1>1, <1>2, <1>3, <1>4, <1>5, <1>6, <2>2 DEF LocalInv, EntryInv, KnownInv
  <2>7. ProbeInv(t)'
    <3>1. Hash[t] \in Nat /\ index'[t] = Hash[t]
      BY <1>3, <1>4, ProducerHashAssumption DEF HashAssumption
    <3> QED
      BY <2>2, <3>1 DEF ProbeInv
  <2> QED
    BY <1>6, <2>1, <2>3, <2>5, <2>6, <2>7, Together DEF ThreadInv
<1>7. CASE Create(t)
  <2> DEFINE p == Len(inactive) + 1
  <2>1. /\ inactive' = Append(inactive, FALSE) /\ UNCHANGED ptr
        /\ got' = [got EXCEPT ![t] = Len(inactive')] /\ pc' = [pc EXCEPT ![t] = "insert"]
    BY <1>7 DEF Create, Go
  <2>2. /\ inactive' \in Seq(BOOLEAN) /\ Len(inactive') = p /\ ~inactive'[p]
        /\ \A q \in 1..Len(inactive) : inactive'[q] = inactive[q]
    BY <1>1, <2>1
  <2>3. p \in Nat \ {0} /\ p \notin 1..Len(inactive) /\ p \in 1..p /\ Len(inactive) <= p
    BY <1>1
  <2> HIDE DEF p
  <2> QED
    BY <2>1, <2>2, <2>3, <1>6
<1>8. CASE Recycle(t) /\ inactive[ptr[t]]
  <2>1. ptr[t] \in 1..Len(inactive)
    BY <1>1, <1>2, <1>8 DEF LocalInv, Recycle
  <2>2. /\ inactive' = [inactive EXCEPT ![ptr[t]] = FALSE] /\ UNCHANGED ptr
        /\ got' = [got EXCEPT ![t] = ptr[t]] /\ pc' = [pc EXCEPT ![t] = "insert"]
    BY <1>8 DEF Recycle, Go
  <2>3. /\ inactive' \in Seq(BOOLEAN) /\ Len(inactive') = Len(inactive) /\ ~inactive'[ptr[t]]
        /\ \A q \in 1..Len(inactive) : q # ptr[t] => inactive'[q] = inactive[q]
    BY <1>1, <2>1, <2>2
  <2>4. ptr[t] \in Nat \ {0} /\ Len(inactive) <= Len(inactive)
    BY <1>1, <2>1
  <2> QED
    BY <1>8, <2>1, <2>2, <2>3, <2>4, <1>6
<1>9. CASE Recycle(t) /\ ~inactive[ptr[t]]
  <2>1. /\ ptr' = [ptr EXCEPT ![t] = @ - 1] /\ ptr[t] > 0
        /\ UNCHANGED <<inactive, got, pc>>
    BY <1>9 DEF Recycle
  <2>2. TypeInv' /\ ptr'[t] = ptr[t] - 1
    BY <1>1, <1>3, <2>1 DEF Inv, TypeInv
  <2>3. \A u \in Ids : Owner(u)' = Owner(u)
    BY <1>3, <2>1 DEF Owner
  <2>4. \A u \in Ids \ {t} : SameLocals(u) /\ TablesKept(u)
    BY <1>3, <2>1, Unchanged DEF SameLocals, Inv, TypeInv
  <2>5. OwnInv'
    BY <2>1, <2>3 DEF Inv, OwnInv
  <2>6. LocalInv(t)' /\ EntryInv(t)' /\ KnownInv(t)' /\ ProbeInv(t)'
    BY <1>1, <1>2, <1>3, <1>4, <1>5, <2>1, <2>2, <2>3 DEF LocalInv, EntryInv, KnownInv, ProbeInv
  <2> QED
    BY <1>1, <2>1, <2>2, <2>4, <2>5, <2>6, Together DEF ThreadInv
<1> QED
  BY <1>7, <1>8, <1>9

(* The counts are whole numbers, whatever they are.                         *)
CountType == count \in Int /\ newCount \in [Ids -> Int]

(* Every step keeps them so.                                                *)
LEMMA CountsAreInt == ASSUME CountType, [Next]_vars PROVE CountType'
<1>1. CASE UNCHANGED vars
  BY <1>1 DEF vars, shared, locals, CountType
<1>2. ASSUME NEW t \in Ids,
             Begin(t) \/ LoadMain(t) \/ Enqueueing(t) \/ Exit(t) \/ Forget(t) \/ Abandon(t)
      PROVE  CountType'
  <2>1. CASE Search(t)
    BY <2>1 DEF CountType, Search
  <2>2. CASE Copy(t) \/ Insert(t)
    BY <2>2 DEF CountType, Copy, Insert
  <2>3. CASE Resize(t) \/ Recycle(t) \/ Create(t)
    BY <2>3 DEF CountType, Resize, Recycle, Create
  <2>4. CASE Return(t)
    BY <2>4 DEF CountType, Return, shared
  <2>5. CASE Forget(t) \/ Abandon(t)
    BY <2>5 DEF CountType, Forget, Abandon, locals
  <2>6. CASE Plain(t)
    BY <2>6 DEF CountType, shared, locals, Plain, Begin, LoadMain, Decide, Unlock, ResizeFails,
       GiveUp, CreateFails, Uncount, Exit
  <2> QED
    BY <1>2, <2>1, <2>2, <2>3, <2>4, <2>5, <2>6 DEF Enqueueing, Plain
<1> QED
  BY <1>1, <1>2 DEF Next

(* A table in front holds no thread's entry yet.                            *)
LEMMA ResizeStep == ASSUME Inv, CountType, NEW t \in Ids, Resize(t) PROVE Inv'
<1>1. /\ Len(inactive) \in Nat /\ main[t] \in Nat /\ Len(tables) \in Nat /\ Len(tables) >= 1
      /\ tables \in Seq(Table)
  BY DEF Inv, TypeInv
<1>2. LocalInv(t) /\ EntryInv(t) /\ ProbeInv(t)
  BY DEF Inv, ThreadInv
<1>3. /\ pc[t] = "locked" /\ UNCHANGED <<inactive, index, ptr, got, mine>>
      /\ main' = [main EXCEPT ![t] = Len(tables')] /\ pc' = [pc EXCEPT ![t] = "unlock"]
  BY DEF Resize, Go
<1>4. UNCHANGED tables \/ \E c \in Nat \ {0} : tables' = Append(tables, NewTable(c))
  <2>1. CASE HalfFull(t, Len(tables))
    <3>1. PICK size \in Nat : /\ newCount[t] < size \div 2
                              /\ size = 2 * Capacity(Len(tables)) \/ newCount[t] >= size \div 4
                              /\ tables' = Append(tables, NewTable(size))
      BY <2>1 DEF Resize
    <3>2. newCount[t] \in Int /\ Capacity(Len(tables)) \in Nat \ {0}
      <4>1. newCount[t] \in Int
        BY DEF CountType
      <4>2. Len(tables) \in 1..Len(tables) /\ TypeInv
        BY <1>1 DEF Inv
      <4> QED
        BY <4>1, <4>2, TableAt
    <3>3. size # 0
      BY <3>1, <3>2
    <3> QED
      BY <3>1, <3>3
  <2> QED
    BY <2>1 DEF Resize
<1> DEFINE Grown ==
               /\ tables' \in Seq(Table) /\ Len(tables') \in Nat /\ Len(tables) <= Len(tables')
               /\ \A h \in 1..Len(tables) : tables'[h] = tables[h]
               /\ \A h \in (Len(tables) + 1)..Len(tables') : \A i \in DOMAIN tables'[h].keys :
                     tables'[h].keys[i] = Free
<1>5. Grown
  <2>1. CASE UNCHANGED tables
    BY <1>1, <2>1
  <2>2. ASSUME NEW c \in Nat \ {0}, tables' = Append(tables, NewTable(c)) PROVE Grown
    <3>1. NewTable(c) \in Table /\ \A i \in DOMAIN NewTable(c).keys : NewTable(c).keys[i] = Free
      BY NewIsEmpty DEF Table
    <3>2. /\ tables' \in Seq(Table) /\ Len(tables') = Len(tables) + 1
          /\ tables'[Len(tables) + 1] = NewTable(c)
          /\ \A h \in 1..Len(tables) : tables'[h] = tables[h]
      BY <1>1, <2>2, <3>1
    <3>3. \A h \in (Len(tables) + 1)..Len(tables') : tables'[h] = NewTable(c)
      BY <1>1, <3>2
    <3> QED
      BY <1>1, <3>1, <3>2, <3>3
  <2> QED
    BY <1>4, <2>1, <2>2
<1>6. TypeInv' /\ pc'[t] = "unlock" /\ main'[t] = Len(tables')
  BY <1>1, <1>3, <1>5 DEF Inv, TypeInv, Places
<1>7. Free \notin Ids
  BY ProducerHashAssumption DEF HashAssumption
<1>8. \A u \in Ids : TablesKept(u)
  BY <1>5, <1>7 DEF TablesKept, Kept
<1>9. \A u \in Ids \ {t} : SameLocals(u)
  BY <1>3 DEF SameLocals, Inv, TypeInv
<1>10. Owner(t) = Null /\ \A u \in Ids : Owner(u)' = Owner(u)
  BY <1>2, <1>3 DEF LocalInv, Owner
<1>11. OwnInv'
  BY <1>3, <1>10 DEF Inv, OwnInv
<1>12. LocalInv(t)' /\ KnownInv(t)' /\ ProbeInv(t)'
  BY <1>1, <1>2, <1>3, <1>5, <1>6, <1>10 DEF LocalInv, KnownInv, ProbeInv
<1>13. EntryInv(t)'
  <2>1. \A h \in 1..Len(tables) : \A i \in DOMAIN tables[h].keys : tables[h].keys[i] # t
    BY <1>2, <1>10 DEF EntryInv
  <2>2. \A h \in 1..Len(tables') : \A i \in DOMAIN tables'[h].keys : tables'[h].keys[i] # t
    BY <1>1, <1>5, <1>7, <2>1
  <2> QED
    BY <2>2 DEF EntryInv
<1> QED
  BY <1>1, <1>3, <1>6, <1>8, <1>9, <1>11, <1>12, <1>13, Together DEF ThreadInv

-----------------------------------------------------------------------------
(* The entry goes into the first slot that takes it, from the hash on.      *)
LEMMA WriteStep == ASSUME Inv, NEW t \in Ids, Copy(t) \/ Insert(t) PROVE Inv'
<1>0. PICK m, s : m = main[t] /\ s = Slot(tables[m], index[t])
  OBVIOUS
<1>1. /\ Len(inactive) \in Nat /\ Len(tables) \in Nat /\ index[t] \in Nat /\ Hash[t] \in Nat
      /\ m \in Nat /\ tables \in Seq(Table) /\ Null \notin Nat /\ Free # t /\ Gone # t
  BY <1>0, ProducerHashAssumption DEF Inv, TypeInv, HashAssumption
<1>2. LocalInv(t) /\ EntryInv(t) /\ ProbeInv(t)
  BY DEF Inv, ThreadInv
<1>3. pc[t] \in {"copy", "insert"} /\ UNCHANGED <<inactive, main, ptr, got, mine>>
  BY DEF Copy, Insert
<1>4. m \in 1..Len(tables) /\ Owner(t) # Null /\ got[t] = Owner(t) /\ got[t] \in Nat
  BY <1>0, <1>1, <1>2, <1>3 DEF LocalInv, Owner, Inv, TypeInv
<1>5. PICK c \in Nat \ {0} : tables[m] \in TableOf(c)
  BY <1>1, <1>4, ATable
<1>6. \A i \in DOMAIN tables[m].keys : tables[m].keys[i] # t
  BY <1>0, <1>2, <1>3, <1>4 DEF EntryInv
<1>7. s \in 0..(c - 1) /\ DOMAIN tables[m].keys = 0..(c - 1) /\ At(m, index[t]) = s
  BY <1>0, <1>1, <1>5, TableFacts DEF At, Capacity, Slot
<1>8. \A u \in Ids : Owner(u)' = Owner(u)
  BY <1>3 DEF Owner
<1>9. OwnInv'
  BY <1>3, <1>8 DEF Inv, OwnInv
<1>10. CASE tables[m].keys[s] \notin {Free, Gone}
  <2>1. index' = [index EXCEPT ![t] = @ + 1] /\ UNCHANGED <<tables, pc>>
    BY <1>0, <1>7, <1>10 DEF Copy, Insert
  <2>2. TypeInv' /\ index'[t] = index[t] + 1
    BY <1>1, <1>3, <2>1 DEF Inv, TypeInv
  <2>3. \A u \in Ids \ {t} : SameLocals(u) /\ TablesKept(u)
    BY <1>3, <2>1, Unchanged DEF SameLocals, Inv, TypeInv
  <2>4. LocalInv(t)' /\ EntryInv(t)' /\ KnownInv(t)'
    BY <1>2, <1>3, <1>8, <2>1, Inv DEF Inv, ThreadInv, LocalInv, EntryInv, KnownInv
  <2>5. ProbeInv(t)'
    <3>1. /\ index[t] >= Hash[t]
          /\ \A k \in 0..(index[t] - Hash[t] - 1) :
                tables[m].keys[Slot(tables[m], Hash[t] + k)] # Free
      BY <1>0, <1>2, <1>3 DEF ProbeInv
    <3>2. PICK n \in Nat, w \in Nat : n = index[t] /\ w = Hash[t]
      BY <1>1
    <3>3. ASSUME NEW k \in 0..(n + 1 - w - 1)
          PROVE  tables[m].keys[Slot(tables[m], w + k)] # Free
      <4>1. n >= w /\ (k \in 0..(n - w - 1) \/ w + k = n)
        BY <3>1, <3>2
      <4> QED
        BY <1>0, <1>10, <3>1, <3>2, <4>1
    <3>4. index'[t] = n + 1 /\ index'[t] >= Hash[t]
      BY <2>2, <3>1, <3>2
    <3>5. \A k \in 0..(index'[t] - Hash[t] - 1) :
             tables[m].keys[Slot(tables[m], Hash[t] + k)] # Free
      BY <3>2, <3>3, <3>4
    <3> QED
      BY <1>0, <1>3, <2>1, <3>4, <3>5 DEF ProbeInv
  <2> QED
    BY <1>1, <1>3, <1>9, <2>2, <2>3, <2>4, <2>5, Together DEF ThreadInv
<1>11. CASE tables[m].keys[s] \in {Free, Gone}
  <2>1. Occupy(t) /\ UNCHANGED index /\ \E l \in {"return", "uncount"} : pc' = [pc EXCEPT ![t] = l]
    BY <1>0, <1>7, <1>11 DEF Copy, Insert, Go
  <2>2. PICK b : b = [keys |-> [tables[m].keys EXCEPT ![s] = t],
                      values |-> [tables[m].values EXCEPT ![s] = got[t]]]
    OBVIOUS
  <2>3. tables' = [tables EXCEPT ![m] = b]
    <3>1. tables' = [tables EXCEPT ![m].keys[s] = t, ![m].values[s] = got[t]]
      BY <1>0, <1>7, <2>1 DEF Occupy
    <3>2. [tables[m] EXCEPT !.keys[s] = t, !.values[s] = got[t]] = b
      <4>1. PICK K, V : tables[m] = [keys |-> K, values |-> V]
        BY <1>5 DEF TableOf
      <4>2. [tables[m] EXCEPT !.keys[s] = t, !.values[s] = got[t]]
               = [[tables[m] EXCEPT !.keys[s] = t] EXCEPT !.values[s] = got[t]]
        OBVIOUS
      <4>3. [tables[m] EXCEPT !.keys[s] = t] = [keys |-> [K EXCEPT ![s] = t], values |-> V]
        BY <4>1
      <4>4. PICK L : L = [K EXCEPT ![s] = t]
        OBVIOUS
      <4>5. [[keys |-> L, values |-> V] EXCEPT !.values[s] = got[t]]
               = [keys |-> L, values |-> [V EXCEPT ![s] = got[t]]]
        OBVIOUS
      <4>6. b = [keys |-> L, values |-> [V EXCEPT ![s] = got[t]]]
        BY <2>2, <4>1, <4>4
      <4> QED
        BY <4>2, <4>3, <4>4, <4>5, <4>6
    <3>3. [tables EXCEPT ![m].keys[s] = t, ![m].values[s] = got[t]]
             = [tables EXCEPT ![m] = [tables[m] EXCEPT !.keys[s] = t, !.values[s] = got[t]]]
      BY <1>1, <1>4
    <3> QED
      BY <3>1, <3>2, <3>3
  <2>4. /\ b \in TableOf(c)
        /\ \A u \in Ids \ {t} : Kept(tables[m], b, u)
        /\ \A i \in DOMAIN tables[m].keys : b.keys[i] = IF i = s THEN t ELSE tables[m].keys[i]
        /\ \A i \in DOMAIN tables[m].keys :
              b.values[i] = IF i = s THEN got[t] ELSE tables[m].values[i]
        /\ DOMAIN b.keys = DOMAIN tables[m].keys
    <3>1. PICK a, g : a = tables[m] /\ g = got[t]
      OBVIOUS
    <3>2. /\ a \in TableOf(c) /\ s \in 0..(c - 1) /\ g \in Nat /\ a.keys[s] \in {Free, Gone}
          /\ b = [keys |-> [a.keys EXCEPT ![s] = t], values |-> [a.values EXCEPT ![s] = g]]
      BY <1>4, <1>5, <1>7, <1>11, <2>2, <3>1
    <3> QED
      BY <1>4, <1>5, <3>1, <3>2, Occupies
  <2>5. Reaches(b, t, s)
    <3>1. /\ index[t] >= Hash[t]
          /\ \A k \in 0..(index[t] - Hash[t] - 1) :
                tables[m].keys[Slot(tables[m], Hash[t] + k)] # Free
      BY <1>0, <1>2, <1>3 DEF ProbeInv
    <3> QED
      BY <1>0, <1>1, <1>5, <1>6, <2>4, <3>1, OccupiedIsFound
  <2>6. /\ tables' \in Seq(Table) /\ Len(tables') = Len(tables) /\ tables'[m] = b
        /\ \A h \in 1..Len(tables) : h # m => tables'[h] = tables[h]
    <3>1. b \in Table
      BY <2>4 DEF Table
    <3> QED
      BY <1>1, <1>4, <2>3, <3>1
  <2>7. TypeInv' /\ pc'[t] \in {"return", "uncount"}
    BY <1>3, <2>1, <2>6 DEF Inv, TypeInv, Places
  <2>8. \A u \in Ids \ {t} : SameLocals(u)
    BY <1>3, <2>1 DEF SameLocals, Inv, TypeInv
  <2>9. \A u \in Ids \ {t} : TablesKept(u)
    <3>1. \A u \in Ids, h \in 1..Len(tables) : h # m => Kept(tables[h], tables'[h], u)
      BY <2>6 DEF Kept
    <3> QED
      BY <1>1, <2>4, <2>6, <3>1 DEF TablesKept
  <2>10. LocalInv(t)'
    BY <1>0, <1>2, <1>3, <1>4, <1>8, <2>6, <2>7 DEF LocalInv, Owner
  <2>11. EntryInv(t)'
    <3>1. \A i \in DOMAIN b.keys : b.keys[i] = t => i = s /\ b.values[i] = got[t]
      BY <1>6, <2>4
    <3>2. \A h \in 1..Len(tables) :
             h # m => \A i \in DOMAIN tables'[h].keys : tables'[h].keys[i] = t =>
                Reaches(tables'[h], t, i) /\ tables'[h].values[i] = Owner(t)
      BY <1>0, <1>2, <2>6 DEF EntryInv
    <3> QED
      BY <1>0, <1>4, <1>8, <2>5, <2>6, <2>7, <3>1, <3>2 DEF EntryInv
  <2>12. KnownInv(t)' /\ ProbeInv(t)'
    <3>1. s \in DOMAIN tables'[m].keys /\ tables'[m].keys[s] = t
      BY <1>7, <2>4, <2>6
    <3> QED
      BY <1>4, <2>6, <2>7, <3>1 DEF KnownInv, ProbeInv
  <2> QED
    BY <1>1, <1>3, <1>9, <2>7, <2>8, <2>9, <2>10, <2>11, <2>12, Together DEF ThreadInv
<1> QED
  BY <1>10, <1>11

-----------------------------------------------------------------------------
(* The keys of a thread that ends are gone before its producer is left.     *)
LEMMA ForgetStep == ASSUME Inv, NEW t \in Ids, Forget(t) PROVE Inv'
<1>1. /\ Len(inactive) \in Nat /\ Len(tables) \in Nat /\ main[t] \in Nat /\ tables \in Seq(Table)
  BY DEF Inv, TypeInv
<1>2. LocalInv(t) /\ EntryInv(t) /\ ProbeInv(t)
  BY DEF Inv, ThreadInv
<1>3. /\ pc[t] = "exit" /\ UNCHANGED <<inactive, pc, index, ptr, got, mine>>
      /\ main' = [main EXCEPT ![t] = @ - 1] /\ main[t] > 0
  BY DEF Forget
<1>4. PICK m \in 1..Len(tables) : m = main[t]
  BY <1>1, <1>2, <1>3 DEF LocalInv
<1>5. PICK c \in Nat \ {0} : tables[m] \in TableOf(c)
  BY <1>1, ATable
<1>6. PICK f : f = [i \in DOMAIN tables[m].keys |-> IF i \in Found(m, t) THEN Gone
                                                       ELSE tables[m].keys[i]]
  OBVIOUS
<1>7. PICK b : b = [keys |-> f, values |-> tables[m].values]
  OBVIOUS
<1>8. tables' = [tables EXCEPT ![m] = b]
  <2>1. PICK K, V : tables[m] = [keys |-> K, values |-> V]
    BY <1>5 DEF TableOf
  <2>2. tables' = [tables EXCEPT ![m].keys =
                      [i \in DOMAIN @ |-> IF i \in Found(m, t) THEN Gone ELSE @[i]]]
    BY <1>4 DEF Forget
  <2>3. tables' = [tables EXCEPT ![m].keys = f]
    BY <1>6, <2>2
  <2>4. [tables[m] EXCEPT !.keys = f] = b
    BY <1>7, <2>1
  <2> QED
    BY <1>1, <2>3, <2>4
<1>9. /\ b \in TableOf(c)
      /\ \A u \in Ids \ {t} : Kept(tables[m], b, u)
      /\ \A i \in DOMAIN b.keys : b.keys[i] # t
  <2>1. \A i \in DOMAIN tables[m].keys : i \in Found(m, t) <=> tables[m].keys[i] = t
    BY <1>2, EntryFound DEF Inv
  <2>2. /\ DOMAIN f = DOMAIN tables[m].keys /\ f = [i \in DOMAIN f |-> f[i]]
        /\ \A i \in DOMAIN tables[m].keys :
              f[i] = IF tables[m].keys[i] = t THEN Gone ELSE tables[m].keys[i]
    BY <1>6, <2>1
  <2> QED
    BY <1>5, <1>7, <2>2, Forgets
<1>10. /\ tables' \in Seq(Table) /\ Len(tables') = Len(tables) /\ tables'[m] = b
       /\ \A h \in 1..Len(tables) : h # m => tables'[h] = tables[h]
  <2>1. b \in Table
    BY <1>9 DEF Table
  <2> QED
    BY <1>1, <1>8, <2>1
<1>11. TypeInv' /\ main'[t] = m - 1
  BY <1>1, <1>3, <1>4, <1>10 DEF Inv, TypeInv
<1>12. \A u \in Ids : Owner(u)' = Owner(u)
  BY <1>3 DEF Owner
<1>13. OwnInv'
  BY <1>3, <1>12 DEF Inv, OwnInv
<1>14. \A u \in Ids \ {t} : SameLocals(u)
  BY <1>3 DEF SameLocals, Inv, TypeInv
<1>15. \A u \in Ids \ {t} : TablesKept(u)
  <2>1. \A u \in Ids, h \in 1..Len(tables) : h # m => Kept(tables[h], tables'[h], u)
    BY <1>10 DEF Kept
  <2> QED
    BY <1>1, <1>9, <1>10, <2>1 DEF TablesKept
<1>16. LocalInv(t)' /\ KnownInv(t)' /\ ProbeInv(t)'
  BY <1>1, <1>2, <1>3, <1>4, <1>10, <1>11, <1>12 DEF LocalInv, KnownInv, ProbeInv
<1>17. EntryInv(t)'
  <2>1. \A h \in 1..Len(tables) :
           h # m => \A i \in DOMAIN tables'[h].keys : tables'[h].keys[i] = t =>
              /\ Reaches(tables'[h], t, i)
              /\ tables'[h].values[i] = Owner(t) /\ Owner(t) # Null
              /\ h <= m - 1
    BY <1>2, <1>3, <1>4, <1>10 DEF EntryInv
  <2> QED
    BY <1>3, <1>9, <1>10, <1>11, <1>12, <2>1 DEF EntryInv
<1> QED
  BY <1>1, <1>3, <1>11, <1>13, <1>14, <1>15, <1>16, <1>17, Together DEF ThreadInv

(* Nobody knows the producer that is left.                                  *)
LEMMA AbandonStep == ASSUME Inv, NEW t \in Ids, Abandon(t) PROVE Inv'
<1>1. /\ Len(inactive) \in Nat /\ Len(tables) \in Nat /\ inactive \in Seq(BOOLEAN)
      /\ Null \notin Nat
  BY ProducerHashAssumption DEF Inv, TypeInv, HashAssumption
<1>2. LocalInv(t) /\ EntryInv(t) /\ ProbeInv(t)
  BY DEF Inv, ThreadInv
<1>3. /\ pc[t] = "exit" /\ main[t] = 0 /\ UNCHANGED <<tables, main, index, ptr, got>>
      /\ inactive' = [inactive EXCEPT ![mine[t]] = TRUE]
      /\ mine' = [mine EXCEPT ![t] = Null] /\ pc' = [pc EXCEPT ![t] = "dead"]
  BY DEF Abandon, Go, locals
<1>4. PICK p \in 1..Len(inactive) : p = mine[t] /\ p = Owner(t) /\ Owner(t) # Null
  BY <1>1, <1>2, <1>3 DEF LocalInv, Owner, Inv, OwnInv
<1>5. /\ inactive' \in Seq(BOOLEAN) /\ Len(inactive') = Len(inactive)
      /\ \A q \in 1..Len(inactive) : q # p => inactive'[q] = inactive[q]
  BY <1>1, <1>3, <1>4
<1>6. TypeInv' /\ pc'[t] = "dead" /\ mine'[t] = Null
  BY <1>3, <1>5 DEF Inv, TypeInv, Places
<1>7. \A u \in Ids \ {t} : SameLocals(u) /\ TablesKept(u) /\ Owner(u)' = Owner(u)
  BY <1>3, Unchanged DEF SameLocals, Inv, TypeInv, Owner
<1>8. got[t] = Null /\ Owner(t)' = Null
  BY <1>2, <1>3, <1>6 DEF LocalInv, Owner
<1>9. \A u \in Ids \ {t} : Owner(u) # p
  BY <1>4 DEF Inv, OwnInv
<1>10. OwnInv'
  BY <1>5, <1>7, <1>8, <1>9 DEF Inv, OwnInv
<1>11. \A h \in 1..Len(tables) : \A i \in DOMAIN tables[h].keys : tables[h].keys[i] # t
  BY <1>2, <1>3 DEF EntryInv
<1>12. LocalInv(t)' /\ EntryInv(t)' /\ KnownInv(t)' /\ ProbeInv(t)'
  BY <1>1, <1>2, <1>3, <1>5, <1>6, <1>8, <1>11 DEF LocalInv, EntryInv, KnownInv, ProbeInv
<1> QED
  BY <1>1, <1>5, <1>6, <1>7, <1>10, <1>12, Together DEF ThreadInv

-----------------------------------------------------------------------------
(* Every step keeps the invariant.                                          *)
LEMMA InitInv == ASSUME Init PROVE Inv /\ CountType
<1> USE ProducerHashAssumption DEF HashAssumption
<1>1. /\ NewTable(FirstSize) \in Table
      /\ \A i \in DOMAIN NewTable(FirstSize).keys : NewTable(FirstSize).keys[i] = Free
  BY NewIsEmpty DEF Table
<1>2. /\ tables = <<NewTable(FirstSize)>> /\ inactive = <<>>
      /\ pc = [t \in Ids |-> "dead"] /\ main = [t \in Ids |-> 0] /\ index = main /\ ptr = main
      /\ got = [t \in Ids |-> Null] /\ mine = got
  BY DEF Init
<1>3. TypeInv
  BY <1>1, <1>2 DEF TypeInv, Places
<1>4. \A t \in Ids : Owner(t) = Null
  BY <1>2 DEF Owner
<1>5. \A h \in 1..Len(tables) : \A i \in DOMAIN tables[h].keys : tables[h].keys[i] \notin Ids
  BY <1>1, <1>2
<1>6. ASSUME NEW t \in Ids PROVE ThreadInv(t)
  BY <1>2, <1>4, <1>5 DEF ThreadInv, LocalInv, EntryInv, KnownInv, ProbeInv
<1>7. CountType
  BY DEF Init, CountType
<1> QED
  BY <1>3, <1>4, <1>6, <1>7 DEF Inv, OwnInv

(* Every step keeps the invariant, and each thread its producer.            *)
LEMMA NextInv == ASSUME Inv, CountType, [Next]_vars PROVE Inv' /\ SameProducerStep
<1>1. CASE UNCHANGED vars
  <2>1. TypeInv' /\ OwnInv'
    BY <1>1 DEF vars, shared, locals, Inv, TypeInv, OwnInv, Owner
  <2>2. \A t \in Ids : ThreadInv(t)'
    BY <1>1 DEF vars, shared, locals, Inv, Owner, ThreadInv, LocalInv, EntryInv, KnownInv, ProbeInv
  <2>3. Inv'
    BY <2>1, <2>2 DEF Inv
  <2> QED
    BY <1>1, <2>3 DEF vars, SameProducerStep
<1>2. ASSUME NEW t \in Ids,
             Begin(t) \/ LoadMain(t) \/ Enqueueing(t) \/ Exit(t) \/ Forget(t) \/ Abandon(t)
      PROVE  Inv' /\ SameProducerStep
  <2>1. CASE Plain(t)
    <3>1. UNCHANGED mine
      BY <2>1 DEF shared, locals, Plain, Begin, LoadMain, Decide, Unlock, ResizeFails,
         GiveUp, CreateFails, Uncount, Exit
    <3> QED
      BY <2>1, <3>1, PlainStep DEF SameProducerStep
  <2>2. CASE Search(t)
    BY <2>2, SearchStep DEF Search, SameProducerStep
  <2>3. CASE Copy(t) \/ Insert(t)
    BY <2>3, WriteStep DEF Copy, Insert, SameProducerStep
  <2>4. CASE Resize(t)
    BY <2>4, ResizeStep DEF Resize, SameProducerStep
  <2>5. CASE Recycle(t) \/ Create(t)
    BY <2>5, RecycleStep DEF Recycle, Create, SameProducerStep
  <2>6. CASE Return(t)
    <3>1. \A u \in Ids \ {t} : mine'[u] = mine[u]
      BY <2>6 DEF Return, Inv, TypeInv
    <3> QED
      BY <2>6, <3>1, ReturnStep DEF SameProducerStep
  <2>7. CASE Forget(t)
    BY <2>7, ForgetStep DEF Forget, SameProducerStep
  <2>8. CASE Abandon(t)
    <3>1. pc'[t] = "dead" /\ \A u \in Ids \ {t} : mine'[u] = mine[u]
      BY <2>8 DEF Abandon, Go, Inv, TypeInv
    <3> QED
      BY <2>8, <3>1, AbandonStep DEF SameProducerStep
  <2> QED
    BY <1>2, <2>1, <2>2, <2>3, <2>4, <2>5, <2>6, <2>7, <2>8 DEF Enqueueing, Plain
<1> QED
  BY <1>1, <1>2 DEF Next

(* The invariant makes each producer one thread's.                          *)
LEMMA InvWriter == ASSUME Inv PROVE SingleWriter
<1> SUFFICES ASSUME NEW t \in Ids, NEW p, p # Null,
                    p = (IF pc[t] = "return" THEN got[t] ELSE mine[t])
             PROVE  ~inactive[p] /\ \A u \in Ids \ {t} : p \notin {mine[u], got[u]}
  BY DEF SingleWriter
<1>1. LocalInv(t)
  BY DEF Inv, ThreadInv
<1>2. p = Owner(t)
  BY <1>1 DEF LocalInv, Owner
<1>3. ASSUME NEW u \in Ids \ {t} PROVE p \notin {mine[u], got[u]}
  <2>1. p # Owner(u)
    BY <1>2 DEF Inv, OwnInv
  <2>2. LocalInv(u) /\ pc[u] \in Places
    BY DEF Inv, ThreadInv, TypeInv
  <2>3. mine[u] \in {Null, Owner(u)} /\ got[u] \in {Null, Owner(u)}
    BY <2>2 DEF LocalInv, Owner, Places
  <2> QED
    BY <2>1, <2>3
<1> QED
  BY <1>2, <1>3 DEF Inv, OwnInv

-----------------------------------------------------------------------------
(* No two living threads enqueue into one sub-queue, and none into one that *)
(* is free for others, for any number of threads, any hash and any reuse of *)
(* thread ids (concurrentqueue.h:3232-3243, 3550-3563).                     *)
THEOREM OneWriter == Spec => []SingleWriter
<1>1. Inv /\ CountType /\ [Next]_vars => (Inv /\ CountType)'
  BY NextInv, CountsAreInt
<1>2. Inv => SingleWriter
  BY InvWriter
<1> QED
  BY <1>1, <1>2, InitInv, PTL DEF Spec

(* While it lives a thread is led to the same producer at each call, however*)
(* the tables have grown in between: its elements stay in order             *)
(* (concurrentqueue.h:3394-3396).                                           *)
THEOREM StaysWithProducer == Spec => SameProducer
<1>1. Inv /\ CountType /\ [Next]_vars => (Inv /\ CountType)'
  BY NextInv, CountsAreInt
<1>2. Inv /\ CountType /\ [Next]_vars => [SameProducerStep]_vars
  BY NextInv
<1> QED
  BY <1>1, <1>2, InitInv, PTL DEF Spec, SameProducer

-----------------------------------------------------------------------------
(* FreeList.  From is the least set that is closed, which takes the place   *)
(* of an induction over the list.                                           *)
(* What is reachable has the start and the successors of its own.           *)
LEMMA FromClosed ==
    ASSUME NEW f \in [Nodes -> Nodes \union {Nil}], NEW x \in Nodes \union {Nil}
    PROVE  /\ From(f, x) \subseteq Nodes
           /\ x = Nil \/ x \in From(f, x)
           /\ \A m \in From(f, x) : f[m] \in From(f, x) \union {Nil}
<1>1. From(f, x) \subseteq Nodes /\ (x = Nil \/ x \in From(f, x))
  BY DEF From
<1>2. ASSUME NEW m \in From(f, x), f[m] # Nil
      PROVE  f[m] \in From(f, x)
  <2>1. m \in Nodes /\ f[m] \in Nodes
    BY <1>1, <1>2
  <2>2. SUFFICES ASSUME NEW S \in SUBSET Nodes, x = Nil \/ x \in S,
                        \A k \in S : f[k] \in S \union {Nil}
                 PROVE  f[m] \in S
    BY <2>1 DEF From
  <2>3. m \in S
    BY <2>2 DEF From
  <2> QED
    BY <2>2, <2>3, <1>2
<1> QED
  BY <1>1, <1>2

(* It is the least such set.                                                *)
LEMMA FromLeast ==
    ASSUME NEW f, NEW x, NEW S \in SUBSET Nodes, x = Nil \/ x \in S,
           \A m \in S : f[m] \in S \union {Nil}
    PROVE  From(f, x) \subseteq S
BY DEF From

(* The first node, and what its pointer leads to.                           *)
LEMMA FromStep ==
    ASSUME NEW f \in [Nodes -> Nodes \union {Nil}], NEW x \in Nodes
    PROVE  From(f, x) = {x} \union From(f, f[x])
<1>1. /\ From(f, x) \subseteq Nodes /\ x \in From(f, x)
      /\ \A m \in From(f, x) : f[m] \in From(f, x) \union {Nil}
  BY FromClosed, FreeListAssumption
<1>2. /\ From(f, f[x]) \subseteq Nodes /\ (f[x] = Nil \/ f[x] \in From(f, f[x]))
      /\ \A m \in From(f, f[x]) : f[m] \in From(f, f[x]) \union {Nil}
  BY FromClosed
<1>3. From(f, f[x]) \subseteq From(f, x)
  BY <1>1, FromLeast
<1>4. From(f, x) \subseteq {x} \union From(f, f[x])
  <2>1. PICK S \in SUBSET Nodes : S = {x} \union From(f, f[x])
    BY <1>2
  <2>2. x \in S /\ \A m \in S : f[m] \in S \union {Nil}
    BY <1>2, <2>1
  <2> QED
    BY <2>1, <2>2, FromLeast
<1> QED
  BY <1>1, <1>3, <1>4

(* What a node of the list leads to is on the list.                         *)
LEMMA FromTail ==
    ASSUME NEW f \in [Nodes -> Nodes \union {Nil}], NEW x \in Nodes \union {Nil},
           NEW m \in From(f, x) \union {Nil}
    PROVE  From(f, m) \subseteq From(f, x)
BY FromClosed, FromLeast

(* The pointer of a node that is not reached may change.                    *)
LEMMA FromKept ==
    ASSUME NEW f \in [Nodes -> Nodes \union {Nil}], NEW x \in Nodes \union {Nil},
           NEW n \in Nodes, n \notin From(f, x), NEW y \in Nodes \union {Nil}
    PROVE  From([f EXCEPT ![n] = y], x) = From(f, x)
<1>1. PICK g \in [Nodes -> Nodes \union {Nil}] :
        g = [f EXCEPT ![n] = y] /\ \A m \in Nodes \ {n} : g[m] = f[m]
  OBVIOUS
<1>2. /\ From(f, x) \subseteq Nodes /\ (x = Nil \/ x \in From(f, x))
      /\ \A m \in From(f, x) : f[m] \in From(f, x) \union {Nil}
  BY FromClosed
<1>3. /\ From(g, x) \subseteq Nodes /\ (x = Nil \/ x \in From(g, x))
      /\ \A m \in From(g, x) : g[m] \in From(g, x) \union {Nil}
  BY FromClosed
<1>4. \A m \in From(f, x) : g[m] \in From(f, x) \union {Nil}
  BY <1>1, <1>2
<1>5. From(g, x) \subseteq From(f, x)
  BY <1>2, <1>4, FromLeast
<1>6. \A m \in From(g, x) : f[m] \in From(g, x) \union {Nil}
  BY <1>1, <1>3, <1>5
<1>7. From(f, x) \subseteq From(g, x)
  BY <1>3, <1>6, FromLeast
<1> QED
  BY <1>1, <1>5, <1>7

(* Where a thread has a reference to its node, and where its node has the   *)
(* list's.                                                                  *)
Holds == {"next", "pop", "popped", "unref"}
Keeps == {"swing", "unpublish", "popped"}

(* The types, but for the bound on the counts.                              *)
ListTypes ==
  /\ freeListHead \in Nodes \union {Nil}
  /\ freeListNext \in [Nodes -> Nodes \union {Nil}]
  /\ refs \in [Nodes -> Nat]
  /\ should \in [Nodes -> BOOLEAN]
  /\ pool \subseteq Nodes /\ owned \in [Threads -> SUBSET Nodes]
  /\ step \in [Threads -> Steps]
  /\ node \in [Threads -> Nodes \union {Nil}]
  /\ head \in [Threads -> Nodes \union {Nil}]
  /\ next \in [Threads -> Nodes \union {Nil}]

(* What a thread knows of its node.                                         *)
ThreadAt(t) ==
  /\ step[t] \in Moves \union Holds => node[t] \in Nodes
  /\ step[t] \in {"publish", "swing"} => freeListNext[node[t]] = head[t]
  /\ step[t] \in {"push", "link", "publish"} => refs[node[t]] = 0
  /\ step[t] = "get" => head[t] \in Nodes
  /\ step[t] \in {"next", "pop"} => node[t] = head[t]
  /\ step[t] = "pop" => next[t] = freeListNext[node[t]]

ThreadsAt == \A t \in Threads : ThreadAt(t)

(* The places exclude each other, and each node has one.                    *)
PoolApart == \A n \in pool :
  /\ n \notin Listed /\ ~should[n]
  /\ \A t \in Threads : n \notin owned[t] /\ ~Moving(t, n)
OwnedApart == \A t \in Threads : \A n \in owned[t] :
  /\ n \notin Listed /\ ~should[n]
  /\ \A u \in Threads : (n \in owned[u] => u = t) /\ ~Moving(u, n)
MovedApart == \A t \in Threads : \A n \in Nodes : Moving(t, n) =>
  /\ n \notin Listed /\ (step[t] \in Keeps => ~should[n])
  /\ \A u \in Threads : Moving(u, n) => u = t
ListedApart == \A n \in Listed : ~should[n]
Somewhere == \A n \in Nodes :
  \/ n \in pool \/ n \in Listed \/ (should[n] /\ refs[n] > 0)
  \/ \E t \in Threads : n \in owned[t] \/ Moving(t, n)
Apart == PoolApart /\ OwnedApart /\ MovedApart /\ ListedApart /\ Somewhere

(* A node of the list is not reached from its successor.                    *)
Acyclic == \A n \in Listed : n \notin From(freeListNext, freeListNext[n])

(* The references: those of threads, and the list's, which is counted from  *)
(* the step that publishes a node until it has been popped.                 *)
Holders == [n \in Nodes |-> {t \in Threads : node[t] = n /\ step[t] \in Holds}]
Referred == Listed \union {n \in Nodes : \E t \in Threads : node[t] = n /\ step[t] \in Keeps}
Counted == \A n \in Nodes : refs[n] = Cardinality(Holders[n]) + (IF n \in Referred THEN 1 ELSE 0)

ListInv == ListTypes /\ ThreadsAt /\ Apart /\ Acyclic /\ Counted

(* What a count says of the references.                                    *)
LEMMA Refer ==
    ASSUME ListTypes, Counted, NEW n \in Nodes
    PROVE  /\ IsFiniteSet(Holders[n]) /\ Cardinality(Holders[n]) \in Nat
           /\ refs[n] <= Cardinality(Threads) + 1
           /\ n \in Referred => refs[n] > 0
           /\ refs[n] = 0 => Holders[n] = {} /\ n \notin Referred
           /\ \A t \in Holders[n] : refs[n] > 0 /\ (n \in Referred => refs[n] > 1) /\ (refs[n] = 1 => Holders[n] = {t} /\ n \notin Referred)
<1>1. IsFiniteSet(Threads) /\ Holders[n] \subseteq Threads
  BY FreeListAssumption DEF Holders
<1>2. IsFiniteSet(Holders[n]) /\ Cardinality(Holders[n]) \in Nat /\ Cardinality(Holders[n]) <= Cardinality(Threads)
      /\ Cardinality(Threads) \in Nat
  BY <1>1, FS_Subset, FS_CardinalityType
<1>3. refs[n] = Cardinality(Holders[n]) + (IF n \in Referred THEN 1 ELSE 0)
  BY DEF Counted
<1>4. refs[n] = 0 => Holders[n] = {} /\ n \notin Referred
  BY <1>2, <1>3, FS_EmptySet
<1>5. ASSUME NEW t \in Holders[n]
      PROVE  refs[n] > 0 /\ (n \in Referred => refs[n] > 1) /\ (refs[n] = 1 => Holders[n] = {t} /\ n \notin Referred)
  <2>1. IsFiniteSet(Holders[n] \ {t}) /\ Cardinality(Holders[n] \ {t}) = Cardinality(Holders[n]) - 1
    BY <1>2, FS_RemoveElement
  <2>2. Cardinality(Holders[n] \ {t}) \in Nat
    BY <2>1, FS_CardinalityType
  <2>3. Cardinality(Holders[n]) = 1 => Holders[n] \ {t} = {}
    BY <2>1, FS_EmptySet
  <2> QED
    BY <1>2, <1>3, <2>1, <2>2, <2>3
<1> QED
  BY <1>2, <1>3, <1>4, <1>5

(* The list begins empty, with all nodes in the pool.                       *)
LEMMA ListStarts == ListInit => ListInv
<1> SUFFICES ASSUME ListInit PROVE ListInv
  OBVIOUS
<1> USE FreeListAssumption DEF ListInit
<1>1. Listed = {}
  <2>1. ASSUME NEW n \in Listed PROVE FALSE
    <3>1. PICK S \in SUBSET Nodes : S = {}
      OBVIOUS
    <3>2. (freeListHead = Nil \/ freeListHead \in S) /\ \A m \in S : freeListNext[m] \in S \union {Nil}
      BY <3>1
    <3>3. n \in S
      BY <3>2 DEF Listed, From
    <3> QED
      BY <3>1, <3>3
  <2> QED
    BY <2>1
<1>2. ListTypes /\ ThreadsAt
  BY DEF ListTypes, ThreadsAt, ThreadAt, Steps, Pushing, Moves, Holds
<1>3. Apart
  BY <1>1 DEF Apart, PoolApart, OwnedApart, MovedApart, ListedApart, Somewhere, Moving, Moves, Pushing
<1>4. \A n \in Nodes : Holders[n] = {} /\ n \notin Referred
  BY <1>1 DEF Holders, Referred, Holds, Keeps
<1>5. Acyclic /\ Counted
  BY <1>1, <1>4, FS_EmptySet DEF Acyclic, Counted
<1> QED
  BY <1>2, <1>3, <1>5 DEF ListInv

(* A step that leaves the list, the owners and everybody's role alone.      *)
LEMMA Aside ==
    ASSUME Apart, Acyclic, Counted, UNCHANGED <<list, pool, owned>>,
           \A u \in Threads :
             /\ step'[u] \in Moves <=> step[u] \in Moves
             /\ step'[u] \in Holds <=> step[u] \in Holds
             /\ step'[u] \in Keeps <=> step[u] \in Keeps
             /\ step[u] \in Moves \union Holds => node'[u] = node[u]
    PROVE  Apart' /\ Acyclic' /\ Counted'
<1>1. Listed' = Listed /\ Acyclic'
  BY DEF list, Listed, Acyclic
<1>2. \A u \in Threads, n \in Nodes : Moving(u, n)' <=> Moving(u, n)
  BY DEF Moving
<1>3. Apart'
  <2>1. PoolApart' /\ ListedApart'
    BY <1>1, <1>2 DEF list, Apart, PoolApart, ListedApart, Moving
  <2>4. OwnedApart'
    BY <1>1, <1>2 DEF list, Apart, OwnedApart, Moving
  <2>3. Somewhere'
    BY <1>1, <1>2 DEF list, Apart, Somewhere, Moving
  <2>2. MovedApart'
    BY <1>1, <1>2 DEF list, Apart, MovedApart, Moving
  <2> QED
    BY <2>1, <2>2, <2>3, <2>4 DEF Apart
<1>4. \A n \in Nodes : Holders'[n] = Holders[n]
  BY DEF Holders
<1>5. Referred' = Referred
  <2>1. \A u \in Threads : step[u] \in Keeps => step[u] \in Moves
    BY DEF Keeps, Moves, Pushing
  <2>2. \A u \in Threads, n \in Nodes :
          node'[u] = n /\ step'[u] \in Keeps <=> node[u] = n /\ step[u] \in Keeps
    BY <2>1
  <2> QED
    BY <1>1, <2>2 DEF Referred
<1>6. Counted'
  BY <1>4, <1>5 DEF Counted, list
<1> QED
  BY <1>1, <1>3, <1>6

(* What the threads know of the nodes they work on.                         *)
LEMMA Working ==
    ASSUME ListInv, NEW t \in Threads
    PROVE  /\ step[t] \in Moves \union Holds => node[t] \in Nodes
           /\ step[t] \in Moves => Moving(t, node[t])
           /\ step[t] \in Holds => t \in Holders[node[t]] /\ refs[node[t]] > 0
           /\ step[t] \in Keeps => node[t] \in Referred /\ refs[node[t]] > 0
           /\ step[t] \in {"push", "link", "publish"} => refs[node[t]] = 0
<1>1. ThreadAt(t)
  BY DEF ListInv, ThreadsAt
<1>2. step[t] \in Keeps => step[t] \in Moves
  BY DEF Keeps, Moves, Pushing
<1>3. step[t] \in Moves \union Holds => node[t] \in Nodes
  BY <1>1 DEF ThreadAt
<1>4. step[t] \in Moves => Moving(t, node[t])
  BY DEF Moving
<1>5. step[t] \in Holds => t \in Holders[node[t]]
  BY <1>3 DEF Holders
<1>6. step[t] \in Keeps => node[t] \in Referred
  BY <1>2, <1>3 DEF Referred
<1>7. step[t] \in {"push", "link", "publish"} => refs[node[t]] = 0
  BY <1>1 DEF ThreadAt
<1>8. ListTypes /\ Counted
  BY DEF ListInv
<1>9. step[t] \in Holds => refs[node[t]] > 0
  BY <1>3, <1>5, <1>8, Refer
<1>10. step[t] \in Keeps => refs[node[t]] > 0
  BY <1>2, <1>3, <1>6, <1>8, Refer
<1> QED
  BY <1>3, <1>4, <1>5, <1>6, <1>7, <1>9, <1>10

(* ListTypes and what a thread knows, step by step.                             *)
LEMMA LocalStep ==
    ASSUME ListInv, NEW t \in Threads, Take(t) \/ Add(t) \/ LoadHead(t) \/ Run(t)
    PROVE  ListTypes' /\ ThreadsAt'
<1> USE DEF ListTypes, Goto, list, local
<1>0. ListTypes /\ ThreadAt(t)
  BY DEF ListInv, ThreadsAt
<1>1. \A u \in Threads \ {t} : ThreadAt(u)
  BY DEF ListInv, ThreadsAt
<1>2. CASE Take(t)
  <2>1. ListTypes'
    BY <1>0, <1>2, Working, Refer DEF Take, ListInv, Steps, Pushing, Moves, Holds, Keeps, ListTypes
  <2>2. ThreadAt(t)'
    BY <1>0, <1>2, Working DEF Take, ThreadAt, Moves, Holds, Keeps, Pushing
  <2>3. ASSUME NEW u \in Threads \ {t} PROVE ThreadAt(u)'
    BY <1>0, <1>1, <1>2, Working DEF Take, ThreadAt, Moves, Holds, Keeps, Pushing
  <2> QED
    BY <2>1, <2>2, <2>3 DEF ThreadsAt
<1>3. CASE Add(t)
  <2>1. ListTypes'
    BY <1>0, <1>3, Working, Refer DEF Add, ListInv, Steps, Pushing, Moves, Holds, Keeps, ListTypes
  <2>2. ThreadAt(t)'
    BY <1>0, <1>3, Working DEF Add, ThreadAt, Moves, Holds, Keeps, Pushing
  <2>3. ASSUME NEW u \in Threads \ {t} PROVE ThreadAt(u)'
    BY <1>0, <1>1, <1>3, Working DEF Add, ThreadAt, Moves, Holds, Keeps, Pushing
  <2> QED
    BY <2>1, <2>2, <2>3 DEF ThreadsAt
<1>4. CASE LoadHead(t)
  <2>1. ListTypes'
    BY <1>0, <1>4, Working, Refer DEF LoadHead, ListInv, Steps, Pushing, Moves, Holds, Keeps, ListTypes
  <2>2. ThreadAt(t)'
    BY <1>0, <1>4, Working DEF LoadHead, ThreadAt, Moves, Holds, Keeps, Pushing
  <2>3. ASSUME NEW u \in Threads \ {t} PROVE ThreadAt(u)'
    BY <1>0, <1>1, <1>4, Working DEF LoadHead, ThreadAt, Moves, Holds, Keeps, Pushing
  <2> QED
    BY <2>1, <2>2, <2>3 DEF ThreadsAt
<1>5. CASE PushLoadHead(t)
  <2>1. ListTypes'
    BY <1>0, <1>5, Working, Refer DEF PushLoadHead, ListInv, Steps, Pushing, Moves, Holds, Keeps, ListTypes
  <2>2. ThreadAt(t)'
    BY <1>0, <1>5, Working DEF PushLoadHead, ThreadAt, Moves, Holds, Keeps, Pushing
  <2>3. ASSUME NEW u \in Threads \ {t} PROVE ThreadAt(u)'
    BY <1>0, <1>1, <1>5, Working DEF PushLoadHead, ThreadAt, Moves, Holds, Keeps, Pushing
  <2> QED
    BY <2>1, <2>2, <2>3 DEF ThreadsAt
<1>6. CASE PushLink(t)
  <2>1. ListTypes'
    BY <1>0, <1>6, Working, Refer DEF PushLink, ListInv, Steps, Pushing, Moves, Holds, Keeps, ListTypes
  <2>2. ThreadAt(t)'
    BY <1>0, <1>6, Working DEF PushLink, ThreadAt, Moves, Holds, Keeps, Pushing
  <2>3. ASSUME NEW u \in Threads \ {t} PROVE ThreadAt(u)'
    <3>1. step[t] \in {"push", "link", "publish"} /\ step[t] \in Moves
      BY <1>6 DEF PushLink, Moves, Pushing
    <3>2. step[u] \in Moves \union Holds => node[u] # node[t]
      BY <3>1, Working DEF ListInv, Apart, MovedApart
    <3>3. step[u] \in {"publish", "swing", "push", "link"} => step[u] \in Moves
      BY DEF Moves, Pushing
    <3>4. step[u] = "pop" => step[u] \in Holds
      BY DEF Holds
    <3> HIDE DEF Moves, Holds
    <3> QED
      BY <1>0, <1>1, <1>6, <3>2, <3>3, <3>4, Working DEF PushLink, ThreadAt
  <2> QED
    BY <2>1, <2>2, <2>3 DEF ThreadsAt
<1>7. CASE PushPublish(t)
  <2>1. ListTypes'
    BY <1>0, <1>7, Working, Refer DEF PushPublish, ListInv, Steps, Pushing, Moves, Holds, Keeps, ListTypes
  <2>2. ThreadAt(t)'
    BY <1>0, <1>7, Working DEF PushPublish, ThreadAt, Moves, Holds, Keeps, Pushing
  <2>3. ASSUME NEW u \in Threads \ {t} PROVE ThreadAt(u)'
    <3>1. step[t] \in {"push", "link", "publish"} /\ step[t] \in Moves
      BY <1>7 DEF PushPublish, Moves, Pushing
    <3>2. step[u] \in Moves \union Holds => node[u] # node[t]
      BY <3>1, Working DEF ListInv, Apart, MovedApart
    <3>3. step[u] \in {"publish", "swing", "push", "link"} => step[u] \in Moves
      BY DEF Moves, Pushing
    <3>4. step[u] = "pop" => step[u] \in Holds
      BY DEF Holds
    <3> HIDE DEF Moves, Holds
    <3> QED
      BY <1>0, <1>1, <1>7, <3>2, <3>3, <3>4, Working DEF PushPublish, ThreadAt
  <2> QED
    BY <2>1, <2>2, <2>3 DEF ThreadsAt
<1>8. CASE PushSwing(t)
  <2>1. ListTypes'
    BY <1>0, <1>8, Working, Refer DEF PushSwing, ListInv, Steps, Pushing, Moves, Holds, Keeps, ListTypes
  <2>2. ThreadAt(t)'
    BY <1>0, <1>8, Working DEF PushSwing, ThreadAt, Moves, Holds, Keeps, Pushing
  <2>3. ASSUME NEW u \in Threads \ {t} PROVE ThreadAt(u)'
    BY <1>0, <1>1, <1>8, Working DEF PushSwing, ThreadAt, Moves, Holds, Keeps, Pushing
  <2> QED
    BY <2>1, <2>2, <2>3 DEF ThreadsAt
<1>9. CASE PushUnpublish(t)
  <2>1. ListTypes'
    BY <1>0, <1>9, Working, Refer DEF PushUnpublish, ListInv, Steps, Pushing, Moves, Holds, Keeps, ListTypes
  <2>2. ThreadAt(t)'
    BY <1>0, <1>9, Working DEF PushUnpublish, ThreadAt, Moves, Holds, Keeps, Pushing
  <2>3. ASSUME NEW u \in Threads \ {t} PROVE ThreadAt(u)'
    BY <1>0, <1>1, <1>9, Working DEF PushUnpublish, ThreadAt, Moves, Holds, Keeps, Pushing
  <2> QED
    BY <2>1, <2>2, <2>3 DEF ThreadsAt
<1>10. CASE Pushed(t)
  <2>1. ListTypes'
    BY <1>0, <1>10, Working, Refer DEF Pushed, ListInv, Steps, Pushing, Moves, Holds, Keeps, ListTypes
  <2>2. ThreadAt(t)'
    BY <1>0, <1>10, Working DEF Pushed, ThreadAt, Moves, Holds, Keeps, Pushing
  <2>3. ASSUME NEW u \in Threads \ {t} PROVE ThreadAt(u)'
    BY <1>0, <1>1, <1>10, Working DEF Pushed, ThreadAt, Moves, Holds, Keeps, Pushing
  <2> QED
    BY <2>1, <2>2, <2>3 DEF ThreadsAt
<1>11. CASE Ref(t)
  <2>1. ListTypes'
    BY <1>0, <1>11, Working, Refer DEF Ref, ListInv, Steps, Pushing, Moves, Holds, Keeps, ListTypes
  <2>2. ThreadAt(t)'
    BY <1>0, <1>11, Working DEF Ref, ThreadAt, Moves, Holds, Keeps, Pushing
  <2>3. ASSUME NEW u \in Threads \ {t} PROVE ThreadAt(u)'
    BY <1>0, <1>1, <1>11, Working DEF Ref, ThreadAt, Moves, Holds, Keeps, Pushing
  <2> QED
    BY <2>1, <2>2, <2>3 DEF ThreadsAt
<1>12. CASE LoadNext(t)
  <2>1. ListTypes'
    BY <1>0, <1>12, Working, Refer DEF LoadNext, ListInv, Steps, Pushing, Moves, Holds, Keeps, ListTypes
  <2>2. ThreadAt(t)'
    BY <1>0, <1>12, Working DEF LoadNext, ThreadAt, Moves, Holds, Keeps, Pushing
  <2>3. ASSUME NEW u \in Threads \ {t} PROVE ThreadAt(u)'
    BY <1>0, <1>1, <1>12, Working DEF LoadNext, ThreadAt, Moves, Holds, Keeps, Pushing
  <2> QED
    BY <2>1, <2>2, <2>3 DEF ThreadsAt
<1>13. CASE Pop(t)
  <2>1. ListTypes'
    BY <1>0, <1>13, Working, Refer DEF Pop, ListInv, Steps, Pushing, Moves, Holds, Keeps, ListTypes
  <2>2. ThreadAt(t)'
    BY <1>0, <1>13, Working DEF Pop, ThreadAt, Moves, Holds, Keeps, Pushing
  <2>3. ASSUME NEW u \in Threads \ {t} PROVE ThreadAt(u)'
    BY <1>0, <1>1, <1>13, Working DEF Pop, ThreadAt, Moves, Holds, Keeps, Pushing
  <2> QED
    BY <2>1, <2>2, <2>3 DEF ThreadsAt
<1>14. CASE Popped(t)
  <2>1. ListTypes'
    BY <1>0, <1>14, Working, Refer DEF Popped, ListInv, Steps, Pushing, Moves, Holds, Keeps, ListTypes
  <2>2. ThreadAt(t)'
    BY <1>0, <1>14, Working DEF Popped, ThreadAt, Moves, Holds, Keeps, Pushing
  <2>3. ASSUME NEW u \in Threads \ {t} PROVE ThreadAt(u)'
    BY <1>0, <1>1, <1>14, Working DEF Popped, ThreadAt, Moves, Holds, Keeps, Pushing
  <2> QED
    BY <2>1, <2>2, <2>3 DEF ThreadsAt
<1>15. CASE Unref(t)
  <2>1. ListTypes'
    BY <1>0, <1>15, Working, Refer DEF Unref, ListInv, Steps, Pushing, Moves, Holds, Keeps, ListTypes
  <2>2. ThreadAt(t)'
    BY <1>0, <1>15, Working DEF Unref, ThreadAt, Moves, Holds, Keeps, Pushing
  <2>3. ASSUME NEW u \in Threads \ {t} PROVE ThreadAt(u)'
    BY <1>0, <1>1, <1>15, Working DEF Unref, ThreadAt, Moves, Holds, Keeps, Pushing
  <2> QED
    BY <2>1, <2>2, <2>3 DEF ThreadsAt
<1> QED
  BY <1>2, <1>3, <1>4, <1>5, <1>6, <1>7, <1>8, <1>9, <1>10, <1>11, <1>12, <1>13, <1>14, <1>15 DEF Run

(* As long as the pointers stay, so does the list.                          *)
LEMMA ListSame ==
    ASSUME UNCHANGED <<freeListHead, freeListNext>>
    PROVE  Listed' = Listed /\ (Acyclic => Acyclic')
BY DEF Listed, Acyclic

(* The list is closed under its pointers.                                   *)
LEMMA ListWhole ==
    ASSUME ListTypes
    PROVE  /\ Listed \subseteq Nodes /\ (freeListHead = Nil \/ freeListHead \in Listed)
           /\ \A m \in Listed : freeListNext[m] \in Listed \union {Nil}
BY FromClosed DEF ListTypes, Listed

(* The steps that only look.                                                *)
LEMMA LookStep ==
    ASSUME ListInv, NEW t \in Threads,
           \/ PushLoadHead(t) \/ Pushed(t) \/ LoadHead(t) \/ LoadNext(t)
           \/ PushSwing(t) /\ freeListHead # head[t]
           \/ Ref(t) /\ refs[head[t]] = 0
           \/ Pop(t) /\ freeListHead # head[t]
    PROVE  Apart' /\ Acyclic' /\ Counted'
<1>1. UNCHANGED <<list, pool, owned>>
  BY DEF PushLoadHead, Pushed, LoadHead, LoadNext, PushSwing, Ref, Pop, list
<1>2. ASSUME NEW u \in Threads
      PROVE  /\ step'[u] \in Moves <=> step[u] \in Moves
             /\ step'[u] \in Holds <=> step[u] \in Holds
             /\ step'[u] \in Keeps <=> step[u] \in Keeps
             /\ step[u] \in Moves \union Holds => node'[u] = node[u]
  <2>1. ListTypes
    BY DEF ListInv
  <2> QED
    BY <2>1 DEF ListTypes, PushLoadHead, Pushed, LoadHead, LoadNext, PushSwing, Ref, Pop, Goto,
      Moves, Pushing, Holds, Keeps
<1> QED
  BY <1>1, <1>2, Aside DEF ListInv

(* A node that is new gets its owner.                                       *)
LEMMA TakeStep ==
    ASSUME ListInv, NEW t \in Threads, Take(t) PROVE Apart' /\ Acyclic' /\ Counted'
<1>1. Listed' = Listed /\ Acyclic'
  BY ListSame DEF Take, list, ListInv
<1>2. PICK n \in pool : pool' = pool \ {n} /\ owned' = [owned EXCEPT ![t] = @ \union {n}]
  BY DEF Take
<1>3. UNCHANGED <<refs, should, step, node>>
  BY DEF Take, list, local
<1>4. ListTypes
  BY DEF ListInv
<1>5. Apart'
  <2> USE <1>1, <1>2, <1>3, <1>4 DEF ListTypes, ListInv, Apart, Moving
  <2>1. PoolApart'
    BY DEF PoolApart
  <2>2. OwnedApart'
    BY DEF PoolApart, OwnedApart
  <2>3. MovedApart' /\ ListedApart'
    BY DEF MovedApart, ListedApart
  <2>4. Somewhere'
    BY DEF Somewhere
  <2> QED
    BY <2>1, <2>2, <2>3, <2>4
<1>6. Counted'
  <2>1. Holders' = Holders /\ Referred' = Referred
    BY <1>1, <1>3 DEF Holders, Referred
  <2> QED
    BY <2>1, <1>3 DEF ListInv, Counted
<1> QED
  BY <1>1, <1>5, <1>6

(* An owner gives its node up: it pushes it, or leaves it to the others.    *)
LEMMA AddStep ==
    ASSUME ListInv, NEW t \in Threads, Add(t) PROVE Apart' /\ Acyclic' /\ Counted'
<1>1. Listed' = Listed /\ Acyclic' /\ UNCHANGED <<refs, pool>>
  BY ListSame DEF Add, ListInv
<1>2. PICK n \in owned[t] :
        /\ owned' = [owned EXCEPT ![t] = @ \ {n}]
        /\ IF refs[n] = 0
           THEN Goto(t, "push") /\ node' = [node EXCEPT ![t] = n]
           ELSE UNCHANGED <<step, node>>
        /\ should' = [should EXCEPT ![n] = TRUE]
  BY DEF Add
<1>3. ListTypes /\ n \in Nodes
  BY DEF ListInv, ListTypes
<1>4. step[t] = "idle" /\ step[t] \notin Moves /\ step[t] \notin Holds /\ step[t] \notin Keeps
  BY DEF Add, Moves, Pushing, Holds, Keeps
<1>5. "push" \in Moves /\ "push" \notin Holds /\ "push" \notin Keeps
  BY DEF Moves, Pushing, Holds, Keeps
<1>6. /\ n \notin Listed /\ n \notin pool
      /\ \A u \in Threads : (n \in owned[u] => u = t) /\ ~Moving(u, n)
  BY DEF ListInv, Apart, PoolApart, OwnedApart
<1>7. Apart'
  <2> USE <1>1, <1>2, <1>3, <1>4, <1>5, <1>6 DEF ListTypes, ListInv, Apart, Moving, Goto
  <2>1. PoolApart'
    BY DEF PoolApart
  <2>2. OwnedApart'
    BY DEF OwnedApart
  <2>3. MovedApart'
    BY DEF MovedApart
  <2>4. ListedApart'
    BY DEF ListedApart
  <2>5. Somewhere'
    BY DEF Somewhere
  <2> QED
    BY <2>1, <2>2, <2>3, <2>4, <2>5
<1>8. Counted'
  <2>1. Holders' = Holders
    BY <1>2, <1>3, <1>4, <1>5 DEF Holders, Goto, ListTypes
  <2>2. Referred' = Referred
    BY <1>1, <1>2, <1>3, <1>4, <1>5 DEF Referred, Goto, ListTypes
  <2> QED
    BY <2>1, <2>2, <1>1 DEF ListInv, Counted
<1> QED
  BY <1>1, <1>7, <1>8

(* The pointer of a node that is not on the list.                           *)
LEMMA LinkStep ==
    ASSUME ListInv, NEW t \in Threads, PushLink(t) PROVE Apart' /\ Acyclic' /\ Counted'
<1>1. ListTypes /\ node[t] \in Nodes /\ node[t] \notin Listed
  <2>1. step[t] \in Moves
    BY DEF PushLink, Moves, Pushing
  <2> QED
    BY <2>1, Working DEF ListInv, Apart, MovedApart
<1>2. freeListNext' = [freeListNext EXCEPT ![node[t]] = head[t]] /\ head[t] \in Nodes \union {Nil}
  BY <1>1 DEF PushLink, ListTypes
<1>3. Listed' = Listed
  <2>1. /\ freeListNext \in [Nodes -> Nodes \union {Nil}] /\ freeListHead \in Nodes \union {Nil}
        /\ node[t] \notin From(freeListNext, freeListHead)
    BY <1>1 DEF ListTypes, Listed
  <2>2. From([freeListNext EXCEPT ![node[t]] = head[t]], freeListHead) = From(freeListNext, freeListHead)
    BY <1>1, <1>2, <2>1, FromKept
  <2> QED
    BY <1>2, <2>2 DEF PushLink, Listed
<1>4. ASSUME NEW n \in Listed
      PROVE  From(freeListNext', freeListNext'[n]) = From(freeListNext, freeListNext[n])
  <2>1. freeListNext'[n] = freeListNext[n] /\ freeListNext[n] \in Listed \union {Nil}
    BY <1>1, <1>2, ListWhole DEF ListTypes
  <2>2. From(freeListNext, freeListNext[n]) \subseteq Listed
    BY <2>1, <1>1, FromTail DEF Listed, ListTypes
  <2>3. freeListNext[n] \in Nodes \union {Nil} /\ node[t] \notin From(freeListNext, freeListNext[n])
    BY <1>1, <2>1, <2>2, ListWhole
  <2>4. freeListNext \in [Nodes -> Nodes \union {Nil}]
    BY <1>1 DEF ListTypes
  <2>5. From([freeListNext EXCEPT ![node[t]] = head[t]], freeListNext[n]) = From(freeListNext, freeListNext[n])
    BY <1>1, <1>2, <2>3, <2>4, FromKept
  <2> QED
    BY <1>2, <2>1, <2>5
<1>5. Acyclic'
  BY <1>3, <1>4 DEF ListInv, Acyclic
<1>6. UNCHANGED <<refs, should, pool, owned, node>> /\ step[t] = "link" /\ step' = [step EXCEPT ![t] = "publish"]
  BY DEF PushLink, Goto
<1>7. ASSUME NEW u \in Threads
      PROVE  /\ step'[u] \in Moves <=> step[u] \in Moves
             /\ step'[u] \in Holds <=> step[u] \in Holds
             /\ step'[u] \in Keeps <=> step[u] \in Keeps
  BY <1>1, <1>6 DEF Moves, Pushing, Holds, Keeps, ListTypes
<1>8. Apart'
  <2> USE <1>1, <1>3, <1>6, <1>7 DEF ListTypes, ListInv, Apart, Moving
  <2>1. PoolApart'
    BY DEF PoolApart
  <2>2. OwnedApart'
    BY DEF OwnedApart
  <2>3. MovedApart'
    BY DEF MovedApart
  <2>4. ListedApart'
    BY DEF ListedApart
  <2>5. Somewhere'
    BY DEF Somewhere
  <2> QED
    BY <2>1, <2>2, <2>3, <2>4, <2>5
<1>9. Counted'
  <2>1. Holders' = Holders /\ Referred' = Referred
    BY <1>3, <1>6, <1>7 DEF Holders, Referred
  <2> QED
    BY <2>1, <1>6 DEF ListInv, Counted
<1> QED
  BY <1>5, <1>8, <1>9

(* The counts, when a step concerns one node only.                          *)
LEMMA CountOf ==
    ASSUME Counted, NEW n \in Nodes,
           \A m \in Nodes \ {n} :
              refs'[m] = refs[m] /\ Holders'[m] = Holders[m] /\ (m \in Referred' <=> m \in Referred),
           refs'[n] = Cardinality(Holders'[n]) + (IF n \in Referred' THEN 1 ELSE 0)
    PROVE  Counted'
<1> SUFFICES ASSUME NEW m \in Nodes
             PROVE  refs'[m] = Cardinality(Holders'[m]) + (IF m \in Referred' THEN 1 ELSE 0)
  BY DEF Counted
<1>1. CASE m = n
  BY <1>1
<1>2. CASE m # n
  BY <1>2 DEF Counted
<1> QED
  BY <1>1, <1>2

(* Who holds which node, when one thread goes on and it works on n.         *)
LEMMA HoldersOf ==
    ASSUME NEW t \in Threads, NEW n \in Nodes,
           \A u \in Threads \ {t} : step'[u] = step[u] /\ node'[u] = node[u],
           step[t] \in Holds => node[t] = n, step'[t] \in Holds => node'[t] = n
    PROVE  /\ \A m \in Nodes \ {n} : Holders'[m] = Holders[m]
           /\ Holders[n] = (Holders[n] \ {t}) \union (IF step[t] \in Holds THEN {t} ELSE {})
           /\ Holders'[n] = (Holders[n] \ {t}) \union (IF step'[t] \in Holds THEN {t} ELSE {})
BY DEF Holders

(* The same of the nodes that the list refers to.                           *)
LEMMA ReferredOf ==
    ASSUME NEW t \in Threads, NEW n \in Nodes,
           \A m \in Nodes \ {n} : m \in Listed' <=> m \in Listed,
           \A u \in Threads \ {t} : step'[u] = step[u] /\ node'[u] = node[u],
           step[t] \in Keeps => node[t] = n, step'[t] \in Keeps => node'[t] = n
    PROVE  /\ \A m \in Nodes \ {n} : m \in Referred' <=> m \in Referred
           /\ n \in Referred' <=> n \in Listed' \/ step'[t] \in Keeps
                \/ \E u \in Threads \ {t} : node[u] = n /\ step[u] \in Keeps
<1>1. \A m \in Nodes : m \in Referred <=> m \in Listed \/ \E u \in Threads : node[u] = m /\ step[u] \in Keeps
  BY DEF Referred
<1>2. \A m \in Nodes : m \in Referred' <=> m \in Listed' \/ \E u \in Threads : node'[u] = m /\ step'[u] \in Keeps
  BY DEF Referred
<1> QED
  BY <1>1, <1>2

(* The list's reference is counted, and the bit is cleared.                 *)
LEMMA PublishStep ==
    ASSUME ListInv, NEW t \in Threads, PushPublish(t) PROVE Apart' /\ Acyclic' /\ Counted'
<1>1. PICK n \in Nodes : n = node[t] /\ Moving(t, n) /\ refs[n] = 0
  <2>1. step[t] = "publish" /\ step[t] \in Moves
    BY DEF PushPublish, Moves, Pushing
  <2> QED
    BY <2>1, Working
<1>2. /\ refs' = [refs EXCEPT ![n] = 1] /\ should' = [should EXCEPT ![n] = FALSE]
      /\ step[t] = "publish" /\ step' = [step EXCEPT ![t] = "swing"] /\ node' = node
      /\ UNCHANGED <<pool, owned>>
  BY <1>1 DEF PushPublish, Goto
<1>3. Listed' = Listed /\ Acyclic'
  BY ListSame DEF PushPublish, ListInv
<1>4. ListTypes
  BY DEF ListInv
<1>5. /\ "publish" \in Moves /\ "swing" \in Moves /\ "swing" \in Keeps
      /\ "publish" \notin Holds /\ "swing" \notin Holds
  BY DEF Moves, Pushing, Holds, Keeps
<1>6. n \notin Listed /\ \A u \in Threads : Moving(u, n) => u = t
  BY <1>1 DEF ListInv, Apart, MovedApart
<1>7. \A u \in Threads, m \in Nodes : Moving(u, m)' <=> Moving(u, m)
  BY <1>2, <1>4, <1>5 DEF ListTypes, Moving
<1>8. Apart'
  <2> USE <1>1, <1>2, <1>3, <1>4, <1>6, <1>7 DEF ListTypes, ListInv, Apart
  <2>1. PoolApart'
    BY DEF PoolApart, Moving
  <2>2. OwnedApart'
    BY DEF OwnedApart, Moving
  <2>3. MovedApart'
    BY DEF MovedApart, Moving
  <2>4. ListedApart'
    BY DEF ListedApart
  <2>5. Somewhere'
    BY DEF Somewhere, Moving
  <2> QED
    BY <2>1, <2>2, <2>3, <2>4, <2>5
<1>9. Counted'
  <2>1. Counted
    BY DEF ListInv
  <2>2. Holders[n] = {}
    BY <1>1, <1>4, <2>1, Refer
  <2>3. Holders'[n] = {} /\ \A m \in Nodes \ {n} : Holders'[m] = Holders[m]
    BY <1>1, <1>2, <1>4, <1>5, <2>2, HoldersOf DEF ListTypes
  <2>4. n \in Referred' /\ \A m \in Nodes \ {n} : m \in Referred' <=> m \in Referred
    BY <1>1, <1>2, <1>3, <1>4, <1>5, ReferredOf DEF ListTypes
  <2>5. refs'[n] = 1 /\ \A m \in Nodes \ {n} : refs'[m] = refs[m]
    BY <1>2, <1>4 DEF ListTypes
  <2>6. refs'[n] = Cardinality(Holders'[n]) + (IF n \in Referred' THEN 1 ELSE 0)
    BY <2>3, <2>4, <2>5, FS_EmptySet
  <2> QED
    BY <2>1, <2>3, <2>4, <2>5, <2>6, CountOf
<1> QED
  BY <1>3, <1>8, <1>9

(* The node becomes the list's head.                                        *)
LEMMA SwingStep ==
    ASSUME ListInv, NEW t \in Threads, PushSwing(t), freeListHead = head[t]
    PROVE  Apart' /\ Acyclic' /\ Counted'
<1>1. PICK n \in Nodes : n = node[t] /\ Moving(t, n) /\ freeListNext[n] = freeListHead
  <2>1. step[t] = "swing" /\ step[t] \in Moves
    BY DEF PushSwing, Moves, Pushing
  <2>2. ThreadAt(t)
    BY DEF ListInv, ThreadsAt
  <2> QED
    BY <2>1, <2>2, Working DEF ThreadAt
<1>2. /\ UNCHANGED <<freeListNext, refs, should, pool, owned, node>> /\ freeListHead' = n
      /\ step[t] = "swing" /\ step' = [step EXCEPT ![t] = "pushed"]
  BY <1>1 DEF PushSwing, Goto
<1>4. ListTypes
  BY DEF ListInv
<1>5. /\ "swing" \in Moves /\ "swing" \in Keeps /\ "swing" \notin Holds
      /\ "pushed" \notin Moves /\ "pushed" \notin Keeps /\ "pushed" \notin Holds
  BY DEF Moves, Pushing, Holds, Keeps
<1>6. n \notin Listed /\ ~should[n] /\ \A u \in Threads : Moving(u, n) => u = t
  BY <1>1, <1>2, <1>5 DEF ListInv, Apart, MovedApart
<1>3. Listed' = {n} \union Listed
  BY <1>1, <1>2, <1>4, FromStep DEF ListTypes, Listed
<1>7. Acyclic'
  <2>1. n \notin From(freeListNext, freeListNext[n])
    BY <1>1, <1>6 DEF Listed
  <2> QED
    BY <2>1, <1>2, <1>3 DEF ListInv, Acyclic
<1>8. \A u \in Threads, m \in Nodes : Moving(u, m)' <=> Moving(u, m) /\ u # t
  BY <1>2, <1>4, <1>5 DEF ListTypes, Moving
<1>9. n \notin pool /\ \A u \in Threads : n \notin owned[u]
  BY <1>1 DEF ListInv, Apart, PoolApart, OwnedApart
<1>10. Apart'
  <2> USE <1>1, <1>2, <1>3, <1>4, <1>6, <1>8, <1>9 DEF ListTypes, ListInv, Apart
  <2>1. PoolApart'
    BY DEF PoolApart, Moving
  <2>2. OwnedApart'
    BY DEF OwnedApart, Moving
  <2>3. MovedApart'
    BY DEF MovedApart, Moving
  <2>4. ListedApart'
    BY DEF ListedApart
  <2>5. Somewhere'
    BY DEF Somewhere, Moving
  <2> QED
    BY <2>1, <2>2, <2>3, <2>4, <2>5
<1>11. Counted'
  <2>1. Holders' = Holders
    BY <1>2, <1>4, <1>5 DEF Holders, ListTypes
  <2>2. n \in Referred /\ n \in Referred' /\ \A m \in Nodes \ {n} : m \in Referred' <=> m \in Referred
    BY <1>1, <1>2, <1>3, <1>4, <1>5, ReferredOf DEF ListTypes, Referred
  <2> QED
    BY <1>2, <2>1, <2>2 DEF ListInv, Counted
<1> QED
  BY <1>7, <1>10, <1>11

(* The list's reference is given up, and the bit is set.                    *)
LEMMA UnpublishStep ==
    ASSUME ListInv, NEW t \in Threads, PushUnpublish(t) PROVE Apart' /\ Acyclic' /\ Counted'
<1>1. PICK n \in Nodes : n = node[t] /\ Moving(t, n) /\ refs[n] > 0 /\ n \in Referred
  <2>1. step[t] = "unpublish" /\ step[t] \in Moves /\ step[t] \in Keeps
    BY DEF PushUnpublish, Moves, Pushing, Keeps
  <2> QED
    BY <2>1, Working
<1>2. /\ refs' = [refs EXCEPT ![n] = @ - 1] /\ should' = [should EXCEPT ![n] = TRUE]
      /\ step[t] = "unpublish" /\ step' = [step EXCEPT ![t] = IF refs[n] = 1 THEN "link" ELSE "pushed"]
      /\ UNCHANGED <<node, pool, owned>>
  BY <1>1 DEF PushUnpublish, Goto
<1>3. Listed' = Listed /\ Acyclic'
  BY ListSame DEF PushUnpublish, ListInv
<1>4. ListTypes
  BY DEF ListInv
<1>5. /\ "unpublish" \in Moves /\ "link" \in Moves /\ "pushed" \notin Moves
      /\ "unpublish" \notin Holds /\ "link" \notin Holds /\ "pushed" \notin Holds
      /\ "link" \notin Keeps /\ "pushed" \notin Keeps
  BY DEF Moves, Pushing, Holds, Keeps
<1>6. n \notin Listed /\ \A u \in Threads : Moving(u, n) => u = t
  BY <1>1 DEF ListInv, Apart, MovedApart
<1>7. n \notin pool /\ \A u \in Threads : n \notin owned[u]
  BY <1>1 DEF ListInv, Apart, PoolApart, OwnedApart
<1>8. step'[t] \in {"link", "pushed"} /\ \A u \in Threads \ {t} : step'[u] = step[u]
  BY <1>2, <1>4 DEF ListTypes
<1>9. \A u \in Threads, m \in Nodes :
        Moving(u, m)' <=> Moving(u, m) /\ (u = t => refs[n] = 1)
  BY <1>2, <1>4, <1>5 DEF ListTypes, Moving
<1>10. Apart'
  <2> USE <1>1, <1>2, <1>3, <1>4, <1>5, <1>6, <1>7, <1>8, <1>9 DEF ListTypes, ListInv, Apart
  <2>1. PoolApart'
    BY DEF PoolApart, Moving
  <2>2. OwnedApart'
    BY DEF OwnedApart, Moving
  <2>3. MovedApart'
    BY DEF MovedApart, Moving
  <2>4. ListedApart'
    BY DEF ListedApart
  <2>5. Somewhere'
    BY DEF Somewhere, Moving
  <2> QED
    BY <2>1, <2>2, <2>3, <2>4, <2>5
<1>11. Counted'
  <2>1. Counted
    BY DEF ListInv
  <2>2. \A m \in Nodes : Holders'[m] = Holders[m]
    BY <1>2, <1>4, <1>5, <1>8 DEF Holders
  <2>3. n \notin Referred' /\ \A m \in Nodes \ {n} : m \in Referred' <=> m \in Referred
    <3>1. \A u \in Threads \ {t} : ~(node[u] = n /\ step[u] \in Keeps)
      BY <1>6 DEF Moving, Moves, Pushing, Keeps
    <3> QED
      BY <3>1, <1>1, <1>2, <1>3, <1>5, <1>6, <1>8, ReferredOf
  <2>4. refs'[n] = refs[n] - 1 /\ \A m \in Nodes \ {n} : refs'[m] = refs[m]
    BY <1>2, <1>4 DEF ListTypes
  <2>5. refs'[n] = Cardinality(Holders'[n])
    BY <1>1, <1>4, <2>1, <2>2, <2>4, Refer DEF Counted
  <2>6. refs'[n] = Cardinality(Holders'[n]) + (IF n \in Referred' THEN 1 ELSE 0)
    <3>1. refs'[n] \in Int
      BY <1>4, <2>4 DEF ListTypes
    <3> QED
      BY <3>1, <2>3, <2>5
  <2> QED
    BY <2>1, <2>2, <2>3, <2>4, <2>6, CountOf
<1> QED
  BY <1>3, <1>10, <1>11

(* A thread takes a reference of the node it has seen at the head.          *)
LEMMA RefStep ==
    ASSUME ListInv, NEW t \in Threads, Ref(t), refs[head[t]] # 0
    PROVE  Apart' /\ Acyclic' /\ Counted'
<1>1. PICK n \in Nodes : n = head[t] /\ refs[n] > 0
  <2>1. step[t] = "get"
    BY DEF Ref
  <2>2. head[t] \in Nodes /\ refs[head[t]] \in Nat
    BY <2>1 DEF ListInv, ThreadsAt, ThreadAt, ListTypes
  <2> QED
    BY <2>2
<1>2. /\ refs' = [refs EXCEPT ![n] = @ + 1] /\ node' = [node EXCEPT ![t] = n]
      /\ step[t] = "get" /\ step' = [step EXCEPT ![t] = "next"]
      /\ UNCHANGED <<should, pool, owned>>
  BY <1>1 DEF Ref, Goto
<1>3. Listed' = Listed /\ Acyclic'
  BY ListSame DEF Ref, ListInv
<1>4. ListTypes
  BY DEF ListInv
<1>5. /\ "get" \notin Moves /\ "get" \notin Holds /\ "get" \notin Keeps
      /\ "next" \notin Moves /\ "next" \in Holds /\ "next" \notin Keeps
  BY DEF Moves, Pushing, Holds, Keeps
<1>7. \A u \in Threads, m \in Nodes : Moving(u, m)' <=> Moving(u, m)
  BY <1>2, <1>4, <1>5 DEF ListTypes, Moving
<1>8. Apart'
  <2> USE <1>1, <1>2, <1>3, <1>4, <1>5, <1>7 DEF ListTypes, ListInv, Apart
  <2>1. PoolApart'
    BY DEF PoolApart, Moving
  <2>2. OwnedApart'
    BY DEF OwnedApart, Moving
  <2>3. MovedApart'
    BY DEF MovedApart, Moving
  <2>4. ListedApart'
    BY DEF ListedApart
  <2>5. Somewhere'
    BY DEF Somewhere, Moving
  <2> QED
    BY <2>1, <2>2, <2>3, <2>4, <2>5
<1>9. Counted'
  <2>1. Counted
    BY DEF ListInv
  <2>2. /\ t \notin Holders[n] /\ Holders'[n] = Holders[n] \union {t}
        /\ \A m \in Nodes \ {n} : Holders'[m] = Holders[m]
    BY <1>1, <1>2, <1>4, <1>5, HoldersOf DEF ListTypes, Holders
  <2>3. Cardinality(Holders'[n]) = Cardinality(Holders[n]) + 1
    <3>1. IsFiniteSet(Holders[n])
      BY <1>4, <2>1, Refer
    <3>2. Cardinality(Holders[n] \union {t}) = Cardinality(Holders[n]) + 1
      BY <3>1, <2>2, FS_AddElement
    <3> QED
      BY <3>2, <2>2
  <2>4. \A m \in Nodes : m \in Referred' <=> m \in Referred
    BY <1>2, <1>3, <1>4, <1>5 DEF ListTypes, Referred
  <2>5. refs'[n] = refs[n] + 1 /\ \A m \in Nodes \ {n} : refs'[m] = refs[m]
    BY <1>2, <1>4 DEF ListTypes
  <2>6. refs'[n] = Cardinality(Holders'[n]) + (IF n \in Referred' THEN 1 ELSE 0)
    BY <1>4, <2>1, <2>3, <2>4, <2>5, Refer DEF Counted
  <2> QED
    BY <2>1, <2>2, <2>4, <2>5, <2>6, CountOf
<1> QED
  BY <1>3, <1>8, <1>9

(* The head of the list goes to the thread, with the list's reference.      *)
LEMMA PopStep ==
    ASSUME ListInv, NEW t \in Threads, Pop(t), freeListHead = head[t]
    PROVE  Apart' /\ Acyclic' /\ Counted'
<1>1. PICK n \in Nodes : n = node[t] /\ n = freeListHead /\ next[t] = freeListNext[n]
  <2>1. step[t] = "pop" /\ step[t] \in Holds
    BY DEF Pop, Holds
  <2>2. ThreadAt(t)
    BY DEF ListInv, ThreadsAt
  <2> QED
    BY <2>1, <2>2, Working DEF ThreadAt
<1>2. /\ UNCHANGED <<freeListNext, refs, should, pool, owned, node>> /\ freeListHead' = freeListNext[n]
      /\ step[t] = "pop" /\ step' = [step EXCEPT ![t] = "popped"]
  BY <1>1 DEF Pop, Goto
<1>4. ListTypes
  BY DEF ListInv
<1>5. /\ "pop" \notin Moves /\ "pop" \notin Keeps /\ "pop" \in Holds
      /\ "popped" \in Moves /\ "popped" \in Keeps /\ "popped" \in Holds
  BY DEF Moves, Pushing, Holds, Keeps
<1>3. n \in Listed /\ Listed' = Listed \ {n}
  <2>1. Listed = {n} \union From(freeListNext, freeListNext[n])
    BY <1>1, <1>4, FromStep DEF ListTypes, Listed
  <2>2. n \notin From(freeListNext, freeListNext[n])
    BY <2>1 DEF ListInv, Acyclic
  <2> QED
    BY <2>1, <2>2, <1>2 DEF Listed
<1>7. Acyclic'
  BY <1>2, <1>3 DEF ListInv, Acyclic
<1>6. ~should[n] /\ n \notin pool /\ \A u \in Threads : ~Moving(u, n) /\ n \notin owned[u]
  BY <1>1, <1>3 DEF ListInv, Apart, MovedApart, ListedApart, PoolApart, OwnedApart
<1>8. \A u \in Threads, m \in Nodes : Moving(u, m)' <=> Moving(u, m) \/ (u = t /\ m = n)
  BY <1>1, <1>2, <1>4, <1>5 DEF ListTypes, Moving
<1>10. Apart'
  <2> USE <1>1, <1>2, <1>3, <1>4, <1>5, <1>6, <1>8 DEF ListTypes, ListInv, Apart
  <2>1. PoolApart'
    BY DEF PoolApart, Moving
  <2>2. OwnedApart'
    BY DEF OwnedApart, Moving
  <2>3. MovedApart'
    BY DEF MovedApart, Moving
  <2>4. ListedApart'
    BY DEF ListedApart
  <2>5. Somewhere'
    BY DEF Somewhere, Moving
  <2> QED
    BY <2>1, <2>2, <2>3, <2>4, <2>5
<1>11. Counted'
  <2>1. Holders' = Holders
    BY <1>2, <1>4, <1>5 DEF Holders, ListTypes
  <2>2. n \in Referred /\ n \in Referred' /\ \A m \in Nodes \ {n} : m \in Referred' <=> m \in Referred
    <3>1. \A m \in Nodes \ {n} : m \in Listed' <=> m \in Listed
      BY <1>3
    <3>2. /\ \A u \in Threads \ {t} : step'[u] = step[u] /\ node'[u] = node[u]
          /\ step[t] \notin Keeps /\ step'[t] \in Keeps /\ node'[t] = n
      BY <1>1, <1>2, <1>4, <1>5 DEF ListTypes
    <3>3. n \in Referred
      BY <1>3 DEF Referred
    <3> QED
      BY <3>1, <3>2, <3>3, ReferredOf
  <2> QED
    BY <1>2, <2>1, <2>2 DEF ListInv, Counted
<1> QED
  BY <1>7, <1>10, <1>11

(* Both references go, and the node has an owner.                           *)
LEMMA PoppedStep ==
    ASSUME ListInv, NEW t \in Threads, Popped(t) PROVE Apart' /\ Acyclic' /\ Counted'
<1>1. PICK n \in Nodes : n = node[t] /\ Moving(t, n) /\ n \in Referred /\ t \in Holders[n]
  <2>1. step[t] = "popped" /\ step[t] \in Moves /\ step[t] \in Keeps /\ step[t] \in Holds
    BY DEF Popped, Moves, Pushing, Keeps, Holds
  <2> QED
    BY <2>1, Working
<1>2. /\ refs' = [refs EXCEPT ![n] = @ - 2] /\ owned' = [owned EXCEPT ![t] = @ \union {n}]
      /\ step[t] = "popped" /\ step' = [step EXCEPT ![t] = "idle"] /\ node' = [node EXCEPT ![t] = Nil]
      /\ UNCHANGED <<should, pool>>
  BY <1>1 DEF Popped, Goto
<1>3. Listed' = Listed /\ Acyclic'
  BY ListSame DEF Popped, ListInv
<1>4. ListTypes
  BY DEF ListInv
<1>5. /\ "popped" \in Moves /\ "popped" \in Holds /\ "popped" \in Keeps
      /\ "idle" \notin Moves /\ "idle" \notin Holds /\ "idle" \notin Keeps
  BY DEF Moves, Pushing, Holds, Keeps
<1>6. n \notin Listed /\ ~should[n] /\ \A u \in Threads : Moving(u, n) => u = t
  BY <1>1, <1>2, <1>5 DEF ListInv, Apart, MovedApart
<1>7. n \notin pool /\ \A u \in Threads : n \notin owned[u]
  BY <1>1 DEF ListInv, Apart, PoolApart, OwnedApart
<1>9. \A u \in Threads, m \in Nodes : Moving(u, m)' <=> Moving(u, m) /\ u # t
  BY <1>2, <1>4, <1>5 DEF ListTypes, Moving
<1>10. Apart'
  <2> USE <1>1, <1>2, <1>3, <1>4, <1>5, <1>6, <1>7, <1>9 DEF ListTypes, ListInv, Apart
  <2>1. PoolApart'
    BY DEF PoolApart, Moving
  <2>2. OwnedApart'
    BY DEF OwnedApart, Moving
  <2>3. MovedApart'
    BY DEF MovedApart, Moving
  <2>4. ListedApart'
    BY DEF ListedApart
  <2>5. Somewhere'
    BY DEF Somewhere, Moving
  <2> QED
    BY <2>1, <2>2, <2>3, <2>4, <2>5
<1>11. Counted'
  <2>1. Counted /\ refs[n] \in Nat /\ refs[n] > 1
    BY <1>1, <1>4, Refer DEF ListInv, ListTypes
  <2>2. Holders'[n] = Holders[n] \ {t} /\ \A m \in Nodes \ {n} : Holders'[m] = Holders[m]
    BY <1>1, <1>2, <1>4, <1>5, HoldersOf DEF ListTypes
  <2>3. Cardinality(Holders'[n]) = Cardinality(Holders[n]) - 1
    <3>1. IsFiniteSet(Holders[n])
      BY <1>4, <2>1, Refer
    <3>2. Cardinality(Holders[n] \ {t}) = Cardinality(Holders[n]) - 1
      BY <3>1, <1>1, FS_RemoveElement
    <3> QED
      BY <3>2, <2>2
  <2>4. n \notin Referred' /\ \A m \in Nodes \ {n} : m \in Referred' <=> m \in Referred
    <3>1. \A u \in Threads \ {t} : ~(node[u] = n /\ step[u] \in Keeps)
      BY <1>6 DEF Moving, Moves, Pushing, Keeps
    <3> QED
      BY <3>1, <1>1, <1>2, <1>3, <1>4, <1>5, <1>6, ReferredOf DEF ListTypes
  <2>5. refs'[n] = refs[n] - 2 /\ \A m \in Nodes \ {n} : refs'[m] = refs[m]
    BY <1>2, <1>4 DEF ListTypes
  <2>6. refs'[n] = Cardinality(Holders'[n]) + (IF n \in Referred' THEN 1 ELSE 0)
    BY <1>1, <1>4, <2>1, <2>3, <2>4, <2>5, Refer DEF Counted
  <2> QED
    BY <2>1, <2>2, <2>4, <2>5, <2>6, CountOf
<1> QED
  BY <1>3, <1>10, <1>11

(* A thread gives its reference back; the last one pushes the node.         *)
LEMMA UnrefStep ==
    ASSUME ListInv, NEW t \in Threads, Unref(t) PROVE Apart' /\ Acyclic' /\ Counted'
<1>1. PICK n \in Nodes : n = node[t] /\ t \in Holders[n]
  <2>1. step[t] = "unref" /\ step[t] \in Holds
    BY DEF Unref, Holds
  <2> QED
    BY <2>1, Working
<1>2. /\ refs' = [refs EXCEPT ![n] = @ - 1]
      /\ IF refs[n] = 1 /\ should[n]
         THEN step' = [step EXCEPT ![t] = "push"] /\ node' = node
         ELSE /\ step' = [step EXCEPT ![t] = IF head[t] = Nil THEN "idle" ELSE "get"]
              /\ node' = [node EXCEPT ![t] = Nil]
      /\ step[t] = "unref" /\ UNCHANGED <<should, pool, owned>>
  BY <1>1 DEF Unref, Goto
<1>3. Listed' = Listed /\ Acyclic'
  BY ListSame DEF Unref, ListInv
<1>4. ListTypes /\ Counted
  BY DEF ListInv
<1>5. /\ "unref" \notin Moves /\ "unref" \in Holds /\ "unref" \notin Keeps
      /\ "push" \in Moves /\ "push" \notin Holds /\ "push" \notin Keeps
      /\ \A l \in {"idle", "get"} : l \notin Moves /\ l \notin Holds /\ l \notin Keeps
  BY DEF Moves, Pushing, Holds, Keeps
<1>6. /\ refs[n] \in Nat /\ refs[n] > 0
      /\ refs[n] = 1 => Holders[n] = {t} /\ n \notin Referred
  BY <1>1, <1>4, Refer DEF ListTypes
<1>7. refs[n] = 1 /\ should[n] =>
        /\ n \notin Listed /\ n \notin pool
        /\ \A u \in Threads : n \notin owned[u] /\ ~Moving(u, n)
  <2>1. n \in Listed => n \in Referred
    BY DEF Referred
  <2>2. should[n] => n \notin pool /\ \A u \in Threads : n \notin owned[u]
    BY DEF ListInv, Apart, PoolApart, OwnedApart
  <2>3. ASSUME NEW u \in Threads, Moving(u, n), refs[n] = 1, should[n] PROVE FALSE
    <3>1. step[u] \notin Keeps
      BY <2>3 DEF ListInv, Apart, MovedApart
    <3>2. step[u] \in {"push", "link", "publish"} /\ node[u] = n
      BY <2>3, <3>1 DEF Moving, Moves, Pushing, Keeps
    <3> QED
      BY <2>3, <3>2, Working
  <2> QED
    BY <1>6, <2>1, <2>2, <2>3
<1>8. /\ refs[n] = 1 /\ should[n] => step'[t] = "push" /\ node'[t] = n
      /\ ~(refs[n] = 1 /\ should[n]) => step'[t] \in {"idle", "get"}
      /\ \A u \in Threads \ {t} : step'[u] = step[u] /\ node'[u] = node[u]
  BY <1>1, <1>2, <1>4 DEF ListTypes
<1>9. \A u \in Threads, m \in Nodes :
        Moving(u, m)' <=> Moving(u, m) \/ (u = t /\ m = n /\ refs[n] = 1 /\ should[n])
  <2>1. \A m \in Nodes : Moving(t, m)' <=> (m = n /\ refs[n] = 1 /\ should[n])
    BY <1>5, <1>8 DEF Moving
  <2>2. \A m \in Nodes : ~Moving(t, m)
    BY <1>2, <1>5 DEF Moving
  <2>3. \A u \in Threads \ {t}, m \in Nodes : Moving(u, m)' <=> Moving(u, m)
    BY <1>8 DEF Moving
  <2> QED
    BY <2>1, <2>2, <2>3
<1>10. refs'[n] = refs[n] - 1 /\ \A m \in Nodes \ {n} : refs'[m] = refs[m]
  BY <1>2, <1>4 DEF ListTypes
<1>11. Apart'
  <2> USE <1>3, <1>5, <1>6, <1>7, <1>9 DEF ListInv, Apart
  <2>9. UNCHANGED <<should, pool, owned>> /\ ListTypes
    BY <1>2, <1>4
  <2> USE <2>9 DEF ListTypes
  <2>1. PoolApart'
    <3>1. ASSUME NEW m \in pool
          PROVE  /\ m \notin Listed /\ ~should[m]
                 /\ \A u \in Threads : m \notin owned[u] /\ ~Moving(u, m)
      BY <3>1 DEF PoolApart
    <3>2. ASSUME NEW m \in pool, NEW u \in Threads PROVE ~Moving(u, m)'
      BY <3>1
    <3> QED
      BY <3>1, <3>2 DEF PoolApart
  <2>2. OwnedApart'
    <3>1. ASSUME NEW w \in Threads, NEW m \in owned[w]
          PROVE  /\ m \notin Listed /\ ~should[m]
                 /\ \A u \in Threads : (m \in owned[u] => u = w) /\ ~Moving(u, m)
      BY <3>1 DEF OwnedApart
    <3>2. ASSUME NEW w \in Threads, NEW m \in owned[w], NEW u \in Threads PROVE ~Moving(u, m)'
      BY <3>1
    <3> QED
      BY <3>1, <3>2 DEF OwnedApart
  <2>3. MovedApart'
    BY <1>8 DEF MovedApart, Moving
  <2>4. ListedApart'
    BY DEF ListedApart
  <2>5. Somewhere'
    BY <1>10 DEF Somewhere, Moving
  <2> QED
    BY <2>1, <2>2, <2>3, <2>4, <2>5
<1>12. Counted'
  <2>2. Holders'[n] = Holders[n] \ {t} /\ \A m \in Nodes \ {n} : Holders'[m] = Holders[m]
    BY <1>1, <1>2, <1>4, <1>5, <1>8, HoldersOf
  <2>3. Cardinality(Holders'[n]) = Cardinality(Holders[n]) - 1
    <3>1. IsFiniteSet(Holders[n])
      BY <1>4, Refer
    <3>2. Cardinality(Holders[n] \ {t}) = Cardinality(Holders[n]) - 1
      BY <3>1, <1>1, FS_RemoveElement
    <3> QED
      BY <3>2, <2>2
  <2>4. \A m \in Nodes : m \in Referred' <=> m \in Referred
    BY <1>2, <1>3, <1>5, <1>8 DEF Referred
  <2>6. refs'[n] = Cardinality(Holders'[n]) + (IF n \in Referred' THEN 1 ELSE 0)
    BY <1>1, <1>4, <1>10, <2>3, <2>4, Refer DEF Counted
  <2> QED
    BY <1>4, <1>10, <2>2, <2>4, <2>6, CountOf
<1> QED
  BY <1>3, <1>11, <1>12

(* Each step keeps the invariant.                                           *)
LEMMA ListSteps == ListInv /\ [ListNext]_listVars => ListInv'
<1> SUFFICES ASSUME ListInv, [ListNext]_listVars PROVE ListInv'
  OBVIOUS
<1>1. ASSUME NEW t \in Threads, Take(t) \/ Add(t) \/ LoadHead(t) \/ Run(t)
      PROVE  ListInv'
  <2>1. ListTypes' /\ ThreadsAt'
    BY <1>1, LocalStep
  <2>2. Apart' /\ Acyclic' /\ Counted'
    <3>1. CASE PushLoadHead(t) \/ Pushed(t) \/ LoadHead(t) \/ LoadNext(t)
      BY <3>1, LookStep
    <3>2. CASE PushSwing(t)
      BY <3>2, LookStep, SwingStep
    <3>3. CASE Ref(t)
      BY <3>3, LookStep, RefStep
    <3>4. CASE Pop(t)
      BY <3>4, LookStep, PopStep
    <3>5. CASE Take(t) \/ Add(t) \/ PushLink(t) \/ PushPublish(t)
      BY <3>5, TakeStep, AddStep, LinkStep, PublishStep
    <3>6. CASE PushUnpublish(t) \/ Popped(t) \/ Unref(t)
      BY <3>6, UnpublishStep, PoppedStep, UnrefStep
    <3> QED
      BY <1>1, <3>1, <3>2, <3>3, <3>4, <3>5, <3>6 DEF Run
  <2> QED
    BY <2>1, <2>2 DEF ListInv
<1>2. CASE UNCHANGED listVars
  <2>1. UNCHANGED <<list, pool, owned, local>>
    BY <1>2 DEF listVars
  <2>2. ListTypes' /\ ThreadsAt'
    BY <2>1 DEF ListInv, ListTypes, ThreadsAt, ThreadAt, list, local
  <2>3. Apart' /\ Acyclic' /\ Counted'
    BY <2>1, Aside DEF ListInv, local
  <2> QED
    BY <2>2, <2>3 DEF ListInv
<1> QED
  BY <1>1, <1>2 DEF ListNext

(* The invariant gives each node its one place.                             *)
LEMMA ListImplies == ListInv => BlocksHandedOutOnce
<1> SUFFICES ASSUME ListInv PROVE BlocksHandedOutOnce
  OBVIOUS
<1>1. ListTypes /\ Counted /\ Apart
  BY DEF ListInv
<1>2. ListTypeOK
  <2>1. Cardinality(Threads) \in Nat
    BY FreeListAssumption, FS_CardinalityType
  <2>2. refs \in [Nodes -> 0..(Cardinality(Threads) + 1)]
    BY <1>1, <2>1, Refer DEF ListTypes
  <2> QED
    BY <1>1, <2>2 DEF ListTypes, ListTypeOK
<1>3. BitClear
  BY <1>1 DEF Apart, OwnedApart, MovedApart, BitClear, Moving, Moves, Keeps
<1>4. ASSUME NEW n \in Nodes
      PROVE  \E p \in PlacesOf(n) : PlacesOf(n) = {p}
  <2>1. CASE n \in pool
    <3>1. /\ n \notin Listed /\ ~should[n] /\ \A t \in Threads : n \notin owned[t] /\ ~Moving(t, n)
      BY <1>1, <2>1 DEF Apart, PoolApart
    <3>2. PlacesOf(n) = {<<"pool", n>>}
      BY <2>1, <3>1 DEF PlacesOf, Left
    <3> QED
      BY <3>2
  <2>2. ASSUME NEW t \in Threads, n \in owned[t]
        PROVE  \E p \in PlacesOf(n) : PlacesOf(n) = {p}
    <3>1. /\ n \notin Listed /\ ~should[n] /\ n \notin pool
          /\ \A u \in Threads : (n \in owned[u] => u = t) /\ ~Moving(u, n)
      BY <1>1, <2>2 DEF Apart, PoolApart, OwnedApart
    <3>2. PlacesOf(n) = {<<"owner", t>>}
      BY <2>2, <3>1 DEF PlacesOf, Left
    <3> QED
      BY <3>2
  <2>3. ASSUME NEW t \in Threads, Moving(t, n)
        PROVE  \E p \in PlacesOf(n) : PlacesOf(n) = {p}
    <3>1. /\ n \notin Listed /\ n \notin pool
          /\ \A u \in Threads : n \notin owned[u] /\ (Moving(u, n) => u = t)
      BY <1>1, <2>3 DEF Apart, PoolApart, OwnedApart, MovedApart
    <3>2. PlacesOf(n) = {<<"mover", t>>}
      BY <2>3, <3>1 DEF PlacesOf, Left
    <3> QED
      BY <3>2
  <2>4. CASE n \in Listed
    <3>1. /\ ~should[n] /\ n \notin pool
          /\ \A u \in Threads : n \notin owned[u] /\ ~Moving(u, n)
      BY <1>1, <2>4 DEF Apart, PoolApart, OwnedApart, MovedApart, ListedApart
    <3>2. PlacesOf(n) = {<<"list", n>>}
      BY <2>4, <3>1 DEF PlacesOf, Left
    <3> QED
      BY <3>2
  <2>5. CASE n \notin Listed /\ n \notin pool /\ \A t \in Threads : n \notin owned[t] /\ ~Moving(t, n)
    <3>1. Left(n)
      BY <1>1, <2>5 DEF Apart, Somewhere, Left
    <3>2. PlacesOf(n) = {<<"left", n>>}
      BY <2>5, <3>1 DEF PlacesOf
    <3> QED
      BY <3>2
  <2> QED
    BY <2>1, <2>2, <2>3, <2>4, <2>5
<1> QED
  BY <1>2, <1>3, <1>4 DEF BlocksHandedOutOnce, NodeInOnePlace

-----------------------------------------------------------------------------
(* For any number of threads and blocks, and any interleaving of their      *)
(* calls: no block is handed out twice, none is lost, the references that   *)
(* are counted are those that exist, and the bit is clear when the code     *)
(* asserts it (concurrentqueue.h:1440-1446, 1459-1537).                     *)
THEOREM HandedOutOnce == ListSpec => []BlocksHandedOutOnce
<1>1. ListInit => ListInv
  BY ListStarts
<1>2. ListInv /\ [ListNext]_listVars => ListInv'
  BY ListSteps
<1>3. ListInv => BlocksHandedOutOnce
  BY ListImplies
<1> QED
  BY <1>1, <1>2, <1>3, PTL DEF ListSpec

-----------------------------------------------------------------------------
(* TaskQueue.  The sub-queues a consumer with a token has still to try,     *)
(* from its place up the list to the current one, round the tail.           *)
Ahead(c) ==
    IF current[c] <= place[c] THEN (current[c] + 1)..place[c]
    ELSE (1..place[c]) \cup ((current[c] + 1)..best[c])

(* What a consumer knows where it is: a call that is not over owes          *)
(* elements, and where it looks for them there is a list.                   *)
SearchInv(c) ==
    /\ owed[c] = 0 <=> at[c] \in {"idle", "advance"}
    /\ call[c] = "one" => owed[c] <= 1
    /\ at[c] \in {"score", "rest"} => call[c] = "one"
    /\ at[c] = "score" => IF nonEmpty[c] > 0 THEN best[c] # 0 ELSE bestSize[c] = 0
    /\ at[c] = "rest" => best[c] # 0
    /\ at[c] = "rotate" => place[c] # 0
    /\ desired[c] # 0 \/ at[c] \in {"current", "others"} => current[c] # 0
    /\ at[c] = "others" => place[c] \in 1..best[c] /\ current[c] <= best[c]

(* What had elements all the while, and nobody else in it, is still to come *)
(* in the search: it is not where the consumer is beside another.           *)
SeenInv(c) ==
    /\ \A p \in there[c] : sizes[p] > 0
    /\ beside[c] => In(c) \notin there[c]
    /\ at[c] = "score" /\ nonEmpty[c] = 0 => there[c] \subseteq 1..place[c]
    /\ at[c] = "rest" => there[c] \subseteq (1..place[c]) \ {best[c]}
    /\ at[c] = "bulk" => there[c] \subseteq 1..place[c]
    /\ at[c] = "others" => there[c] \subseteq Ahead(c)

(* A token that was always placed in the whole list stands where its offset *)
(* and the rotations it has followed put it.                                *)
PlacedInv(c) ==
    /\ desired[c] = 0 => lastOffset[c] = -1
    /\ placedAmong[c] # 0 => desired[c] = 1 + ((Offset[c] - 1 - lastOffset[c]) % placedAmong[c])

(* Without a sub-queue nothing has been enqueued, so nobody searches.       *)
NotEmpty == Last = 0 => permits = 0 /\ \A c \in Consumers : at[c] = "idle"

TaskInv ==
    /\ TasksTypeOK /\ NotEmpty /\ PermitsCovered
    /\ \A c \in Consumers : SearchInv(c) /\ SeenInv(c) /\ PlacedInv(c)

(* What is counted in a finite domain is finite.                            *)
LEMMA UnitsFinite ==
    ASSUME NEW f, IsFiniteSet(DOMAIN f), NEW n \in Nat
    PROVE  IsFiniteSet(Units(f, n)) /\ Cardinality(Units(f, n)) \in Nat
<1>1. IsFiniteSet(1..n)
  BY FS_Interval
<1>2. IsFiniteSet((DOMAIN f) \X (1..n))
  BY <1>1, FS_Product
<1> QED
  BY <1>2, FS_Subset, FS_CardinalityType DEF Units

(* Nothing is counted where there is nothing.                               *)
LEMMA UnitsNone ==
    ASSUME NEW f, NEW n \in Nat, \A x \in DOMAIN f : f[x] = 0
    PROVE  Units(f, n) = {} /\ Cardinality(Units(f, n)) = 0
<1>1. Units(f, n) = {}
  BY DEF Units
<1> QED
  BY <1>1, FS_EmptySet

(* g is f but for one place, where it is b.                                 *)
Changed(f, g, x, b, n) ==
    /\ IsFiniteSet(DOMAIN f) /\ DOMAIN g = DOMAIN f /\ x \in DOMAIN f
    /\ n \in Nat /\ f[x] \in 0..n /\ b \in 0..n /\ g[x] = b
    /\ \A y \in DOMAIN f : y # x => g[y] = f[y]

(* What is counted when one place gets more.                                *)
LEMMA UnitsMore ==
    ASSUME NEW f, NEW g, NEW x, NEW b, NEW n, Changed(f, g, x, b, n), f[x] <= b
    PROVE  Cardinality(Units(g, n)) = Cardinality(Units(f, n)) + (b - f[x])
<1>1. PICK T : T = {x} \X ((f[x] + 1)..b)
  OBVIOUS
<1>2. /\ IsFiniteSet(DOMAIN f) /\ DOMAIN g = DOMAIN f /\ x \in DOMAIN f
      /\ n \in Nat /\ f[x] \in 0..n /\ b \in 0..n /\ g[x] = b
      /\ \A y \in DOMAIN f : y # x => g[y] = f[y]
  BY DEF Changed
<1>3. IsFiniteSet(T) /\ Cardinality(T) = b - f[x]
  <2>1. IsFiniteSet((f[x] + 1)..b) /\ Cardinality((f[x] + 1)..b) = b - f[x]
    <3>1. f[x] + 1 \in Int /\ b \in Int
      BY <1>2
    <3>2. /\ IsFiniteSet((f[x] + 1)..b)
          /\ Cardinality((f[x] + 1)..b) = IF f[x] + 1 > b THEN 0 ELSE b - (f[x] + 1) + 1
      BY <3>1, FS_Interval
    <3> QED
      BY <3>2, <1>2
  <2>2. IsFiniteSet({x}) /\ Cardinality({x}) = 1
    BY FS_Singleton
  <2>3. IsFiniteSet(T) /\ Cardinality(T) = 1 * (b - f[x])
    <3>1. PICK A, B : A = {x} /\ B = (f[x] + 1)..b
      OBVIOUS
    <3>2. T = A \X B /\ IsFiniteSet(A) /\ IsFiniteSet(B)
      BY <1>1, <2>1, <2>2, <3>1
    <3>3. IsFiniteSet(T) /\ Cardinality(T) = Cardinality(A) * Cardinality(B)
      BY <3>2, FS_Product
    <3> QED
      BY <3>1, <3>3, <2>1, <2>2
  <2> QED
    BY <2>3, <1>2
<1>4. Units(g, n) = Units(f, n) \cup T
  <2>1. T \subseteq (DOMAIN f) \X (1..n)
    BY <1>1, <1>2
  <2>2. ASSUME NEW y \in DOMAIN f, NEW i \in 1..n
        PROVE  <<y, i>> \in Units(g, n) <=> <<y, i>> \in Units(f, n) \/ <<y, i>> \in T
    <3>1. /\ <<y, i>> \in Units(g, n) <=> i <= g[y]
          /\ <<y, i>> \in Units(f, n) <=> i <= f[y]
          /\ <<y, i>> \in T <=> y = x /\ i > f[x] /\ i <= b
      BY <1>1, <1>2 DEF Units
    <3>2. CASE y = x
      BY <3>1, <3>2, <1>2
    <3>3. CASE y # x
      BY <3>1, <3>3, <1>2
    <3> QED
      BY <3>2, <3>3
  <2>3. Units(g, n) \subseteq (DOMAIN f) \X (1..n) /\ Units(f, n) \subseteq (DOMAIN f) \X (1..n)
    BY <1>2 DEF Units
  <2> QED
    BY <2>1, <2>2, <2>3
<1>5. Units(f, n) \cap T = {} /\ Cardinality(Units(f, n) \cap T) = 0
  <2>1. Units(f, n) \cap T = {}
    BY <1>1, <1>2 DEF Units
  <2> QED
    BY <2>1, FS_EmptySet
<1>6. IsFiniteSet(Units(f, n)) /\ Cardinality(Units(f, n)) \in Nat
  BY <1>2, UnitsFinite
<1>7. Cardinality(Units(f, n) \cup T) =
          Cardinality(Units(f, n)) + Cardinality(T) - Cardinality(Units(f, n) \cap T)
  BY <1>3, <1>6, FS_Union
<1> QED
  BY <1>2, <1>3, <1>4, <1>5, <1>6, <1>7

(* What is counted when one place changes.                                  *)
LEMMA UnitsSet ==
    ASSUME NEW f, NEW g, NEW x, NEW b, NEW n, Changed(f, g, x, b, n)
    PROVE  Cardinality(Units(g, n)) = Cardinality(Units(f, n)) + (b - f[x])
<1>1. CASE f[x] <= b
  BY <1>1, UnitsMore
<1>2. CASE ~(f[x] <= b)
  <2>1. f[x] \in 0..n /\ b \in 0..n /\ g[x] = b
    BY DEF Changed
  <2>2. Changed(g, f, x, f[x], n) /\ g[x] <= f[x]
    BY <2>1, <1>2 DEF Changed
  <2>3. Cardinality(Units(f, n)) = Cardinality(Units(g, n)) + (f[x] - g[x])
    BY <2>2, UnitsMore
  <2>4. Cardinality(Units(f, n)) \in Nat /\ Cardinality(Units(g, n)) \in Nat
    <3>1. IsFiniteSet(DOMAIN f) /\ IsFiniteSet(DOMAIN g) /\ n \in Nat
      BY DEF Changed
    <3> QED
      BY <3>1, UnitsFinite
  <2> QED
    BY <2>1, <2>3, <2>4
<1> QED
  BY <1>1, <1>2

(* A list is a function on its places.                                      *)
LEMMA ListIs ==
    ASSUME NEW S, NEW s \in Seq(S)
    PROVE  Len(s) \in Nat /\ s \in [1..Len(s) -> S] /\ DOMAIN s = 1..Len(s)
OBVIOUS

(* The two lists and what consumers are owed, as functions.                 *)
LEMMA AsFunctions ==
    ASSUME TasksTypeOK
    PROVE  /\ Last \in Nat /\ sizes \in [1..Last -> 0..MaxItems] /\ unsignalled \in [1..Last -> 0..MaxBulk]
           /\ DOMAIN sizes = 1..Last /\ DOMAIN unsignalled = 1..Last
           /\ owed \in [Consumers -> 0..MaxBulk]
           /\ IsFiniteSet(1..Last) /\ IsFiniteSet(Consumers) /\ MaxItems \in Nat /\ MaxBulk \in Nat
           /\ Cardinality(Units(sizes, MaxItems)) \in Nat
           /\ Cardinality(Units(unsignalled, MaxBulk)) \in Nat
           /\ Cardinality(Units(owed, MaxBulk)) \in Nat
<1>0. /\ sizes \in Seq(0..MaxItems) /\ unsignalled \in Seq(0..MaxBulk) /\ Len(unsignalled) = Len(sizes)
      /\ owed \in [Consumers -> 0..MaxBulk]
  BY DEF TasksTypeOK, Last
<1>1. /\ Last \in Nat /\ sizes \in [1..Last -> 0..MaxItems] /\ unsignalled \in [1..Last -> 0..MaxBulk]
      /\ DOMAIN sizes = 1..Last /\ DOMAIN unsignalled = 1..Last
      /\ owed \in [Consumers -> 0..MaxBulk] /\ DOMAIN owed = Consumers
  BY <1>0, ListIs DEF Last
<1>2. IsFiniteSet(1..Last) /\ IsFiniteSet(Consumers) /\ MaxItems \in Nat /\ MaxBulk \in Nat
  BY <1>1, FS_Interval, TaskQueueAssumption
<1> QED
  BY <1>1, <1>2, UnitsFinite

(* An entry of a list is replaced.                                          *)
LEMMA Replaced ==
    ASSUME NEW S, NEW s \in Seq(S), NEW p \in 1..Len(s), NEW x \in S
    PROVE  /\ [s EXCEPT ![p] = x] \in Seq(S) /\ Len([s EXCEPT ![p] = x]) = Len(s)
           /\ [s EXCEPT ![p] = x][p] = x
           /\ \A q \in 1..Len(s) : q # p => [s EXCEPT ![p] = x][q] = s[q]
OBVIOUS

(* The smaller of two numbers.                                              *)
LEMMA MinOfTwo ==
    ASSUME NEW a \in Nat, NEW b \in Nat
    PROVE  Min({a, b}) = IF a <= b THEN a ELSE b
<1>1. PICK m \in {a, b} : \A x \in {a, b} : m <= x
  OBVIOUS
<1>2. Min({a, b}) \in {a, b} /\ \A x \in {a, b} : Min({a, b}) <= x
  BY <1>1 DEF Min
<1> QED
  BY <1>2

(* The consumers that a step does not move: it may take away elements.      *)
LEMMA OthersKept ==
    ASSUME TasksTypeOK, NEW D \in SUBSET Consumers, \A d \in D : SearchInv(d) /\ SeenInv(d) /\ PlacedInv(d),
           \A d \in D : /\ at'[d] = at[d] /\ call'[d] = call[d] /\ owed'[d] = owed[d]
                        /\ place'[d] = place[d] /\ best'[d] = best[d]
                        /\ bestSize'[d] = bestSize[d] /\ nonEmpty'[d] = nonEmpty[d]
                        /\ desired'[d] = desired[d] /\ current'[d] = current[d]
                        /\ lastOffset'[d] = lastOffset[d] /\ placedAmong'[d] = placedAmong[d]
                        /\ there'[d] \subseteq there[d] /\ \A p \in there'[d] : sizes'[p] > 0
                        /\ beside'[d] => In(d) \notin there'[d]
    PROVE  \A d \in D : SearchInv(d)' /\ SeenInv(d)' /\ PlacedInv(d)'
<1> SUFFICES ASSUME NEW d \in D PROVE SearchInv(d)' /\ SeenInv(d)' /\ PlacedInv(d)'
  OBVIOUS
<1>1. SearchInv(d)'
  BY DEF SearchInv
<1>2. SeenInv(d)'
  <2>1. Ahead(d)' = Ahead(d) /\ In(d)' = In(d)
    BY DEF Ahead, In, Scored
  <2> QED
    BY <2>1 DEF SeenInv
<1>3. PlacedInv(d)'
  BY DEF PlacedInv
<1> QED
  BY <1>1, <1>2, <1>3

(* To the consumers in D a step only takes elements away, or hides them.    *)
StoodBy(D) ==
    \A d \in D :
        /\ at'[d] = at[d] /\ call'[d] = call[d] /\ owed'[d] = owed[d]
        /\ place'[d] = place[d] /\ best'[d] = best[d]
        /\ bestSize'[d] = bestSize[d] /\ nonEmpty'[d] = nonEmpty[d]
        /\ desired'[d] = desired[d] /\ current'[d] = current[d]
        /\ lastOffset'[d] = lastOffset[d] /\ placedAmong'[d] = placedAmong[d]
        /\ there'[d] \subseteq there[d] /\ \A p \in there'[d] : sizes'[p] > 0
        /\ beside'[d] => In(d) \notin there'[d]

ConsumerInv(c) == SearchInv(c) /\ SeenInv(c) /\ PlacedInv(c)

(* Who only stood by keeps what it knew.                                    *)
LEMMA StoodByKept ==
    ASSUME TaskInv, NEW D \in SUBSET Consumers, StoodBy(D)
    PROVE  \A d \in D : ConsumerInv(d)'
<1> QED
  BY OthersKept DEF TaskInv, StoodBy, ConsumerInv

(* The queue begins in a state of the invariant.                            *)
LEMMA TasksStart == TasksInit => TaskInv
<1> SUFFICES ASSUME TasksInit PROVE TaskInv
  OBVIOUS
<1> USE TaskQueueAssumption DEF TasksInit, Zero
<1>1. Last = 0 /\ sizes \in Seq(0..MaxItems) /\ unsignalled \in Seq(0..MaxBulk) /\ Len(unsignalled) = 0
  BY DEF Last
<1>2. TasksTypeOK
  BY <1>1 DEF TasksTypeOK, ListPlaces
<1>3. PermitsCovered
  <2>1. /\ Cardinality(Units(sizes, MaxItems)) = 0 /\ Cardinality(Units(unsignalled, MaxBulk)) = 0
        /\ Cardinality(Units(owed, MaxBulk)) = 0
    BY UnitsNone
  <2> QED
    BY <2>1 DEF PermitsCovered
<1>4. NotEmpty /\ \A c \in Consumers : SearchInv(c) /\ SeenInv(c) /\ PlacedInv(c)
  BY DEF NotEmpty, SearchInv, SeenInv, PlacedInv
<1> QED
  BY <1>2, <1>3, <1>4 DEF TaskInv

(* A producer is counted.                                                   *)
LEMMA CountStep ==
    ASSUME TaskInv, CountProducer PROVE TaskInv'
<1>1. /\ producerCount' = producerCount + 1 /\ producerCount < MaxProducers
      /\ UNCHANGED <<sizes, unsignalled, permits, globalOffset, enqueued, at, call, owed, place, best,
                     bestSize, nonEmpty, desired, current, lastOffset, consumed, placedAmong, beside, there>>
  BY DEF CountProducer, search, token
<1>2. TasksTypeOK'
  <2>0. TasksTypeOK
    BY DEF TaskInv
  <2>1. /\ sizes \in Seq(0..MaxItems) /\ producerCount \in Last..MaxProducers
        /\ Last \in Nat /\ MaxProducers \in Nat
    <3>1. sizes \in Seq(0..MaxItems) /\ producerCount \in Last..MaxProducers
      BY <2>0 DEF TasksTypeOK
    <3>2. Last \in Nat
      BY <3>1 DEF Last
    <3> QED
      BY <3>1, <3>2, TaskQueueAssumption
  <2>2. Last' = Last /\ ListPlaces' = ListPlaces
    BY <1>1 DEF Last, ListPlaces
  <2>3. producerCount' \in Last..MaxProducers
    BY <1>1, <2>1
  <2> QED
    BY <1>1, <2>0, <2>2, <2>3 DEF TasksTypeOK
<1>3. \A c \in Consumers : ConsumerInv(c)'
  <2>1. StoodBy(Consumers)
    BY <1>1 DEF StoodBy, TaskInv, SeenInv
  <2> QED
    BY <2>1, StoodByKept
<1>4. NotEmpty' /\ PermitsCovered'
  BY <1>1 DEF TaskInv, NotEmpty, PermitsCovered, Last
<1> QED
  BY <1>2, <1>3, <1>4 DEF TaskInv, ConsumerInv

(* A producer comes into the list.                                          *)
LEMMA AddProducerStep ==
    ASSUME TaskInv, AddProducer PROVE TaskInv'
<1>0. TasksTypeOK
  BY DEF TaskInv
<1>1. /\ sizes' = Append(sizes, 0) /\ unsignalled' = Append(unsignalled, 0) /\ Last < producerCount
      /\ UNCHANGED <<producerCount, permits, globalOffset, enqueued, at, call, owed, place, best,
                     bestSize, nonEmpty, desired, current, lastOffset, consumed, placedAmong, beside, there>>
  BY DEF AddProducer, search, token, Last
<1>2. /\ sizes' \in Seq(0..MaxItems) /\ unsignalled' \in Seq(0..MaxBulk) /\ Last \in Nat
      /\ Last' = Last + 1 /\ Len(unsignalled') = Last' /\ sizes'[Last + 1] = 0 /\ unsignalled'[Last + 1] = 0
      /\ \A p \in 1..Last : sizes'[p] = sizes[p] /\ unsignalled'[p] = unsignalled[p]
  <2>1. /\ sizes \in Seq(0..MaxItems) /\ unsignalled \in Seq(0..MaxBulk) /\ Len(unsignalled) = Len(sizes)
        /\ 0 \in 0..MaxItems /\ 0 \in 0..MaxBulk
    BY <1>0, TaskQueueAssumption DEF TasksTypeOK, Last
  <2> QED
    BY <2>1, <1>1 DEF Last
<1>3. TasksTypeOK'
  <2>1. ListPlaces \subseteq ListPlaces' /\ 1..Last \subseteq 1..Last'
    BY <1>2 DEF ListPlaces
  <2>2. /\ place' \in [Consumers -> ListPlaces'] /\ best' \in [Consumers -> ListPlaces']
        /\ desired' \in [Consumers -> ListPlaces'] /\ current' \in [Consumers -> ListPlaces']
        /\ there' \in [Consumers -> SUBSET (1..Last')] /\ placedAmong' \in [Consumers -> ListPlaces']
    BY <1>0, <1>1, <2>1 DEF TasksTypeOK
  <2>3. enqueued' \in 0..MaxItems /\ \A p \in 1..Last' : sizes'[p] <= enqueued'
    <3>1. enqueued \in 0..MaxItems /\ \A p \in 1..Last : sizes[p] <= enqueued
      BY <1>0 DEF TasksTypeOK
    <3>2. \A q \in 1..Last' : q \in 1..Last \/ q = Last + 1
      BY <1>2
    <3>3. enqueued' = enqueued /\ sizes'[Last + 1] = 0
      BY <1>1, <1>2
    <3>4. \A q \in 1..Last : sizes'[q] <= enqueued
      BY <3>1, <1>2
    <3>5. 0 <= enqueued
      BY <3>1
    <3> QED
      BY <3>1, <3>2, <3>3, <3>4, <3>5
  <2>4. producerCount' \in Last'..MaxProducers
    BY <1>0, <1>1, <1>2, TaskQueueAssumption DEF TasksTypeOK
  <2> QED
    BY <1>0, <1>1, <1>2, <2>2, <2>3, <2>4 DEF TasksTypeOK
<1>4. \A c \in Consumers : ConsumerInv(c)'
  <2>1. \A c \in Consumers : /\ \A p \in there[c] : p \in 1..Last /\ sizes[p] > 0
                             /\ beside[c] => In(c) \notin there[c]
    BY <1>0 DEF TaskInv, SeenInv, TasksTypeOK
  <2>2. \A c \in Consumers : /\ \A p \in there'[c] : sizes'[p] > 0
                             /\ there'[c] \subseteq there[c] /\ (beside'[c] => In(c) \notin there'[c])
    <3> SUFFICES ASSUME NEW c \in Consumers
                 PROVE  /\ \A p \in there[c] : sizes'[p] > 0
                        /\ (beside[c] => In(c) \notin there[c])
      BY <1>1
    <3>1. \A p \in there[c] : sizes'[p] > 0
      <4> SUFFICES ASSUME NEW p \in there[c] PROVE sizes'[p] > 0
        OBVIOUS
      <4>1. p \in 1..Last /\ sizes[p] > 0
        BY <2>1
      <4> QED
        BY <4>1, <1>2
    <3> QED
      BY <2>1, <3>1
  <2>3. StoodBy(Consumers)
    BY <1>1, <2>2, Zenon DEF StoodBy
  <2> QED
    BY <2>3, StoodByKept
<1>5. PermitsCovered'
  <2>1. DOMAIN sizes = 1..Last /\ DOMAIN unsignalled = 1..Last
        /\ DOMAIN sizes' = 1..(Last + 1) /\ DOMAIN unsignalled' = 1..(Last + 1)
    BY <1>0, <1>2, <1>3, AsFunctions, ListIs DEF Last
  <2>2. Units(sizes', MaxItems) = Units(sizes, MaxItems)
    BY <2>1, <1>2 DEF Units
  <2>3. Units(unsignalled', MaxBulk) = Units(unsignalled, MaxBulk)
    BY <2>1, <1>2 DEF Units
  <2> QED
    BY <2>2, <2>3, <1>1 DEF TaskInv, PermitsCovered
<1>6. NotEmpty'
  BY <1>2 DEF NotEmpty
<1> QED
  BY <1>3, <1>4, <1>5, <1>6 DEF TaskInv, ConsumerInv

(* Elements come into a sub-queue, their permits are still to come.         *)
LEMMA EnqueueStep ==
    ASSUME TaskInv, NEW p \in 1..Last, Enqueue(p) PROVE TaskInv'
<1>0. TasksTypeOK
  BY DEF TaskInv
<1>1. PICK k \in 1..MaxBulk :
          /\ enqueued + k <= MaxItems /\ enqueued' = enqueued + k
          /\ sizes' = [sizes EXCEPT ![p] = sizes[p] + k] /\ unsignalled' = [unsignalled EXCEPT ![p] = k]
  BY DEF Enqueue
<1>2. /\ unsignalled[p] = 0
      /\ UNCHANGED <<producerCount, permits, globalOffset, at, call, owed, place, best,
                     bestSize, nonEmpty, desired, current, lastOffset, consumed, placedAmong, beside, there>>
  BY DEF Enqueue, search, token
<1>3. /\ enqueued \in 0..MaxItems /\ \A q \in 1..Last : sizes[q] \in 0..MaxItems /\ sizes[q] <= enqueued
      /\ enqueued' \in 0..MaxItems /\ sizes[p] + k \in 0..MaxItems /\ k \in Nat /\ k \in 0..MaxBulk
      /\ sizes[p] + k <= enqueued'
  <2>1. enqueued \in 0..MaxItems /\ \A q \in 1..Last : sizes[q] \in 0..MaxItems /\ sizes[q] <= enqueued
    BY <1>0, AsFunctions DEF TasksTypeOK
  <2> QED
    BY <2>1, <1>1, TaskQueueAssumption
<1>4. /\ sizes' \in Seq(0..MaxItems) /\ unsignalled' \in Seq(0..MaxBulk) /\ Last' = Last
      /\ Len(unsignalled') = Last /\ sizes'[p] = sizes[p] + k /\ unsignalled'[p] = unsignalled[p] + k
      /\ \A q \in (1..Last) \ {p} : sizes'[q] = sizes[q] /\ unsignalled'[q] = unsignalled[q]
  <2>1. sizes \in Seq(0..MaxItems) /\ unsignalled \in Seq(0..MaxBulk) /\ Len(unsignalled) = Len(sizes)
    BY <1>0 DEF TasksTypeOK, Last
  <2>2. /\ sizes' \in Seq(0..MaxItems) /\ Len(sizes') = Len(sizes) /\ sizes'[p] = sizes[p] + k
        /\ \A q \in 1..Len(sizes) : q # p => sizes'[q] = sizes[q]
    BY <2>1, <1>1, <1>3, Replaced DEF Last
  <2>3. /\ unsignalled' \in Seq(0..MaxBulk) /\ Len(unsignalled') = Len(sizes) /\ unsignalled'[p] = k
        /\ \A q \in 1..Len(sizes) : q # p => unsignalled'[q] = unsignalled[q]
    BY <2>1, <1>1, <1>3, Replaced DEF Last
  <2> QED
    BY <2>2, <2>3, <1>2, <1>3 DEF Last
<1>5. TasksTypeOK'
  <2>1. \A q \in 1..Last : sizes'[q] <= enqueued'
    BY <1>1, <1>3, <1>4
  <2> QED
    BY <2>1, <1>0, <1>2, <1>3, <1>4 DEF TasksTypeOK, ListPlaces
<1>6. \A c \in Consumers : ConsumerInv(c)'
  <2>1. \A c \in Consumers : /\ \A q \in there[c] : q \in 1..Last /\ sizes[q] > 0
                             /\ beside[c] => In(c) \notin there[c]
    BY <1>0 DEF TaskInv, SeenInv, TasksTypeOK
  <2>2. \A q \in 1..Last : sizes'[q] >= sizes[q]
    BY <1>3, <1>4
  <2>3. \A c \in Consumers : \A q \in there[c] : sizes'[q] > 0
    <3> SUFFICES ASSUME NEW c \in Consumers, NEW q \in there[c] PROVE sizes'[q] > 0
      OBVIOUS
    <3>0. q \in 1..Last /\ sizes[q] > 0
      BY <2>1
    <3>1. q \in 1..Last /\ sizes[q] > 0 /\ sizes'[q] >= sizes[q]
      BY <3>0, <2>2
    <3>2. sizes[q] \in Int /\ sizes'[q] \in Int
      BY <3>1, <1>3, <1>4
    <3> QED
      BY <3>1, <3>2
  <2>4. StoodBy(Consumers)
    <3>1. \A c \in Consumers : beside[c] => In(c) \notin there[c]
      BY <2>1
    <3> QED
      BY <1>2, <2>3, <3>1, Zenon DEF StoodBy
  <2> QED
    BY <2>4, StoodByKept
<1>7. PermitsCovered'
  <2>1. /\ sizes \in [1..Last -> 0..MaxItems] /\ unsignalled \in [1..Last -> 0..MaxBulk]
        /\ sizes' \in [1..Last -> 0..MaxItems] /\ unsignalled' \in [1..Last -> 0..MaxBulk]
        /\ IsFiniteSet(1..Last)
    BY <1>0, <1>4, AsFunctions, ListIs DEF Last
  <2>0. k \in Nat /\ MaxItems \in Nat /\ MaxBulk \in Nat
    BY <1>3, TaskQueueAssumption
  <2>2. Changed(sizes, sizes', p, sizes[p] + k, MaxItems) /\ Changed(unsignalled, unsignalled', p, k, MaxBulk)
    <3>1. /\ DOMAIN sizes = 1..Last /\ DOMAIN sizes' = 1..Last /\ DOMAIN unsignalled = 1..Last
          /\ DOMAIN unsignalled' = 1..Last
      BY <2>1
    <3>2. Changed(sizes, sizes', p, sizes[p] + k, MaxItems)
      BY <3>1, <2>0, <2>1, <1>3, <1>4 DEF Changed
    <3>3. unsignalled'[p] = k /\ k \in 0..MaxBulk
      BY <2>0, <1>1, <1>2, <1>3, <1>4
    <3>4. Changed(unsignalled, unsignalled', p, k, MaxBulk)
      BY <3>1, <3>3, <2>0, <2>1, <1>4 DEF Changed
    <3> QED
      BY <3>2, <3>4
  <2>3. /\ Cardinality(Units(sizes', MaxItems)) =
              Cardinality(Units(sizes, MaxItems)) + ((sizes[p] + k) - sizes[p])
        /\ Cardinality(Units(unsignalled', MaxBulk)) =
              Cardinality(Units(unsignalled, MaxBulk)) + (k - unsignalled[p])
    BY <2>2, UnitsSet
  <2>4. permits \in Nat
    BY <1>0 DEF TasksTypeOK
  <2>5. PermitsCovered
    BY DEF TaskInv
  <2> QED
    BY <2>3, <2>4, <2>5, <2>0, <1>0, <1>2, <1>3, AsFunctions, SMTT(30) DEF PermitsCovered
<1>8. NotEmpty'
  BY <1>2, <1>4 DEF TaskInv, NotEmpty
<1> QED
  BY <1>5, <1>6, <1>7, <1>8 DEF TaskInv, ConsumerInv

(* A step of one consumer keeps the invariant if it keeps its parts.        *)
LEMMA OneMoved ==
    ASSUME TaskInv, NEW c \in Consumers, TasksTypeOK', PermitsCovered', NotEmpty',
           StoodBy(Consumers \ {c}), ConsumerInv(c)'
    PROVE  TaskInv'
<1>1. \A d \in Consumers \ {c} : ConsumerInv(d)'
  BY StoodByKept
<1> QED
  BY <1>1 DEF TaskInv, ConsumerInv

(* A search takes place in a list that is not empty.                        *)
LEMMA ListThere ==
    ASSUME TaskInv, NEW c \in Consumers, at[c] # "idle" \/ permits > 0
    PROVE  Last \in Nat \ {0}
<1>1. TasksTypeOK /\ NotEmpty
  BY DEF TaskInv
<1>2. Last \in Nat /\ permits \in Nat
  BY <1>1, AsFunctions DEF TasksTypeOK
<1> QED
  BY <1>1, <1>2 DEF NotEmpty

(* The permits of what was enqueued.                                        *)
LEMMA PermitStep ==
    ASSUME TaskInv, NEW p \in 1..Last, Permit(p) PROVE TaskInv'
<1>0. TasksTypeOK
  BY DEF TaskInv
<1>1. /\ permits' = permits + unsignalled[p] /\ unsignalled' = [unsignalled EXCEPT ![p] = 0]
      /\ UNCHANGED <<sizes, producerCount, globalOffset, enqueued, at, call, owed, place, best,
                     bestSize, nonEmpty, desired, current, lastOffset, consumed, placedAmong, beside, there>>
  BY DEF Permit, search, token
<1>2. Last \in Nat /\ Last' = Last /\ 0 \in 0..MaxBulk /\ permits \in Nat /\ unsignalled[p] \in 0..MaxBulk
  <2>1. Last' = Last
    BY <1>1 DEF Last
  <2>2. permits \in Nat
    BY <1>0 DEF TasksTypeOK
  <2>3. unsignalled \in [1..Last -> 0..MaxBulk] /\ Last \in Nat /\ MaxBulk \in Nat
    BY <1>0, AsFunctions
  <2> QED
    BY <2>1, <2>2, <2>3
<1>3. /\ unsignalled' \in Seq(0..MaxBulk) /\ Len(unsignalled') = Last /\ unsignalled'[p] = 0
      /\ \A q \in 1..Last : q # p => unsignalled'[q] = unsignalled[q]
  <2>1. unsignalled \in Seq(0..MaxBulk) /\ Len(unsignalled) = Last
    BY <1>0 DEF TasksTypeOK
  <2> QED
    BY <2>1, <1>1, <1>2, Replaced
<1>4. permits' \in Nat
  BY <1>1, <1>2
<1>5. TasksTypeOK'
  BY <1>0, <1>1, <1>2, <1>3, <1>4 DEF TasksTypeOK, ListPlaces
<1>6. \A c \in Consumers : ConsumerInv(c)'
  <2>1. StoodBy(Consumers)
    BY <1>1 DEF StoodBy, TaskInv, SeenInv
  <2> QED
    BY <2>1, StoodByKept
<1>7. PermitsCovered'
  <2>1. Changed(unsignalled, unsignalled', p, 0, MaxBulk)
    <3>1. /\ DOMAIN unsignalled = 1..Last /\ DOMAIN unsignalled' = 1..Last /\ IsFiniteSet(1..Last)
          /\ MaxBulk \in Nat
      BY <1>0, <1>3, AsFunctions, ListIs
    <3> QED
      BY <3>1, <1>2, <1>3 DEF Changed
  <2>2. Cardinality(Units(unsignalled', MaxBulk)) =
              Cardinality(Units(unsignalled, MaxBulk)) + (0 - unsignalled[p])
    BY <2>1, UnitsSet
  <2>3. sizes' = sizes /\ owed' = owed
    BY <1>1
  <2> QED
    BY <2>2, <2>3, <1>0, <1>1, <1>2, AsFunctions DEF TaskInv, PermitsCovered
<1>8. NotEmpty'
  BY <1>2 DEF NotEmpty
<1> QED
  BY <1>5, <1>6, <1>7, <1>8 DEF TaskInv, ConsumerInv

(* A consumer gets permits for as many elements.                            *)
LEMMA GetPermitsStep ==
    ASSUME TaskInv, NEW c \in Consumers, GetPermits(c) PROVE TaskInv'
<1>0. TasksTypeOK /\ NotEmpty /\ ConsumerInv(c)
  BY DEF TaskInv, ConsumerInv
<1>1. PICK k \in Calls, max \in 1..MaxBulk :
          /\ k \in {"one", "token"} => max = 1
          /\ call' = [call EXCEPT ![c] = k] /\ owed' = [owed EXCEPT ![c] = Min({max, permits})]
  BY DEF GetPermits, Set
<1>2. /\ at[c] = "idle" /\ permits > 0 /\ permits' = permits - owed'[c] /\ at' = [at EXCEPT ![c] = "attempt"]
      /\ UNCHANGED <<sizes, producerCount, unsignalled, globalOffset, enqueued, place, best,
                     bestSize, nonEmpty, desired, current, lastOffset, consumed, placedAmong, beside, there>>
  BY DEF GetPermits, search, token, GoOn
<1>3. permits \in Nat /\ max \in Nat /\ max <= MaxBulk /\ max >= 1
      /\ MaxBulk \in Nat /\ owed[c] \in 0..MaxBulk /\ Calls \subseteq {"one", "bulk", "token", "tokenBulk"}
  BY <1>0, TaskQueueAssumption DEF TasksTypeOK
<1>4. PICK taken \in Nat : /\ taken = Min({max, permits}) /\ taken >= 1 /\ taken <= max /\ taken <= permits
  <2>1. PICK a \in Nat, b \in Nat : a = max /\ b = permits
    BY <1>3
  <2>2. Min({a, b}) = IF a <= b THEN a ELSE b
    BY MinOfTwo
  <2> QED
    BY <2>1, <2>2, <1>2, <1>3
<1>5. /\ owed'[c] = taken /\ owed' \in [Consumers -> 0..MaxBulk]
      /\ call' \in [Consumers -> Calls \cup {"none"}]
      /\ at'[c] = "attempt" /\ call'[c] = k
      /\ \A d \in Consumers \ {c} : at'[d] = at[d] /\ call'[d] = call[d] /\ owed'[d] = owed[d]
  <2>1. /\ at \in [Consumers -> {"idle", "attempt", "score", "rest", "bulk",
                                 "rotate", "current", "others", "advance"}]
        /\ call \in [Consumers -> Calls \cup {"none"}] /\ owed \in [Consumers -> 0..MaxBulk]
    BY <1>0 DEF TasksTypeOK
  <2>2. taken \in 0..MaxBulk
    BY <1>3, <1>4
  <2> QED
    BY <2>1, <2>2, <1>1, <1>2, <1>4
<1>6. permits' \in Nat /\ permits' = permits - taken
  BY <1>2, <1>3, <1>4, <1>5
<1>7. TasksTypeOK'
  BY <1>0, <1>2, <1>5, <1>6 DEF TasksTypeOK, ListPlaces, Last
<1>8. owed[c] = 0
  BY <1>0, <1>2 DEF ConsumerInv, SearchInv
<1>9. PermitsCovered'
  <2>1. Changed(owed, owed', c, taken, MaxBulk)
    <3>1. /\ DOMAIN owed = Consumers /\ DOMAIN owed' = Consumers /\ IsFiniteSet(Consumers)
      BY <1>0, <1>5, AsFunctions
    <3>2. taken \in 0..MaxBulk
      BY <1>3, <1>4
    <3> QED
      BY <3>1, <3>2, <1>3, <1>5 DEF Changed
  <2>2. Cardinality(Units(owed', MaxBulk)) = Cardinality(Units(owed, MaxBulk)) + (taken - owed[c])
    BY <2>1, UnitsSet
  <2>3. sizes' = sizes /\ unsignalled' = unsignalled
    BY <1>2
  <2> QED
    BY <2>2, <2>3, <1>0, <1>3, <1>4, <1>6, <1>8, AsFunctions DEF TaskInv, PermitsCovered
<1>10. NotEmpty'
  <2>1. Last' = Last /\ Last # 0
    BY <1>0, <1>2, ListThere DEF Last
  <2> QED
    BY <2>1 DEF NotEmpty
<1>11. StoodBy(Consumers \ {c})
  BY <1>2, <1>5 DEF StoodBy, TaskInv, SeenInv
<1>12. ConsumerInv(c)'
  <2>1. SearchInv(c)'
    <3>1. call'[c] = "one" => owed'[c] <= 1
      BY <1>1, <1>3, <1>4, <1>5
    <3>2. desired'[c] # 0 => current'[c] # 0
      BY <1>0, <1>2 DEF ConsumerInv, SearchInv
    <3> QED
      BY <3>1, <3>2, <1>4, <1>5 DEF SearchInv
  <2>2. SeenInv(c)'
    <3>1. In(c)' = In(c)
      BY <1>2, <1>5, <1>0 DEF In, Scored
    <3> QED
      BY <3>1, <1>0, <1>2, <1>5 DEF ConsumerInv, SeenInv
  <2>3. PlacedInv(c)'
    BY <1>0, <1>2 DEF ConsumerInv, PlacedInv
  <2> QED
    BY <2>1, <2>2, <2>3 DEF ConsumerInv
<1> QED
  BY <1>7, <1>9, <1>10, <1>11, <1>12, OneMoved

(* The sub-queue that a consumer is in, by where it is in its search.       *)
LEMMA InIs ==
    ASSUME NEW c \in Consumers
    PROVE  /\ Scored(c) /\ nonEmpty[c] > 0 => In(c) = best[c]
           /\ at[c] = "rest" => In(c) = IF place[c] # best[c] THEN place[c] ELSE 0
           /\ at[c] = "bulk" => In(c) = place[c]
           /\ at[c] = "current" => In(c) = current[c]
           /\ at[c] = "others" /\ place[c] # current[c] => In(c) = place[c]
BY DEF In, Scored

(* A step of c moves no other consumer.                                     *)
Unmoved(c) ==
    \A d \in Consumers \ {c} :
        /\ at'[d] = at[d] /\ call'[d] = call[d] /\ owed'[d] = owed[d]
        /\ place'[d] = place[d] /\ best'[d] = best[d]
        /\ bestSize'[d] = bestSize[d] /\ nonEmpty'[d] = nonEmpty[d]
        /\ desired'[d] = desired[d] /\ current'[d] = current[d]
        /\ lastOffset'[d] = lastOffset[d] /\ placedAmong'[d] = placedAmong[d]

SeenOK == there \in [Consumers -> SUBSET (1..Last)] /\ beside \in [Consumers -> BOOLEAN]

(* What is left of what a search has seen: a sub-queue is not in it once    *)
(* consumers meet there.                                                    *)
LEMMA Watched ==
    ASSUME TaskInv, NEW c \in Consumers, Meet(c), Watch(c), Last' = Last, Unmoved(c)
    PROVE  /\ SeenOK' /\ StoodBy(Consumers \ {c})
           /\ at[c] # "attempt" => there'[c] \subseteq there[c]
           /\ \A p \in there'[c] : p \in 1..Last /\ sizes'[p] > 0 /\ ~Crowded(c, p)
           /\ beside'[c] => In(c)' \notin there'[c]
<1>1. \A d \in Consumers \ {c} : In(d)' = In(d)
  BY DEF Unmoved, In, Scored
<1>2. /\ there \in [Consumers -> SUBSET (1..Last)] /\ beside \in [Consumers -> BOOLEAN]
      /\ DOMAIN sizes = 1..Last
  BY AsFunctions DEF TaskInv, TasksTypeOK
<1>3. PICK q : q = In(c)'
  OBVIOUS
<1>4. beside' = [d \in Consumers |->
          IF d = c THEN q # 0 /\ Crowded(c, q) ELSE beside[d] \/ (q # 0 /\ In(d) = q)]
  BY <1>3 DEF Meet
<1>5. there' = [d \in Consumers |->
          {p \in IF d = c /\ at[c] = "attempt" THEN 1..Last ELSE there[d] :
              sizes'[p] > 0 /\ ~\E e \in Consumers \ {d} : In(e)' = p}]
  BY <1>2 DEF Watch, Crowded
<1>6. SeenOK'
  <2>1. \A d \in Consumers : there'[d] \in SUBSET (1..Last) /\ beside'[d] \in BOOLEAN
    BY <1>2, <1>4, <1>5 DEF Crowded
  <2> QED
    BY <2>1, <1>4, <1>5 DEF SeenOK
<1>7. \A p \in there'[c] : p \in 1..Last /\ sizes'[p] > 0 /\ ~Crowded(c, p)
  BY <1>1, <1>2, <1>5 DEF Crowded
<1>8. beside'[c] => q \notin there'[c]
  BY <1>4, <1>7
<1>9. \A d \in Consumers \ {c} :
          /\ there'[d] \subseteq there[d] /\ \A p \in there'[d] : sizes'[p] > 0
          /\ beside'[d] => In(d) \notin there'[d]
  <2> SUFFICES ASSUME NEW d \in Consumers \ {c}
               PROVE  /\ there'[d] \subseteq there[d] /\ \A p \in there'[d] : sizes'[p] > 0
                      /\ beside'[d] => In(d) \notin there'[d]
    OBVIOUS
  <2>1. there'[d] \subseteq there[d] /\ \A p \in there'[d] : sizes'[p] > 0 /\ In(c)' # p
    BY <1>5
  <2>2. beside'[d] => beside[d] \/ In(d) = In(c)'
    BY <1>3, <1>4
  <2>3. beside[d] => In(d) \notin there[d]
    BY DEF TaskInv, SeenInv
  <2> QED
    BY <2>1, <2>2, <2>3
<1>10. StoodBy(Consumers \ {c})
  BY <1>9 DEF StoodBy, Unmoved
<1> QED
  BY <1>3, <1>5, <1>6, <1>7, <1>8, <1>10

(* A search begins: the whole list is to come.                              *)
LEMMA AttemptStep ==
    ASSUME TaskInv, NEW c \in Consumers, Attempt(c), Meet(c), Watch(c) PROVE TaskInv'
<1>0. TasksTypeOK /\ NotEmpty /\ ConsumerInv(c)
  BY DEF TaskInv, ConsumerInv
<1>1. /\ at[c] = "attempt"
      /\ place' = [place EXCEPT ![c] = Last] /\ best' = [best EXCEPT ![c] = 0]
      /\ bestSize' = [bestSize EXCEPT ![c] = 0] /\ nonEmpty' = [nonEmpty EXCEPT ![c] = 0]
      /\ UNCHANGED <<sizes, producerCount, unsignalled, permits, globalOffset, enqueued, call, owed,
                     desired, current, lastOffset, consumed, placedAmong>>
  BY DEF Attempt, common, token, Set
<1>2. PICK l : /\ at' = [at EXCEPT ![c] = l]
               /\ l \in {"score", "bulk", "rotate", "current"}
               /\ l = "score" => call[c] = "one"
               /\ l = "current" => desired[c] # 0
  <2>1. PICK l : l = CASE call[c] = "one" -> "score" [] call[c] = "bulk" -> "bulk"
                      [] OTHER -> IF desired[c] = 0 \/ lastOffset[c] # globalOffset THEN "rotate"
                                ELSE "current"
    OBVIOUS
  <2>2. at' = [at EXCEPT ![c] = l]
    BY <2>1 DEF Attempt, GoOn
  <2>3. \/ call[c] = "one" /\ l = "score"
        \/ l = "bulk" \/ l = "rotate"
        \/ l = "current" /\ desired[c] # 0
    BY <2>1
  <2> QED
    BY <2>2, <2>3
<1>3. Last \in Nat \ {0} /\ Last' = Last /\ DOMAIN sizes = 1..Last
  BY <1>0, <1>1, ListThere, AsFunctions DEF Last
<1>4. /\ at'[c] = l /\ place'[c] = Last /\ best'[c] = 0 /\ bestSize'[c] = 0 /\ nonEmpty'[c] = 0
      /\ Unmoved(c)
  BY <1>0, <1>1, <1>2, <1>3 DEF TasksTypeOK, Unmoved
<1>7. /\ SeenOK' /\ StoodBy(Consumers \ {c}) /\ (beside'[c] => In(c)' \notin there'[c])
      /\ \A p \in there'[c] : p \in 1..Last /\ sizes'[p] > 0
  BY <1>3, <1>4, Watched
<1>5. TasksTypeOK'
  <2>1. /\ place' \in [Consumers -> ListPlaces] /\ best' \in [Consumers -> ListPlaces]
        /\ bestSize' \in [Consumers -> 0..MaxItems] /\ nonEmpty' \in [Consumers -> 0..3]
    <3>1. 0 \in ListPlaces /\ Last \in ListPlaces /\ 0 \in 0..MaxItems /\ 0 \in 0..3
      BY <1>3, TaskQueueAssumption DEF ListPlaces
    <3> QED
      BY <3>1, <1>0, <1>1 DEF TasksTypeOK
  <2>2. at' \in [Consumers -> {"idle", "attempt", "score", "rest", "bulk",
                               "rotate", "current", "others", "advance"}]
    BY <1>0, <1>2 DEF TasksTypeOK
  <2>3. ListPlaces' = ListPlaces
    BY <1>3 DEF ListPlaces
  <2> QED
    BY <2>1, <2>2, <2>3, <1>0, <1>1, <1>3, <1>7 DEF TasksTypeOK, SeenOK
<1>6. PermitsCovered' /\ NotEmpty'
  BY <1>1, <1>3 DEF TaskInv, PermitsCovered, NotEmpty
<1>8. ConsumerInv(c)'
  <2>1. SearchInv(c)'
    BY <1>0, <1>1, <1>2, <1>3, <1>4 DEF ConsumerInv, SearchInv
  <2>2. SeenInv(c)'
    BY <1>2, <1>4, <1>7 DEF SeenInv
  <2>3. PlacedInv(c)'
    BY <1>0, <1>1 DEF ConsumerInv, PlacedInv
  <2> QED
    BY <2>1, <2>2, <2>3 DEF ConsumerInv
<1> QED
  BY <1>5, <1>6, <1>7, <1>8, OneMoved

(* A number is a multiple of another and a remainder.                       *)
LEMMA IntDivMod ==
    ASSUME NEW a \in Int, NEW n \in Nat \ {0}
    PROVE  a % n \in 0..(n - 1) /\ \E q \in Int : a = n * q + (a % n)
<1>1. a = n * (a \div n) + (a % n) /\ a \div n \in Int /\ a % n \in 0..(n - 1)
  OBVIOUS
<1> QED
  BY <1>1

(* The remainder is the one number in range that makes it so.               *)
LEMMA IntModUnique ==
    ASSUME NEW q \in Int, NEW n \in Nat \ {0}, NEW r \in 0..(n - 1)
    PROVE  (n * q + r) % n = r
OBVIOUS

(* Before the first of a list comes its last.                               *)
LEMMA AroundOne ==
    ASSUME NEW p, NEW tail \in Nat \ {0}, p \in 1..tail
    PROVE  Around(p, 1, tail) = IF p = 1 THEN tail ELSE p - 1
<1>1. Around(p, 1, tail) = 1 + ((p - 2) % tail)
  BY DEF Around
<1>2. CASE p = 1
  <2>1. (tail * (-1) + (tail - 1)) % tail = tail - 1
    BY IntModUnique
  <2>2. tail * (-1) + (tail - 1) = p - 2
    BY <1>2
  <2> QED
    BY <1>1, <1>2, <2>1, <2>2
<1>3. CASE p # 1
  <2>1. (tail * 0 + (p - 2)) % tail = p - 2
    BY <1>3, IntModUnique
  <2>2. tail * 0 + (p - 2) = p - 2
    OBVIOUS
  <2> QED
    BY <1>1, <1>3, <2>1, <2>2
<1> QED
  BY <1>2, <1>3

(* Going round stays in the list.                                           *)
LEMMA AroundIn ==
    ASSUME NEW p \in Int, NEW k \in Int, NEW tail \in Nat \ {0}
    PROVE  Around(p, k, tail) \in 1..tail
<1>1. p - 1 - k \in Int
  OBVIOUS
<1>2. (p - 1 - k) % tail \in 0..(tail - 1)
  BY <1>1, IntDivMod
<1> QED
  BY <1>2 DEF Around

(* Going back from a place by a remainder is going back by the number.      *)
LEMMA AroundSame ==
    ASSUME NEW x \in Int, NEW d \in Int, NEW e \in Int, NEW n \in Nat \ {0}, e = d \/ e = d % n
    PROVE  Around(1 + (x % n), e, n) = 1 + ((x - d) % n)
<1>1. PICK a \in Int : x = n * a + (x % n)
  BY IntDivMod
<1>2. PICK b \in Int : d = n * b + (d % n)
  BY IntDivMod
<1>3. PICK r \in 0..(n - 1), s \in 0..(n - 1) : r = x % n /\ s = d % n
  BY IntDivMod
<1>4. Around(1 + (x % n), e, n) = 1 + ((r - e) % n)
  <2>1. 1 + r - 1 - e = r - e
    BY <1>3
  <2> QED
    BY <1>3, <2>1 DEF Around
<1>5. r \in Int /\ s \in Int /\ x = n * a + r /\ d = n * b + s
  BY <1>1, <1>2, <1>3
<1>6. \E q \in Int : r - e = (x - d) + n * q
  <2>1. PICK u \in Int, v \in Int : u = n * a /\ v = n * b
    OBVIOUS
  <2>2. x = u + r /\ d = v + s
    BY <1>5, <2>1
  <2>3. CASE e = d
    <3>1. n * (-a) = -u
      BY <2>1
    <3>2. r - e = (x - d) + n * (-a)
      BY <1>5, <2>2, <2>3, <3>1
    <3> QED
      BY <3>2, -a \in Int
  <2>4. CASE e = s
    <3>1. n * (b - a) = v - u
      BY <2>1
    <3>2. r - e = (x - d) + n * (b - a)
      BY <1>5, <2>2, <2>4, <3>1
    <3> QED
      BY <3>2, b - a \in Int
  <2> QED
    BY <1>3, <2>3, <2>4
<1>7. PICK q \in Int : r - e = (x - d) + n * q
  BY <1>6
<1>8. r - e \in Int /\ x - d \in Int
  BY <1>5
<1>9. PICK y \in Int, z \in Int : y = r - e /\ z = x - d
  BY <1>8
<1>10. y = z + n * q
  BY <1>7, <1>9
<1>11. PICK p \in Int, t \in 0..(n - 1) : z = n * p + t /\ t = z % n
  BY IntDivMod
<1>12. n * p + n * q = n * (p + q)
  OBVIOUS
<1>13. y = n * (p + q) + t
  BY <1>10, <1>11, <1>12
<1>14. (n * (p + q) + t) % n = t
  BY IntModUnique, p + q \in Int
<1> QED
  BY <1>4, <1>9, <1>11, <1>13, <1>14

(* The parts of the type invariant.                                         *)
ListsOK ==
    /\ sizes \in Seq(0..MaxItems) /\ unsignalled \in Seq(0..MaxBulk) /\ Len(unsignalled) = Last
    /\ enqueued \in 0..MaxItems /\ \A p \in 1..Last : sizes[p] <= enqueued
    /\ producerCount \in Last..MaxProducers /\ permits \in Nat
    /\ owed \in [Consumers -> 0..MaxBulk]
SearchOK ==
    /\ at \in [Consumers -> {"idle", "attempt", "score", "rest", "bulk", "rotate", "current",
                             "others", "advance"}]
    /\ call \in [Consumers -> Calls \cup {"none"}]
    /\ place \in [Consumers -> ListPlaces] /\ best \in [Consumers -> ListPlaces]
    /\ bestSize \in [Consumers -> 0..MaxItems] /\ nonEmpty \in [Consumers -> 0..3]
TokenOK ==
    /\ globalOffset \in Nat
    /\ desired \in [Consumers -> ListPlaces] /\ current \in [Consumers -> ListPlaces]
    /\ lastOffset \in [Consumers -> -1..globalOffset] /\ consumed \in [Consumers -> Nat]
    /\ placedAmong \in [Consumers -> ListPlaces]

(* The type invariant has these parts.                                      *)
LEMMA Parts == TasksTypeOK <=> ListsOK /\ SearchOK /\ TokenOK /\ SeenOK
BY DEF TasksTypeOK, ListsOK, SearchOK, TokenOK, SeenOK

(* The same of the next state.                                              *)
LEMMA PartsNext == TasksTypeOK' <=> ListsOK' /\ SearchOK' /\ TokenOK' /\ SeenOK'
BY DEF TasksTypeOK, ListsOK, SearchOK, TokenOK, SeenOK

(* What a consumer takes is off its debt and off the sub-queue.             *)
LEMMA Taken ==
    ASSUME TaskInv, NEW c \in Consumers, NEW p \in 1..Last, NEW k \in 0..owed[c],
           NEW g \in Finds(c, p, k), TakeFrom(c, p, g)
    PROVE  /\ Last' = Last /\ ListsOK' /\ PermitsCovered' /\ NotEmpty' /\ globalOffset' = globalOffset
           /\ g \in Nat /\ g <= k /\ g <= sizes[p] /\ (beside[c] \/ g = k \/ g = sizes[p])
           /\ sizes'[p] = sizes[p] - g /\ owed'[c] = owed[c] - g
           /\ \A d \in Consumers \ {c} : owed'[d] = owed[d]
<1>0. TasksTypeOK
  BY DEF TaskInv
<1>1. /\ sizes' = [sizes EXCEPT ![p] = sizes[p] - g]
      /\ owed' = [owed EXCEPT ![c] = owed[c] - g]
      /\ UNCHANGED <<producerCount, unsignalled, permits, globalOffset, enqueued>>
  BY DEF TakeFrom, Set
<1>2. /\ owed \in [Consumers -> 0..MaxBulk] /\ owed[c] \in 0..MaxBulk /\ sizes[p] \in 0..MaxItems
      /\ k \in Nat /\ k <= owed[c]
      /\ Last \in Nat /\ DOMAIN sizes = 1..Last /\ DOMAIN owed = Consumers /\ IsFiniteSet(1..Last)
      /\ IsFiniteSet(Consumers) /\ MaxItems \in Nat /\ MaxBulk \in Nat
      /\ sizes \in Seq(0..MaxItems)
      /\ enqueued \in 0..MaxItems /\ \A q \in 1..Last : sizes[q] <= enqueued
  <2>1. /\ owed \in [Consumers -> 0..MaxBulk] /\ sizes \in [1..Last -> 0..MaxItems]
        /\ Last \in Nat /\ DOMAIN sizes = 1..Last /\ IsFiniteSet(1..Last)
        /\ IsFiniteSet(Consumers) /\ MaxItems \in Nat /\ MaxBulk \in Nat
    BY <1>0, AsFunctions
  <2>2. owed[c] \in 0..MaxBulk /\ sizes[p] \in 0..MaxItems
    BY <2>1
  <2>3. k \in Nat /\ k <= owed[c]
    BY <2>1, <2>2
  <2> QED
    BY <1>0, <2>1, <2>2, <2>3 DEF TasksTypeOK
<1>3. g \in Nat /\ g <= k /\ g <= sizes[p] /\ (beside[c] \/ g = k \/ g = sizes[p])
  <2>1. PICK a \in Nat, b \in Nat : a = sizes[p] /\ b = k
    BY <1>2
  <2>2. Min({a, b}) = IF a <= b THEN a ELSE b
    BY MinOfTwo
  <2>3. PICK m \in Nat : m = Min({sizes[p], k}) /\ m <= k /\ m <= sizes[p] /\ (m = k \/ m = sizes[p])
    BY <2>1, <2>2
  <2>4. g \in IF beside[c] THEN 0..m ELSE {m}
    BY <2>3 DEF Finds
  <2> QED
    BY <2>1, <2>3, <2>4
<1>4. PICK left \in 0..MaxItems, debt \in 0..MaxBulk : left = sizes[p] - g /\ debt = owed[c] - g
  <2>1. sizes[p] \in 0..MaxItems /\ owed[c] \in 0..MaxBulk /\ MaxItems \in Nat /\ MaxBulk \in Nat
    BY <1>2
  <2>2. g \in Nat /\ g <= owed[c] /\ g <= sizes[p]
    BY <1>2, <1>3
  <2>3. sizes[p] - g \in 0..MaxItems /\ owed[c] - g \in 0..MaxBulk
    BY <2>1, <2>2
  <2> QED
    BY <2>3
<1>5. /\ sizes' \in Seq(0..MaxItems) /\ Len(sizes') = Last /\ sizes'[p] = left
      /\ \A q \in 1..Last : q # p => sizes'[q] = sizes[q]
  BY <1>1, <1>2, <1>3, <1>4, Replaced DEF Last
<1>6. /\ owed' \in [Consumers -> 0..MaxBulk] /\ owed'[c] = debt
      /\ \A d \in Consumers : d # c => owed'[d] = owed[d]
  BY <1>1, <1>2, <1>3, <1>4
<1>7. Last' = Last /\ DOMAIN sizes' = 1..Last
  BY <1>5, ListIs DEF Last
<1>8. \A q \in 1..Last : sizes'[q] <= enqueued
  <2>1. sizes'[p] <= enqueued
    <3>1. sizes[p] \in Nat /\ sizes[p] <= enqueued /\ enqueued \in Nat
      BY <1>2
    <3> QED
      BY <3>1, <1>3, <1>4, <1>5
  <2>2. \A q \in 1..Last : q # p => sizes'[q] <= enqueued
    BY <1>2, <1>5
  <2> QED
    BY <2>1, <2>2
<1>10. ListsOK'
  BY <1>0, <1>1, <1>5, <1>6, <1>7, <1>8 DEF TasksTypeOK, ListsOK
<1>11. PermitsCovered'
  <2>1. Changed(sizes, sizes', p, left, MaxItems)
    BY <1>2, <1>4, <1>5, <1>7 DEF Changed
  <2>2. Changed(owed, owed', c, debt, MaxBulk)
    BY <1>2, <1>4, <1>6 DEF Changed
  <2>3. /\ Cardinality(Units(sizes', MaxItems)) = Cardinality(Units(sizes, MaxItems)) + (left - sizes[p])
        /\ Cardinality(Units(owed', MaxBulk)) = Cardinality(Units(owed, MaxBulk)) + (debt - owed[c])
    BY <2>1, <2>2, UnitsSet
  <2>4. unsignalled' = unsignalled /\ permits' = permits /\ permits \in Nat
    BY <1>0, <1>1 DEF TasksTypeOK
  <2>5. PICK m \in Nat, u \in Nat, w \in Nat :
            /\ m = Cardinality(Units(sizes, MaxItems)) /\ u = Cardinality(Units(unsignalled, MaxBulk))
            /\ w = Cardinality(Units(owed, MaxBulk))
    BY <1>0, AsFunctions
  <2>6. m = permits + u + w
    BY <2>5 DEF TaskInv, PermitsCovered
  <2>7. m + (left - sizes[p]) = permits + u + (w + (debt - owed[c]))
    <3>1. sizes[p] \in Nat /\ owed[c] \in Nat
      BY <1>2
    <3>2. left - sizes[p] = debt - owed[c]
      BY <3>1, <1>3, <1>4
    <3>3. PICK x \in Int : x = left - sizes[p] /\ x = debt - owed[c]
      BY <3>1, <3>2, <1>4
    <3> QED
      BY <3>3, <2>4, <2>5, <2>6
  <2> QED
    BY <2>3, <2>4, <2>5, <2>7 DEF PermitsCovered
<1>12. NotEmpty'
  BY <1>2, <1>7 DEF NotEmpty
<1> QED
  BY <1>1, <1>3, <1>4, <1>5, <1>6, <1>7, <1>10, <1>11, <1>12

(* Where a consumer did not find all it wanted, there is nothing left, or   *)
(* it was beside another.                                                   *)
LEMMA NotAllFound ==
    ASSUME TaskInv, NEW c \in Consumers, NEW p \in 1..Last, NEW k \in 0..owed[c],
           NEW g \in Finds(c, p, k), TakeFrom(c, p, g), g < k, In(c) = p, at[c] # "attempt",
           Meet(c), Watch(c), Unmoved(c)
    PROVE  p \notin there'[c]
<1>1. /\ Last' = Last /\ g \in Nat /\ (beside[c] \/ g = k \/ g = sizes[p])
      /\ sizes'[p] = sizes[p] - g
  BY Taken
<1>2. there'[c] \subseteq there[c] /\ \A q \in there'[c] : sizes'[q] > 0
  BY <1>1, Watched
<1>3. CASE beside[c]
  BY <1>2, <1>3 DEF TaskInv, SeenInv
<1>4. CASE g = sizes[p]
  <2>1. sizes'[p] = 0
    BY <1>1, <1>4
  <2> QED
    BY <1>2, <2>1
<1>5. g # k
  BY <1>1, k \in Int
<1> QED
  BY <1>1, <1>3, <1>4, <1>5

(* A search that found all it was for is over; another goes on.             *)
LEMMA Finished ==
    ASSUME TasksTypeOK, NEW c \in Consumers,
           NEW l \in {"idle", "attempt", "score", "rest", "bulk",
                      "rotate", "current", "others", "advance"},
           Finish(c, l), Last' = Last
    PROVE  /\ SearchOK'
           /\ \A d \in Consumers \ {c} : /\ at'[d] = at[d] /\ call'[d] = call[d] /\ place'[d] = place[d]
                                         /\ best'[d] = best[d]
                                         /\ bestSize'[d] = bestSize[d] /\ nonEmpty'[d] = nonEmpty[d]
           /\ owed'[c] = 0 => at'[c] = "idle" /\ call'[c] = "none"
           /\ owed'[c] # 0 => at'[c] = l /\ UNCHANGED <<call, place, best, bestSize, nonEmpty>>
<1>0. SearchOK /\ ListPlaces' = ListPlaces /\ 0 \in ListPlaces /\ 0 \in 0..MaxItems /\ 0 \in 0..3
  BY Parts, AsFunctions, TaskQueueAssumption DEF ListPlaces
<1>1. CASE owed'[c] = 0
  <2>1. /\ at' = [at EXCEPT ![c] = "idle"] /\ call' = [call EXCEPT ![c] = "none"]
        /\ place' = [place EXCEPT ![c] = 0] /\ best' = [best EXCEPT ![c] = 0]
        /\ bestSize' = [bestSize EXCEPT ![c] = 0] /\ nonEmpty' = [nonEmpty EXCEPT ![c] = 0]
    BY <1>1 DEF Finish, Set
  <2> QED
    BY <1>0, <1>1, <2>1 DEF SearchOK
<1>2. CASE owed'[c] # 0
  <2>1. at' = [at EXCEPT ![c] = l] /\ UNCHANGED <<call, place, best, bestSize, nonEmpty>>
    BY <1>2 DEF Finish, GoOn, search
  <2> QED
    BY <1>0, <1>2, <2>1 DEF SearchOK
<1> QED
  BY <1>1, <1>2

(* A step that leaves the list and the debts alone leaves the books so.     *)
LEMMA BooksUntouched ==
    ASSUME TaskInv, NEW c \in Consumers, at[c] # "idle", UNCHANGED <<common, owed>>
    PROVE  /\ Last' = Last /\ ListsOK' /\ PermitsCovered' /\ NotEmpty' /\ ListPlaces' = ListPlaces
           /\ Last \in Nat \ {0} /\ UNCHANGED <<sizes, globalOffset, owed>>
<1>1. UNCHANGED <<sizes, producerCount, unsignalled, permits, globalOffset, enqueued, owed>>
  BY DEF common
<1>2. Last' = Last /\ ListPlaces' = ListPlaces
  BY <1>1 DEF Last, ListPlaces
<1>3. Last \in Nat \ {0}
  BY ListThere
<1>4. ListsOK'
  BY <1>1, <1>2, Parts DEF TaskInv, ListsOK
<1>5. PermitsCovered' /\ NotEmpty'
  BY <1>1, <1>2, <1>3 DEF TaskInv, PermitsCovered, NotEmpty
<1> QED
  BY <1>1, <1>2, <1>3, <1>4, <1>5

(* A step of a consumer keeps the invariant if it keeps the parts that are  *)
(* not about what it has seen, and its search goes on behind that.          *)
LEMMA StepKeeps ==
    ASSUME TaskInv, NEW c \in Consumers, Meet(c), Watch(c), Unmoved(c), Last' = Last,
           ListsOK', SearchOK', TokenOK', PermitsCovered', NotEmpty', SearchInv(c)', PlacedInv(c)',
           at'[c] = "score" /\ nonEmpty'[c] = 0 => there'[c] \subseteq 1..place'[c],
           at'[c] = "rest" => there'[c] \subseteq (1..place'[c]) \ {best'[c]},
           at'[c] = "bulk" => there'[c] \subseteq 1..place'[c],
           at'[c] = "others" => there'[c] \subseteq Ahead(c)'
    PROVE  TaskInv'
<1>1. /\ SeenOK' /\ StoodBy(Consumers \ {c}) /\ (beside'[c] => In(c)' \notin there'[c])
      /\ \A p \in there'[c] : sizes'[p] > 0
  BY Watched
<1>2. TasksTypeOK'
  BY <1>1, PartsNext
<1>3. SeenInv(c)'
  BY <1>1 DEF SeenInv
<1>4. ConsumerInv(c)'
  BY <1>3 DEF ConsumerInv
<1> QED
  BY <1>1, <1>2, <1>4, OneMoved

(* A sub-queue is looked at for its size.                                   *)
LEMMA ScoreStep ==
    ASSUME TaskInv, NEW c \in Consumers, Score(c), Meet(c), Watch(c) PROVE TaskInv'
<1>0. TasksTypeOK /\ SearchInv(c) /\ SeenInv(c) /\ PlacedInv(c)
  BY DEF TaskInv
<1>1. /\ at[c] = "score" /\ ~(place[c] = 0 \/ nonEmpty[c] = 3)
      /\ place' = [place EXCEPT ![c] = place[c] - 1]
      /\ UNCHANGED <<common, at, call, owed, desired, current, lastOffset, consumed, placedAmong>>
  BY DEF Score, Scored, Set, token
<1>2. PICK size \in Sizes(c, place[c]) :
          /\ nonEmpty' = [nonEmpty EXCEPT ![c] = IF size > 0 THEN nonEmpty[c] + 1 ELSE nonEmpty[c]]
          /\ IF size > bestSize[c]
             THEN bestSize' = [bestSize EXCEPT ![c] = size] /\ best' = [best EXCEPT ![c] = place[c]]
             ELSE UNCHANGED <<bestSize, best>>
  BY DEF Score, Set
<1>3. /\ Last' = Last /\ ListsOK' /\ PermitsCovered' /\ NotEmpty' /\ ListPlaces' = ListPlaces
      /\ Last \in Nat \ {0} /\ UNCHANGED <<sizes, globalOffset, owed>>
  BY <1>1, BooksUntouched
<1>4. /\ place[c] \in 1..Last /\ sizes[place[c]] \in 0..MaxItems /\ nonEmpty[c] \in 0..2
      /\ bestSize[c] \in 0..MaxItems /\ best[c] \in 0..Last
  <2>1. place[c] \in ListPlaces /\ nonEmpty[c] \in 0..3
        /\ bestSize[c] \in 0..MaxItems /\ best[c] \in ListPlaces
    BY <1>0 DEF TasksTypeOK
  <2>2. place[c] \in 1..Last /\ best[c] \in 0..Last /\ nonEmpty[c] \in 0..2
    BY <2>1, <1>1, <1>3 DEF ListPlaces
  <2> QED
    BY <2>1, <2>2, <1>0, AsFunctions
<1>5. size \in 0..MaxItems /\ (~Crowded(c, place[c]) => size = sizes[place[c]])
  <2>1. size \in IF Crowded(c, place[c]) THEN 0..sizes[place[c]] ELSE {sizes[place[c]]}
    BY DEF Sizes
  <2> QED
    BY <2>1, <1>4, TaskQueueAssumption
<1>6. /\ nonEmpty' \in [Consumers -> 0..3] /\ bestSize' \in [Consumers -> 0..MaxItems]
      /\ best' \in [Consumers -> ListPlaces] /\ place' \in [Consumers -> ListPlaces]
      /\ place'[c] = place[c] - 1
      /\ \A d \in Consumers \ {c} : /\ best'[d] = best[d] /\ place'[d] = place[d]
                                    /\ bestSize'[d] = bestSize[d]
                                    /\ nonEmpty'[d] = nonEmpty[d]
      /\ \/ size > 0 /\ nonEmpty'[c] = nonEmpty[c] + 1
            /\ \/ best'[c] = best[c] /\ size <= bestSize[c]
               \/ best'[c] = place[c]
         \/ size = 0 /\ nonEmpty'[c] = nonEmpty[c]
            /\ best'[c] = best[c] /\ bestSize'[c] = bestSize[c]
  <2>1. /\ nonEmpty \in [Consumers -> 0..3] /\ bestSize \in [Consumers -> 0..MaxItems]
        /\ best \in [Consumers -> ListPlaces] /\ place \in [Consumers -> ListPlaces]
    BY <1>0 DEF TasksTypeOK
  <2>2. place[c] \in ListPlaces /\ place[c] - 1 \in ListPlaces /\ nonEmpty[c] + 1 \in 0..3
    BY <1>3, <1>4 DEF ListPlaces
  <2>3. /\ place' \in [Consumers -> ListPlaces] /\ place'[c] = place[c] - 1
        /\ \A d \in Consumers \ {c} : place'[d] = place[d]
    BY <2>1, <2>2, <1>1
  <2>4. /\ nonEmpty' \in [Consumers -> 0..3] /\ \A d \in Consumers \ {c} : nonEmpty'[d] = nonEmpty[d]
        /\ nonEmpty'[c] = IF size > 0 THEN nonEmpty[c] + 1 ELSE nonEmpty[c]
    BY <2>1, <2>2, <1>2, <1>4
  <2>5. CASE size > bestSize[c]
    <3>1. bestSize' = [bestSize EXCEPT ![c] = size] /\ best' = [best EXCEPT ![c] = place[c]]
      BY <2>5, <1>2
    <3>2. size > 0
      BY <2>5, <1>4, <1>5
    <3> QED
      BY <2>1, <2>2, <2>3, <2>4, <3>1, <3>2, <1>5
  <2>6. CASE ~(size > bestSize[c])
    <3>1. UNCHANGED <<bestSize, best>>
      BY <2>6, <1>2
    <3>2. size <= bestSize[c] /\ (size > 0 \/ size = 0)
      BY <2>6, <1>4, <1>5
    <3> QED
      BY <2>1, <2>3, <2>4, <3>1, <3>2
  <2> QED
    BY <2>5, <2>6
<1>7. Unmoved(c)
  BY <1>1, <1>3, <1>6 DEF Unmoved
<1>8. SearchOK' /\ TokenOK'
  BY <1>0, <1>1, <1>3, <1>6 DEF TasksTypeOK, SearchOK, TokenOK
<1>9. SearchInv(c)'
  <2>1. IF nonEmpty'[c] > 0 THEN best'[c] # 0 ELSE bestSize'[c] = 0
    BY <1>0, <1>1, <1>4, <1>5, <1>6 DEF SearchInv
  <2> QED
    BY <2>1, <1>0, <1>1, <1>3 DEF SearchInv
<1>10. PlacedInv(c)'
  BY <1>0, <1>1 DEF PlacedInv
<1>11. nonEmpty'[c] = 0 => there'[c] \subseteq 1..place'[c]
  <2> SUFFICES ASSUME nonEmpty'[c] = 0, NEW q \in there'[c] PROVE q \in 1..(place[c] - 1)
    BY <1>6
  <2>1. nonEmpty[c] = 0 /\ size = 0
    BY <1>4, <1>6
  <2>2. q \in there[c] /\ sizes[q] > 0 /\ ~Crowded(c, q)
    BY <1>1, <1>3, <1>7, Watched
  <2>3. q \in 1..place[c]
    BY <2>1, <2>2, <1>0, <1>1 DEF SeenInv
  <2>4. q # place[c]
    BY <2>1, <2>2, <1>5
  <2> QED
    BY <2>3, <2>4, <1>4
<1>12. at'[c] = "score"
  BY <1>1
<1> QED
  BY <1>3, <1>7, <1>8, <1>9, <1>10, <1>11, <1>12, StepKeeps

(* A call that has all it was for leaves the consumer idle.                 *)
LEMMA CallOver ==
    ASSUME TaskInv, NEW c \in Consumers, Meet(c), Watch(c), NEW p \in 1..Last, NEW k \in 0..owed[c],
           NEW g \in Finds(c, p, k),
           NEW l \in {"idle", "attempt", "score", "rest", "bulk",
                      "rotate", "current", "others", "advance"},
           at[c] # "idle", TakeFrom(c, p, g), Finish(c, l), owed'[c] = 0, TokenOK',
           UNCHANGED <<desired, lastOffset, placedAmong>>,
           \A d \in Consumers \ {c} : current'[d] = current[d],
           desired[c] # 0 => current'[c] # 0
    PROVE  TaskInv'
<1>0. TasksTypeOK /\ PlacedInv(c)
  BY DEF TaskInv
<1>1. /\ Last' = Last /\ ListsOK' /\ PermitsCovered' /\ NotEmpty'
      /\ \A d \in Consumers \ {c} : owed'[d] = owed[d]
  BY Taken
<1>2. /\ SearchOK'
      /\ \A d \in Consumers \ {c} : /\ at'[d] = at[d] /\ call'[d] = call[d] /\ place'[d] = place[d]
                                    /\ best'[d] = best[d]
                                    /\ bestSize'[d] = bestSize[d] /\ nonEmpty'[d] = nonEmpty[d]
      /\ at'[c] = "idle" /\ call'[c] = "none"
  BY <1>0, <1>1, Finished
<1>3. Unmoved(c)
  BY <1>1, <1>2 DEF Unmoved
<1>4. SearchInv(c)'
  BY <1>2 DEF SearchInv
<1>5. PlacedInv(c)'
  BY <1>0 DEF PlacedInv
<1> QED
  BY <1>1, <1>2, <1>3, <1>4, <1>5, StepKeeps

(* A search that failed begins again.                                       *)
LEMMA Again ==
    ASSUME TaskInv, NEW c \in Consumers, Meet(c), Watch(c), at[c] \notin {"idle", "advance"},
           GoOn(c, "attempt"), UNCHANGED <<common, call, owed, search, token>>
    PROVE  TaskInv'
<1>0. TasksTypeOK /\ SearchInv(c) /\ PlacedInv(c)
  BY DEF TaskInv
<1>1. /\ at' = [at EXCEPT ![c] = "attempt"]
      /\ UNCHANGED <<call, place, best, bestSize, nonEmpty, desired, current, lastOffset,
                     consumed, placedAmong>>
  BY DEF GoOn, search, token
<1>2. /\ Last' = Last /\ ListsOK' /\ PermitsCovered' /\ NotEmpty' /\ ListPlaces' = ListPlaces
      /\ Last \in Nat \ {0} /\ UNCHANGED <<sizes, globalOffset, owed>>
  BY BooksUntouched
<1>3. at'[c] = "attempt" /\ \A d \in Consumers \ {c} : at'[d] = at[d]
  BY <1>0, <1>1 DEF TasksTypeOK
<1>4. SearchOK' /\ TokenOK'
  BY <1>0, <1>1, <1>2 DEF TasksTypeOK, SearchOK, TokenOK
<1>5. Unmoved(c)
  BY <1>1, <1>2, <1>3 DEF Unmoved
<1>6. SearchInv(c)'
  BY <1>0, <1>1, <1>2, <1>3 DEF SearchInv
<1>7. PlacedInv(c)'
  BY <1>0, <1>1 DEF PlacedInv
<1> QED
  BY <1>2, <1>3, <1>4, <1>5, <1>6, <1>7, StepKeeps

(* try_dequeue has found an element.                                        *)
LEMMA FoundOne ==
    ASSUME TaskInv, NEW c \in Consumers, Meet(c), Watch(c), NEW p \in 1..Last, at[c] \in {"score", "rest"},
           NEW n \in Finds(c, p, 1), n > 0, TakeFrom(c, p, n), Finish(c, "idle"), UNCHANGED token
    PROVE  TaskInv'
<1>0. TasksTypeOK /\ SearchInv(c)
  BY DEF TaskInv
<1>1. owed[c] = 1
  <2>1. owed[c] \in 0..MaxBulk /\ MaxBulk \in Nat
    BY <1>0, AsFunctions
  <2>2. owed[c] # 0 /\ owed[c] <= 1
    BY <1>0 DEF SearchInv
  <2> QED
    BY <2>1, <2>2
<1>2. 1 \in 0..owed[c]
  BY <1>1
<1>3. globalOffset' = globalOffset /\ Last' = Last /\ n \in Nat /\ n <= 1 /\ owed'[c] = owed[c] - n
  BY <1>2, Taken
<1>4. owed'[c] = 0
  BY <1>1, <1>3
<1>5. UNCHANGED <<desired, current, lastOffset, consumed, placedAmong>>
  BY DEF token
<1>6. TokenOK'
  BY <1>0, <1>3, <1>5 DEF TasksTypeOK, TokenOK, ListPlaces
<1>7. desired[c] # 0 => current'[c] # 0
  BY <1>0, <1>5 DEF SearchInv
<1>8. at[c] # "idle"
  OBVIOUS
<1> QED
  BY <1>2, <1>4, <1>5, <1>6, <1>7, <1>8, CallOver

(* No sub-queue seemed to have an element.                                  *)
LEMMA NoneScoredStep ==
    ASSUME TaskInv, NEW c \in Consumers, NoneScored(c), Meet(c), Watch(c) PROVE TaskInv'
BY Again DEF NoneScored, Scored

(* The best sub-queue is tried first.                                       *)
LEMMA TryBestStep ==
    ASSUME TaskInv, NEW c \in Consumers, TryBest(c), Meet(c), Watch(c) PROVE TaskInv'
<1>0. TasksTypeOK /\ SearchInv(c) /\ PlacedInv(c)
  BY DEF TaskInv
<1>1. Scored(c) /\ at[c] = "score" /\ nonEmpty[c] > 0 /\ UNCHANGED token
  BY DEF TryBest, Scored
<1>2. PICK n \in Finds(c, best[c], 1) :
          /\ TakeFrom(c, best[c], n)
          /\ IF n > 0 THEN Finish(c, "idle")
             ELSE /\ at' = [at EXCEPT ![c] = "rest"] /\ place' = [place EXCEPT ![c] = Last]
                  /\ UNCHANGED <<call, best, bestSize, nonEmpty>>
  BY DEF TryBest, GoOn, Set
<1>3. best[c] \in 1..Last /\ Last \in Nat
  <2>1. best[c] \in 0..Last /\ Last \in Nat
    BY <1>0, AsFunctions DEF TasksTypeOK, ListPlaces
  <2>2. best[c] # 0
    BY <1>0, <1>1 DEF SearchInv
  <2> QED
    BY <2>1, <2>2
<1>4. CASE n > 0
  BY <1>1, <1>2, <1>3, <1>4, FoundOne
<1>5. CASE ~(n > 0)
  <2>0. 1 \in 0..owed[c]
    <3>1. owed[c] \in 0..MaxBulk /\ MaxBulk \in Nat /\ owed[c] # 0
      BY <1>0, <1>1, AsFunctions DEF SearchInv
    <3> QED
      BY <3>1
  <2>1. /\ at' = [at EXCEPT ![c] = "rest"] /\ place' = [place EXCEPT ![c] = Last]
        /\ UNCHANGED <<call, best, bestSize, nonEmpty, desired, current, lastOffset, consumed, placedAmong>>
    BY <1>1, <1>2, <1>5 DEF token
  <2>2. /\ Last' = Last /\ ListsOK' /\ PermitsCovered' /\ NotEmpty' /\ globalOffset' = globalOffset
        /\ n \in Nat /\ owed'[c] = owed[c] - n /\ \A d \in Consumers \ {c} : owed'[d] = owed[d]
    BY <1>2, <1>3, <2>0, Taken
  <2>3. n = 0 /\ n < 1 /\ owed'[c] = owed[c]
    <3>1. owed[c] \in Int
      BY <1>0, AsFunctions
    <3> QED
      BY <3>1, <2>2, <1>5
  <2>4. /\ at'[c] = "rest" /\ place'[c] = Last
        /\ \A d \in Consumers \ {c} : at'[d] = at[d] /\ place'[d] = place[d]
    BY <1>0, <2>1 DEF TasksTypeOK
  <2>5. SearchOK' /\ TokenOK'
    <3>1. Last \in ListPlaces /\ ListPlaces' = ListPlaces
      BY <1>3, <2>2 DEF ListPlaces
    <3> QED
      BY <3>1, <1>0, <2>1, <2>2 DEF TasksTypeOK, SearchOK, TokenOK
  <2>6. Unmoved(c)
    BY <2>1, <2>2, <2>4 DEF Unmoved
  <2>7. SearchInv(c)'
    BY <1>0, <1>1, <1>3, <2>1, <2>3, <2>4 DEF SearchInv
  <2>8. PlacedInv(c)'
    BY <1>0, <2>1 DEF PlacedInv
  <2>9. there'[c] \subseteq (1..place'[c]) \ {best'[c]}
    <3>1. In(c) = best[c] /\ at[c] # "attempt"
      BY <1>1, InIs
    <3>2. best[c] \notin there'[c]
      BY <3>1, <1>2, <1>3, <2>0, <2>3, <2>6, NotAllFound
    <3>3. there'[c] \subseteq 1..Last
      BY <2>2, <2>6, Watched
    <3> QED
      BY <3>2, <3>3, <2>1, <2>4
  <2> QED
    BY <2>2, <2>4, <2>5, <2>6, <2>7, <2>8, <2>9, StepKeeps
<1> QED
  BY <1>4, <1>5

(* A search goes one place down the list.                                   *)
LEMMA OneDown ==
    ASSUME TaskInv, NEW c \in Consumers, place[c] # 0, at[c] # "idle",
           place' = [place EXCEPT ![c] = place[c] - 1], Last' = Last
    PROVE  /\ place[c] \in 1..Last /\ place' \in [Consumers -> ListPlaces'] /\ place'[c] = place[c] - 1
           /\ \A d \in Consumers \ {c} : place'[d] = place[d]
<1>1. Last \in Nat /\ place \in [Consumers -> ListPlaces] /\ place[c] \in ListPlaces
      /\ ListPlaces' = ListPlaces
  BY AsFunctions DEF TaskInv, TasksTypeOK, ListPlaces
<1>2. place[c] \in 1..Last /\ place[c] - 1 \in ListPlaces
  BY <1>1 DEF ListPlaces
<1> QED
  BY <1>1, <1>2

(* A search without a token leaves a sub-queue of which there is nothing    *)
(* left to see.                                                             *)
LEMMA RestDown ==
    ASSUME TaskInv, NEW c \in Consumers, Meet(c), Watch(c), at[c] = "rest", place[c] # 0,
           place' = [place EXCEPT ![c] = place[c] - 1], place[c] \notin there'[c],
           UNCHANGED <<at, call, best, bestSize, nonEmpty, desired, current, lastOffset, consumed, placedAmong>>,
           globalOffset' = globalOffset, owed' = owed, Last' = Last, ListsOK', PermitsCovered', NotEmpty'
    PROVE  TaskInv'
<1>0. TasksTypeOK /\ SearchInv(c) /\ SeenInv(c) /\ PlacedInv(c)
  BY DEF TaskInv
<1>1. /\ place[c] \in 1..Last /\ place' \in [Consumers -> ListPlaces'] /\ place'[c] = place[c] - 1
      /\ \A d \in Consumers \ {c} : place'[d] = place[d]
  BY OneDown
<1>2. Unmoved(c)
  BY <1>1 DEF Unmoved
<1>3. SearchOK' /\ TokenOK'
  BY <1>0, <1>1 DEF TasksTypeOK, SearchOK, TokenOK, ListPlaces
<1>4. SearchInv(c)' /\ PlacedInv(c)'
  BY <1>0 DEF SearchInv, PlacedInv
<1>5. there'[c] \subseteq (1..place'[c]) \ {best'[c]}
  <2>1. there[c] \subseteq (1..place[c]) \ {best[c]}
    BY <1>0 DEF SeenInv
  <2>2. there'[c] \subseteq there[c]
    BY <1>2, Watched
  <2> QED
    BY <2>1, <2>2, <1>1
<1> QED
  BY <1>2, <1>3, <1>4, <1>5, StepKeeps

(* The others are tried in list order.                                      *)
LEMMA TryRestStep ==
    ASSUME TaskInv, NEW c \in Consumers, TryRest(c), Meet(c), Watch(c) PROVE TaskInv'
<1>0. TasksTypeOK /\ SearchInv(c)
  BY DEF TaskInv
<1>1. at[c] = "rest" /\ In(c) # 0 /\ UNCHANGED token
  BY DEF TryRest
<1>2. PICK n \in Finds(c, place[c], 1) :
          /\ TakeFrom(c, place[c], n)
          /\ IF n > 0 THEN Finish(c, "idle")
             ELSE /\ place' = [place EXCEPT ![c] = place[c] - 1]
                  /\ UNCHANGED <<at, call, best, bestSize, nonEmpty>>
  BY DEF TryRest, Set
<1>3. In(c) = place[c] /\ place[c] \in 1..Last /\ Last \in Nat
  <2>1. In(c) = place[c] /\ place[c] # 0
    BY <1>1, InIs
  <2>2. place[c] \in 0..Last /\ Last \in Nat
    BY <1>0, AsFunctions DEF TasksTypeOK, ListPlaces
  <2> QED
    BY <2>1, <2>2
<1>4. CASE n > 0
  BY <1>1, <1>2, <1>3, <1>4, FoundOne
<1>5. CASE ~(n > 0)
  <2>0. 1 \in 0..owed[c]
    <3>1. owed[c] \in 0..MaxBulk /\ MaxBulk \in Nat /\ owed[c] # 0
      BY <1>0, <1>1, AsFunctions DEF SearchInv
    <3> QED
      BY <3>1
  <2>1. /\ place' = [place EXCEPT ![c] = place[c] - 1]
        /\ UNCHANGED <<at, call, best, bestSize, nonEmpty, desired, current, lastOffset, consumed, placedAmong>>
    BY <1>1, <1>2, <1>5 DEF token
  <2>2. /\ Last' = Last /\ ListsOK' /\ PermitsCovered' /\ NotEmpty' /\ globalOffset' = globalOffset
        /\ n \in Nat /\ owed'[c] = owed[c] - n /\ \A d \in Consumers \ {c} : owed'[d] = owed[d]
    BY <1>2, <1>3, <2>0, Taken
  <2>3. n < 1 /\ owed' = owed
    <3>1. owed \in [Consumers -> 0..MaxBulk] /\ owed' \in [Consumers -> 0..MaxBulk]
      BY <1>0, <2>2 DEF ListsOK, TasksTypeOK
    <3>2. n = 0 /\ owed[c] \in Int
      BY <3>1, <2>2, <1>5
    <3>3. \A d \in Consumers : owed'[d] = owed[d]
      BY <3>2, <2>2
    <3> QED
      BY <3>1, <3>2, <3>3
  <2>4. /\ place'[c] = place[c] - 1 /\ \A d \in Consumers \ {c} : place'[d] = place[d]
    BY <1>0, <2>1 DEF TasksTypeOK
  <2>5. Unmoved(c)
    BY <2>1, <2>2, <2>4 DEF Unmoved
  <2>6. place[c] \notin there'[c]
    BY <1>1, <1>2, <1>3, <2>0, <2>3, <2>5, NotAllFound
  <2> QED
    BY <1>1, <1>3, <2>1, <2>2, <2>3, <2>6, RestDown
<1> QED
  BY <1>4, <1>5

(* The best is passed, and at the end the search begins again.              *)
LEMMA PassBestStep ==
    ASSUME TaskInv, NEW c \in Consumers, PassBest(c), Meet(c), Watch(c) PROVE TaskInv'
<1>0. TasksTypeOK /\ SeenInv(c)
  BY DEF TaskInv
<1>1. at[c] = "rest" /\ In(c) = 0 /\ UNCHANGED <<common, call, owed, token>>
  BY DEF PassBest
<1>2. CASE place[c] = 0
  BY <1>1, <1>2, Again DEF PassBest
<1>3. CASE place[c] # 0
  <2>1. place[c] = best[c]
    BY <1>1, <1>3, InIs
  <2>2. /\ place' = [place EXCEPT ![c] = place[c] - 1]
        /\ UNCHANGED <<at, call, best, bestSize, nonEmpty, desired, current, lastOffset, consumed, placedAmong>>
    BY <1>1, <1>3 DEF PassBest, Set, token
  <2>3. /\ Last' = Last /\ ListsOK' /\ PermitsCovered' /\ NotEmpty' /\ UNCHANGED <<globalOffset, owed>>
    BY <1>1, BooksUntouched
  <2>4. \A d \in Consumers \ {c} : place'[d] = place[d]
    BY <1>0, <2>2 DEF TasksTypeOK
  <2>5. Unmoved(c)
    BY <2>2, <2>3, <2>4 DEF Unmoved
  <2>6. there'[c] \subseteq there[c]
    BY <1>1, <2>3, <2>5, Watched
  <2>7. place[c] \notin there'[c]
    BY <1>0, <1>1, <2>1, <2>6 DEF SeenInv
  <2> QED
    BY <1>1, <1>3, <2>2, <2>3, <2>7, RestDown
<1> QED
  BY <1>2, <1>3

(* A bulk takes what it finds.                                              *)
LEMMA BulkStep ==
    ASSUME TaskInv, NEW c \in Consumers, Bulk(c), Meet(c), Watch(c) PROVE TaskInv'
<1>0. TasksTypeOK /\ SearchInv(c) /\ SeenInv(c) /\ PlacedInv(c)
  BY DEF TaskInv
<1>1. /\ at[c] = "bulk" /\ place[c] > 0
      /\ UNCHANGED <<desired, current, lastOffset, consumed, placedAmong>>
  BY DEF Bulk, token
<1>2. PICK n \in Finds(c, place[c], owed[c]) : TakeFrom(c, place[c], n)
  BY DEF Bulk
<1>3. place[c] \in 1..Last /\ Last \in Nat /\ owed[c] \in 0..owed[c] /\ owed[c] \in Nat /\ In(c) = place[c]
  <2>1. place[c] \in 0..Last /\ Last \in Nat /\ owed[c] \in 0..MaxBulk
    BY <1>0, AsFunctions DEF TasksTypeOK, ListPlaces
  <2> QED
    BY <2>1, <1>1, InIs
<1>4. /\ Last' = Last /\ ListsOK' /\ PermitsCovered' /\ NotEmpty' /\ globalOffset' = globalOffset
      /\ n \in Nat /\ n <= owed[c] /\ owed'[c] = owed[c] - n
      /\ \A d \in Consumers \ {c} : owed'[d] = owed[d]
  BY <1>2, <1>3, Taken
<1>5. TokenOK'
  BY <1>0, <1>1, <1>4 DEF TasksTypeOK, TokenOK, ListPlaces
<1>6. CASE owed'[c] = 0
  <2>1. Finish(c, "idle")
    BY <1>6 DEF Bulk
  <2>2. desired[c] # 0 => current'[c] # 0
    BY <1>0, <1>1 DEF SearchInv
  <2> QED
    BY <2>1, <2>2, <1>1, <1>2, <1>3, <1>5, <1>6, CallOver
<1>7. CASE owed'[c] # 0
  <2>1. place' = [place EXCEPT ![c] = place[c] - 1] /\ UNCHANGED <<at, call, best, bestSize, nonEmpty>>
    BY <1>7 DEF Bulk, Set
  <2>2. /\ place' \in [Consumers -> ListPlaces'] /\ place'[c] = place[c] - 1
        /\ \A d \in Consumers \ {c} : place'[d] = place[d]
    <3>1. place[c] # 0 /\ at[c] # "idle"
      BY <1>1, <1>3
    <3> QED
      BY <3>1, <1>4, <2>1, OneDown
  <2>3. SearchOK'
    BY <1>0, <1>4, <2>1, <2>2 DEF TasksTypeOK, SearchOK, ListPlaces
  <2>4. Unmoved(c)
    BY <1>1, <1>4, <2>1, <2>2 DEF Unmoved
  <2>5. SearchInv(c)'
    <3>1. call[c] = "one" => owed'[c] <= 1
      BY <1>0, <1>3, <1>4 DEF SearchInv
    <3> QED
      BY <3>1, <1>0, <1>1, <1>7, <2>1 DEF SearchInv
  <2>6. PlacedInv(c)'
    BY <1>0, <1>1 DEF PlacedInv
  <2>7. there'[c] \subseteq 1..place'[c]
    <3>1. n < owed[c] /\ at[c] # "attempt"
      BY <1>1, <1>3, <1>4, <1>7
    <3>2. place[c] \notin there'[c]
      BY <3>1, <1>2, <1>3, <2>4, NotAllFound
    <3>3. there'[c] \subseteq there[c] /\ there[c] \subseteq 1..place[c]
      BY <3>1, <1>0, <1>1, <1>4, <2>4, Watched DEF SeenInv
    <3> QED
      BY <3>2, <3>3, <1>3, <2>2
  <2>8. at'[c] = "bulk"
    BY <1>1, <2>1
  <2> QED
    BY <2>3, <2>4, <2>5, <2>6, <2>7, <2>8, <1>4, <1>5, StepKeeps
<1> QED
  BY <1>6, <1>7

(* A bulk that is not complete begins again.                                *)
LEMMA BulkAgainStep ==
    ASSUME TaskInv, NEW c \in Consumers, BulkAgain(c), Meet(c), Watch(c) PROVE TaskInv'
BY Again DEF BulkAgain

(* The global offset moves.                                                 *)
LEMMA AdvanceStep ==
    ASSUME TaskInv, NEW c \in Consumers, Advance(c), Meet(c), Watch(c) PROVE TaskInv'
<1>0. TasksTypeOK /\ SearchInv(c) /\ PlacedInv(c)
  BY DEF TaskInv
<1>1. /\ at[c] = "advance" /\ globalOffset' = globalOffset + 1 /\ at' = [at EXCEPT ![c] = "idle"]
      /\ UNCHANGED <<sizes, producerCount, unsignalled, permits, enqueued, call, owed, place, best,
                     bestSize, nonEmpty, desired, current, lastOffset, consumed, placedAmong>>
  BY DEF Advance, GoOn, search, token
<1>2. Last' = Last /\ ListPlaces' = ListPlaces
  BY <1>1 DEF Last, ListPlaces
<1>3. at'[c] = "idle" /\ \A d \in Consumers \ {c} : at'[d] = at[d]
  BY <1>0, <1>1 DEF TasksTypeOK
<1>4. ListsOK' /\ SearchOK' /\ TokenOK'
  <2>1. globalOffset' \in Nat /\ lastOffset \in [Consumers -> -1..globalOffset']
    <3>1. globalOffset \in Nat /\ lastOffset \in [Consumers -> -1..globalOffset]
      BY <1>0 DEF TasksTypeOK
    <3>2. -1..globalOffset \subseteq -1..globalOffset'
      BY <3>1, <1>1
    <3> QED
      BY <3>1, <3>2, <1>1
  <2>2. ListsOK' /\ SearchOK'
    BY <1>0, <1>1, <1>2 DEF TasksTypeOK, ListsOK, SearchOK
  <2>3. TokenOK'
    BY <2>1, <1>0, <1>1, <1>2 DEF TasksTypeOK, TokenOK
  <2> QED
    BY <2>2, <2>3
<1>5. PermitsCovered' /\ NotEmpty'
  <2>1. Last # 0
    BY <1>1, ListThere
  <2> QED
    BY <2>1, <1>1, <1>2 DEF TaskInv, PermitsCovered, NotEmpty
<1>6. Unmoved(c)
  BY <1>1, <1>3 DEF Unmoved
<1>7. SearchInv(c)' /\ PlacedInv(c)'
  BY <1>0, <1>1, <1>3 DEF SearchInv, PlacedInv
<1> QED
  BY <1>2, <1>3, <1>4, <1>5, <1>6, <1>7, StepKeeps

(* A token is placed, by the count and the offset.                          *)
LEMMA RotateStep ==
    ASSUME TaskInv, NEW c \in Consumers, Rotate(c), Meet(c), Watch(c) PROVE TaskInv'
<1>0. TasksTypeOK /\ ConsumerInv(c)
  BY DEF TaskInv, ConsumerInv
<1>1. PICK tail, start, delta, e :
          /\ tail = place[c] /\ delta = globalOffset - lastOffset[c]
          /\ start = IF desired[c] # 0 THEN desired[c]
                     ELSE Around(tail, producerCount - 1 - (Offset[c] % producerCount), tail)
          /\ e = IF delta >= producerCount THEN delta % producerCount ELSE delta
  OBVIOUS
<1>2. /\ at[c] = "rotate"
      /\ desired' = [desired EXCEPT ![c] = Around(start, e, tail)]
      /\ current' = [current EXCEPT ![c] = desired'[c]]
      /\ lastOffset' = [lastOffset EXCEPT ![c] = globalOffset]
      /\ placedAmong' = [placedAmong EXCEPT ![c] =
             IF tail = producerCount /\ (desired[c] = 0 \/ placedAmong[c] = tail) THEN tail ELSE 0]
      /\ consumed' = [consumed EXCEPT ![c] = 0] /\ at' = [at EXCEPT ![c] = "current"]
      /\ UNCHANGED <<common, call, owed, place, best, bestSize, nonEmpty>>
  BY <1>1 DEF Rotate, Set, GoOn, search
<1>3. /\ Last' = Last /\ ListsOK' /\ PermitsCovered' /\ NotEmpty' /\ ListPlaces' = ListPlaces
      /\ Last \in Nat \ {0} /\ UNCHANGED <<sizes, globalOffset, owed>>
  BY <1>2, BooksUntouched
<1>4. /\ tail \in 1..Last /\ tail \in Nat \ {0} /\ producerCount \in Nat \ {0} /\ globalOffset \in Nat
      /\ lastOffset[c] \in Int /\ desired[c] \in ListPlaces /\ Offset[c] \in Nat /\ delta \in Int
  <2>1. place[c] \in 0..Last /\ place[c] # 0 /\ producerCount \in Last..MaxProducers
    BY <1>0, <1>2 DEF TasksTypeOK, ListPlaces, ConsumerInv, SearchInv
  <2>2. globalOffset \in Nat /\ lastOffset[c] \in -1..globalOffset
    BY <1>0 DEF TasksTypeOK
  <2>3. desired[c] \in ListPlaces /\ Offset[c] \in Nat
    BY <1>0, TaskQueueAssumption DEF TasksTypeOK
  <2> QED
    BY <2>1, <2>2, <2>3, <1>1, <1>3, TaskQueueAssumption
<1>5. start \in Int /\ e \in Int
  <2>1. delta % producerCount \in Int /\ Offset[c] % producerCount \in Int
    <3>1. PICK o \in Int, n \in Nat \ {0} : o = Offset[c] /\ n = producerCount
      BY <1>4
    <3>2. delta % n \in Int /\ o % n \in Int
      BY <1>4, IntDivMod
    <3> QED
      BY <3>1, <3>2
  <2>2. e \in Int
    BY <2>1, <1>1, <1>4
  <2>3. producerCount - 1 - (Offset[c] % producerCount) \in Int
    BY <2>1, <1>4
  <2>4. Around(tail, producerCount - 1 - (Offset[c] % producerCount), tail) \in 1..tail
    <3>1. PICK o \in Int : o = producerCount - 1 - (Offset[c] % producerCount)
      BY <2>3
    <3>2. tail \in Nat \ {0} /\ tail \in Int
      BY <1>4
    <3>3. Around(tail, o, tail) \in 1..tail
      BY <3>2, AroundIn
    <3> QED
      BY <3>1, <3>3
  <2>5. start \in Int
    BY <2>4, <1>1, <1>4 DEF ListPlaces
  <2> QED
    BY <2>2, <2>5
<1>6. Around(start, e, tail) \in 1..Last
  <2>1. Around(start, e, tail) \in 1..tail
    BY <1>4, <1>5, AroundIn
  <2>2. 1..tail \subseteq 1..Last
    BY <1>4, <1>3
  <2> QED
    BY <2>1, <2>2
<1>7. /\ desired'[c] = Around(start, e, tail) /\ desired'[c] \in 1..Last /\ current'[c] = desired'[c]
      /\ lastOffset'[c] = globalOffset /\ at'[c] = "current"
      /\ placedAmong'[c] =
             IF tail = producerCount /\ (desired[c] = 0 \/ placedAmong[c] = tail) THEN tail ELSE 0
      /\ \A d \in Consumers \ {c} : /\ at'[d] = at[d] /\ desired'[d] = desired[d] /\ current'[d] = current[d]
                                    /\ lastOffset'[d] = lastOffset[d] /\ placedAmong'[d] = placedAmong[d]
  BY <1>0, <1>2, <1>6 DEF TasksTypeOK
<1>8. SearchOK' /\ TokenOK'
  <2>1. 0 \in ListPlaces /\ tail \in ListPlaces /\ desired'[c] \in ListPlaces
    BY <1>3, <1>4, <1>7 DEF ListPlaces
  <2>2. /\ desired' \in [Consumers -> ListPlaces] /\ current' \in [Consumers -> ListPlaces]
        /\ placedAmong' \in [Consumers -> ListPlaces] /\ consumed' \in [Consumers -> Nat]
    <3>1. /\ desired \in [Consumers -> ListPlaces] /\ current \in [Consumers -> ListPlaces]
          /\ placedAmong \in [Consumers -> ListPlaces] /\ consumed \in [Consumers -> Nat]
      BY <1>0 DEF TasksTypeOK
    <3> QED
      BY <3>1, <2>1, <1>2, <1>7
  <2>3. lastOffset' \in [Consumers -> -1..globalOffset]
    <3>1. lastOffset \in [Consumers -> -1..globalOffset] /\ globalOffset \in -1..globalOffset
      BY <1>0, <1>4 DEF TasksTypeOK
    <3> QED
      BY <3>1, <1>2
  <2>4. SearchOK'
    BY <1>0, <1>2, <1>3 DEF TasksTypeOK, SearchOK
  <2>5. TokenOK'
    BY <2>2, <2>3, <1>3, <1>4 DEF TokenOK
  <2> QED
    BY <2>4, <2>5
<1>9. Unmoved(c)
  BY <1>2, <1>3, <1>7 DEF Unmoved
<1>10. SearchInv(c)' /\ PlacedInv(c)'
  <2>1. SearchInv(c)'
    BY <1>0, <1>2, <1>3, <1>7 DEF ConsumerInv, SearchInv
  <2>2. PlacedInv(c)'
    <3> SUFFICES ASSUME placedAmong'[c] # 0
                 PROVE  desired'[c] = 1 + ((Offset[c] - 1 - globalOffset) % tail) /\ placedAmong'[c] = tail
      BY <1>7, <1>3 DEF PlacedInv
    <3>1. placedAmong'[c] = tail /\ tail = producerCount /\ (desired[c] = 0 \/ placedAmong[c] = tail)
      BY <1>7
    <3>2. start = 1 + ((Offset[c] - 1 - lastOffset[c]) % tail)
      <4>1. CASE desired[c] = 0
        <5>1. lastOffset[c] = -1
          BY <4>1, <1>0 DEF ConsumerInv, PlacedInv
        <5>2. PICK r \in 0..(tail - 1) : r = Offset[c] % tail
          <6>1. PICK o \in Int : o = Offset[c]
            BY <1>4
          <6>2. o % tail \in 0..(tail - 1)
            BY <1>4, IntDivMod
          <6> QED
            BY <6>1, <6>2
        <5>3. start = 1 + ((tail - 1 - (tail - 1 - r)) % tail)
          BY <4>1, <5>2, <3>1, <1>1 DEF Around
        <5>4. tail - 1 - (tail - 1 - r) = r /\ tail * 0 + r = r
          BY <5>2, <1>4
        <5>5. (tail * 0 + r) % tail = r
          BY <1>4, IntModUnique
        <5>6. Offset[c] - 1 - lastOffset[c] = Offset[c]
          BY <5>1, <1>4
        <5> QED
          BY <5>2, <5>3, <5>4, <5>5, <5>6
      <4>2. CASE desired[c] # 0
        <5>1. placedAmong[c] = tail /\ tail # 0 /\ start = desired[c]
          BY <4>2, <3>1, <1>1, <1>4
        <5> QED
          BY <5>1, <1>0 DEF ConsumerInv, PlacedInv
      <4> QED
        BY <4>1, <4>2
    <3>3. PICK x \in Int : x = Offset[c] - 1 - lastOffset[c]
      BY <1>4
    <3>4. e = delta \/ e = delta % tail
      BY <3>1, <1>1
    <3>5. Around(1 + (x % tail), e, tail) = 1 + ((x - delta) % tail)
      <4>1. PICK d \in Int, n \in Nat \ {0} : d = delta /\ n = tail
        BY <1>4
      <4>2. PICK f \in Int : f = e
        BY <1>5
      <4>3. f = d \/ f = d % n
        BY <3>4, <4>1, <4>2, Zenon
      <4>4. Around(1 + (x % n), f, n) = 1 + ((x - d) % n)
        BY <4>3, AroundSame, Zenon
      <4> QED
        BY <4>1, <4>2, <4>4
    <3>6. x - delta = Offset[c] - 1 - globalOffset
      BY <3>3, <1>1, <1>4
    <3> QED
      BY <3>1, <3>2, <3>3, <3>5, <3>6, <1>7
  <2> QED
    BY <2>1, <2>2
<1> QED
  BY <1>3, <1>7, <1>8, <1>9, <1>10, StepKeeps

(* With a token, the current sub-queue comes first.                         *)
LEMMA TryCurrentStep ==
    ASSUME TaskInv, NEW c \in Consumers, TryCurrent(c), Meet(c), Watch(c) PROVE TaskInv'
<1>0. TasksTypeOK /\ SearchInv(c) /\ PlacedInv(c)
  BY DEF TaskInv
<1>1. /\ at[c] = "current"
      /\ UNCHANGED <<bestSize, nonEmpty, desired, current, lastOffset, placedAmong>>
  BY DEF TryCurrent
<1>2. PICK g \in Finds(c, current[c], owed[c]) :
          /\ TakeFrom(c, current[c], g)
          /\ consumed' = [consumed EXCEPT ![c] = consumed[c] + g]
          /\ IF g = owed[c]
             THEN /\ at' = [at EXCEPT ![c] =
                                IF call[c] = "token" THEN (IF consumed'[c] = Quota THEN "advance" ELSE "idle")
                                ELSE IF consumed'[c] >= Quota THEN "advance" ELSE "idle"]
                  /\ call' = [call EXCEPT ![c] = "none"] /\ place' = [place EXCEPT ![c] = 0]
                  /\ best' = [best EXCEPT ![c] = 0]
             ELSE /\ at' = [at EXCEPT ![c] = "others"]
                  /\ place' = [place EXCEPT ![c] = Around(current[c], 1, Last)]
                  /\ best' = [best EXCEPT ![c] = Last] /\ UNCHANGED call
  BY DEF TryCurrent, Set, GoOn
<1>3. /\ current[c] \in 1..Last /\ Last \in Nat \ {0} /\ owed[c] \in 0..owed[c] /\ owed[c] \in Nat
      /\ In(c) = current[c]
  <2>1. current[c] \in 0..Last /\ Last \in Nat /\ owed[c] \in 0..MaxBulk
    BY <1>0, AsFunctions DEF TasksTypeOK, ListPlaces
  <2>2. current[c] # 0
    BY <1>0, <1>1 DEF SearchInv
  <2> QED
    BY <2>1, <2>2, <1>1, InIs
<1>4. /\ Last' = Last /\ ListsOK' /\ PermitsCovered' /\ NotEmpty' /\ globalOffset' = globalOffset
      /\ g \in Nat /\ g <= owed[c] /\ owed'[c] = owed[c] - g
      /\ \A d \in Consumers \ {c} : owed'[d] = owed[d]
  BY <1>2, <1>3, Taken
<1>5. 0 \in ListPlaces /\ Last \in ListPlaces /\ ListPlaces' = ListPlaces
  BY <1>3, <1>4 DEF ListPlaces
<1>6. TokenOK'
  <2>1. consumed' \in [Consumers -> Nat]
    <3>1. consumed \in [Consumers -> Nat] /\ consumed[c] + g \in Nat
      BY <1>0, <1>4 DEF TasksTypeOK
    <3> QED
      BY <3>1, <1>2
  <2> QED
    BY <2>1, <1>0, <1>1, <1>4, <1>5 DEF TasksTypeOK, TokenOK
<1>7. PlacedInv(c)'
  BY <1>0, <1>1 DEF PlacedInv
<1>8. CASE g = owed[c]
  <2>1. PICK l \in {"advance", "idle"} :
            /\ at' = [at EXCEPT ![c] = l] /\ call' = [call EXCEPT ![c] = "none"]
            /\ place' = [place EXCEPT ![c] = 0] /\ best' = [best EXCEPT ![c] = 0]
    <3>1. PICK l : l = IF call[c] = "token" THEN (IF consumed'[c] = Quota THEN "advance" ELSE "idle")
                       ELSE IF consumed'[c] >= Quota THEN "advance" ELSE "idle"
      OBVIOUS
    <3>2. l \in {"advance", "idle"}
      BY <3>1
    <3>3. /\ at' = [at EXCEPT ![c] = l] /\ call' = [call EXCEPT ![c] = "none"]
          /\ place' = [place EXCEPT ![c] = 0] /\ best' = [best EXCEPT ![c] = 0]
      BY <3>1, <1>2, <1>8
    <3> QED
      BY <3>2, <3>3
  <2>2. /\ at'[c] = l /\ call'[c] = "none" /\ owed'[c] = 0
        /\ \A d \in Consumers \ {c} : /\ at'[d] = at[d] /\ call'[d] = call[d] /\ place'[d] = place[d]
                                      /\ best'[d] = best[d]
    BY <1>0, <1>3, <1>4, <1>8, <2>1 DEF TasksTypeOK
  <2>3. SearchOK'
    BY <1>0, <1>1, <1>5, <2>1 DEF TasksTypeOK, SearchOK
  <2>4. Unmoved(c)
    BY <1>1, <1>4, <2>2 DEF Unmoved
  <2>5. SearchInv(c)'
    BY <1>0, <1>1, <1>3, <2>2 DEF SearchInv
  <2>6. at'[c] \notin {"score", "rest", "bulk", "others"}
    BY <2>2
  <2> QED
    BY <2>3, <2>4, <2>5, <2>6, <1>4, <1>6, <1>7, StepKeeps
<1>9. CASE g # owed[c]
  <2>1. /\ at' = [at EXCEPT ![c] = "others"] /\ place' = [place EXCEPT ![c] = Around(current[c], 1, Last)]
        /\ best' = [best EXCEPT ![c] = Last] /\ UNCHANGED call
    BY <1>2, <1>9
  <2>2. Around(current[c], 1, Last) = IF current[c] = 1 THEN Last ELSE current[c] - 1
    BY <1>3, AroundOne
  <2>3. Around(current[c], 1, Last) \in 1..Last
    BY <2>2, <1>3
  <2>4. /\ at'[c] = "others" /\ place'[c] = Around(current[c], 1, Last) /\ best'[c] = Last
        /\ \A d \in Consumers \ {c} : at'[d] = at[d] /\ place'[d] = place[d] /\ best'[d] = best[d]
    BY <1>0, <2>1 DEF TasksTypeOK
  <2>5. SearchOK'
    <3>1. Around(current[c], 1, Last) \in ListPlaces
      BY <2>3, <1>3 DEF ListPlaces
    <3> QED
      BY <3>1, <1>0, <1>1, <1>5, <2>1 DEF TasksTypeOK, SearchOK
  <2>6. Unmoved(c)
    BY <1>1, <1>4, <2>1, <2>4 DEF Unmoved
  <2>7. owed'[c] # 0 /\ owed'[c] <= owed[c] /\ g < owed[c]
    BY <1>3, <1>4, <1>9
  <2>8. SearchInv(c)'
    <3>1. call'[c] = "one" => owed'[c] <= 1
      <4>1. call[c] = "one" => owed[c] <= 1
        BY <1>0 DEF SearchInv
      <4> QED
        BY <4>1, <2>1, <2>7, <1>3, <1>4
    <3>2. place'[c] \in 1..best'[c] /\ current'[c] <= best'[c] /\ current'[c] # 0
      BY <2>3, <2>4, <1>1, <1>3
    <3> QED
      BY <3>1, <3>2, <2>4, <2>7 DEF SearchInv
  <2>9. there'[c] \subseteq Ahead(c)'
    <3>1. there'[c] \subseteq 1..Last
      BY <1>4, <2>6, Watched
    <3>2. current[c] \notin there'[c]
      BY <1>1, <1>2, <1>3, <2>6, <2>7, NotAllFound
    <3>3. \A q \in (1..Last) \ {current[c]} : q \in Ahead(c)'
      <4>1. Ahead(c)' = IF current[c] <= place'[c] THEN (current[c] + 1)..place'[c]
                        ELSE (1..place'[c]) \cup ((current[c] + 1)..Last)
        BY <2>4, <1>1 DEF Ahead
      <4> QED
        BY <4>1, <2>2, <2>4, <1>3
    <3> QED
      BY <3>1, <3>2, <3>3
  <2> QED
    BY <2>4, <2>5, <2>6, <2>8, <2>9, <1>4, <1>6, <1>7, StepKeeps
<1> QED
  BY <1>8, <1>9

(* Then come the others, round the list.                                    *)
LEMMA TryOthersStep ==
    ASSUME TaskInv, NEW c \in Consumers, TryOthers(c), Meet(c), Watch(c) PROVE TaskInv'
<1>0. TasksTypeOK /\ SearchInv(c) /\ SeenInv(c) /\ PlacedInv(c)
  BY DEF TaskInv
<1>1. /\ at[c] = "others" /\ place[c] # current[c] /\ UNCHANGED <<desired, lastOffset, placedAmong>>
      /\ IF owed'[c] = 0 THEN Finish(c, "idle")
         ELSE /\ place' = [place EXCEPT ![c] = Around(place[c], 1, best[c])]
              /\ UNCHANGED <<at, call, best, bestSize, nonEmpty>>
  BY DEF TryOthers, Set
<1>2. PICK g \in Finds(c, place[c], owed[c]) :
          /\ TakeFrom(c, place[c], g)
          /\ IF g > 0 THEN current' = [current EXCEPT ![c] = place[c]] /\ consumed' = [consumed EXCEPT ![c] = g]
             ELSE UNCHANGED <<current, consumed>>
  BY DEF TryOthers, Set
<1>3. /\ best[c] \in 1..Last /\ best[c] \in Nat \ {0} /\ place[c] \in 1..best[c] /\ place[c] \in 1..Last
      /\ current[c] \in 1..best[c] /\ owed[c] \in 0..owed[c] /\ owed[c] \in Nat /\ owed[c] # 0
      /\ Last \in Nat \ {0} /\ In(c) = place[c]
  <2>1. best[c] \in 0..Last /\ current[c] \in 0..Last /\ Last \in Nat /\ owed[c] \in 0..MaxBulk
    BY <1>0, AsFunctions DEF TasksTypeOK, ListPlaces
  <2>2. /\ place[c] \in 1..best[c] /\ current[c] <= best[c] /\ current[c] # 0 /\ owed[c] # 0
    BY <1>0, <1>1 DEF SearchInv
  <2> QED
    BY <2>1, <2>2, <1>1, InIs
<1>4. /\ Last' = Last /\ ListsOK' /\ PermitsCovered' /\ NotEmpty' /\ globalOffset' = globalOffset
      /\ g \in Nat /\ g <= owed[c] /\ owed'[c] = owed[c] - g
      /\ \A d \in Consumers \ {c} : owed'[d] = owed[d]
  BY <1>2, <1>3, Taken
<1>5. ListPlaces' = ListPlaces /\ place[c] \in ListPlaces
  BY <1>3, <1>4 DEF ListPlaces
<1>6. /\ current' \in [Consumers -> ListPlaces] /\ consumed' \in [Consumers -> Nat]
      /\ current'[c] = (IF g > 0 THEN place[c] ELSE current[c])
      /\ \A d \in Consumers \ {c} : current'[d] = current[d]
  <2>1. current \in [Consumers -> ListPlaces] /\ consumed \in [Consumers -> Nat]
    BY <1>0 DEF TasksTypeOK
  <2>2. CASE g > 0
    <3>1. current' = [current EXCEPT ![c] = place[c]] /\ consumed' = [consumed EXCEPT ![c] = g]
      BY <2>2, <1>2
    <3> QED
      BY <2>1, <2>2, <3>1, <1>4, <1>5
  <2>3. CASE ~(g > 0)
    BY <2>1, <2>3, <1>2
  <2> QED
    BY <2>2, <2>3
<1>7. TokenOK'
  BY <1>0, <1>1, <1>4, <1>5, <1>6 DEF TasksTypeOK, TokenOK
<1>8. current'[c] \in 1..best[c] /\ current'[c] # 0
  BY <1>3, <1>6
<1>9. CASE owed'[c] = 0
  <2>1. Finish(c, "idle") /\ at[c] # "idle"
    BY <1>1, <1>9
  <2> QED
    BY <2>1, <1>1, <1>2, <1>3, <1>6, <1>7, <1>8, <1>9, CallOver
<1>10. CASE owed'[c] # 0
  <2>1. place' = [place EXCEPT ![c] = Around(place[c], 1, best[c])]
        /\ UNCHANGED <<at, call, best, bestSize, nonEmpty>>
    BY <1>1, <1>10
  <2>2. Around(place[c], 1, best[c]) = IF place[c] = 1 THEN best[c] ELSE place[c] - 1
    BY <1>3, AroundOne
  <2>3. Around(place[c], 1, best[c]) \in 1..best[c] /\ Around(place[c], 1, best[c]) \in ListPlaces
    BY <2>2, <1>3 DEF ListPlaces
  <2>4. /\ place'[c] = Around(place[c], 1, best[c]) /\ \A d \in Consumers \ {c} : place'[d] = place[d]
    BY <1>0, <2>1 DEF TasksTypeOK
  <2>5. SearchOK'
    BY <1>0, <1>5, <2>1, <2>3 DEF TasksTypeOK, SearchOK
  <2>6. Unmoved(c)
    BY <1>1, <1>4, <1>6, <2>1, <2>4 DEF Unmoved
  <2>7. owed'[c] <= owed[c] /\ g < owed[c]
    BY <1>3, <1>4, <1>10
  <2>8. SearchInv(c)'
    <3>1. call'[c] = "one" => owed'[c] <= 1
      <4>1. call[c] = "one" => owed[c] <= 1
        BY <1>0 DEF SearchInv
      <4> QED
        BY <4>1, <2>1, <2>7, <1>3, <1>4
    <3>2. place'[c] \in 1..best'[c] /\ current'[c] <= best'[c]
      BY <2>1, <2>3, <2>4, <1>3, <1>8
    <3> QED
      BY <3>1, <3>2, <1>1, <1>8, <1>10, <2>1 DEF SearchInv
  <2>9. PlacedInv(c)'
    BY <1>0, <1>1 DEF PlacedInv
  <2>10. there'[c] \subseteq Ahead(c)'
    <3>1. place[c] \notin there'[c]
      <4>1. at[c] # "attempt"
        BY <1>1
      <4> QED
        BY <4>1, <1>2, <1>3, <2>6, <2>7, NotAllFound
    <3>2. there'[c] \subseteq Ahead(c)
      <4>1. there[c] \subseteq Ahead(c) /\ at[c] # "attempt"
        BY <1>0, <1>1 DEF SeenInv
      <4> QED
        BY <4>1, <1>4, <2>6, Watched
    <3>3. Ahead(c) = IF current[c] <= place[c] THEN (current[c] + 1)..place[c]
                     ELSE (1..place[c]) \cup ((current[c] + 1)..best[c])
      BY DEF Ahead
    <3>4. Ahead(c)' = IF current'[c] <= place'[c] THEN (current'[c] + 1)..place'[c]
                      ELSE (1..place'[c]) \cup ((current'[c] + 1)..best[c])
      BY <2>1 DEF Ahead
    <3>5. PICK cu \in 1..best[c], pl \in 1..best[c], be \in Nat \ {0},
               cn \in 1..best[c], pn \in 1..best[c] :
              /\ cu = current[c] /\ pl = place[c] /\ be = best[c] /\ cn = current'[c] /\ pn = place'[c]
      BY <1>3, <1>8, <2>3, <2>4
    <3>6. /\ pl # cu /\ pn = (IF pl = 1 THEN be ELSE pl - 1) /\ (cn = cu \/ cn = pl)
          /\ cu \in 1..be /\ pl \in 1..be
      BY <3>5, <1>1, <1>6, <2>2, <2>4
    <3>7. \A q \in Ahead(c) : q # pl => q \in Ahead(c)'
      <4> SUFFICES ASSUME NEW q \in Ahead(c), q # pl PROVE q \in Ahead(c)'
        OBVIOUS
      <4>1. q \in Int /\ 1 <= q /\ q <= be
            /\ (IF cu <= pl THEN cu < q /\ q <= pl ELSE q <= pl \/ cu < q)
        BY <3>3, <3>5, <3>6
      <4>2. IF cn <= pn THEN cn < q /\ q <= pn ELSE q <= pn \/ cn < q
        BY <4>1, <3>6
      <4> QED
        BY <4>1, <4>2, <3>4, <3>5
    <3> QED
      BY <3>1, <3>2, <3>5, <3>7
  <2>11. at'[c] = "others"
    BY <1>1, <2>1
  <2> QED
    BY <2>5, <2>6, <2>8, <2>9, <2>10, <2>11, <1>4, <1>7, StepKeeps
<1> QED
  BY <1>9, <1>10

(* A search that is back where it began starts again.                       *)
LEMMA OthersAgainStep ==
    ASSUME TaskInv, NEW c \in Consumers, OthersAgain(c), Meet(c), Watch(c) PROVE TaskInv'
BY Again DEF OthersAgain

(* Every step keeps the invariant.                                          *)
LEMMA TasksKept == TaskInv /\ [TasksNext]_taskVars => TaskInv'
<1> SUFFICES ASSUME TaskInv, [TasksNext]_taskVars PROVE TaskInv'
  OBVIOUS
<1>1. CASE CountProducer
  BY <1>1, CountStep
<1>2. CASE AddProducer
  BY <1>2, AddProducerStep
<1>3. ASSUME NEW p \in DOMAIN sizes, Enqueue(p) \/ Permit(p) PROVE TaskInv'
  <2>1. p \in 1..Last
    BY AsFunctions DEF TaskInv
  <2> QED
    BY <1>3, <2>1, EnqueueStep, PermitStep
<1>4. ASSUME NEW c \in Consumers, GetPermits(c) \/ Searching(c) PROVE TaskInv'
  BY <1>4, GetPermitsStep, AttemptStep, ScoreStep, NoneScoredStep, TryBestStep, TryRestStep, PassBestStep,
     BulkStep, BulkAgainStep, RotateStep, TryCurrentStep, AdvanceStep, TryOthersStep, OthersAgainStep
     DEF Searching, Step
<1>5. CASE UNCHANGED taskVars
  <2>1. UNCHANGED <<sizes, producerCount, unsignalled, permits, globalOffset, enqueued, at, call, owed, place,
                    best, bestSize, nonEmpty, desired, current, lastOffset, consumed, placedAmong, beside, there>>
    BY <1>5 DEF taskVars, common, search, token
  <2>2. TasksTypeOK' /\ NotEmpty' /\ PermitsCovered'
    BY <2>1 DEF TaskInv, TasksTypeOK, ListPlaces, Last, NotEmpty, PermitsCovered
  <2>3. StoodBy(Consumers)
    BY <2>1 DEF StoodBy, TaskInv, SeenInv
  <2>4. \A c \in Consumers : ConsumerInv(c)'
    BY <2>3, StoodByKept
  <2> QED
    BY <2>2, <2>4 DEF TaskInv, ConsumerInv
<1> QED
  BY <1>1, <1>2, <1>3, <1>4, <1>5 DEF TasksNext

(* The inductive invariant of the queue.                                    *)
LEMMA TasksInvariant == TasksSpec => []TaskInv
<1> QED
  BY TasksStart, TasksKept, PTL DEF TasksSpec

(* For any number of consumers, sub-queues and elements: there are as many  *)
(* elements as permits, given, held or still to be signalled, so that a     *)
(* consumer with a permit never searches for an element that is not there   *)
(* (blockingconcurrentqueue.h:125-127, 296-300, 330-333, 361-366).          *)
THEOREM PermitsElements == TasksSpec => []ElementsPermitted
<1>1. TaskInv => ElementsPermitted
  BY DEF TaskInv, ElementsPermitted
<1> QED
  BY <1>1, TasksInvariant, PTL

(* A search that goes back to its beginning has passed every sub-queue.     *)
LEMMA FailsRightly ==
    ASSUME TaskInv, NEW c \in Consumers, Searching(c), at[c] \notin {"idle", "attempt"}, at'[c] = "attempt"
    PROVE  there[c] = {}
<1>0. /\ TasksTypeOK /\ SearchInv(c) /\ SeenInv(c) /\ nonEmpty[c] \in 0..3 /\ at[c] # "attempt"
      /\ at \in [Consumers -> {"idle", "attempt", "score", "rest", "bulk",
                               "rotate", "current", "others", "advance"}]
      /\ place[c] \in Int /\ current[c] \in Int
  <2>1. TasksTypeOK /\ SearchInv(c) /\ SeenInv(c)
    BY DEF TaskInv
  <2>2. Last \in Nat
    BY <2>1, AsFunctions
  <2>3. place[c] \in 0..Last /\ current[c] \in 0..Last /\ nonEmpty[c] \in 0..3
    BY <2>1 DEF TasksTypeOK, ListPlaces
  <2>4. at \in [Consumers -> {"idle", "attempt", "score", "rest", "bulk",
                              "rotate", "current", "others", "advance"}]
    BY <2>1 DEF TasksTypeOK
  <2> QED
    BY <2>1, <2>2, <2>3, <2>4
<1>1. ~Attempt(c)
  BY <1>0 DEF Attempt
<1>2. CASE Score(c)
  <2>1. at'[c] = at[c]
    BY <1>2 DEF Score
  <2> QED
    BY <2>1, <1>0
<1>3. CASE NoneScored(c)
  <2>1. at[c] = "score" /\ (place[c] = 0 \/ nonEmpty[c] = 3) /\ nonEmpty[c] = 0
    BY <1>3 DEF NoneScored, Scored
  <2>2. there[c] \subseteq 1..place[c] /\ place[c] = 0
    BY <2>1, <1>0 DEF SeenInv
  <2> QED
    BY <2>2
<1>4. CASE TryBest(c)
  <2>1. Finish(c, "idle") \/ at' = [at EXCEPT ![c] = "rest"]
    BY <1>4 DEF TryBest, GoOn
  <2>2. \E l \in {"idle", "rest"} : at' = [at EXCEPT ![c] = l]
    BY <2>1 DEF Finish, Set, GoOn
  <2> QED
    BY <2>2, <1>0
<1>5. CASE TryRest(c)
  <2>1. at' = at \/ Finish(c, "idle")
    BY <1>5 DEF TryRest
  <2>2. at' = at \/ at' = [at EXCEPT ![c] = "idle"]
    BY <2>1 DEF Finish, Set, GoOn
  <2> QED
    BY <2>2, <1>0
<1>6. CASE PassBest(c)
  <2>1. at[c] = "rest" /\ (place[c] = 0 \/ at' = at)
    BY <1>6 DEF PassBest
  <2>2. there[c] \subseteq 1..place[c] /\ place[c] = 0
    BY <2>1, <1>0 DEF SeenInv
  <2> QED
    BY <2>2
<1>7. CASE Bulk(c)
  <2>1. at' = at \/ Finish(c, "idle")
    BY <1>7 DEF Bulk
  <2>2. at' = at \/ at' = [at EXCEPT ![c] = "idle"]
    BY <2>1 DEF Finish, Set, GoOn
  <2> QED
    BY <2>2, <1>0
<1>8. CASE BulkAgain(c)
  <2>1. there[c] \subseteq 1..place[c] /\ place[c] = 0
    BY <1>8, <1>0 DEF BulkAgain, SeenInv
  <2> QED
    BY <2>1
<1>9. CASE Rotate(c)
  <2>1. at' = [at EXCEPT ![c] = "current"]
    BY <1>9 DEF Rotate, GoOn
  <2> QED
    BY <2>1, <1>0
<1>10. CASE TryCurrent(c)
  <2>1. \E l \in {"advance", "idle", "others"} : at' = [at EXCEPT ![c] = l]
    BY <1>10 DEF TryCurrent, Set, GoOn
  <2> QED
    BY <2>1, <1>0
<1>11. CASE Advance(c)
  <2>1. at' = [at EXCEPT ![c] = "idle"]
    BY <1>11 DEF Advance, GoOn
  <2> QED
    BY <2>1, <1>0
<1>12. CASE TryOthers(c)
  <2>1. at' = at \/ Finish(c, "idle")
    BY <1>12 DEF TryOthers
  <2>2. at' = at \/ at' = [at EXCEPT ![c] = "idle"]
    BY <2>1 DEF Finish, Set, GoOn
  <2> QED
    BY <2>2, <1>0
<1>13. CASE OthersAgain(c)
  <2>1. at[c] = "others" /\ place[c] = current[c]
    BY <1>13 DEF OthersAgain
  <2>2. there[c] \subseteq Ahead(c)
    BY <2>1, <1>0 DEF SeenInv
  <2>3. Ahead(c) = (current[c] + 1)..current[c]
    BY <2>1, <1>0 DEF Ahead
  <2> QED
    BY <2>2, <2>3, <1>0
<1> QED
  BY <1>1, <1>2, <1>3, <1>4, <1>5, <1>6, <1>7, <1>8, <1>9, <1>10, <1>11, <1>12, <1>13 DEF Searching, Step

(* A step of a consumer moves no other.                                     *)
LEMMA OnlyOneMoves ==
    ASSUME TaskInv, NEW c \in Consumers, NEW d \in Consumers, d # c, GetPermits(d) \/ Searching(d)
    PROVE  at'[c] = at[c]
<1>0. at \in [Consumers -> {"idle", "attempt", "score", "rest", "bulk",
                            "rotate", "current", "others", "advance"}]
  BY DEF TaskInv, TasksTypeOK
<1>1. at' = at \/ \E l : at' = [at EXCEPT ![d] = l]
  <2>1. CASE GetPermits(d)
    BY <2>1 DEF GetPermits, GoOn
  <2>2. CASE Attempt(d)
    BY <2>2 DEF Attempt, GoOn
  <2>3. CASE Score(d)
    BY <2>3 DEF Score
  <2>4. CASE TryBest(d)
    BY <2>4 DEF TryBest, Finish, GoOn, Set
  <2>5. CASE TryRest(d)
    BY <2>5 DEF TryRest, Finish, GoOn, Set
  <2>6. CASE Bulk(d)
    BY <2>6 DEF Bulk, Finish, GoOn, Set
  <2>7. CASE BulkAgain(d)
    BY <2>7 DEF BulkAgain, GoOn
  <2>8. CASE Rotate(d)
    BY <2>8 DEF Rotate, GoOn
  <2>9. CASE TryCurrent(d)
    BY <2>9 DEF TryCurrent, GoOn, Set
  <2>10. CASE Advance(d)
    BY <2>10 DEF Advance, GoOn
  <2>11. CASE TryOthers(d)
    BY <2>11 DEF TryOthers, Finish, GoOn, Set
  <2>12. CASE NoneScored(d)
    BY <2>12 DEF NoneScored, GoOn
  <2>13. CASE PassBest(d)
    BY <2>13 DEF PassBest, GoOn
  <2>14. CASE OthersAgain(d)
    BY <2>14 DEF OthersAgain, GoOn
  <2> QED
    BY <2>1, <2>2, <2>3, <2>4, <2>5, <2>6, <2>7, <2>8, <2>9, <2>10, <2>11, <2>12, <2>13, <2>14
       DEF Searching, Step
<1> QED
  BY <1>0, <1>1

(* No step goes back to the beginning past a sub-queue with elements to see.*)
LEMMA NoneOverlooked == TaskInv /\ [TasksNext]_taskVars => OverlooksNothing
<1> SUFFICES ASSUME TaskInv, [TasksNext]_taskVars, NEW c \in Consumers,
                    at[c] \notin {"idle", "attempt"}, at'[c] = "attempt"
             PROVE  there[c] = {}
  BY DEF OverlooksNothing
<1>0. at \in [Consumers -> {"idle", "attempt", "score", "rest", "bulk",
                            "rotate", "current", "others", "advance"}]
      /\ at'[c] # at[c]
  BY DEF TaskInv, TasksTypeOK
<1>1. at' # at
  BY <1>0
<1>2. ~CountProducer /\ ~AddProducer /\ (\A p \in DOMAIN sizes : ~Enqueue(p) /\ ~Permit(p))
      /\ ~UNCHANGED taskVars
  BY <1>1 DEF CountProducer, AddProducer, Enqueue, Permit, taskVars
<1>3. PICK d \in Consumers : GetPermits(d) \/ Searching(d)
  BY <1>2 DEF TasksNext
<1>4. d = c
  BY <1>0, <1>3, OnlyOneMoves
<1>5. ~GetPermits(c)
  BY DEF GetPermits
<1> QED
  BY <1>3, <1>4, <1>5, FailsRightly

(* For any number of consumers and sub-queues, with tokens or without: a    *)
(* search that gives up has passed no sub-queue that had elements, and no   *)
(* other consumer to hide them, ever since it began                         *)
(* (concurrentqueue.h:1120-1123, 1178-1181, 1225-1229).                     *)
THEOREM OverlooksNone == TasksSpec => NothingOverlooked
<1> QED
  BY TasksInvariant, NoneOverlooked, PTL DEF TasksSpec, NothingOverlooked

(* Where tokens stand follows from their offsets.                           *)
LEMMA Spread == TaskInv => SpreadOut
<1> SUFFICES ASSUME TaskInv, NEW c \in Consumers, NEW d \in Consumers, Settled(c), Settled(d),
                    placedAmong[c] # 0, placedAmong[c] = placedAmong[d], desired[c] = desired[d]
             PROVE  Offset[c] % placedAmong[c] = Offset[d] % placedAmong[c]
  BY DEF SpreadOut
<1>1. PICK n \in Nat \ {0}, o \in Nat, a \in Int, b \in Int :
          /\ n = placedAmong[c] /\ o = globalOffset /\ a = Offset[c] /\ b = Offset[d]
  <2>1. TasksTypeOK
    BY DEF TaskInv
  <2>2. Last \in Nat
    BY <2>1, AsFunctions
  <2>3. placedAmong[c] \in 0..Last /\ globalOffset \in Nat
    BY <2>1 DEF TasksTypeOK, ListPlaces
  <2>4. Offset[c] \in Nat /\ Offset[d] \in Nat
    BY TaskQueueAssumption
  <2> QED
    BY <2>2, <2>3, <2>4
<1>2. desired[c] = 1 + ((a - 1 - o) % n) /\ desired[d] = 1 + ((b - 1 - o) % n)
  BY <1>1 DEF TaskInv, PlacedInv, Settled
<1>3. PICK x \in Int, y \in Int : x = a - 1 - o /\ y = b - 1 - o
  BY <1>1
<1>4. PICK p \in Int, r \in 0..(n - 1) : x = n * p + r /\ r = x % n
  BY IntDivMod
<1>5. PICK q \in Int, s \in 0..(n - 1) : y = n * q + s /\ s = y % n
  BY IntDivMod
<1>6. r = s
  <2>1. desired[c] = 1 + r /\ desired[d] = 1 + s
    BY <1>2, <1>3, <1>4, <1>5
  <2>2. r \in Int /\ s \in Int
    OBVIOUS
  <2>3. 1 + r = 1 + s
    BY <2>1, Zenon
  <2> QED
    BY <2>2, <2>3
<1>7. PICK m \in Int, t \in 0..(n - 1) : b = n * m + t /\ t = b % n
  BY IntDivMod
<1>8. a = n * (m + (p - q)) + t
  <2>1. PICK u \in Int, v \in Int, w \in Int : u = n * p /\ v = n * q /\ w = n * m
    OBVIOUS
  <2>2. a = w + (u - v) + t
    <3>1. x = u + r /\ y = v + r /\ b = w + t /\ r \in Int /\ t \in Int
      <4>1. x = n * p + r /\ y = n * q + r /\ b = n * m + t
        BY <1>4, <1>5, <1>6, <1>7, Zenon
      <4>2. r \in Int /\ t \in Int
        OBVIOUS
      <4> QED
        BY <4>1, <4>2, <2>1
    <3>2. a = x + 1 + o /\ b = y + 1 + o
      BY <1>3
    <3> QED
      BY <3>1, <3>2
  <2>3. n * (m + (p - q)) = w + (u - v)
    BY <2>1
  <2> QED
    BY <2>2, <2>3
<1>9. (n * (m + (p - q)) + t) % n = t
  BY IntModUnique, m + (p - q) \in Int
<1> QED
  BY <1>1, <1>7, <1>8, <1>9

(* For any number of tokens, offsets and rotations: tokens with different   *)
(* offsets stand at different sub-queues, if none was added between their   *)
(* placings (concurrentqueue.h:1185-1189, 1401-1424).                       *)
THEOREM TokensSpread == TasksSpec => []SpreadOut
<1> QED
  BY TasksInvariant, Spread, PTL

-----------------------------------------------------------------------------
(* The claims of consumers.                                                 *)
(*                                                                          *)
(* The counters of a sub-queue wrap; what they have counted since the start *)
(* does not.                                                                *)
Since(i) == Wrap(i - Start)

Claims == Since(headIndex)
CountedIn == Since(dequeueOptimisticCount)

(* What is in the hands of the consumers: claims that are sure, places that *)
(* are still looked at, places to give back; and what may at most still be  *)
(* given back.                                                              *)
SureOf == [c \in Takers |-> IF stage[c] \in {"claim", "giveback"} THEN wanted[c] ELSE 0]
LookOf == [c \in Takers |-> IF stage[c] = "actual" THEN wanted[c] ELSE 0]
BackOf == [c \in Takers |-> IF stage[c] = "giveback" THEN over[c] ELSE 0]

Asking == {"overcommit", "desire", "count", "actual", "giveback"}
RiskOf == [c \in Takers |-> IF stage[c] \in Asking THEN MaxCall ELSE 0]

(* What those look at who have counted themselves in before c.              *)
BeforeOf(c) ==
    [d \in Takers |-> IF stage[d] = "actual" /\ Since(seen[d]) < Since(seen[c]) THEN wanted[d] ELSE 0]

Total(f) == Cardinality(Units(f, MaxCall))

TakerInv(c) ==
    /\ stage[c] \in {"overcommit", "desire", "count", "actual", "claim"} => wanted[c] \in 1..MaxCall
    /\ stage[c] = "giveback" => wanted[c] \in 0..MaxCall /\ over[c] \in 0..MaxCall
    /\ stage[c] \in {"overcommit", "desire"} => seen[c] \in Index /\ Since(seen[c]) <= Sent
    /\ stage[c] \in {"desire", "count", "actual"} => over[c] \in 0..dequeueOvercommit
    /\ stage[c] = "actual" => seen[c] \in Index /\ Since(seen[c]) + wanted[c] <= CountedIn

(* The places of those who look at them follow each other.                  *)
InOrder ==
    \A c, d \in Takers :
        c # d /\ stage[c] = "actual" /\ stage[d] = "actual" =>
            \/ Since(seen[c]) + wanted[c] <= Since(seen[d])
            \/ Since(seen[d]) + wanted[d] <= Since(seen[c])

Reserved == Claims + Total(SureOf)

(* Who looks at its places comes behind all that is reserved and all that   *)
(* others look at who were before; or there is enough for all of them.      *)
LookInv(c) ==
    stage[c] = "actual" =>
        \/ Reserved + Total(BeforeOf(c)) + wanted[c] <= Sent
        \/ Reserved + Total(BeforeOf(c)) <= Since(seen[c]) - over[c]

(* A consumer alone in a queue with elements gets what it asks for.         *)
Most == MaxMissed + Cardinality(Takers) * MaxCall
Lone(c) ==
    /\ \A d \in Takers \ {c} : stage[d] = "idle"
    /\ stage[c] \in {"overcommit", "desire", "count", "actual"}
    /\ dequeueOvercommit <= Most
    /\ stage[c] \in {"overcommit", "desire"} => Since(seen[c]) > Claims
    /\ stage[c] \in {"desire", "count", "actual"} => over[c] = dequeueOvercommit
    /\ stage[c] \in {"count", "actual"} => wanted[c] <= Sent - Claims
    /\ stage[c] = "actual" => Since(seen[c]) = Claims + dequeueOvercommit

MissesInv == dequeueOvercommit + Total(RiskOf) <= Most \/ \E c \in Takers : Lone(c)

BalanceInv ==
    /\ Sent <= MaxSent /\ Reserved <= Sent
    /\ CountedIn = Claims + dequeueOvercommit + Total(SureOf) + Total(LookOf) + Total(BackOf)

ClaimTypes ==
    /\ tailIndex \in Index /\ headIndex \in Index
    /\ dequeueOptimisticCount \in Index /\ dequeueOvercommit \in Index
    /\ DOMAIN stage = Takers /\ DOMAIN wanted = Takers
    /\ DOMAIN seen = Takers /\ DOMAIN over = Takers

ClaimInv ==
    /\ ClaimTypes /\ BalanceInv /\ MissesInv /\ InOrder
    /\ \A c \in Takers : TakerInv(c) /\ LookInv(c)

(* The bounds as numbers.                                                   *)
Limit == MaxSent + Most + MaxCall
LEMMA Bounds ==
    /\ Width \in Nat \ {0} /\ Start \in Index /\ MaxCall \in Nat \ {0} /\ MaxSent \in Nat
    /\ MaxMissed \in Nat /\ IsFiniteSet(Takers) /\ Cardinality(Takers) \in Nat
    /\ Most \in Nat /\ Limit \in Nat /\ 2 * Limit < Width
    /\ Cardinality(Takers) * MaxCall \in Nat
<1>1. /\ Width \in Nat /\ Start \in Nat /\ Start < Width /\ MaxCall \in Nat \ {0} /\ MaxSent \in Nat
      /\ MaxMissed \in Nat /\ IsFiniteSet(Takers)
      /\ Width > 2 * (MaxSent + MaxMissed + (Cardinality(Takers) + 1) * MaxCall)
  BY ImplicitAssumption DEF ProducerAssumption
<1>2. PICK n \in Nat : n = Cardinality(Takers)
  BY <1>1, FS_CardinalityType
<1>3. (n + 1) * MaxCall = n * MaxCall + MaxCall /\ n * MaxCall \in Nat
  BY <1>1
<1>4. PICK m \in Nat : m = n * MaxCall
  BY <1>3
<1> QED
  BY <1>1, <1>2, <1>3, <1>4 DEF Most, Limit, Index

(* A number and a remainder that goes with it.                              *)
LEMMA WrapIs ==
    ASSUME NEW a \in Int PROVE Wrap(a) \in Index /\ \E q \in Int : a = Width * q + Wrap(a)
<1> QED
  BY Bounds, IntDivMod DEF Wrap, Index

LEMMA WrapUnique ==
    ASSUME NEW q \in Int, NEW r \in Index PROVE Wrap(Width * q + r) = r
<1> QED
  BY Bounds, IntModUnique DEF Wrap, Index

(* Numbers that are as far apart as Width some times wrap to the same.      *)
LEMMA WrapSame ==
    ASSUME NEW a \in Int, NEW b \in Int, NEW q \in Int, a = Width * q + b
    PROVE  Wrap(a) = Wrap(b)
<1>1. PICK p \in Int : b = Width * p + Wrap(b)
  BY WrapIs
<1>2. Wrap(b) \in Index
  BY WrapIs
<1>3. a = Width * (q + p) + Wrap(b)
  <2>1. PICK u \in Int, v \in Int, r \in Int : u = Width * q /\ v = Width * p /\ r = Wrap(b)
    BY <1>2, Bounds DEF Index
  <2>2. Width * (q + p) = u + v
    BY <2>1, Bounds
  <2>3. a = u + (v + r)
    BY <1>1, <2>1
  <2> QED
    BY <2>1, <2>2, <2>3
<1> QED
  BY <1>2, <1>3, WrapUnique, q + p \in Int

(* Small numbers do not wrap.                                               *)
LEMMA WrapSmall == ASSUME NEW r \in Index PROVE Wrap(r) = r
<1>1. Width * 0 + r = r
  BY Bounds DEF Index
<1> QED
  BY <1>1, WrapUnique, 0 \in Int

(* What was counted is an index less where the indices start, up to Width.  *)
LEMMA SinceIs ==
    ASSUME NEW x \in Index
    PROVE  Since(x) \in Index /\ \E q \in Int : x - Start = Width * q + Since(x)
<1>1. x - Start \in Int
  BY Bounds DEF Index
<1> QED
  BY <1>1, WrapIs DEF Since

(* A counter goes on.                                                       *)
LEMMA SinceMoves ==
    ASSUME NEW x \in Index, NEW k \in Nat, Since(x) + k < Width
    PROVE  Wrap(x + k) \in Index /\ Since(Wrap(x + k)) = Since(x) + k
<1>1. PICK q \in Int : x - Start = Width * q + Since(x)
  BY SinceIs
<1>2. x + k \in Int /\ Since(x) \in Index /\ Since(x) + k \in Index
  BY SinceIs, Bounds DEF Index
<1>3. PICK p \in Int : x + k = Width * p + Wrap(x + k)
  BY <1>2, WrapIs
<1>4. Wrap(x + k) \in Index
  BY <1>2, WrapIs
<1>5. Wrap(x + k) - Start = Width * (q - p) + (Since(x) + k)
  <2>1. PICK u \in Int, v \in Int, r \in Int, s \in Int :
            u = Width * q /\ v = Width * p /\ r = Wrap(x + k) /\ s = Since(x)
    BY <1>2, <1>4, Bounds DEF Index
  <2>2. Width * (q - p) = u - v
    BY <2>1, Bounds
  <2>3. x - Start = u + s /\ x + k = v + r
    BY <1>1, <1>3, <2>1
  <2>4. r - Start = (u - v) + (s + k)
    BY <2>3, Bounds DEF Index
  <2> QED
    BY <2>1, <2>2, <2>4
<1>6. Wrap(Wrap(x + k) - Start) = Wrap(Since(x) + k)
  <2>1. PICK a \in Int, b \in Int, m \in Int : a = Wrap(x + k) - Start /\ b = Since(x) + k /\ m = q - p
    BY <1>2, <1>4, Bounds DEF Index
  <2>2. a = Width * m + b
    BY <1>5, <2>1
  <2>3. Wrap(a) = Wrap(b)
    BY <2>2, WrapSame
  <2> QED
    BY <2>1, <2>3
<1> QED
  BY <1>2, <1>4, <1>6, WrapSmall DEF Since

(* Two counters are as far apart as what they have counted.                 *)
LEMMA SinceApart ==
    ASSUME NEW x \in Index, NEW y \in Index, NEW z \in Int
    PROVE  Wrap(x - (y - z)) = Wrap(Since(x) - (Since(y) - z))
<1>1. PICK p \in Int, q \in Int : x - Start = Width * p + Since(x) /\ y - Start = Width * q + Since(y)
  BY SinceIs
<1>2. PICK u \in Int, v \in Int, s \in Int, t \in Int :
          u = Width * p /\ v = Width * q /\ s = Since(x) /\ t = Since(y)
  BY SinceIs, Bounds DEF Index
<1>3. Width * (p - q) = u - v
  BY <1>2, Bounds
<1>4. x - Start = u + s /\ y - Start = v + t
  BY <1>1, <1>2
<1>5. x - (y - z) = (u - v) + (s - (t - z))
  BY <1>4, Bounds DEF Index
<1>6. PICK a \in Int, b \in Int, m \in Int : a = x - (y - z) /\ b = s - (t - z) /\ m = p - q
  BY Bounds DEF Index
<1>7. a = Width * m + b
  BY <1>3, <1>5, <1>6
<1>8. Wrap(a) = Wrap(b)
  BY <1>7, WrapSame
<1> QED
  BY <1>2, <1>6, <1>8

(* What the comparison says of numbers that are small.                      *)
LEMMA LessIs ==
    ASSUME NEW e \in Int, 2 * e < Width, -2 * e < Width
    PROVE  /\ Less(0, Wrap(e)) <=> e > 0
           /\ e >= 0 => Wrap(e) = e
           /\ Signed(e) = e
<1>1. CASE e >= 0
  <2>1. e \in Index /\ Wrap(e) = e
    BY <1>1, WrapSmall, Bounds DEF Index
  <2>2. CASE e = 0
    <3>1. Wrap(0 - 0) = 0
      BY <2>1, <2>2
    <3> QED
      BY <2>1, <2>2, <3>1, Bounds DEF Less, Signed
  <2>3. CASE e > 0
    <3>1. Width * (-1) + (Width - e) = 0 - e /\ Width - e \in Index
      BY <2>3, Bounds DEF Index
    <3>2. Wrap(0 - e) = Width - e
      BY <3>1, WrapUnique, -1 \in Int
    <3> QED
      BY <2>1, <2>3, <3>2, Bounds DEF Less, Signed
  <2> QED
    BY <1>1, <2>2, <2>3
<1>2. CASE e < 0
  <2>1. Width * (-1) + (Width + e) = e /\ Width + e \in Index
    BY <1>2, Bounds DEF Index
  <2>2. Wrap(e) = Width + e
    BY <2>1, WrapUnique, -1 \in Int
  <2>3. Width * (-1) + (-e) = 0 - (Width + e) /\ -e \in Index
    BY <1>2, Bounds DEF Index
  <2>4. Wrap(0 - (Width + e)) = -e
    BY <2>3, WrapUnique, -1 \in Int
  <2> QED
    BY <1>2, <2>2, <2>4, Bounds DEF Less, Signed
<1> QED
  BY <1>1, <1>2
-----------------------------------------------------------------------------
(* f says how many places each consumer has.                                *)
Counts(f) == DOMAIN f = Takers /\ \A d \in Takers : f[d] \in 0..MaxCall

LEMMA TotalNat == ASSUME NEW f, Counts(f) PROVE Total(f) \in Nat /\ IsFiniteSet(Units(f, MaxCall))
<1> QED
  BY UnitsFinite, Bounds DEF Counts, Total

(* One consumer has more places or fewer.                                   *)
LEMMA TotalOne ==
    ASSUME NEW f, NEW g, Counts(f), Counts(g), NEW c \in Takers, \A d \in Takers \ {c} : g[d] = f[d]
    PROVE  Total(g) = Total(f) + (g[c] - f[c])
<1>1. Changed(f, g, c, g[c], MaxCall)
  BY Bounds DEF Changed, Counts
<1>2. Cardinality(Units(g, MaxCall)) = Cardinality(Units(f, MaxCall)) + (g[c] - f[c])
  BY <1>1, UnitsSet
<1> QED
  BY <1>2 DEF Total

(* Nobody has more places.                                                  *)
LEMMA TotalLess ==
    ASSUME NEW f, NEW g, Counts(f), Counts(g), \A d \in Takers : f[d] <= g[d]
    PROVE  Total(f) <= Total(g)
<1>1. Units(f, MaxCall) \subseteq Units(g, MaxCall)
  <2> SUFFICES ASSUME NEW xi \in Units(f, MaxCall) PROVE xi \in Units(g, MaxCall)
    OBVIOUS
  <2>1. PICK d \in Takers, i \in 1..MaxCall : xi = <<d, i>> /\ i <= f[d]
    BY DEF Units, Counts
  <2>2. i <= g[d]
    BY <2>1, Bounds DEF Counts
  <2> QED
    BY <2>1, <2>2 DEF Units, Counts
<1> QED
  BY <1>1, TotalNat, FS_Subset DEF Total

(* All places there can be.                                                 *)
LEMMA TotalMost ==
    ASSUME NEW f, Counts(f) PROVE Total(f) <= Cardinality(Takers) * MaxCall
<1>1. IsFiniteSet(1..MaxCall) /\ Cardinality(1..MaxCall) = MaxCall
  BY Bounds, FS_Interval
<1>2. /\ IsFiniteSet(Takers \X (1..MaxCall))
      /\ Cardinality(Takers \X (1..MaxCall)) = Cardinality(Takers) * Cardinality(1..MaxCall)
  BY <1>1, Bounds, FS_Product
<1>3. Units(f, MaxCall) \subseteq Takers \X (1..MaxCall)
  BY DEF Units, Counts
<1> QED
  BY <1>1, <1>2, <1>3, FS_Subset DEF Total

(* Only one has places.                                                     *)
LEMMA TotalOnly ==
    ASSUME NEW f, Counts(f), NEW c \in Takers, \A d \in Takers \ {c} : f[d] = 0
    PROVE  Total(f) = f[c]
<1>1. PICK z : z = [d \in Takers |-> 0]
  OBVIOUS
<1>2. Counts(z) /\ \A d \in Takers : z[d] = 0
  BY <1>1, Bounds DEF Counts
<1>3. Total(z) = 0
  BY <1>2, UnitsNone, Bounds DEF Counts, Total
<1>4. Total(f) = Total(z) + (f[c] - z[c])
  BY <1>2, TotalOne
<1> QED
  BY <1>2, <1>3, <1>4 DEF Counts

(* Nobody has any.                                                          *)
LEMMA TotalNone == ASSUME NEW f, DOMAIN f = Takers, \A d \in Takers : f[d] = 0 PROVE Total(f) = 0
<1> QED
  BY UnitsNone, Bounds DEF Total

(* Those who have the ones have none of the others.                         *)
LEMMA TotalTwo ==
    ASSUME NEW f, NEW g, NEW h, Counts(f), Counts(g), Counts(h),
           \A d \in Takers : (f[d] = 0 \/ g[d] = 0) /\ f[d] <= h[d] /\ g[d] <= h[d]
    PROVE  Total(f) + Total(g) <= Total(h)
<1>1. \A d \in Takers, i \in 1..MaxCall :
          /\ <<d, i>> \in Units(f, MaxCall) <=> i <= f[d]
          /\ <<d, i>> \in Units(g, MaxCall) <=> i <= g[d]
          /\ <<d, i>> \in Units(h, MaxCall) <=> i <= h[d]
  BY DEF Units, Counts
<1>2. /\ Units(f, MaxCall) \subseteq Takers \X (1..MaxCall)
      /\ Units(g, MaxCall) \subseteq Takers \X (1..MaxCall)
  BY DEF Units, Counts
<1>3. \A d \in Takers, i \in 1..MaxCall :
          /\ i <= f[d] => i <= h[d] /\ ~(i <= g[d])
          /\ i <= g[d] => i <= h[d]
  BY Bounds DEF Counts
<1>4. Units(f, MaxCall) \cap Units(g, MaxCall) = {}
  BY <1>1, <1>2, <1>3
<1>5. Units(f, MaxCall) \cup Units(g, MaxCall) \subseteq Units(h, MaxCall)
  BY <1>1, <1>2, <1>3
<1>6. /\ IsFiniteSet(Units(f, MaxCall)) /\ IsFiniteSet(Units(g, MaxCall)) /\ IsFiniteSet(Units(h, MaxCall))
      /\ Total(f) \in Nat /\ Total(g) \in Nat /\ Total(h) \in Nat
  BY TotalNat
<1>7. Cardinality(Units(f, MaxCall) \cup Units(g, MaxCall)) = Total(f) + Total(g)
  <2>1. PICK F, G : F = Units(f, MaxCall) /\ G = Units(g, MaxCall)
    OBVIOUS
  <2>2. IsFiniteSet(F) /\ IsFiniteSet(G) /\ F \cap G = {}
    BY <2>1, <1>4, <1>6
  <2>3. Cardinality(F \cup G) = Cardinality(F) + Cardinality(G) - Cardinality(F \cap G)
    BY <2>2, FS_Union
  <2>4. Cardinality(F \cap G) = 0
    BY <2>2, FS_EmptySet
  <2>5. Cardinality(F) \in Nat /\ Cardinality(G) \in Nat
    BY <2>2, FS_CardinalityType
  <2> QED
    BY <2>1, <2>3, <2>4, <2>5 DEF Total
<1>8. Cardinality(Units(f, MaxCall) \cup Units(g, MaxCall)) <= Cardinality(Units(h, MaxCall))
  BY <1>5, <1>6, FS_Subset
<1> QED
  BY <1>7, <1>8 DEF Total

(* What the consumers have is counted.                                      *)
Counting == \A c \in Takers : TakerInv(c)
LEMMA AllCount ==
    ASSUME Counting
    PROVE  /\ Counts(SureOf) /\ Counts(LookOf) /\ Counts(BackOf) /\ Counts(RiskOf)
           /\ \A c \in Takers : Counts(BeforeOf(c))
<1>1. ASSUME NEW c \in Takers
      PROVE  /\ SureOf[c] \in 0..MaxCall /\ LookOf[c] \in 0..MaxCall
             /\ BackOf[c] \in 0..MaxCall /\ RiskOf[c] \in 0..MaxCall
  BY Bounds DEF Counting, TakerInv, SureOf, LookOf, BackOf, RiskOf
<1>2. ASSUME NEW c \in Takers, NEW d \in Takers PROVE BeforeOf(c)[d] \in 0..MaxCall
  BY Bounds DEF Counting, TakerInv, BeforeOf
<1>3. /\ DOMAIN SureOf = Takers /\ DOMAIN LookOf = Takers /\ DOMAIN BackOf = Takers /\ DOMAIN RiskOf = Takers
      /\ \A c \in Takers : DOMAIN BeforeOf(c) = Takers
  BY DEF SureOf, LookOf, BackOf, RiskOf, BeforeOf
<1> QED
  BY <1>1, <1>2, <1>3 DEF Counts

(* The counters as they are without a wrap, and what they can reach.        *)
LEMMA InRange ==
    ASSUME ClaimInv
    PROVE  /\ Counting
           /\ Sent \in 0..MaxSent /\ Claims \in 0..Sent /\ CountedIn \in 0..Limit /\ dequeueOvercommit \in 0..Limit
           /\ Total(SureOf) \in Nat /\ Total(LookOf) \in Nat /\ Total(BackOf) \in Nat /\ Total(RiskOf) \in Nat
           /\ \A c \in Takers : Total(BeforeOf(c)) \in Nat
           /\ dequeueOvercommit + Total(RiskOf) <= Most + MaxCall
           /\ Total(LookOf) + Total(BackOf) <= Total(RiskOf)
<1>1. Counting /\ ClaimTypes /\ BalanceInv /\ MissesInv
  BY DEF ClaimInv, Counting
<1>2. /\ Counts(SureOf) /\ Counts(LookOf) /\ Counts(BackOf) /\ Counts(RiskOf)
      /\ \A c \in Takers : Counts(BeforeOf(c))
  BY <1>1, AllCount
<1>3. /\ Total(SureOf) \in Nat /\ Total(LookOf) \in Nat /\ Total(BackOf) \in Nat /\ Total(RiskOf) \in Nat
      /\ \A c \in Takers : Total(BeforeOf(c)) \in Nat
  BY <1>2, TotalNat
<1>4. Total(LookOf) + Total(BackOf) <= Total(RiskOf)
  <2>1. \A d \in Takers : /\ LookOf[d] = 0 \/ BackOf[d] = 0
                          /\ LookOf[d] <= RiskOf[d] /\ BackOf[d] <= RiskOf[d]
    <3> SUFFICES ASSUME NEW d \in Takers
                 PROVE  /\ LookOf[d] = 0 \/ BackOf[d] = 0
                        /\ LookOf[d] <= RiskOf[d] /\ BackOf[d] <= RiskOf[d]
      OBVIOUS
    <3>1. /\ LookOf[d] = IF stage[d] = "actual" THEN wanted[d] ELSE 0
          /\ BackOf[d] = IF stage[d] = "giveback" THEN over[d] ELSE 0
          /\ RiskOf[d] = IF stage[d] \in Asking THEN MaxCall ELSE 0
      BY DEF LookOf, BackOf, RiskOf
    <3>2. TakerInv(d)
      BY <1>1 DEF Counting
    <3> QED
      BY <3>1, <3>2, Bounds DEF TakerInv, Asking
  <2> QED
    BY <2>1, <1>2, TotalTwo
<1>5. dequeueOvercommit \in Nat /\ dequeueOvercommit + Total(RiskOf) <= Most + MaxCall
  <2>1. dequeueOvercommit \in Nat
    BY <1>1, Bounds DEF ClaimTypes, Index
  <2>2. CASE dequeueOvercommit + Total(RiskOf) <= Most
    BY <2>1, <2>2, <1>3, Bounds
  <2>3. ASSUME NEW c \in Takers, Lone(c) PROVE dequeueOvercommit + Total(RiskOf) <= Most + MaxCall
    <3>1. \A d \in Takers \ {c} : RiskOf[d] = 0
      BY <2>3 DEF Lone, RiskOf, Asking
    <3>2. Total(RiskOf) = RiskOf[c] /\ RiskOf[c] <= MaxCall
      BY <3>1, <1>2, TotalOnly, Bounds DEF Counts
    <3> QED
      BY <3>2, <2>1, <2>3, <1>3, Bounds DEF Lone
  <2> QED
    BY <2>1, <2>2, <2>3, <1>1 DEF MissesInv
<1>6. Sent \in Nat /\ Claims \in Nat /\ CountedIn \in Nat
  <2>1. tailIndex \in Index /\ headIndex \in Index /\ dequeueOptimisticCount \in Index
    BY <1>1 DEF ClaimTypes
  <2>2. Since(tailIndex) \in Nat /\ Since(headIndex) \in Nat /\ Since(dequeueOptimisticCount) \in Nat
    BY <2>1, SinceIs, Bounds DEF Index
  <2> QED
    BY <2>2 DEF Sent, Claims, CountedIn, Since
<1>7. PICK t \in Nat, h \in Nat, o \in Nat, v \in Nat, s \in Nat, l \in Nat, b \in Nat, r \in Nat :
          /\ t = Sent /\ h = Claims /\ o = CountedIn /\ v = dequeueOvercommit
          /\ s = Total(SureOf) /\ l = Total(LookOf) /\ b = Total(BackOf) /\ r = Total(RiskOf)
  BY <1>3, <1>5, <1>6
<1>8. t <= MaxSent /\ h + s <= t /\ o = h + v + s + l + b /\ v + r <= Most + MaxCall /\ l + b <= r
  BY <1>1, <1>4, <1>5, <1>7 DEF BalanceInv, Reserved
<1>9. Limit = MaxSent + Most + MaxCall /\ MaxSent \in Nat /\ Most \in Nat /\ MaxCall \in Nat
  BY Bounds DEF Limit
<1>10. t \in 0..MaxSent /\ h \in 0..t /\ o \in 0..Limit /\ v \in 0..Limit
  BY <1>8, <1>9
<1> QED
  BY <1>1, <1>3, <1>4, <1>5, <1>7, <1>10

(* One consumer's places are among all.                                     *)
LEMMA TotalAtLeast == ASSUME NEW f, Counts(f), NEW c \in Takers PROVE f[c] <= Total(f)
<1>1. PICK g : g = [f EXCEPT ![c] = 0]
  OBVIOUS
<1>2. Counts(g) /\ g[c] = 0 /\ \A d \in Takers \ {c} : g[d] = f[d]
  BY <1>1, Bounds DEF Counts
<1>3. Total(g) = Total(f) + (g[c] - f[c])
  BY <1>2, TotalOne
<1> QED
  BY <1>2, <1>3, TotalNat DEF Counts

-----------------------------------------------------------------------------
(* A step moves no consumer but c.                                          *)
Others(c) ==
    /\ DOMAIN stage' = Takers /\ DOMAIN wanted' = Takers /\ DOMAIN seen' = Takers /\ DOMAIN over' = Takers
    /\ \A d \in Takers \ {c} : /\ stage'[d] = stage[d] /\ wanted'[d] = wanted[d]
                               /\ seen'[d] = seen[d] /\ over'[d] = over[d]

(* The others keep what holds of them, for counters only grow.              *)
LEMMA TakersKept ==
    ASSUME ClaimInv, NEW c \in Takers, Others(c), TakerInv(c)', ClaimTypes',
           Sent <= Sent', CountedIn <= CountedIn', dequeueOvercommit <= dequeueOvercommit'
    PROVE  Counting'
<1> SUFFICES ASSUME NEW d \in Takers PROVE TakerInv(d)'
  BY DEF Counting
<1>1. CASE d = c
  BY <1>1
<1>2. CASE d # c
  <2>1. TakerInv(d) /\ stage'[d] = stage[d] /\ wanted'[d] = wanted[d] /\ seen'[d] = seen[d] /\ over'[d] = over[d]
    BY <1>2 DEF ClaimInv, Others
  <2>2. Sent \in Nat /\ CountedIn \in Nat /\ dequeueOvercommit \in Nat
    BY InRange, Bounds
  <2>3. Sent' \in Nat /\ CountedIn' \in Nat /\ dequeueOvercommit' \in Nat
    BY SinceIs, Bounds DEF ClaimTypes, Sent, CountedIn, Since, Index
  <2>4. seen[d] \in Index => Since(seen[d]) \in Nat
    BY SinceIs, Bounds DEF Index
  <2>5. Since(seen[d])' = Since(seen[d])
    BY <2>1 DEF Since, Wrap
  <2> QED
    BY <2>1, <2>2, <2>3, <2>4, <2>5, Bounds DEF TakerInv
<1> QED
  BY <1>1, <1>2

(* What there is of each kind changes by what c has of it.                  *)
LEMMA TotalsMove ==
    ASSUME Counting, Counting', NEW c \in Takers, Others(c)
    PROVE  /\ Total(SureOf)' = Total(SureOf) + (SureOf'[c] - SureOf[c])
           /\ Total(LookOf)' = Total(LookOf) + (LookOf'[c] - LookOf[c])
           /\ Total(BackOf)' = Total(BackOf) + (BackOf'[c] - BackOf[c])
           /\ Total(RiskOf)' = Total(RiskOf) + (RiskOf'[c] - RiskOf[c])
<1>1. /\ Counts(SureOf) /\ Counts(LookOf) /\ Counts(BackOf) /\ Counts(RiskOf)
  BY AllCount
<1>2. /\ Counts(SureOf') /\ Counts(LookOf') /\ Counts(BackOf') /\ Counts(RiskOf')
  <2>1. /\ SureOf'[c] = SureOf'[c]
    OBVIOUS
  <2>2. \A d \in Takers :
            /\ SureOf'[d] \in 0..MaxCall /\ LookOf'[d] \in 0..MaxCall
            /\ BackOf'[d] \in 0..MaxCall /\ RiskOf'[d] \in 0..MaxCall
    BY Bounds DEF Counting, TakerInv, SureOf, LookOf, BackOf, RiskOf
  <2>3. DOMAIN (SureOf') = Takers /\ DOMAIN (LookOf') = Takers /\ DOMAIN (BackOf') = Takers
        /\ DOMAIN (RiskOf') = Takers
    BY DEF SureOf, LookOf, BackOf, RiskOf
  <2> QED
    BY <2>2, <2>3 DEF Counts
<1>3. \A d \in Takers \ {c} :
          /\ SureOf'[d] = SureOf[d] /\ LookOf'[d] = LookOf[d]
          /\ BackOf'[d] = BackOf[d] /\ RiskOf'[d] = RiskOf[d]
  BY DEF Others, SureOf, LookOf, BackOf, RiskOf
<1>4. /\ Total(SureOf)' = Total(SureOf') /\ Total(LookOf)' = Total(LookOf')
      /\ Total(BackOf)' = Total(BackOf') /\ Total(RiskOf)' = Total(RiskOf')
  BY DEF Total, Units
<1> QED
  BY <1>1, <1>2, <1>3, <1>4, TotalOne

(* Who goes on stays within what may be missed.                             *)
LEMMA MissesKept ==
    ASSUME ClaimInv, Counting', NEW c \in Takers, Others(c), stage[c] # "idle", dequeueOvercommit' \in Nat,
           dequeueOvercommit' + RiskOf'[c] <= dequeueOvercommit + RiskOf[c],
           Lone(c) => Lone(c)' \/ (RiskOf'[c] = 0 /\ dequeueOvercommit' = dequeueOvercommit)
    PROVE  MissesInv'
<1>1. Counting /\ MissesInv
  BY DEF ClaimInv, Counting
<1>2. Total(RiskOf)' = Total(RiskOf) + (RiskOf'[c] - RiskOf[c])
  BY <1>1, TotalsMove
<1>3. /\ Counts(RiskOf) /\ RiskOf[c] \in Nat /\ Total(RiskOf) \in Nat /\ dequeueOvercommit \in Nat
  BY <1>1, AllCount, InRange, Bounds DEF Counts
<1>4. RiskOf'[c] \in Nat /\ Most \in Nat
  BY Bounds DEF RiskOf
<1>5. CASE dequeueOvercommit + Total(RiskOf) <= Most
  <2>1. dequeueOvercommit' + Total(RiskOf)' <= Most
    BY <1>2, <1>3, <1>4, <1>5
  <2> QED
    BY <2>1 DEF MissesInv, Most
<1>6. ASSUME NEW e \in Takers, Lone(e) PROVE MissesInv'
  <2>1. e = c
    BY <1>6 DEF Lone
  <2>2. CASE Lone(c)'
    BY <2>2 DEF MissesInv
  <2>3. CASE RiskOf'[c] = 0 /\ dequeueOvercommit' = dequeueOvercommit
    <3>1. \A d \in Takers \ {c} : RiskOf[d] = 0
      BY <1>6, <2>1 DEF Lone, RiskOf, Asking
    <3>2. Total(RiskOf) = RiskOf[c]
      BY <3>1, <1>3, TotalOnly
    <3>3. dequeueOvercommit' + Total(RiskOf)' <= Most
      BY <3>2, <2>1, <2>3, <1>2, <1>3, <1>4, <1>6 DEF Lone
    <3> QED
      BY <3>3 DEF MissesInv, Most
  <2> QED
    BY <2>1, <2>2, <2>3, <1>6
<1> QED
  BY <1>1, <1>5, <1>6 DEF MissesInv

(* A step of a consumer that is not looking, before or after it.            *)
LEMMA QuietStep ==
    ASSUME ClaimInv, NEW c \in Takers, Others(c), stage[c] # "actual", stage'[c] # "actual",
           ClaimTypes', TakerInv(c)', MissesInv', Sent' = Sent, CountedIn' = CountedIn,
           dequeueOvercommit' - dequeueOvercommit = BackOf[c] - BackOf'[c], dequeueOvercommit <= dequeueOvercommit',
           Claims' - Claims = SureOf[c] - SureOf'[c]
    PROVE  ClaimInv'
<1>1. Sent \in Nat /\ CountedIn \in Nat /\ Claims \in Nat /\ dequeueOvercommit \in Nat /\ Counting
      /\ Total(SureOf) \in Nat /\ Total(LookOf) \in Nat /\ Total(BackOf) \in Nat
  BY InRange, Bounds
<1>2. Counting'
  BY <1>1, TakersKept
<1>3. /\ Total(SureOf)' = Total(SureOf) + (SureOf'[c] - SureOf[c])
      /\ Total(LookOf)' = Total(LookOf) + (LookOf'[c] - LookOf[c])
      /\ Total(BackOf)' = Total(BackOf) + (BackOf'[c] - BackOf[c])
  BY <1>1, <1>2, TotalsMove
<1>4. LookOf[c] = 0 /\ LookOf'[c] = 0
  BY DEF LookOf
<1>5. SureOf[c] \in Nat /\ SureOf'[c] \in Nat /\ BackOf[c] \in Nat /\ BackOf'[c] \in Nat
  BY <1>1, <1>2, Bounds DEF Counting, TakerInv, SureOf, BackOf
<1>6. Claims' \in Nat /\ dequeueOvercommit' \in Nat
  BY SinceIs, Bounds DEF ClaimTypes, Claims, Index
<1>7. Reserved' = Reserved
  BY <1>1, <1>3, <1>5, <1>6 DEF Reserved
<1>8. BalanceInv'
  <2>1. /\ Sent <= MaxSent /\ Reserved <= Sent
        /\ CountedIn = Claims + dequeueOvercommit + Total(SureOf) + Total(LookOf) + Total(BackOf)
    BY DEF ClaimInv, BalanceInv
  <2>2. CountedIn' = Claims' + dequeueOvercommit' + Total(SureOf)' + Total(LookOf)' + Total(BackOf)'
    BY <2>1, <1>1, <1>3, <1>4, <1>5, <1>6
  <2> QED
    BY <2>1, <2>2, <1>7 DEF BalanceInv
<1>9. \A d \in Takers \ {c} : BeforeOf(d)' = BeforeOf(d)
  <2> SUFFICES ASSUME NEW d \in Takers \ {c} PROVE BeforeOf(d)' = BeforeOf(d)
    OBVIOUS
  <2>1. \A e \in Takers : BeforeOf(d)'[e] = BeforeOf(d)[e]
    BY DEF Others, BeforeOf, Since, Wrap
  <2> QED
    BY <2>1 DEF BeforeOf
<1>10. ASSUME NEW d \in Takers PROVE LookInv(d)'
  <2>1. CASE d = c
    BY <2>1 DEF LookInv
  <2>2. CASE d # c
    <3>1. LookInv(d) /\ stage'[d] = stage[d] /\ wanted'[d] = wanted[d] /\ seen'[d] = seen[d] /\ over'[d] = over[d]
      BY <2>2 DEF ClaimInv, Others
    <3>2. Total(BeforeOf(d))' = Total(BeforeOf(d))
      <4>1. BeforeOf(d)' = BeforeOf(d)
        BY <1>9, <2>2
      <4>2. Total(BeforeOf(d))' = Total(BeforeOf(d)')
        BY DEF Total, Units
      <4> QED
        BY <4>1, <4>2
    <3>3. Since(seen[d])' = Since(seen[d])
      BY <3>1 DEF Since, Wrap
    <3> QED
      BY <3>1, <3>2, <3>3, <1>7 DEF LookInv
  <2> QED
    BY <2>1, <2>2
<1>11. InOrder'
  <2> SUFFICES ASSUME NEW d \in Takers, NEW e \in Takers, d # e, stage'[d] = "actual", stage'[e] = "actual"
               PROVE  \/ Since(seen'[d]) + wanted'[d] <= Since(seen'[e])
                      \/ Since(seen'[e]) + wanted'[e] <= Since(seen'[d])
    BY DEF InOrder, Since, Wrap
  <2>1. d # c /\ e # c
    OBVIOUS
  <2> QED
    BY <2>1 DEF ClaimInv, InOrder, Others
<1> QED
  BY <1>2, <1>8, <1>10, <1>11 DEF ClaimInv, Counting

(* A consumer that goes on alone leaves the counters as they are.           *)
SameCounters ==
    UNCHANGED <<tailIndex, headIndex, dequeueOptimisticCount, dequeueOvercommit>>

LEMMA SameCountersAre ==
    ASSUME SameCounters
    PROVE  Sent' = Sent /\ Claims' = Claims /\ CountedIn' = CountedIn /\ dequeueOvercommit' = dequeueOvercommit
           /\ headIndex' = headIndex
BY DEF SameCounters, Sent, Claims, CountedIn, Since, Wrap

(* Elements are there when the size says so.                                *)
LEMMA SizeIs == ASSUME ClaimInv, Size > 0 PROVE Claims < Sent
<1>1. /\ tailIndex \in Index /\ headIndex \in Index /\ Sent \in 0..MaxSent /\ Claims \in 0..Sent
  BY InRange DEF ClaimInv, ClaimTypes
<1>2. CASE Claims = Sent
  <2>1. Wrap(headIndex - (tailIndex - 0)) = Wrap(Claims - (Sent - 0))
    BY <1>1, SinceApart DEF Claims, Sent, Since
  <2>2. Wrap(0) = 0
    BY WrapSmall, Bounds DEF Index
  <2>3. headIndex - (tailIndex - 0) = headIndex - tailIndex /\ Claims - (Sent - 0) = 0
    BY <1>1, <1>2, Bounds DEF Index
  <2>4. ~Less(headIndex, tailIndex)
    BY <2>1, <2>2, <2>3, Bounds DEF Less
  <2> QED
    BY <2>4 DEF Size
<1> QED
  BY <1>1, <1>2, Bounds

LEMMA CallStep == ASSUME ClaimInv, NEW c \in Takers, Call(c) PROVE ClaimInv'
<1>1. /\ stage[c] = "idle" /\ stage' = [stage EXCEPT ![c] = "overcommit"]
      /\ seen' = [seen EXCEPT ![c] = tailIndex] /\ over' = over /\ SameCounters
      /\ \/ dequeueOvercommit < MaxMissed
         \/ Size > 0 /\ \A d \in Takers : stage[d] = "idle"
  BY DEF Call, Move, SameCounters
<1>2. PICK max \in 1..MaxCall : wanted' = [wanted EXCEPT ![c] = max]
  BY DEF Call
<1>3. ClaimTypes /\ Counting /\ Sent \in 0..MaxSent /\ Claims \in 0..Sent /\ dequeueOvercommit \in Nat
  BY InRange, Bounds DEF ClaimInv
<1>4. Others(c) /\ stage'[c] = "overcommit" /\ wanted'[c] = max /\ seen'[c] = tailIndex
  BY <1>1, <1>2, <1>3 DEF Others, ClaimTypes
<1>5. Sent' = Sent /\ Claims' = Claims /\ CountedIn' = CountedIn /\ dequeueOvercommit' = dequeueOvercommit
  BY <1>1, SameCountersAre
<1>6. Since(seen[c])' = Sent
  BY <1>4 DEF Since, Wrap, Sent
<1>7. ClaimTypes'
  BY <1>1, <1>2, <1>3 DEF ClaimTypes, SameCounters
<1>8. TakerInv(c)'
  BY <1>2, <1>3, <1>4, <1>5, <1>6 DEF TakerInv, ClaimTypes
<1>9. MissesInv'
  <2>1. CASE dequeueOvercommit < MaxMissed
    <3>1. Counting'
      BY <1>3, <1>4, <1>5, <1>7, <1>8, InRange, TakersKept, Bounds
    <3>2. Counts(RiskOf)'
      BY <3>1, AllCount, PTL
    <3>3. PICK r : r = RiskOf'
      OBVIOUS
    <3>4. Counts(r)
      BY <3>2, <3>3 DEF Counts
    <3>5. Total(r) <= Cardinality(Takers) * MaxCall /\ Total(r) \in Nat
      BY <3>4, TotalMost, TotalNat
    <3>6. Total(RiskOf)' = Total(r)
      BY <3>3 DEF Total, Units
    <3>7. dequeueOvercommit' + Total(RiskOf)' <= Most
      BY <2>1, <3>5, <3>6, <1>3, <1>5, Bounds DEF Most
    <3> QED
      BY <3>7 DEF MissesInv, Most
  <2>2. CASE Size > 0 /\ \A d \in Takers : stage[d] = "idle"
    <3>1. Claims < Sent
      BY <2>2, SizeIs
    <3>2. dequeueOvercommit + Total(RiskOf) <= Most
      BY <2>2 DEF ClaimInv, MissesInv, Lone
    <3>3. dequeueOvercommit <= Most
      BY <3>2, <1>3, InRange, Bounds
    <3>4. \A d \in Takers \ {c} : stage'[d] = "idle"
      BY <2>2, <1>4 DEF Others
    <3>5. Since(seen[c])' > Claims'
      BY <3>1, <1>5, <1>6
    <3>6. Lone(c)'
      BY <3>3, <3>4, <3>5, <1>4, <1>5 DEF Lone, Most
    <3> QED
      BY <3>6 DEF MissesInv
  <2> QED
    BY <1>1, <2>1, <2>2
<1>10. SureOf[c] = 0 /\ SureOf'[c] = 0 /\ BackOf[c] = 0 /\ BackOf'[c] = 0
  BY <1>1, <1>4 DEF SureOf, BackOf
<1> QED
  BY <1>1, <1>3, <1>4, <1>5, <1>7, <1>8, <1>9, <1>10, InRange, QuietStep, Bounds

LEMMA LoadStep == ASSUME ClaimInv, NEW c \in Takers, LoadOvercommit(c) PROVE ClaimInv'
<1>1. /\ stage[c] = "overcommit" /\ stage' = [stage EXCEPT ![c] = "desire"]
      /\ over' = [over EXCEPT ![c] = dequeueOvercommit] /\ seen' = seen /\ wanted' = wanted /\ SameCounters
  BY DEF LoadOvercommit, Move, SameCounters
<1>2. ClaimTypes /\ Counting /\ Sent \in 0..MaxSent /\ Claims \in 0..Sent /\ dequeueOvercommit \in Nat
      /\ TakerInv(c)
  BY InRange, Bounds DEF ClaimInv
<1>3. /\ Others(c) /\ stage'[c] = "desire" /\ wanted'[c] = wanted[c] /\ seen'[c] = seen[c]
      /\ over'[c] = dequeueOvercommit
  BY <1>1, <1>2 DEF Others, ClaimTypes
<1>4. Sent' = Sent /\ Claims' = Claims /\ CountedIn' = CountedIn /\ dequeueOvercommit' = dequeueOvercommit
  BY <1>1, SameCountersAre
<1>5. Since(seen[c])' = Since(seen[c])
  BY <1>3 DEF Since, Wrap
<1>6. ClaimTypes'
  BY <1>1, <1>2 DEF ClaimTypes, SameCounters
<1>7. TakerInv(c)'
  BY <1>1, <1>2, <1>3, <1>4, <1>5 DEF TakerInv
<1>8. Counting'
  BY <1>2, <1>3, <1>4, <1>6, <1>7, InRange, TakersKept, Bounds
<1>9. MissesInv'
  <2>1. RiskOf'[c] = RiskOf[c] /\ RiskOf[c] \in Nat
    BY <1>1, <1>3, Bounds DEF RiskOf, Asking
  <2>2. Lone(c) => Lone(c)'
    BY <1>1, <1>3, <1>4, <1>5 DEF Lone, Others, Most
  <2> QED
    BY <2>1, <2>2, <1>1, <1>2, <1>3, <1>4, <1>8, MissesKept
<1>10. SureOf[c] = 0 /\ SureOf'[c] = 0 /\ BackOf[c] = 0 /\ BackOf'[c] = 0
  BY <1>1, <1>3 DEF SureOf, BackOf
<1> QED
  BY <1>1, <1>2, <1>3, <1>4, <1>6, <1>7, <1>9, <1>10, QuietStep

(* What a consumer sees by its three loads.                                 *)
LEMMA DesireSees ==
    ASSUME ClaimInv, NEW c \in Takers, stage[c] = "desire"
    PROVE  \E e \in Int :
               /\ e = Since(seen[c]) - CountedIn + over[c]
               /\ Less(0, Wrap(seen[c] - (dequeueOptimisticCount - over[c]))) <=> e > 0
               /\ e > 0 => Wrap(seen[c] - (dequeueOptimisticCount - over[c])) = e
<1>1. /\ seen[c] \in Index /\ dequeueOptimisticCount \in Index /\ Since(seen[c]) <= Sent
      /\ over[c] \in 0..dequeueOvercommit
  BY DEF ClaimInv, TakerInv, ClaimTypes
<1>2. /\ Sent \in 0..MaxSent /\ CountedIn \in 0..Limit /\ dequeueOvercommit \in 0..Limit /\ Claims \in Nat
      /\ Total(SureOf) \in Nat /\ Total(LookOf) \in Nat /\ Total(BackOf) \in Nat
      /\ CountedIn = Claims + dequeueOvercommit + Total(SureOf) + Total(LookOf) + Total(BackOf)
  BY InRange, Bounds DEF ClaimInv, BalanceInv
<1>3. PICK s \in Nat, o \in Int, z \in Nat :
          s = Since(seen[c]) /\ o = CountedIn /\ z = over[c]
  BY <1>1, <1>2, SinceIs, Bounds DEF Index
<1>4. z <= o /\ s <= MaxSent /\ o <= Limit
  BY <1>1, <1>2, <1>3, Bounds
<1>5. PICK e \in Int : e = s - (o - z)
  BY <1>3
<1>6. 2 * e < Width /\ -2 * e < Width
  <2>1. PICK l \in Nat, m \in Nat : l = Limit /\ m = MaxSent
    BY Bounds
  <2>2. m <= l /\ 2 * l < Width /\ Width \in Nat
    BY <2>1, Bounds DEF Limit
  <2>3. e <= s /\ -o <= e
    BY <1>3, <1>4, <1>5
  <2>4. e <= l /\ -l <= e
    BY <2>1, <2>2, <2>3, <1>3, <1>4, <1>5
  <2> QED
    BY <2>1, <2>2, <2>4, <1>5
<1>7. Wrap(seen[c] - (dequeueOptimisticCount - z)) = Wrap(e)
  BY <1>1, <1>3, <1>5, SinceApart DEF CountedIn
<1> QED
  BY <1>3, <1>5, <1>6, <1>7, LessIs

(* Who leaves has no places.                                                *)
LEMMA LeaveIs ==
    ASSUME ClaimInv, NEW c \in Takers, Leave(c)
    PROVE  Others(c) /\ stage'[c] = "idle" /\ wanted'[c] = 0
           /\ DOMAIN stage' = Takers /\ DOMAIN wanted' = Takers /\ DOMAIN seen' = Takers /\ DOMAIN over' = Takers
BY DEF ClaimInv, ClaimTypes, Leave, Move, Others

LEMMA DesireStep == ASSUME ClaimInv, NEW c \in Takers, Desire(c) PROVE ClaimInv'
<1>1. stage[c] = "desire" /\ SameCounters
  BY DEF Desire, SameCounters
<1>2. PICK d : d = Wrap(seen[c] - (dequeueOptimisticCount - over[c]))
  OBVIOUS
<1>3. PICK e \in Int : /\ e = Since(seen[c]) - CountedIn + over[c]
                       /\ Less(0, d) <=> e > 0
                       /\ e > 0 => d = e
  BY <1>1, <1>2, DesireSees
<1>4. IF Less(0, d) THEN /\ wanted' = [wanted EXCEPT ![c] = Min({d, @})] /\ Move(c, "count")
                         /\ UNCHANGED <<seen, over, first>>
                    ELSE Leave(c)
  BY <1>2 DEF Desire
<1>5. ClaimTypes /\ Counting /\ Sent \in 0..MaxSent /\ Claims \in 0..Sent /\ dequeueOvercommit \in Nat
      /\ TakerInv(c) /\ CountedIn \in Nat /\ RiskOf[c] = MaxCall
  BY <1>1, InRange, Bounds DEF ClaimInv, RiskOf, Asking
<1>6. wanted[c] \in 1..MaxCall /\ over[c] \in 0..dequeueOvercommit
      /\ seen[c] \in Index /\ Since(seen[c]) <= Sent
  BY <1>1, <1>5 DEF TakerInv
<1>7. Sent' = Sent /\ Claims' = Claims /\ CountedIn' = CountedIn /\ dequeueOvercommit' = dequeueOvercommit
  BY <1>1, SameCountersAre
<1>8. CASE ~(e > 0)
  <2>1. Leave(c)
    BY <1>3, <1>4, <1>8
  <2>2. Others(c) /\ stage'[c] = "idle" /\ wanted'[c] = 0
        /\ DOMAIN stage' = Takers /\ DOMAIN wanted' = Takers /\ DOMAIN seen' = Takers /\ DOMAIN over' = Takers
    BY <2>1, LeaveIs
  <2>3. ClaimTypes'
    BY <1>1, <1>5, <2>2 DEF ClaimTypes, SameCounters
  <2>4. TakerInv(c)'
    BY <2>2 DEF TakerInv
  <2>5. Counting'
    BY <1>5, <1>7, <2>2, <2>3, <2>4, TakersKept, Bounds
  <2>6. RiskOf'[c] = 0
    BY <2>2 DEF RiskOf, Asking
  <2>7. MissesInv'
    BY <1>1, <1>5, <1>7, <2>2, <2>5, <2>6, MissesKept, Bounds
  <2>8. SureOf[c] = 0 /\ SureOf'[c] = 0 /\ BackOf[c] = 0 /\ BackOf'[c] = 0
    BY <1>1, <2>2 DEF SureOf, BackOf
  <2> QED
    BY <1>1, <1>5, <1>7, <2>2, <2>3, <2>4, <2>7, <2>8, QuietStep
<1>9. CASE e > 0
  <2>1. /\ wanted' = [wanted EXCEPT ![c] = Min({e, @})] /\ stage' = [stage EXCEPT ![c] = "count"]
        /\ seen' = seen /\ over' = over
    BY <1>3, <1>4, <1>9 DEF Move
  <2>2. /\ Min({e, wanted[c]}) \in 1..MaxCall /\ Min({e, wanted[c]}) <= e
    BY <1>6, <1>9, MinOfTwo, Bounds
  <2>3. Others(c) /\ stage'[c] = "count" /\ wanted'[c] = Min({e, wanted[c]}) /\ over'[c] = over[c]
    BY <1>5, <2>1 DEF Others, ClaimTypes
  <2>4. ClaimTypes'
    BY <1>1, <1>5, <2>1 DEF ClaimTypes, SameCounters
  <2>5. TakerInv(c)'
    BY <1>6, <1>7, <2>2, <2>3 DEF TakerInv
  <2>6. Counting'
    BY <1>5, <1>7, <2>3, <2>4, <2>5, TakersKept, Bounds
  <2>7. RiskOf'[c] = MaxCall
    BY <2>3 DEF RiskOf, Asking
  <2>8. ASSUME Lone(c) PROVE Lone(c)'
    <3>1. /\ \A d2 \in Takers \ {c} : stage[d2] = "idle"
          /\ dequeueOvercommit <= Most /\ over[c] = dequeueOvercommit /\ Since(seen[c]) > Claims
      BY <1>1, <2>8 DEF Lone
    <3>2. \A d2 \in Takers : SureOf[d2] = 0 /\ LookOf[d2] = 0 /\ BackOf[d2] = 0
      BY <1>1, <3>1 DEF SureOf, LookOf, BackOf
    <3>3. Total(SureOf) = 0 /\ Total(LookOf) = 0 /\ Total(BackOf) = 0
      BY <3>2, TotalNone DEF SureOf, LookOf, BackOf
    <3>4. CountedIn = Claims + dequeueOvercommit
      BY <1>5, <3>3 DEF ClaimInv, BalanceInv
    <3>5. Since(seen[c]) \in Nat
      BY <1>6, SinceIs, Bounds DEF Index
    <3>6. e <= Sent - Claims
      BY <1>3, <1>5, <1>6, <3>1, <3>4, <3>5, Bounds
    <3>7. wanted'[c] <= Sent' - Claims'
      BY <1>5, <1>7, <2>2, <2>3, <3>6, Bounds
    <3>8. over'[c] = dequeueOvercommit' /\ dequeueOvercommit' <= Most
      BY <1>7, <2>3, <3>1
    <3>9. \A d2 \in Takers \ {c} : stage'[d2] = "idle"
      BY <2>3, <3>1 DEF Others
    <3> QED
      BY <2>3, <3>7, <3>8, <3>9 DEF Lone, Most
  <2>9. MissesInv'
    BY <1>1, <1>5, <1>7, <2>3, <2>6, <2>7, <2>8, MissesKept, Bounds
  <2>10. SureOf[c] = 0 /\ SureOf'[c] = 0 /\ BackOf[c] = 0 /\ BackOf'[c] = 0
    BY <1>1, <2>3 DEF SureOf, BackOf
  <2> QED
    BY <1>1, <1>5, <1>7, <2>3, <2>4, <2>5, <2>9, <2>10, QuietStep
<1> QED
  BY <1>8, <1>9

(* Small numbers are as they are.                                           *)
LEMMA GiveBackStep == ASSUME ClaimInv, NEW c \in Takers, GiveBack(c) PROVE ClaimInv'
<1>1. /\ stage[c] = "giveback" /\ dequeueOvercommit' = Wrap(dequeueOvercommit + over[c])
      /\ IF wanted[c] > 0 THEN Move(c, "claim") /\ over' = [over EXCEPT ![c] = 0] /\ UNCHANGED <<wanted, seen, first>>
         ELSE Leave(c)
      /\ tailIndex' = tailIndex /\ headIndex' = headIndex /\ dequeueOptimisticCount' = dequeueOptimisticCount
  BY DEF GiveBack
<1>2. ClaimTypes /\ Counting /\ Sent \in 0..MaxSent /\ Claims \in 0..Sent /\ dequeueOvercommit \in 0..Limit
      /\ TakerInv(c) /\ CountedIn \in Nat /\ RiskOf[c] = MaxCall
      /\ dequeueOvercommit + Total(RiskOf) <= Most + MaxCall /\ Total(RiskOf) \in Nat
  BY <1>1, InRange, Bounds DEF ClaimInv, RiskOf, Asking
<1>3. wanted[c] \in 0..MaxCall /\ over[c] \in 0..MaxCall
  BY <1>1, <1>2 DEF TakerInv
<1>4. over[c] <= Total(RiskOf)
  <2>1. RiskOf[c] <= Total(RiskOf)
    BY <1>2, AllCount, TotalAtLeast
  <2> QED
    BY <1>2, <1>3, <2>1, Bounds
<1>5. dequeueOvercommit' = dequeueOvercommit + over[c] /\ dequeueOvercommit' \in Index
  <2>1. dequeueOvercommit + over[c] \in Index
    <3>0. dequeueOvercommit \in Nat /\ over[c] \in Nat
      BY <1>2, <1>3, Bounds
    <3>1. PICK l \in Nat, m \in Nat, k \in Nat, s \in Nat, v \in Nat, z \in Nat :
              l = Limit /\ m = Most /\ k = MaxCall /\ s = MaxSent /\ v = dequeueOvercommit /\ z = over[c]
      BY <3>0, Bounds
    <3>2. l = s + m + k /\ 2 * l < Width /\ Width \in Nat
      BY <3>1, Bounds DEF Limit
    <3>3. v + z <= m + k
      BY <3>1, <1>2, <1>4
    <3> QED
      BY <3>1, <3>2, <3>3 DEF Index
  <2> QED
    BY <2>1, <1>1, WrapSmall
<1>6. Sent' = Sent /\ Claims' = Claims /\ CountedIn' = CountedIn
  BY <1>1 DEF Sent, Claims, CountedIn, Since, Wrap
<1>7. /\ Others(c) /\ stage'[c] \in {"claim", "idle"} /\ wanted'[c] = wanted[c]
      /\ stage'[c] = "claim" => wanted[c] \in 1..MaxCall
      /\ stage'[c] = "idle" => wanted[c] = 0
  <2>1. CASE wanted[c] > 0
    BY <1>1, <1>2, <1>3, <2>1 DEF Move, Others, ClaimTypes
  <2>2. CASE ~(wanted[c] > 0)
    BY <1>1, <1>3, <2>2, LeaveIs
  <2> QED
    BY <2>1, <2>2
<1>8. ClaimTypes'
  BY <1>1, <1>2, <1>5, <1>7 DEF ClaimTypes, Others
<1>9. TakerInv(c)'
  BY <1>7 DEF TakerInv
<1>10. Counting'
  BY <1>2, <1>3, <1>5, <1>6, <1>7, <1>8, <1>9, TakersKept, Bounds
<1>11. MissesInv'
  <2>1. RiskOf'[c] = 0
    BY <1>7 DEF RiskOf, Asking
  <2>2. ~Lone(c)
    BY <1>1 DEF Lone
  <2> QED
    BY <1>1, <1>2, <1>3, <1>5, <1>7, <1>10, <2>1, <2>2, MissesKept, Bounds DEF Index
<1>12. SureOf[c] = wanted[c] /\ BackOf[c] = over[c] /\ BackOf'[c] = 0 /\ SureOf'[c] = wanted[c]
  BY <1>1, <1>7 DEF SureOf, BackOf
<1> QED
  BY <1>1, <1>2, <1>3, <1>5, <1>6, <1>7, <1>8, <1>9, <1>11, <1>12, QuietStep, Bounds

LEMMA ClaimStep == ASSUME ClaimInv, NEW c \in Takers, Claim(c) PROVE ClaimInv'
<1>1. /\ stage[c] = "claim" /\ stage' = [stage EXCEPT ![c] = "claimed"] /\ headIndex' = Wrap(headIndex + wanted[c])
      /\ seen' = [seen EXCEPT ![c] = 0] /\ over' = [over EXCEPT ![c] = 0] /\ wanted' = wanted
      /\ tailIndex' = tailIndex /\ dequeueOptimisticCount' = dequeueOptimisticCount
      /\ dequeueOvercommit' = dequeueOvercommit
  BY DEF Claim, Move
<1>2. /\ ClaimTypes /\ Counting /\ Sent \in 0..MaxSent /\ Claims \in 0..Sent /\ dequeueOvercommit \in Nat
      /\ TakerInv(c) /\ CountedIn \in Nat /\ Claims + Total(SureOf) <= Sent /\ Total(SureOf) \in Nat
  BY <1>1, InRange, Bounds DEF ClaimInv, BalanceInv, Reserved
<1>3. wanted[c] \in 1..MaxCall /\ SureOf[c] = wanted[c]
  BY <1>1, <1>2 DEF TakerInv, SureOf
<1>4. Claims + wanted[c] <= Sent
  <2>1. SureOf[c] <= Total(SureOf)
    BY <1>2, AllCount, TotalAtLeast
  <2> QED
    BY <1>2, <1>3, <2>1, Bounds
<1>5. headIndex' \in Index /\ Claims' = Claims + wanted[c]
  <2>1. Claims + wanted[c] < Width
    <3>1. PICK l \in Nat, m \in Nat : l = Limit /\ m = MaxSent
      BY Bounds
    <3>2. m <= l /\ 2 * l < Width /\ Width \in Nat
      BY <3>1, Bounds DEF Limit
    <3> QED
      BY <3>1, <3>2, <1>2, <1>3, <1>4
  <2>2. headIndex \in Index /\ wanted[c] \in Nat /\ Since(headIndex) + wanted[c] < Width
    BY <1>2, <1>3, <2>1, Bounds DEF ClaimTypes, Claims
  <2>3. Wrap(headIndex + wanted[c]) \in Index /\ Since(Wrap(headIndex + wanted[c])) = Since(headIndex) + wanted[c]
    BY <2>2, SinceMoves
  <2>4. Claims' = Since(headIndex')
    BY DEF Claims, Since, Wrap
  <2> QED
    BY <1>1, <2>3, <2>4 DEF Claims
<1>6. Sent' = Sent /\ CountedIn' = CountedIn
  BY <1>1 DEF Sent, CountedIn, Since, Wrap
<1>7. Others(c) /\ stage'[c] = "claimed"
  BY <1>1, <1>2 DEF Others, ClaimTypes
<1>8. ClaimTypes'
  BY <1>1, <1>2, <1>5 DEF ClaimTypes
<1>9. TakerInv(c)'
  BY <1>7 DEF TakerInv
<1>10. Counting'
  BY <1>1, <1>2, <1>6, <1>7, <1>8, <1>9, TakersKept, Bounds
<1>11. MissesInv'
  <2>1. RiskOf[c] = 0 /\ RiskOf'[c] = 0 /\ ~Lone(c)
    BY <1>1, <1>7 DEF RiskOf, Asking, Lone
  <2> QED
    BY <1>1, <1>2, <1>7, <1>10, <2>1, MissesKept
<1>12. SureOf'[c] = 0 /\ BackOf[c] = 0 /\ BackOf'[c] = 0
  BY <1>1, <1>7 DEF SureOf, BackOf
<1> QED
  BY <1>1, <1>2, <1>3, <1>5, <1>6, <1>7, <1>8, <1>9, <1>11, <1>12, QuietStep, Bounds

(* Who has claimed goes on to take out what it has claimed, and leaves.     *)
After == {"claimed", "tail", "front", "locate", "take", "empty", "unlist", "free"}

LEMMA OnStep ==
    ASSUME ClaimInv, NEW c \in Takers, Others(c), stage[c] \in After, stage'[c] \in After \cup {"idle"}, SameCounters
    PROVE  ClaimInv'
<1>1. ClaimTypes /\ Counting /\ Sent \in 0..MaxSent /\ Claims \in Nat /\ dequeueOvercommit \in Nat /\ CountedIn \in Nat
  BY InRange, Bounds DEF ClaimInv
<1>2. Sent' = Sent /\ Claims' = Claims /\ CountedIn' = CountedIn /\ dequeueOvercommit' = dequeueOvercommit
  BY SameCountersAre
<1>3. ClaimTypes'
  BY <1>1 DEF ClaimTypes, SameCounters, Others
<1>4. TakerInv(c)'
  BY DEF TakerInv, After
<1>5. Counting'
  BY <1>1, <1>2, <1>3, <1>4, TakersKept, Bounds
<1>6. RiskOf[c] = 0 /\ RiskOf'[c] = 0 /\ ~Lone(c) /\ stage[c] # "idle"
  BY DEF RiskOf, Asking, Lone, After
<1>7. MissesInv'
  BY <1>1, <1>2, <1>5, <1>6, MissesKept
<1>8. SureOf[c] = 0 /\ SureOf'[c] = 0 /\ BackOf[c] = 0 /\ BackOf'[c] = 0
  BY DEF SureOf, BackOf, After
<1>9. stage[c] # "actual" /\ stage'[c] # "actual"
  BY DEF After
<1> QED
  BY <1>1, <1>2, <1>3, <1>4, <1>7, <1>8, <1>9, QuietStep

LEMMA CountInStep == ASSUME ClaimInv, NEW c \in Takers, CountIn(c) PROVE ClaimInv'
<1>1. /\ stage[c] = "count" /\ stage' = [stage EXCEPT ![c] = "actual"]
      /\ seen' = [seen EXCEPT ![c] = dequeueOptimisticCount] /\ over' = over /\ wanted' = wanted
      /\ dequeueOptimisticCount' = Wrap(dequeueOptimisticCount + wanted[c])
      /\ tailIndex' = tailIndex /\ headIndex' = headIndex /\ dequeueOvercommit' = dequeueOvercommit
  BY DEF CountIn, Move
<1>2. /\ ClaimTypes /\ Counting /\ Sent \in 0..MaxSent /\ Claims \in 0..Sent /\ dequeueOvercommit \in Nat
      /\ TakerInv(c) /\ CountedIn \in 0..Limit
      /\ Total(SureOf) \in Nat /\ Total(LookOf) \in Nat /\ Total(BackOf) \in Nat
      /\ Sent <= MaxSent /\ Reserved <= Sent
      /\ CountedIn = Claims + dequeueOvercommit + Total(SureOf) + Total(LookOf) + Total(BackOf)
  BY InRange, Bounds DEF ClaimInv, BalanceInv
<1>3. wanted[c] \in 1..MaxCall /\ over[c] \in 0..dequeueOvercommit
  BY <1>1, <1>2 DEF TakerInv
<1>4. dequeueOptimisticCount' \in Index /\ CountedIn' = CountedIn + wanted[c] /\ CountedIn \in Nat
  <2>1. CountedIn + wanted[c] < Width
    <3>1. PICK l \in Nat, m \in Nat, k \in Nat, s \in Nat : l = Limit /\ m = Most /\ k = MaxCall /\ s = MaxSent
      BY Bounds
    <3>2. l = s + m + k /\ 2 * l < Width /\ Width \in Nat
      BY <3>1, Bounds DEF Limit
    <3> QED
      BY <3>1, <3>2, <1>2, <1>3
  <2>2. /\ dequeueOptimisticCount \in Index /\ wanted[c] \in Nat
        /\ Since(dequeueOptimisticCount) + wanted[c] < Width
    BY <1>2, <1>3, <2>1, Bounds DEF ClaimTypes, CountedIn
  <2>3. /\ Wrap(dequeueOptimisticCount + wanted[c]) \in Index
        /\ Since(Wrap(dequeueOptimisticCount + wanted[c])) = Since(dequeueOptimisticCount) + wanted[c]
    BY <2>2, SinceMoves
  <2>4. CountedIn' = Since(dequeueOptimisticCount')
    BY DEF CountedIn, Since, Wrap
  <2> QED
    BY <1>1, <1>2, <2>3, <2>4, Bounds DEF CountedIn
<1>5. Sent' = Sent /\ Claims' = Claims
  BY <1>1 DEF Sent, Claims, Since, Wrap
<1>6. /\ Others(c) /\ stage'[c] = "actual" /\ seen'[c] = dequeueOptimisticCount
      /\ wanted'[c] = wanted[c] /\ over'[c] = over[c]
  BY <1>1, <1>2 DEF Others, ClaimTypes
<1>7. Since(seen[c])' = CountedIn
  BY <1>6 DEF Since, Wrap, CountedIn
<1>8. ClaimTypes'
  BY <1>1, <1>2, <1>4 DEF ClaimTypes
<1>9. TakerInv(c)'
  <2>1. seen'[c] \in Index
    BY <1>2, <1>6 DEF ClaimTypes
  <2>2. Since(seen[c])' + wanted'[c] <= CountedIn'
    BY <1>3, <1>4, <1>6, <1>7, Bounds
  <2> QED
    BY <2>1, <2>2, <1>1, <1>3, <1>6 DEF TakerInv
<1>10. Counting'
  BY <1>1, <1>2, <1>3, <1>4, <1>5, <1>6, <1>8, <1>9, TakersKept, Bounds
<1>11. /\ Total(SureOf)' = Total(SureOf) + (SureOf'[c] - SureOf[c])
       /\ Total(LookOf)' = Total(LookOf) + (LookOf'[c] - LookOf[c])
       /\ Total(BackOf)' = Total(BackOf) + (BackOf'[c] - BackOf[c])
  BY <1>2, <1>6, <1>10, TotalsMove
<1>12. /\ SureOf[c] = 0 /\ SureOf'[c] = 0 /\ BackOf[c] = 0 /\ BackOf'[c] = 0
       /\ LookOf[c] = 0 /\ LookOf'[c] = wanted[c]
  BY <1>1, <1>6 DEF SureOf, BackOf, LookOf
<1>13. Reserved' = Reserved
  BY <1>2, <1>5, <1>11, <1>12 DEF Reserved
<1>14. BalanceInv'
  <2>1. CountedIn' = Claims' + dequeueOvercommit' + Total(SureOf)' + Total(LookOf)' + Total(BackOf)'
    BY <1>1, <1>2, <1>3, <1>4, <1>5, <1>11, <1>12, Bounds
  <2> QED
    BY <2>1, <1>2, <1>5, <1>13 DEF BalanceInv
<1>15. MissesInv'
  <2>1. RiskOf[c] = MaxCall /\ RiskOf'[c] = MaxCall
    BY <1>1, <1>6 DEF RiskOf, Asking
  <2>2. ASSUME Lone(c) PROVE Lone(c)'
    <3>1. /\ \A d \in Takers \ {c} : stage[d] = "idle"
          /\ dequeueOvercommit <= Most /\ over[c] = dequeueOvercommit /\ wanted[c] <= Sent - Claims
      BY <1>1, <2>2 DEF Lone
    <3>2. \A d \in Takers : SureOf[d] = 0 /\ LookOf[d] = 0 /\ BackOf[d] = 0
      BY <1>1, <3>1 DEF SureOf, LookOf, BackOf
    <3>3. Total(SureOf) = 0 /\ Total(LookOf) = 0 /\ Total(BackOf) = 0
      BY <3>2, TotalNone DEF SureOf, LookOf, BackOf
    <3>4. Since(seen[c])' = Claims' + dequeueOvercommit'
      BY <1>1, <1>2, <1>5, <1>7, <3>3
    <3>5. \A d \in Takers \ {c} : stage'[d] = "idle"
      BY <1>6, <3>1 DEF Others
    <3> QED
      BY <1>1, <1>5, <1>6, <3>1, <3>4, <3>5 DEF Lone, Most
  <2> QED
    BY <1>1, <1>2, <1>6, <1>10, <2>1, <2>2, MissesKept, Bounds
<1>16. InOrder'
  <2>1. ASSUME NEW d \in Takers \ {c}, stage'[d] = "actual"
        PROVE  Since(seen[d])' + wanted'[d] <= Since(seen[c])'
    <3>1. stage[d] = "actual" /\ seen'[d] = seen[d] /\ wanted'[d] = wanted[d] /\ TakerInv(d)
      BY <1>2, <1>6, <2>1 DEF Others, Counting
    <3>2. Since(seen[d])' = Since(seen[d])
      BY <3>1 DEF Since, Wrap
    <3> QED
      BY <1>7, <3>1, <3>2 DEF TakerInv
  <2>2. ASSUME NEW d \in Takers \ {c}, NEW e \in Takers \ {c}, d # e, stage'[d] = "actual", stage'[e] = "actual"
        PROVE  \/ Since(seen[d])' + wanted'[d] <= Since(seen[e])'
               \/ Since(seen[e])' + wanted'[e] <= Since(seen[d])'
    <3>1. /\ stage[d] = "actual" /\ seen'[d] = seen[d] /\ wanted'[d] = wanted[d]
          /\ stage[e] = "actual" /\ seen'[e] = seen[e] /\ wanted'[e] = wanted[e]
      BY <1>6, <2>2 DEF Others
    <3>2. Since(seen[d])' = Since(seen[d]) /\ Since(seen[e])' = Since(seen[e])
      BY <3>1 DEF Since, Wrap
    <3> QED
      BY <2>2, <3>1, <3>2 DEF ClaimInv, InOrder
  <2> QED
    BY <2>1, <2>2 DEF InOrder
<1>17. LookInv(c)'
  <2>1. \A d \in Takers : BeforeOf(c)'[d] = LookOf[d]
    <3> SUFFICES ASSUME NEW d \in Takers PROVE BeforeOf(c)'[d] = LookOf[d]
      OBVIOUS
    <3>1. CASE d = c
      <4>1. ~(Since(seen[c])' < Since(seen[c])')
        BY <1>2, <1>7, Bounds
      <4>2. BeforeOf(c)'[c] = 0
        BY <4>1 DEF BeforeOf
      <4> QED
        BY <1>12, <3>1, <4>2
    <3>2. CASE d # c
      <4>1. stage'[d] = stage[d] /\ wanted'[d] = wanted[d] /\ seen'[d] = seen[d] /\ TakerInv(d)
        BY <1>2, <1>6, <3>2 DEF Others, Counting
      <4>2. Since(seen[d])' = Since(seen[d])
        BY <4>1 DEF Since, Wrap
      <4>3. ASSUME stage[d] = "actual" PROVE Since(seen[d])' < Since(seen[c])'
        <5>1. wanted[d] \in 1..MaxCall /\ seen[d] \in Index /\ Since(seen[d]) + wanted[d] <= CountedIn
          BY <4>1, <4>3 DEF TakerInv
        <5>2. Since(seen[d]) \in Nat
          BY <5>1, SinceIs, Bounds DEF Index
        <5> QED
          BY <1>4, <1>7, <4>2, <5>1, <5>2, Bounds
      <4> QED
        BY <4>1, <4>3 DEF BeforeOf, LookOf
    <3> QED
      BY <3>1, <3>2
  <2>2. BeforeOf(c)' = LookOf
    BY <2>1 DEF BeforeOf, LookOf
  <2>3. Total(BeforeOf(c))' = Total(LookOf)
    <3>1. Total(BeforeOf(c))' = Total(BeforeOf(c)')
      BY DEF Total, Units
    <3> QED
      BY <2>2, <3>1
  <2>4. Reserved' + Total(BeforeOf(c))' <= Since(seen[c])' - over'[c]
    <3>1. PICK h \in Nat, v \in Nat, s \in Nat, l \in Nat, b \in Nat, z \in Nat :
              /\ h = Claims /\ v = dequeueOvercommit /\ s = Total(SureOf) /\ l = Total(LookOf)
              /\ b = Total(BackOf) /\ z = over[c]
      <4>1. over[c] \in Nat /\ Claims \in Nat
        BY <1>2, <1>3, Bounds
      <4> QED
        BY <4>1, <1>2
    <3>2. CountedIn = h + v + s + l + b /\ z <= v /\ Reserved = h + s
      BY <3>1, <1>2, <1>3 DEF Reserved
    <3> QED
      BY <3>1, <3>2, <1>6, <1>7, <1>13, <2>3
  <2> QED
    BY <2>4 DEF LookInv
<1>18. ASSUME NEW d \in Takers \ {c} PROVE LookInv(d)'
  <2> SUFFICES ASSUME stage'[d] = "actual" PROVE LookInv(d)'
    BY DEF LookInv
  <2>1. /\ LookInv(d) /\ TakerInv(d) /\ stage[d] = "actual" /\ wanted'[d] = wanted[d]
        /\ seen'[d] = seen[d] /\ over'[d] = over[d]
    BY <1>6 DEF ClaimInv, Others
  <2>2. Since(seen[d])' = Since(seen[d])
    BY <2>1 DEF Since, Wrap
  <2>3. wanted[d] \in 1..MaxCall /\ seen[d] \in Index /\ Since(seen[d]) + wanted[d] <= CountedIn
    BY <2>1 DEF TakerInv
  <2>4. Since(seen[d]) \in Nat
    BY <2>3, SinceIs, Bounds DEF Index
  <2>5. ~(Since(seen[c])' < Since(seen[d])')
    BY <1>4, <1>7, <2>2, <2>3, <2>4, Bounds
  <2>6. \A e \in Takers : BeforeOf(d)'[e] = BeforeOf(d)[e]
    <3>1. BeforeOf(d)'[c] = 0 /\ BeforeOf(d)[c] = 0
      BY <1>1, <2>5 DEF BeforeOf
    <3>2. ASSUME NEW e \in Takers \ {c} PROVE BeforeOf(d)'[e] = BeforeOf(d)[e]
      <4>1. stage'[e] = stage[e] /\ wanted'[e] = wanted[e] /\ seen'[e] = seen[e]
        BY <1>6 DEF Others
      <4>2. Since(seen[e])' = Since(seen[e])
        BY <4>1 DEF Since, Wrap
      <4> QED
        BY <2>2, <4>1, <4>2 DEF BeforeOf
    <3> QED
      BY <3>1, <3>2
  <2>7. BeforeOf(d)' = BeforeOf(d)
    BY <2>6 DEF BeforeOf
  <2>8. Total(BeforeOf(d))' = Total(BeforeOf(d))
    <3>1. Total(BeforeOf(d))' = Total(BeforeOf(d)')
      BY DEF Total, Units
    <3> QED
      BY <2>7, <3>1
  <2> QED
    BY <2>1, <2>2, <2>8, <1>5, <1>13 DEF LookInv
<1> QED
  BY <1>8, <1>10, <1>14, <1>15, <1>16, <1>17, <1>18 DEF ClaimInv, Counting

(* What a consumer sees when it looks again.                                *)
LEMMA ActualSees ==
    ASSUME ClaimInv, NEW c \in Takers, stage[c] = "actual"
    PROVE  \E e \in Int :
               /\ e = Sent - (Since(seen[c]) - over[c])
               /\ Less(0, Wrap(tailIndex - (seen[c] - over[c]))) <=> e > 0
               /\ e > 0 => Wrap(tailIndex - (seen[c] - over[c])) = e
<1>1. /\ seen[c] \in Index /\ tailIndex \in Index /\ Since(seen[c]) + wanted[c] <= CountedIn
      /\ over[c] \in 0..dequeueOvercommit /\ wanted[c] \in 1..MaxCall
  BY DEF ClaimInv, TakerInv, ClaimTypes
<1>2. /\ Sent \in 0..MaxSent /\ CountedIn \in 0..Limit /\ dequeueOvercommit \in 0..Limit
      /\ dequeueOvercommit + Total(RiskOf) <= Most + MaxCall /\ Total(RiskOf) \in Nat
  BY InRange
<1>3. Since(seen[c]) \in Nat /\ over[c] \in Nat /\ dequeueOvercommit \in Nat /\ Sent \in Nat
  BY <1>1, <1>2, SinceIs, Bounds DEF Index
<1>4. PICK s \in Nat, z \in Nat, t \in Nat : s = Since(seen[c]) /\ z = over[c] /\ t = Sent
  BY <1>3
<1>5. PICK l \in Nat, m \in Nat, k \in Nat, n \in Nat : l = Limit /\ m = Most /\ k = MaxCall /\ n = MaxSent
  BY Bounds
<1>6. l = n + m + k /\ 2 * l < Width /\ Width \in Nat
  BY <1>5, Bounds DEF Limit
<1>7. s <= l /\ z <= m + k /\ t <= n
  BY <1>1, <1>2, <1>3, <1>4, <1>5
<1>8. PICK e \in Int : e = t - (s - z)
  BY <1>4
<1>9. 2 * e < Width /\ -2 * e < Width
  <2>1. e <= l /\ -l <= e
    BY <1>4, <1>5, <1>6, <1>7, <1>8
  <2> QED
    BY <2>1, <1>5, <1>6, <1>8
<1>10. Wrap(tailIndex - (seen[c] - z)) = Wrap(e)
  BY <1>1, <1>4, <1>8, SinceApart DEF Sent, Since
<1> QED
  BY <1>4, <1>8, <1>9, <1>10, LessIs

(* Who comes behind d has before it what d looks at and all before d.       *)
LEMMA BehindHolds ==
    ASSUME Counting, NEW c \in Takers, NEW d \in Takers, c # d, stage[d] = "actual",
           Since(seen[d]) \in Nat, Since(seen[c]) \in Nat, wanted[d] \in 1..MaxCall,
           Since(seen[d]) + wanted[d] <= Since(seen[c])
    PROVE  Total(BeforeOf(d)) + wanted[d] <= Total(BeforeOf(c))
<1>1. PICK f, g, h : /\ f = BeforeOf(d) /\ h = BeforeOf(c)
                     /\ g = [x \in Takers |-> IF x = d THEN wanted[d] ELSE 0]
  OBVIOUS
<1>2. Since(seen[d]) < Since(seen[c])
  BY Bounds
<1>3. Counts(f) /\ Counts(h)
  BY <1>1, AllCount
<1>4. Counts(g) /\ g[d] = wanted[d] /\ \A x \in Takers \ {d} : g[x] = 0
  BY <1>1, Bounds DEF Counts
<1>5. f[d] = 0 /\ h[d] = wanted[d]
  BY <1>1, <1>2 DEF BeforeOf
<1>6. \A x \in Takers : (f[x] = 0 \/ g[x] = 0) /\ f[x] <= h[x] /\ g[x] <= h[x]
  <2> SUFFICES ASSUME NEW x \in Takers PROVE (f[x] = 0 \/ g[x] = 0) /\ f[x] <= h[x] /\ g[x] <= h[x]
    OBVIOUS
  <2>1. CASE x = d
    BY <1>4, <1>5, <2>1, Bounds
  <2>2. CASE x # d
    <3>1. f[x] \in Nat /\ h[x] \in Nat
      BY <1>3, Bounds DEF Counts
    <3>2. f[x] # 0 => f[x] = h[x]
      <4>1. CASE stage[x] = "actual" /\ Since(seen[x]) < Since(seen[d])
        <5>1. Since(seen[x]) \in Nat
          BY <4>1, SinceIs, Bounds DEF Counting, TakerInv, Index
        <5>2. Since(seen[x]) < Since(seen[c])
          BY <1>2, <4>1, <5>1
        <5> QED
          BY <1>1, <4>1, <5>2 DEF BeforeOf
      <4>2. CASE ~(stage[x] = "actual" /\ Since(seen[x]) < Since(seen[d]))
        BY <1>1, <4>2 DEF BeforeOf
      <4> QED
        BY <4>1, <4>2
    <3> QED
      BY <1>4, <2>2, <3>1, <3>2
  <2> QED
    BY <2>1, <2>2
<1>7. Total(f) + Total(g) <= Total(h)
  BY <1>3, <1>4, <1>6, TotalTwo
<1>8. Total(g) = wanted[d]
  BY <1>4, TotalOnly
<1> QED
  BY <1>1, <1>7, <1>8

LEMMA ActualStep == ASSUME ClaimInv, NEW c \in Takers, Actual(c) PROVE ClaimInv'
<1>1. stage[c] = "actual" /\ SameCounters
  BY DEF Actual, SameCounters
<1>2. PICK e \in Int :
          /\ e = Sent - (Since(seen[c]) - over[c])
          /\ Less(0, Wrap(tailIndex - (seen[c] - over[c]))) <=> e > 0
          /\ e > 0 => Wrap(tailIndex - (seen[c] - over[c])) = e
  BY <1>1, ActualSees
<1>3. PICK granted : granted = IF e > 0 THEN Min({wanted[c], e}) ELSE 0
  OBVIOUS
<1>4. /\ wanted' = [wanted EXCEPT ![c] = granted] /\ over' = [over EXCEPT ![c] = wanted[c] - granted]
      /\ stage' = [stage EXCEPT ![c] = IF granted < wanted[c] THEN "giveback" ELSE "claim"] /\ seen' = seen
  BY <1>2, <1>3 DEF Actual, Move
<1>5. /\ ClaimTypes /\ Counting /\ Sent \in 0..MaxSent /\ Claims \in 0..Sent /\ dequeueOvercommit \in Nat
      /\ TakerInv(c) /\ CountedIn \in 0..Limit /\ LookInv(c)
      /\ Total(SureOf) \in Nat /\ Total(LookOf) \in Nat /\ Total(BackOf) \in Nat
      /\ \A d \in Takers : Total(BeforeOf(d)) \in Nat
      /\ Sent <= MaxSent /\ Reserved <= Sent
      /\ CountedIn = Claims + dequeueOvercommit + Total(SureOf) + Total(LookOf) + Total(BackOf)
  BY <1>1, InRange, Bounds DEF ClaimInv, BalanceInv
<1>6. /\ wanted[c] \in 1..MaxCall /\ over[c] \in 0..dequeueOvercommit /\ seen[c] \in Index
      /\ Since(seen[c]) + wanted[c] <= CountedIn /\ Since(seen[c]) \in Nat /\ over[c] \in Nat
  BY <1>1, <1>5, SinceIs, Bounds DEF TakerInv, Index
<1>7. /\ granted \in 0..MaxCall /\ granted <= wanted[c]
      /\ granted > 0 => granted <= e
      /\ e >= wanted[c] => granted = wanted[c]
  <2>1. CASE e > 0
    <3>1. granted = IF wanted[c] <= e THEN wanted[c] ELSE e
      BY <1>3, <1>6, <2>1, MinOfTwo, Bounds
    <3> QED
      BY <1>6, <2>1, <3>1, Bounds
  <2>2. CASE ~(e > 0)
    BY <1>3, <1>6, <2>2, Bounds
  <2> QED
    BY <2>1, <2>2
<1>8. PICK g \in Nat, w \in Nat, r \in Nat : g = granted /\ w = wanted[c] /\ r = Reserved
  <2>1. Reserved \in Nat /\ granted \in Nat /\ wanted[c] \in Nat
    BY <1>5, <1>6, <1>7, Bounds DEF Reserved
  <2> QED
    BY <2>1
<1>9. g <= w /\ w > 0
  BY <1>6, <1>7, <1>8
<1>10. Sent' = Sent /\ Claims' = Claims /\ CountedIn' = CountedIn /\ dequeueOvercommit' = dequeueOvercommit
  BY <1>1, SameCountersAre
<1>11. /\ Others(c) /\ wanted'[c] = g /\ over'[c] = w - g
       /\ stage'[c] = IF g < w THEN "giveback" ELSE "claim"
  BY <1>4, <1>5, <1>8 DEF Others, ClaimTypes
<1>12. ClaimTypes'
  BY <1>1, <1>4, <1>5 DEF ClaimTypes, SameCounters
<1>13. TakerInv(c)'
  <2>1. g \in 0..MaxCall /\ w - g \in 0..MaxCall
    BY <1>6, <1>7, <1>8, <1>9, Bounds
  <2>2. g < w \/ g \in 1..MaxCall
    BY <1>6, <1>8, <1>9, Bounds
  <2> QED
    BY <1>11, <2>1, <2>2 DEF TakerInv
<1>14. Counting'
  BY <1>5, <1>10, <1>11, <1>12, <1>13, TakersKept, Bounds
<1>15. /\ Total(SureOf)' = Total(SureOf) + (SureOf'[c] - SureOf[c])
       /\ Total(LookOf)' = Total(LookOf) + (LookOf'[c] - LookOf[c])
       /\ Total(BackOf)' = Total(BackOf) + (BackOf'[c] - BackOf[c])
  BY <1>5, <1>11, <1>14, TotalsMove
<1>16. /\ SureOf[c] = 0 /\ SureOf'[c] = g /\ BackOf[c] = 0 /\ BackOf'[c] = w - g
       /\ LookOf[c] = w /\ LookOf'[c] = 0
  <2>1. CASE g < w
    BY <1>1, <1>8, <1>11, <2>1 DEF SureOf, BackOf, LookOf
  <2>2. CASE ~(g < w)
    <3>1. w - g = 0
      BY <1>8, <1>9, <2>2
    <3> QED
      BY <1>1, <1>8, <1>11, <2>2, <3>1 DEF SureOf, BackOf, LookOf
  <2> QED
    BY <2>1, <2>2
<1>17. Reserved' = r + g
  BY <1>5, <1>8, <1>10, <1>15, <1>16 DEF Reserved
<1>18. PICK b \in Nat : b = Total(BeforeOf(c))
  BY <1>5
<1>19. r + b + w <= Sent \/ r + b + e <= Sent
  <2>1. r + b + w <= Sent \/ r + b <= Since(seen[c]) - over[c]
    BY <1>1, <1>5, <1>8, <1>18 DEF LookInv
  <2> QED
    BY <1>2, <1>5, <1>6, <1>8, <1>18, <2>1
<1>20. r <= Sent /\ (g > 0 => r + b + g <= Sent)
  <2>1. g > 0 => g <= e
    BY <1>7, <1>8
  <2> QED
    BY <1>5, <1>8, <1>9, <1>18, <1>19, <2>1
<1>21. BalanceInv'
  <2>1. CountedIn' = Claims' + dequeueOvercommit' + Total(SureOf)' + Total(LookOf)' + Total(BackOf)'
    BY <1>5, <1>8, <1>10, <1>15, <1>16
  <2>2. r + g <= Sent
    BY <1>5, <1>8, <1>18, <1>20
  <2> QED
    BY <2>1, <2>2, <1>5, <1>10, <1>17 DEF BalanceInv
<1>22. MissesInv'
  <2>1. RiskOf[c] = MaxCall
    BY <1>1 DEF RiskOf, Asking
  <2>2. RiskOf'[c] = IF g < w THEN MaxCall ELSE 0
    BY <1>11 DEF RiskOf, Asking
  <2>3. dequeueOvercommit' + RiskOf'[c] <= dequeueOvercommit + RiskOf[c]
    BY <2>1, <2>2, <1>5, <1>10, Bounds
  <2>4. ASSUME Lone(c) PROVE RiskOf'[c] = 0
    <3>1. /\ over[c] = dequeueOvercommit /\ wanted[c] <= Sent - Claims
          /\ Since(seen[c]) = Claims + dequeueOvercommit
      BY <1>1, <2>4 DEF Lone
    <3>2. e >= wanted[c]
      BY <1>2, <1>5, <1>6, <3>1, Bounds
    <3>3. g = w
      BY <1>7, <1>8, <3>2
    <3> QED
      BY <2>2, <3>3, <1>8
  <2> QED
    BY <1>1, <1>5, <1>10, <1>11, <1>14, <2>3, <2>4, MissesKept
<1>23. InOrder'
  <2> SUFFICES ASSUME NEW d \in Takers, NEW f \in Takers, d # f, stage'[d] = "actual", stage'[f] = "actual"
               PROVE  \/ Since(seen[d])' + wanted'[d] <= Since(seen[f])'
                      \/ Since(seen[f])' + wanted'[f] <= Since(seen[d])'
    BY DEF InOrder
  <2>1. d # c /\ f # c
    BY <1>11
  <2>2. /\ stage[d] = "actual" /\ seen'[d] = seen[d] /\ wanted'[d] = wanted[d]
        /\ stage[f] = "actual" /\ seen'[f] = seen[f] /\ wanted'[f] = wanted[f]
    BY <1>11, <2>1 DEF Others
  <2>3. Since(seen[d])' = Since(seen[d]) /\ Since(seen[f])' = Since(seen[f])
    BY <2>2 DEF Since, Wrap
  <2> QED
    BY <2>2, <2>3 DEF ClaimInv, InOrder
<1>24. ASSUME NEW d \in Takers PROVE LookInv(d)'
  <2> SUFFICES ASSUME stage'[d] = "actual" PROVE LookInv(d)'
    BY DEF LookInv
  <2>1. d # c
    BY <1>11
  <2>2. /\ LookInv(d) /\ TakerInv(d) /\ stage[d] = "actual" /\ wanted'[d] = wanted[d]
        /\ seen'[d] = seen[d] /\ over'[d] = over[d]
    BY <1>11, <2>1 DEF ClaimInv, Others
  <2>3. Since(seen[d])' = Since(seen[d])
    BY <2>2 DEF Since, Wrap
  <2>4. /\ wanted[d] \in 1..MaxCall /\ seen[d] \in Index /\ over[d] \in 0..dequeueOvercommit
        /\ Since(seen[d]) \in Nat /\ over[d] \in Nat /\ wanted[d] \in Nat
    BY <2>2, <1>5, SinceIs, Bounds DEF TakerInv, Index
  <2>5. PICK t \in Nat, v \in Nat, y \in Nat, z \in Nat :
            t = Total(BeforeOf(d)) /\ v = Since(seen[d]) /\ y = wanted[d] /\ z = over[d]
    BY <1>5, <2>4
  <2>6. r + t + y <= Sent \/ r + t <= v - z
    BY <2>2, <2>5, <1>8 DEF LookInv
  <2>7. Total(BeforeOf(d))' = t + (BeforeOf(d)'[c] - BeforeOf(d)[c])
    <3>1. \A f \in Takers \ {c} : BeforeOf(d)'[f] = BeforeOf(d)[f]
      <4> SUFFICES ASSUME NEW f \in Takers \ {c} PROVE BeforeOf(d)'[f] = BeforeOf(d)[f]
        OBVIOUS
      <4>1. stage'[f] = stage[f] /\ wanted'[f] = wanted[f] /\ seen'[f] = seen[f]
        BY <1>11 DEF Others
      <4>2. Since(seen[f])' = Since(seen[f])
        BY <4>1 DEF Since, Wrap
      <4> QED
        BY <2>3, <4>1, <4>2 DEF BeforeOf
    <3>2. Counts(BeforeOf(d)) /\ Counts(BeforeOf(d)')
      <4>1. \A f \in Takers : BeforeOf(d)'[f] \in 0..MaxCall
        BY <1>14, Bounds DEF Counting, TakerInv, BeforeOf
      <4>2. DOMAIN BeforeOf(d)' = Takers
        BY DEF BeforeOf
      <4> QED
        BY <1>5, <4>1, <4>2, AllCount DEF Counts
    <3>3. PICK f, h : f = BeforeOf(d) /\ h = BeforeOf(d)'
      OBVIOUS
    <3>4. Total(h) = Total(f) + (h[c] - f[c])
      BY <3>1, <3>2, <3>3, TotalOne
    <3>5. Total(BeforeOf(d))' = Total(h)
      BY <3>3 DEF Total, Units
    <3> QED
      BY <3>3, <3>4, <3>5, <2>5
  <2>8. BeforeOf(d)'[c] = 0
    BY <1>11 DEF BeforeOf
  <2>9. CASE Since(seen[c]) < Since(seen[d])
    <3>1. BeforeOf(d)[c] = w
      BY <1>1, <1>8, <2>9 DEF BeforeOf
    <3>2. Total(BeforeOf(d))' = t - w
      BY <2>5, <2>7, <2>8, <3>1, <1>8
    <3>3. \/ (r + g) + (t - w) + y <= Sent
          \/ (r + g) + (t - w) <= v - z
      BY <1>5, <1>8, <1>9, <2>5, <2>6
    <3> QED
      BY <1>10, <1>17, <2>2, <2>3, <2>5, <3>2, <3>3 DEF LookInv
  <2>10. CASE ~(Since(seen[c]) < Since(seen[d]))
    <3>1. BeforeOf(d)[c] = 0
      BY <2>10 DEF BeforeOf
    <3>2. Total(BeforeOf(d))' = t
      BY <2>5, <2>7, <2>8, <3>1
    <3>3. Since(seen[d]) + wanted[d] <= Since(seen[c])
      <4>1. \/ Since(seen[c]) + wanted[c] <= Since(seen[d])
            \/ Since(seen[d]) + wanted[d] <= Since(seen[c])
        BY <1>1, <2>1, <2>2 DEF ClaimInv, InOrder
      <4> QED
        BY <4>1, <1>6, <2>4, <2>10, Bounds
    <3>4. t + y <= b
      <4>1. /\ Counting /\ c # d /\ stage[d] = "actual" /\ wanted[d] \in 1..MaxCall
            /\ Since(seen[d]) \in Nat /\ Since(seen[c]) \in Nat
        BY <1>5, <1>6, <2>1, <2>2, <2>4
      <4>2. Total(BeforeOf(d)) + wanted[d] <= Total(BeforeOf(c))
        BY <4>1, <3>3, BehindHolds
      <4> QED
        BY <4>2, <1>18, <2>5
    <3>5. (r + g) + t + y <= Sent \/ (r + g) + t <= v - z
      <4>1. CASE g > 0
        BY <1>5, <1>8, <1>18, <1>20, <2>5, <3>4, <4>1
      <4>2. CASE g = 0
        BY <1>8, <2>5, <2>6, <4>2
      <4> QED
        BY <4>1, <4>2, <1>8
    <3> QED
      BY <1>10, <1>17, <2>2, <2>3, <2>5, <3>2, <3>5 DEF LookInv
  <2> QED
    BY <2>9, <2>10
<1> QED
  BY <1>12, <1>14, <1>21, <1>22, <1>23, <1>24 DEF ClaimInv, Counting

(* The producer makes more visible.                                         *)
LEMMA VisibleStep ==
    ASSUME ClaimInv, NEW k \in Nat, Sent + k <= MaxSent, Publish(k),
           UNCHANGED <<headIndex, dequeueOptimisticCount, dequeueOvercommit, stage, registers>>
    PROVE  ClaimInv' /\ Sent' = Sent + k
<1>1. /\ tailIndex' = Wrap(tailIndex + k) /\ headIndex' = headIndex
      /\ dequeueOptimisticCount' = dequeueOptimisticCount /\ dequeueOvercommit' = dequeueOvercommit
      /\ stage' = stage /\ wanted' = wanted /\ seen' = seen /\ over' = over
  BY DEF Publish, registers
<1>2. ClaimTypes /\ BalanceInv /\ MissesInv /\ InOrder /\ Sent \in Nat /\ Claims \in Nat
      /\ \A c \in Takers : TakerInv(c) /\ LookInv(c)
  BY InRange, Bounds DEF ClaimInv
<1>3. tailIndex' \in Index /\ Sent' = Sent + k
  <2>1. Sent + k < Width
    <3>1. PICK l \in Nat, m \in Nat : l = Limit /\ m = MaxSent
      BY Bounds
    <3>2. m <= l /\ 2 * l < Width /\ Width \in Nat
      BY <3>1, Bounds DEF Limit
    <3> QED
      BY <3>1, <3>2, <1>2
  <2>2. tailIndex \in Index /\ Since(tailIndex) + k < Width
    BY <1>2, <2>1 DEF ClaimTypes, Sent, Since
  <2>3. Wrap(tailIndex + k) \in Index /\ Since(Wrap(tailIndex + k)) = Since(tailIndex) + k
    BY <2>2, SinceMoves
  <2> QED
    BY <1>1, <2>3 DEF Sent, Since, Wrap
<1>4. /\ Claims' = Claims /\ CountedIn' = CountedIn
      /\ \A c \in Takers : Since(seen[c])' = Since(seen[c])
  BY <1>1 DEF Claims, CountedIn, Since, Wrap
<1>5. /\ Total(SureOf)' = Total(SureOf) /\ Total(LookOf)' = Total(LookOf) /\ Total(BackOf)' = Total(BackOf)
      /\ Total(RiskOf)' = Total(RiskOf)
  BY <1>1 DEF Total, Units, SureOf, LookOf, BackOf, RiskOf
<1>6. ASSUME NEW c \in Takers PROVE Total(BeforeOf(c))' = Total(BeforeOf(c))
  <2>1. BeforeOf(c)' = BeforeOf(c)
    BY <1>1, <1>4 DEF BeforeOf
  <2>2. Total(BeforeOf(c))' = Total(BeforeOf(c)')
    BY DEF Total, Units
  <2> QED
    BY <2>1, <2>2
<1>7. Reserved' = Reserved
  BY <1>4, <1>5 DEF Reserved
<1>8. ClaimTypes'
  BY <1>1, <1>2, <1>3 DEF ClaimTypes
<1>9. BalanceInv'
  <2>1. Reserved \in Nat /\ Reserved <= Sent /\ MaxSent \in Nat
    BY <1>2, InRange, Bounds DEF BalanceInv, Reserved
  <2>2. Sent' <= MaxSent /\ Reserved' <= Sent'
    BY <1>2, <1>3, <1>7, <2>1
  <2> QED
    BY <1>1, <1>2, <1>4, <1>5, <2>2 DEF BalanceInv
<1>10. MissesInv'
  <2>1. CASE dequeueOvercommit + Total(RiskOf) <= Most
    BY <1>1, <1>5, <2>1 DEF MissesInv, Most
  <2>2. ASSUME NEW c \in Takers, Lone(c) PROVE Lone(c)'
    <3>1. stage[c] \in {"count", "actual"} => wanted[c] \in Nat /\ wanted[c] <= Sent' - Claims
      BY <1>2, <1>3, <2>2, Bounds DEF Lone, TakerInv
    <3> QED
      BY <1>1, <1>4, <2>2, <3>1 DEF Lone, Most
  <2> QED
    BY <1>2, <2>1, <2>2 DEF MissesInv
<1>11. InOrder'
  BY <1>1, <1>2, <1>4 DEF InOrder
<1>12. ASSUME NEW c \in Takers PROVE TakerInv(c)'
  <2>1. seen[c] \in Index => Since(seen[c]) \in Nat
    BY SinceIs, Bounds DEF Index
  <2>2. seen[c] \in Index /\ Since(seen[c]) <= Sent => Since(seen[c])' <= Sent'
    BY <1>2, <1>3, <1>4, <2>1
  <2> QED
    BY <1>1, <1>2, <1>4, <2>2 DEF TakerInv
<1>13. ASSUME NEW c \in Takers PROVE LookInv(c)'
  <2> SUFFICES ASSUME stage[c] = "actual" PROVE LookInv(c)'
    BY <1>1 DEF LookInv
  <2>1. Reserved \in Nat /\ Total(BeforeOf(c)) \in Nat /\ wanted[c] \in Nat
    BY <1>2, InRange, Bounds DEF Reserved, TakerInv
  <2>2. \/ Reserved + Total(BeforeOf(c)) + wanted[c] <= Sent
        \/ Reserved + Total(BeforeOf(c)) <= Since(seen[c]) - over[c]
    BY <1>2 DEF LookInv
  <2>3. \/ Reserved + Total(BeforeOf(c)) + wanted[c] <= Sent'
        \/ Reserved + Total(BeforeOf(c)) <= Since(seen[c]) - over[c]
    BY <1>2, <1>3, <2>1, <2>2
  <2> QED
    BY <1>1, <1>4, <1>6, <1>7, <2>3 DEF LookInv
<1> QED
  BY <1>3, <1>8, <1>9, <1>10, <1>11, <1>12, <1>13 DEF ClaimInv

(* A step of the producer that makes nothing visible.                       *)
LEMMA ClaimStutter ==
    ASSUME ClaimInv, UNCHANGED claimVars PROVE ClaimInv' /\ Sent' = Sent
<1>1. /\ tailIndex' = tailIndex /\ headIndex' = headIndex
      /\ dequeueOptimisticCount' = dequeueOptimisticCount /\ dequeueOvercommit' = dequeueOvercommit
      /\ stage' = stage /\ wanted' = wanted /\ seen' = seen /\ over' = over
  BY DEF claimVars, registers
<1>2. /\ Claims' = Claims /\ CountedIn' = CountedIn /\ Sent' = Sent
      /\ \A c \in Takers : Since(seen[c])' = Since(seen[c])
  BY <1>1 DEF Claims, CountedIn, Sent, Since, Wrap
<1>3. /\ Total(SureOf)' = Total(SureOf) /\ Total(LookOf)' = Total(LookOf) /\ Total(BackOf)' = Total(BackOf)
      /\ Total(RiskOf)' = Total(RiskOf)
  BY <1>1 DEF Total, Units, SureOf, LookOf, BackOf, RiskOf
<1>4. ASSUME NEW c \in Takers PROVE Total(BeforeOf(c))' = Total(BeforeOf(c))
  <2>1. BeforeOf(c)' = BeforeOf(c)
    BY <1>1, <1>2 DEF BeforeOf
  <2>2. Total(BeforeOf(c))' = Total(BeforeOf(c)')
    BY DEF Total, Units
  <2> QED
    BY <2>1, <2>2
<1>5. Reserved' = Reserved
  BY <1>2, <1>3 DEF Reserved
<1>6. ClaimTypes' /\ BalanceInv' /\ InOrder'
  BY <1>1, <1>2, <1>3, <1>5 DEF ClaimInv, ClaimTypes, BalanceInv, InOrder
<1>7. MissesInv'
  BY <1>1, <1>2, <1>3 DEF ClaimInv, MissesInv, Lone, Most
<1>8. ASSUME NEW c \in Takers PROVE TakerInv(c)' /\ LookInv(c)'
  BY <1>1, <1>2, <1>4, <1>5 DEF ClaimInv, TakerInv, LookInv
<1> QED
  BY <1>2, <1>6, <1>7, <1>8 DEF ClaimInv

LEMMA ClaimingStep == ASSUME ClaimInv, NEW c \in Takers, Claiming(c) PROVE ClaimInv' /\ Sent' = Sent
<1>1. Sent' = Sent
  <2>1. tailIndex' = tailIndex
    BY DEF Claiming, Call, LoadOvercommit, Desire, CountIn, Actual, GiveBack, Claim
  <2> QED
    BY <2>1 DEF Sent, Wrap
<1> QED
  BY <1>1, CallStep, LoadStep, DesireStep, CountInStep, ActualStep, GiveBackStep, ClaimStep DEF Claiming

(* What a consumer does with its elements is nothing to the counters.       *)
LEMMA EmptyingStep == ASSUME ClaimInv, NEW c \in Takers, Emptying(c) PROVE ClaimInv' /\ Sent' = Sent
<1>1. SameCounters
  BY DEF Emptying, SameCounters
<1>2. ClaimTypes
  BY DEF ClaimInv
<1>3. ASSUME NextBlock(c)
      PROVE  Others(c) /\ stage'[c] \in After \cup {"idle"}
  <2>1. CASE Leave(c)
    BY <2>1, LeaveIs DEF After
  <2>2. CASE ~Leave(c)
    BY <1>2, <1>3, <2>2 DEF NextBlock, Move, Others, ClaimTypes, After
  <2> QED
    BY <2>1, <2>2
<1>4. stage[c] \in After /\ Others(c) /\ stage'[c] \in After \cup {"idle"}
  <2>1. CASE LoadIndex(c)
    BY <1>2, <2>1 DEF LoadIndex, Move, Others, ClaimTypes, After
  <2>2. CASE LoadIndexTail(c)
    BY <1>2, <2>2 DEF LoadIndexTail, Move, Others, ClaimTypes, After
  <2>3. CASE LocateEntry(c)
    BY <1>2, <2>3 DEF LocateEntry, Move, Others, ClaimTypes, After
  <2>4. CASE TakeOut(c)
    BY <1>2, <2>4 DEF TakeOut, Move, Others, ClaimTypes, After
  <2>5. CASE SetEmpty(c)
    <3>1. CASE NextBlock(c)
      BY <1>3, <2>5, <3>1 DEF SetEmpty, After
    <3>2. CASE ~NextBlock(c)
      BY <1>2, <2>5, <3>2 DEF SetEmpty, Move, registers, Others, ClaimTypes, After
    <3> QED
      BY <3>1, <3>2
  <2>6. CASE Unlist(c)
    BY <1>2, <2>6 DEF Unlist, Move, registers, Others, ClaimTypes, After
  <2>7. CASE FreeBlock(c)
    BY <1>3, <2>7 DEF FreeBlock, After
  <2> QED
    BY <2>1, <2>2, <2>3, <2>4, <2>5, <2>6, <2>7 DEF Emptying
<1> QED
  BY <1>1, <1>4, OnStep, SameCountersAre

-----------------------------------------------------------------------------
(* The counters, and that there is room for what the producer adds.         *)
SettleInv == ClaimInv /\ adding \in Nat /\ Sent + adding <= MaxSent

LEMMA CountersBegin == ASSUME ClaimInit, adding = 0 PROVE SettleInv
<1>1. /\ tailIndex = Start /\ headIndex = Start /\ dequeueOptimisticCount = Start /\ dequeueOvercommit = 0
      /\ stage = [c \in Takers |-> "idle"] /\ wanted = [c \in Takers |-> 0]
      /\ seen = wanted /\ over = wanted
  BY DEF ClaimInit
<1>2. Sent = 0 /\ Claims = 0 /\ CountedIn = 0
  <2>1. Start - Start = 0 /\ 0 \in Index
    BY Bounds DEF Index
  <2>2. Wrap(0) = 0
    BY <2>1, WrapSmall
  <2> QED
    BY <1>1, <2>1, <2>2 DEF Sent, Claims, CountedIn, Since
<1>3. \A c \in Takers : SureOf[c] = 0 /\ LookOf[c] = 0 /\ BackOf[c] = 0 /\ RiskOf[c] = 0
  BY <1>1 DEF SureOf, LookOf, BackOf, RiskOf, Asking
<1>4. Total(SureOf) = 0 /\ Total(LookOf) = 0 /\ Total(BackOf) = 0 /\ Total(RiskOf) = 0
  BY <1>3, TotalNone DEF SureOf, LookOf, BackOf, RiskOf
<1>5. ClaimTypes
  <2>1. Start \in Index /\ 0 \in Index
    BY Bounds DEF Index
  <2> QED
    BY <1>1, <2>1 DEF ClaimTypes
<1>6. BalanceInv /\ MissesInv
  BY <1>1, <1>2, <1>4, Bounds DEF BalanceInv, MissesInv, Reserved
<1>7. InOrder /\ \A c \in Takers : TakerInv(c) /\ LookInv(c)
  BY <1>1 DEF InOrder, TakerInv, LookInv
<1> QED
  BY <1>1, <1>2, <1>5, <1>6, <1>7, Bounds DEF SettleInv, ClaimInv

LEMMA SettleInit == ASSUME ImplicitInit PROVE SettleInv
<1> QED
  BY CountersBegin DEF ImplicitInit

LEMMA SettleStep == ASSUME SettleInv, [ImplicitNext]_implicitVars PROVE SettleInv'
<1>1. ClaimInv /\ adding \in Nat /\ Sent + adding <= MaxSent /\ Sent \in Nat /\ MaxSent \in Nat
  BY InRange, Bounds DEF SettleInv
<1>2. ASSUME UNCHANGED <<claimVars, adding>> PROVE SettleInv'
  BY <1>1, <1>2, ClaimStutter DEF SettleInv
<1>3. CASE EnqueueBulk
  <2>1. PICK k \in 1..MaxCall : Sent + k <= MaxSent /\ adding' = k
    BY <1>3 DEF EnqueueBulk
  <2>2. ClaimInv' /\ Sent' = Sent
    BY <1>1, <1>3, ClaimStutter DEF EnqueueBulk
  <2> QED
    BY <2>1, <2>2, Bounds DEF SettleInv
<1>4. CASE Published
  <2>1. Publish(adding) /\ adding' = 0
        /\ UNCHANGED <<headIndex, dequeueOptimisticCount, dequeueOvercommit, stage, registers>>
    BY <1>4 DEF Published
  <2>2. ClaimInv' /\ Sent' = Sent + adding
    BY <1>1, <2>1, VisibleStep
  <2> QED
    BY <1>1, <2>1, <2>2 DEF SettleInv
<1>5. CASE Undone
  <2>1. UNCHANGED claimVars /\ adding' = 0
    BY <1>5 DEF Undone
  <2>2. ClaimInv' /\ Sent' = Sent
    BY <1>1, <2>1, ClaimStutter
  <2> QED
    BY <1>1, <2>1, <2>2 DEF SettleInv
<1>6. CASE Produce
  <2>1. CASE Reserve
    BY <1>2, <2>1 DEF Reserve
  <2>2. CASE Grow
    BY <1>2, <2>2 DEF Grow
  <2>3. CASE List
    BY <1>2, <2>3 DEF List
  <2>4. ASSUME NEW b \in Blocks, TakeBlock(b) PROVE SettleInv'
    BY <1>2, <2>4 DEF TakeBlock
  <2>5. CASE NoBlock
    BY <1>2, <2>5 DEF NoBlock
  <2>6. CASE Fill
    BY <1>2, <2>6 DEF Fill
  <2>7. CASE Throw
    BY <1>2, <2>7 DEF Throw
  <2>8. CASE Undo
    BY <1>2, <2>8 DEF Undo
  <2>9. CASE UndoBlock
    BY <1>2, <2>9 DEF UndoBlock
  <2> QED
    BY <1>4, <1>5, <1>6, <2>1, <2>2, <2>3, <2>4, <2>5, <2>6, <2>7, <2>8, <2>9 DEF Produce
<1>7. CASE Destroy
  BY <1>2, <1>7 DEF Destroy
<1>8. ASSUME NEW c \in Takers, Consume(c) PROVE SettleInv'
  <2>1. ClaimInv' /\ Sent' = Sent
    BY <1>1, <1>8, ClaimingStep, EmptyingStep DEF Consume
  <2>2. adding' = adding
    BY <1>8 DEF Consume, Emptying, producer
  <2> QED
    BY <1>1, <2>1, <2>2 DEF SettleInv
<1>9. CASE UNCHANGED implicitVars
  BY <1>2, <1>9 DEF implicitVars, producer
<1> QED
  BY <1>3, <1>6, <1>7, <1>8, <1>9 DEF ImplicitNext

(* The places of some are what each of them has.                            *)
LEMMA HeldIs ==
    ASSUME NEW S, NEW f, NEW h, DOMAIN h = Takers, S \subseteq Takers,
           \A c \in Takers : h[c] = IF c \in S THEN f[c] ELSE 0
    PROVE  Held(S, f) = Units(h, MaxCall)
<1>1. Held(S, f) \subseteq Units(h, MaxCall)
  BY DEF Held, Units
<1>2. Units(h, MaxCall) \subseteq Held(S, f)
  <2> SUFFICES ASSUME NEW xi \in Units(h, MaxCall) PROVE xi \in Held(S, f)
    OBVIOUS
  <2>1. PICK c \in Takers, i \in 1..MaxCall : xi = <<c, i>> /\ i <= h[c]
    BY DEF Units
  <2>2. c \in S
    BY <2>1, Bounds
  <2> QED
    BY <2>1, <2>2 DEF Held
<1> QED
  BY <1>1, <1>2

(* The counters are settled.                                                *)
LEMMA ClaimsSettle == ASSUME ClaimInv PROVE CountsSettled
<1>1. /\ ClaimTypes /\ Counting /\ Sent \in 0..MaxSent /\ Claims \in 0..Sent /\ CountedIn \in 0..Limit
      /\ Total(SureOf) \in Nat /\ Total(LookOf) \in Nat /\ Total(BackOf) \in Nat /\ dequeueOvercommit \in Nat
      /\ Claims + Total(SureOf) <= Sent
      /\ CountedIn = Claims + dequeueOvercommit + Total(SureOf) + Total(LookOf) + Total(BackOf)
      /\ tailIndex \in Index /\ headIndex \in Index /\ dequeueOptimisticCount \in Index
  BY InRange, Bounds DEF ClaimInv, BalanceInv, Reserved, ClaimTypes
<1>2. PICK L : L = {c \in Takers : stage[c] = "actual"}
  OBVIOUS
<1>3. Held(Sure, wanted) = Units(SureOf, MaxCall)
  <2>1. DOMAIN SureOf = Takers /\ Sure \subseteq Takers
        /\ \A c \in Takers : SureOf[c] = IF c \in Sure THEN wanted[c] ELSE 0
    BY DEF SureOf, Sure
  <2> QED
    BY <2>1, HeldIs
<1>4. Held(L, wanted) = Units(LookOf, MaxCall)
  <2>1. DOMAIN LookOf = Takers /\ L \subseteq Takers
        /\ \A c \in Takers : LookOf[c] = IF c \in L THEN wanted[c] ELSE 0
    BY <1>2 DEF LookOf
  <2> QED
    BY <2>1, HeldIs
<1>5. Held(GivingBack, over) = Units(BackOf, MaxCall)
  <2>1. DOMAIN BackOf = Takers /\ GivingBack \subseteq Takers
        /\ \A c \in Takers : BackOf[c] = IF c \in GivingBack THEN over[c] ELSE 0
    BY DEF BackOf, GivingBack
  <2> QED
    BY <2>1, HeldIs
<1>6. Cardinality(Held(InFlight, wanted)) = Total(SureOf) + Total(LookOf)
  <2>1. InFlight = Sure \cup L /\ Sure \cap L = {}
    BY <1>2 DEF InFlight, Sure
  <2>2. PICK F, G : F = Held(Sure, wanted) /\ G = Held(L, wanted)
    OBVIOUS
  <2>3. Held(InFlight, wanted) = F \cup G /\ F \cap G = {}
    BY <2>1, <2>2 DEF Held
  <2>4. IsFiniteSet(F) /\ IsFiniteSet(G)
    BY <1>1, <1>3, <1>4, <2>2, AllCount, TotalNat
  <2>5. Cardinality(F \cup G) = Cardinality(F) + Cardinality(G) - Cardinality(F \cap G)
    BY <2>4, FS_Union
  <2>6. Cardinality(F \cap G) = 0
    BY <2>3, FS_EmptySet
  <2>7. Cardinality(F) = Total(SureOf) /\ Cardinality(G) = Total(LookOf)
    BY <1>3, <1>4, <2>2 DEF Total
  <2> QED
    BY <1>1, <2>3, <2>5, <2>6, <2>7
<1>7. EveryCountSettled
  <2>1. PICK x \in Int, h \in Int, v \in Int : x = dequeueOptimisticCount /\ h = headIndex /\ v = dequeueOvercommit
    BY <1>1, Bounds DEF Index
  <2>2. PICK o \in Int, q \in Int, s \in Int :
            o = CountedIn /\ q = Claims /\ s = Total(SureOf) + Total(LookOf) + Total(BackOf)
    BY <1>1, Bounds
  <2>3. -v \in Int /\ x - (h - (-v)) = x - v - h /\ o - (q - (-v)) = s
    BY <1>1, <2>1, <2>2
  <2>4. Wrap(x - (h - (-v))) = Wrap(o - (q - (-v)))
    BY <1>1, <2>1, <2>2, <2>3, SinceApart DEF CountedIn, Claims
  <2>5. Wrap(x - v - h) = Wrap(s)
    BY <2>3, <2>4
  <2>6. s = Cardinality(Held(InFlight, wanted)) + Cardinality(Held(GivingBack, over))
    BY <1>5, <1>6, <2>2 DEF Total
  <2> QED
    BY <2>1, <2>5, <2>6 DEF EveryCountSettled
<1>8. HeadStaysBehind
  <2>1. PICK e \in Nat : e = Sent - Claims
    BY <1>1, Bounds
  <2>2. 2 * e < Width /\ -2 * e < Width /\ e \in Int
    <3>1. PICK l \in Nat, m \in Nat : l = Limit /\ m = MaxSent
      BY Bounds
    <3>2. m <= l /\ 2 * l < Width /\ Width \in Nat
      BY <3>1, Bounds DEF Limit
    <3>3. e <= m
      BY <1>1, <2>1, <3>1
    <3> QED
      BY <2>1, <3>1, <3>2, <3>3
  <2>3. Signed(e) = e
    BY <2>2, LessIs
  <2>4. Wrap(tailIndex - headIndex) = Wrap(e)
    <3>1. Wrap(tailIndex - (headIndex - 0)) = Wrap(Sent - (Claims - 0))
      BY <1>1, SinceApart DEF Sent, Claims, Since
    <3>2. headIndex - 0 = headIndex /\ Claims - 0 = Claims
      BY <1>1, Bounds DEF Index
    <3> QED
      BY <2>1, <3>1, <3>2
  <2>5. Signed(tailIndex - headIndex) = e
    BY <2>3, <2>4 DEF Signed
  <2>6. Cardinality(Held(Sure, wanted)) = Total(SureOf)
    BY <1>3 DEF Total
  <2> QED
    BY <1>1, <2>1, <2>5, <2>6, Bounds DEF HeadStaysBehind
<1> QED
  BY <1>7, <1>8 DEF CountsSettled

(* Every place that consumers of a sub-queue ever count themselves in for   *)
(* is claimed, given back, or in the hands of one of them who is about to   *)
(* do so, and nobody claims an element that is not there, however stale     *)
(* what it has loaded (concurrentqueue.h:2555-2615, 2783-2815).             *)
THEOREM CountersSettled == ImplicitSpec => []CountsSettled
<1>1. ImplicitInit => SettleInv
  BY SettleInit
<1>2. SettleInv /\ [ImplicitNext]_implicitVars => SettleInv'
  BY SettleStep
<1>3. SettleInv => CountsSettled
  BY ClaimsSettle DEF SettleInv
<1> QED
  BY <1>1, <1>2, <1>3, PTL DEF ImplicitSpec

-----------------------------------------------------------------------------
(* The same counters beside the sub-queue of a thread with a token.         *)
CONSTANTS FirstIndexSize, AllocModes
VARIABLES
    slotsUsed, frontSlot, ringNext, emptyFlags, startBlock, firstAllocated, oldFront, oldSlotsUsed

Expl == INSTANCE ExplicitProducer WITH
    FirstSize <- FirstIndexSize, Null <- None, pc <- writer, count <- adding, next <- ringNext

LEMMA ExplClaiming == ASSUME NEW c \in Takers, Expl!Claiming(c) PROVE Claiming(c)
<1>1. CASE Expl!Call(c)
  BY <1>1 DEF Expl!Call, Expl!Size, Expl!Less, Expl!Wrap, Expl!Move, Call, Size, Less, Wrap, Move, Claiming
<1>2. CASE Expl!LoadOvercommit(c)
  BY <1>2 DEF Expl!LoadOvercommit, Expl!Move, LoadOvercommit, Move, Claiming
<1>3. CASE Expl!Desire(c)
  BY <1>3 DEF Expl!Desire, Expl!Min, Min, Expl!Leave, Expl!Less, Expl!Wrap, Expl!Move,
     Desire, Leave, Less, Wrap, Move, Claiming
<1>4. CASE Expl!CountIn(c)
  BY <1>4 DEF Expl!CountIn, Expl!Wrap, Expl!Move, CountIn, Wrap, Move, Claiming
<1>5. CASE Expl!Actual(c)
  BY <1>5 DEF Expl!Actual, Expl!Min, Min, Expl!Less, Expl!Wrap, Expl!Move, Actual, Less, Wrap, Move, Claiming
<1>6. CASE Expl!GiveBack(c)
  BY <1>6 DEF Expl!GiveBack, Expl!Leave, Expl!Wrap, Expl!Move, GiveBack, Leave, Wrap, Move, Claiming
<1>7. CASE Expl!Claim(c)
  BY <1>7 DEF Expl!Claim, Expl!Wrap, Expl!Move, Claim, Wrap, Move, Claiming
<1> QED
  BY <1>1, <1>2, <1>3, <1>4, <1>5, <1>6, <1>7 DEF Expl!Claiming

LEMMA ExplEmptying == ASSUME ClaimInv, NEW c \in Takers, Expl!Emptying(c) PROVE ClaimInv' /\ Sent' = Sent
<1>1. SameCounters
  BY DEF Expl!Emptying, SameCounters
<1>2. ClaimTypes
  BY DEF ClaimInv
<1>3. stage[c] \in After /\ Others(c) /\ stage'[c] \in After \cup {"idle"}
  <2>1. CASE Expl!LoadIndex(c)
    BY <1>2, <2>1 DEF Expl!LoadIndex, Expl!Move, Others, ClaimTypes, After
  <2>2. CASE Expl!LoadFront(c)
    BY <1>2, <2>2 DEF Expl!LoadFront, Expl!Move, Others, ClaimTypes, After
  <2>3. CASE Expl!LocateSlot(c)
    BY <1>2, <2>3 DEF Expl!LocateSlot, Expl!Move, Others, ClaimTypes, After
  <2>4. CASE Expl!TakeOut(c)
    BY <1>2, <2>4 DEF Expl!TakeOut, Expl!Move, Others, ClaimTypes, After
  <2>5. CASE Expl!SetEmpty(c)
    <3>1. CASE Expl!Leave(c)
      <4>1. Leave(c)
        BY <3>1 DEF Expl!Leave, Expl!Move, Leave, Move
      <4> QED
        BY <4>1, <2>5, LeaveIs DEF Expl!SetEmpty, After
    <3>2. CASE ~Expl!Leave(c)
      BY <1>2, <2>5, <3>2 DEF Expl!SetEmpty, Expl!Move, Others, ClaimTypes, After
    <3> QED
      BY <3>1, <3>2
  <2> QED
    BY <2>1, <2>2, <2>3, <2>4, <2>5 DEF Expl!Emptying
<1> QED
  BY <1>1, <1>3, OnStep, SameCountersAre

LEMMA ExplInit == ASSUME Expl!Init PROVE SettleInv
<1>1. ClaimInit /\ adding = 0
  BY DEF Expl!Init, Expl!ClaimInit, ClaimInit
<1> QED
  BY <1>1, CountersBegin

LEMMA ExplStep == ASSUME SettleInv, [Expl!Next]_(Expl!vars) PROVE SettleInv'
<1>1. ClaimInv /\ adding \in Nat /\ Sent + adding <= MaxSent /\ Sent \in Nat /\ MaxSent \in Nat
  BY InRange, Bounds DEF SettleInv
<1>2. ASSUME Expl!claimVars' = Expl!claimVars PROVE ClaimInv' /\ Sent' = Sent
  <2>1. UNCHANGED claimVars
    BY <1>2 DEF Expl!claimVars, Expl!registers, claimVars, registers
  <2> QED
    BY <1>1, <2>1, ClaimStutter
<1>3. ASSUME Expl!claimVars' = Expl!claimVars, adding' = adding \/ adding' = 0 PROVE SettleInv'
  BY <1>1, <1>2, <1>3 DEF SettleInv
<1>4. CASE Expl!Enqueue
  <2>1. PICK k \in 1..MaxCall : Sent + k <= MaxSent /\ adding' = k
    BY <1>4 DEF Expl!Enqueue, Expl!Sent, Expl!Wrap, Sent, Wrap
  <2>2. ClaimInv' /\ Sent' = Sent
    BY <1>2, <1>4 DEF Expl!Enqueue
  <2> QED
    BY <2>1, <2>2, Bounds DEF SettleInv
<1>5. CASE Expl!Published
  <2>1. Publish(adding) /\ adding' = 0
        /\ UNCHANGED <<headIndex, dequeueOptimisticCount, dequeueOvercommit, stage, registers>>
    BY <1>5 DEF Expl!Published, Expl!Publish, Expl!Done, Expl!Wrap, Expl!registers, Publish, Wrap, registers
  <2>2. ClaimInv' /\ Sent' = Sent + adding
    BY <1>1, <2>1, VisibleStep
  <2> QED
    BY <1>1, <2>1, <2>2 DEF SettleInv
<1>6. CASE Expl!Reuse
  BY <1>3, <1>6 DEF Expl!Reuse
<1>7. CASE Expl!Room
  BY <1>3, <1>7 DEF Expl!Room
<1>8. ASSUME NEW b \in Blocks, Expl!Inject(b) PROVE SettleInv'
  BY <1>3, <1>8 DEF Expl!Inject
<1>9. CASE Expl!NoBlock
  BY <1>3, <1>9 DEF Expl!NoBlock, Expl!call
<1>10. CASE Expl!Reset
  BY <1>3, <1>10 DEF Expl!Reset, Expl!call
<1>11. CASE Expl!Fill
  BY <1>3, <1>11 DEF Expl!Fill, Expl!call
<1>12. CASE Expl!Throw
  BY <1>3, <1>12 DEF Expl!Throw, Expl!call
<1>13. CASE Expl!Revert
  BY <1>3, <1>13 DEF Expl!Revert, Expl!Done
<1>14. CASE Expl!Destroy
  BY <1>3, <1>14 DEF Expl!Destroy, Expl!call
<1>15. ASSUME NEW c \in Takers, Expl!Consume(c) PROVE SettleInv'
  <2>1. ClaimInv' /\ Sent' = Sent
    BY <1>1, <1>15, ExplClaiming, ClaimingStep, ExplEmptying DEF Expl!Consume
  <2>2. adding' = adding
    BY <1>15 DEF Expl!Consume, Expl!Emptying, Expl!call
  <2> QED
    BY <1>1, <2>1, <2>2 DEF SettleInv
<1>16. CASE Expl!vars' = Expl!vars
  BY <1>3, <1>16 DEF Expl!vars, Expl!call
<1> QED
  BY <1>4, <1>5, <1>6, <1>7, <1>8, <1>9, <1>10, <1>11, <1>12, <1>13, <1>14, <1>15, <1>16 DEF Expl!Next

(* And the same of the sub-queue of a producer with a token                 *)
(* (concurrentqueue.h:1954-2003, 2248-2271).                                *)
THEOREM TokenCountersSettled == Expl!Spec => []CountsSettled
<1>1. Expl!Init => SettleInv
  BY ExplInit
<1>2. SettleInv /\ [Expl!Next]_(Expl!vars) => SettleInv'
  BY ExplStep
<1>3. SettleInv => CountsSettled
  BY ClaimsSettle DEF SettleInv
<1> QED
  BY <1>1, <1>2, <1>3, PTL DEF Expl!Spec
=============================================================================

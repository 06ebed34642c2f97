-------------------------- MODULE ImplicitProducer --------------------------
(***************************************************************************)
(* The sub-queue of a thread that enqueues without a token                 *)
(* (concurrentqueue.h, ImplicitProducer and the block pools): the kind the *)
(* server's pool uses.  Elements live in blocks; a circular index of       *)
(* entries leads from an element's index to its block.  The producer adds  *)
(* entries and grows the index, or takes back what a call has done that    *)
(* fails; consumers find their elements through an index that may already  *)
(* be an old one, and the last to leave a block unlists and frees it.      *)
(*                                                                         *)
(* enqueue is the bulk of one, and so is dequeue.  An element is its index.*)
(***************************************************************************)
EXTENDS ProducerBase, Sequences

CONSTANTS
    Blocks,        \* bound: the blocks that can ever be allocated
    FirstCapacity, \* IMPLICIT_INITIAL_INDEX_SIZE
    MaxHeaders,    \* bound: how often memory for an index is found
    Throws,        \* BOOLEAN: can the constructor of an element throw?
    None, Wild     \* no block; a value that was never initialised

ASSUME ImplicitAssumption ==
    /\ ProducerAssumption
    /\ FirstCapacity \in Nat \ {0} /\ MaxHeaders \in Nat \ {0} /\ Throws \in BOOLEAN

VARIABLES
    headers,   \* the block indices, the last one current: [slots: Seq(entry), tail]
    entries,   \* by number: [key: base or -1 (INVALID_BLOCK_BASE), value: block]
    tailBlock,
    elements,  \* of each block, by place: an element or None
    dequeued,  \* elementsCompletelyDequeued of each block
    freed,     \* how often each block is on the free list
    unborn,    \* blocks not allocated yet
    writer,    \* where the producer is
    adding, alloc, base, todo, \* its call: elements, allocation mode, next base, blocks to go
    chain,     \* the blocks it has taken so far
    pos,       \* a consumer's place in its index; later the entry it has found
    block,     \* the block it works on
    header     \* the index it has loaded

index_ == <<headers, entries>>
memory == <<elements, dequeued, freed, unborn>>
producer == <<tailBlock, writer, adding, alloc, base, todo, chain>>
found == <<pos, block, header>>
implicitVars == <<claimVars, index_, memory, producer, found>>

Cap(h) == Len(headers[h].slots)
EntryAt(h, p) == headers[h].slots[1 + (p % Cap(h))]

(* Start blocks of elements had come and gone through the first index.      *)
ImplicitInit ==
    /\ ClaimInit
    /\ LET past == Start \div BlockSize
           last(j) == past - 1 - ((past - 1 - j) % FirstCapacity)
       IN  /\ headers = <<[slots |-> [j \in 1..FirstCapacity |-> j], tail |-> (past - 1) % FirstCapacity]>>
           /\ entries = [j \in 1..FirstCapacity |->
                 IF last(j - 1) >= 0 THEN [key |-> BlockSize * last(j - 1), value |-> None]
                                     ELSE [key |-> -1, value |-> Wild]]
    /\ elements = [b \in Blocks |-> [k \in 0..(BlockSize - 1) |-> None]]
    /\ dequeued = [b \in Blocks |-> 0]
    /\ IF Start = 0 THEN unborn = Blocks /\ tailBlock = None
       ELSE \E b \in Blocks : unborn = Blocks \ {b} /\ tailBlock = b
    /\ freed = [b \in Blocks |-> IF b \in unborn THEN 0 ELSE 1]
    /\ writer = "idle" /\ adding = 0 /\ alloc = FALSE /\ base = 0 /\ todo = 0 /\ chain = <<>>
    /\ pos = [c \in Takers |-> 0] /\ header = pos
    /\ block = [c \in Takers |-> None]

-----------------------------------------------------------------------------
(* enqueue and enqueue_bulk.  The producer alone writes the index.          *)
EnqueueBulk ==
    /\ writer = "idle"
    /\ \E k \in 1..MaxCall, canAlloc \in BOOLEAN :
          /\ Sent + k <= MaxSent
          /\ adding' = k /\ alloc' = canAlloc
          /\ base' = Wrap(Base(tailIndex + BlockSize - 1))
          /\ todo' = (Base(tailIndex + k - 1 + BlockSize) - Base(tailIndex + BlockSize - 1)) \div BlockSize
          /\ writer' = IF todo' = 0 THEN "fill" ELSE "reserve"
    /\ chain' = <<>>
    /\ UNCHANGED <<claimVars, index_, memory, tailBlock, found>>

Latest == Len(headers)
NextEntry == EntryAt(Latest, headers[Latest].tail + 1)
Full == ~Less(headIndex, base + BlockSize)

(* Slip: the index is tried again without a look at what is in the entry.   *)
ReserveAny ==
    /\ writer = "reserve"
    /\ IF Full THEN writer' = "undo" /\ UNCHANGED entries
       ELSE writer' = "list" /\ entries' = [entries EXCEPT ![NextEntry].key = base]
    /\ UNCHANGED <<claimVars, headers, memory, tailBlock, adding, alloc, base, todo, chain, found>>

(* insert_block_index_entry finds a free entry and keys it, or has to grow. *)
Reserve ==
    /\ writer = "reserve"
    /\ IF Full THEN writer' = "undo" /\ UNCHANGED entries
       ELSE IF entries[NextEntry].key = -1 \/ entries[NextEntry].value = None
       THEN writer' = "list" /\ entries' = [entries EXCEPT ![NextEntry].key = base]
       ELSE writer' = (IF alloc THEN "grow" ELSE "undo") /\ UNCHANGED entries
    /\ UNCHANGED <<claimVars, headers, memory, tailBlock, adding, alloc, base, todo, chain, found>>

(* new_block_index: the entries of the old index from its oldest on, then   *)
(* as many new ones.                                                        *)
Grow ==
    /\ writer = "grow"
    /\ IF Latest < MaxHeaders
       THEN /\ writer' = "reserve"
            /\ entries' = entries \o [j \in 1..Cap(Latest) |-> [key |-> -1, value |-> Wild]]
            /\ headers' = Append(headers,
                  [slots |-> [j \in 1..(2 * Cap(Latest)) |->
                                 IF j <= Cap(Latest) THEN EntryAt(Latest, headers[Latest].tail + j)
                                 ELSE Len(entries) + j - Cap(Latest)],
                   tail |-> Cap(Latest) - 1])
       ELSE writer' = "undo" /\ UNCHANGED index_
    /\ UNCHANGED <<claimVars, memory, tailBlock, adding, alloc, base, todo, chain, found>>

List ==
    /\ writer = "list"
    /\ headers' = [headers EXCEPT ![Latest].tail = (@ + 1) % Cap(Latest)]
    /\ writer' = "block"
    /\ UNCHANGED <<claimVars, entries, memory, tailBlock, adding, alloc, base, todo, chain, found>>

Current == EntryAt(Latest, headers[Latest].tail)

(* requisition_block from a pool or, if the call may, from the heap; the    *)
(* block is reset and listed.                                               *)
TakeBlock(b) ==
    /\ writer = "block"
    /\ \/ freed[b] > 0
       \/ alloc /\ b \in unborn /\ \A a \in Blocks : freed[a] = 0
    /\ freed' = [freed EXCEPT ![b] = IF @ > 0 THEN @ - 1 ELSE 0]
    /\ unborn' = unborn \ {b}
    /\ dequeued' = [dequeued EXCEPT ![b] = 0]
    /\ entries' = [entries EXCEPT ![Current].value = b]
    /\ chain' = Append(chain, b)
    /\ base' = Wrap(base + BlockSize) /\ todo' = todo - 1
    /\ writer' = IF todo = 1 THEN "fill" ELSE "reserve"
    /\ UNCHANGED <<claimVars, headers, elements, tailBlock, adding, alloc, found>>

(* No memory: the entry just listed is taken back.                          *)
NoBlock ==
    /\ writer = "block"
    /\ \A b \in Blocks : freed[b] = 0
    /\ ~alloc \/ unborn = {}
    /\ headers' = [headers EXCEPT ![Latest].tail = (@ - 1) % Cap(Latest)]
    /\ entries' = [entries EXCEPT ![Current].value = None]
    /\ writer' = "undo"
    /\ UNCHANGED <<claimVars, memory, tailBlock, adding, alloc, base, todo, chain, found>>

FirstBase == Wrap(base - BlockSize * Len(chain))
BlockOf(i) == IF Signed(i - FirstBase) < 0 THEN tailBlock
              ELSE chain[1 + Wrap(i - FirstBase) \div BlockSize]
NewElements == {Wrap(tailIndex + k) : k \in 0..(adding - 1)}

(* Every element of the call is constructed in its place.                   *)
Fill ==
    /\ writer = "fill"
    /\ elements' = [b \in Blocks |-> [k \in 0..(BlockSize - 1) |->
          LET here == {i \in NewElements : BlockOf(i) = b /\ i % BlockSize = k}
          IN  IF here = {} THEN elements[b][k] ELSE CHOOSE i \in here : TRUE]]
    /\ writer' = "publish"
    /\ UNCHANGED <<claimVars, index_, dequeued, freed, unborn, found>>
    /\ UNCHANGED <<tailBlock, adding, alloc, base, todo, chain>>

(* The constructor of an element throws: those before it are destroyed.     *)
Throw ==
    /\ writer = "fill" /\ Throws
    /\ writer' = "undo"
    /\ UNCHANGED <<claimVars, index_, memory, tailBlock, adding, alloc, base, todo, chain, found>>

Published ==
    /\ writer = "publish"
    /\ Publish(adding)
    /\ tailBlock' = IF chain = <<>> THEN tailBlock ELSE chain[Len(chain)]
    /\ writer' = "idle" /\ adding' = 0 /\ alloc' = FALSE /\ base' = 0 /\ todo' = 0 /\ chain' = <<>>
    /\ UNCHANGED <<headIndex, dequeueOptimisticCount, dequeueOvercommit, stage, registers>>
    /\ UNCHANGED <<index_, memory, found>>

(* get_block_index_index_for_index, once header and its tail are loaded: C  *)
(* division keeps the sign of the offset.                                   *)
Locate(h, p, i) ==
    LET d == Signed(Base(i) - entries[EntryAt(h, p)].key)
    IN  (p + (IF d >= 0 THEN d \div BlockSize ELSE -((-d) \div BlockSize))) % Cap(h)

(* The call fails: the entries listed by it are cleared from the first on,  *)
(* then its blocks go back.  base and todo count them again.                *)
Undo ==
    /\ writer = "undo"
    /\ base' = FirstBase /\ todo' = Len(chain)
    /\ writer' = "unlist"
    /\ UNCHANGED <<claimVars, index_, memory, tailBlock, adding, alloc, chain, found>>

UndoBlock ==
    /\ writer = "unlist" /\ todo > 0
    /\ LET j == EntryAt(Latest, Locate(Latest, headers[Latest].tail, base))
       IN  entries' = [entries EXCEPT ![j].value = None]
    /\ headers' = [headers EXCEPT ![Latest].tail = (@ - 1) % Cap(Latest)]
    /\ base' = Wrap(base + BlockSize) /\ todo' = todo - 1
    /\ UNCHANGED <<claimVars, memory, tailBlock, writer, adding, alloc, chain, found>>

Undone ==
    /\ writer = "unlist" /\ todo = 0
    /\ freed' = [b \in Blocks |-> freed[b] + Cardinality({k \in DOMAIN chain : chain[k] = b})]
    /\ writer' = "idle" /\ adding' = 0 /\ alloc' = FALSE /\ base' = 0 /\ chain' = <<>>
    /\ UNCHANGED <<claimVars, index_, elements, dequeued, unborn, tailBlock, todo, found>>

(* ~ImplicitProducer, when every call has returned: the loop over the       *)
(* elements left frees each block it leaves, and the last block is freed    *)
(* unless the consumers have emptied it to its end.                         *)
Destroy ==
    /\ writer = "idle" /\ \A c \in Takers : stage[c] = "idle"
    /\ LET left == {Wrap(headIndex + k) : k \in 0..(Wrap(tailIndex - headIndex) - 1)}
           listed(i) == entries[EntryAt(Latest, Locate(Latest, headers[Latest].tail, i))].value
           left_behind == {listed(i) : i \in {j \in left : Base(j) # Base(Wrap(tailIndex - 1))}}
           last == tailBlock # None /\ (left # {} \/ tailIndex % BlockSize # 0)
       IN  freed' = [b \in Blocks |-> freed[b] + (IF b \in left_behind THEN 1 ELSE 0)
                                               + (IF last /\ b = tailBlock THEN 1 ELSE 0)]
    /\ writer' = "destroyed"
    /\ UNCHANGED <<claimVars, index_, elements, dequeued, unborn, found>>
    /\ UNCHANGED <<tailBlock, adding, alloc, base, todo, chain>>

-----------------------------------------------------------------------------
(* The rest of dequeue and dequeue_bulk: from a claimed index to its entry, *)
(* by three loads.                                                          *)
LoadIndex(c) ==
    /\ stage[c] = "claimed"
    /\ header' = [header EXCEPT ![c] = Latest]
    /\ Move(c, "tail")
    /\ UNCHANGED <<pos, block, wanted, seen, over, first>>

LoadIndexTail(c) ==
    /\ stage[c] = "tail"
    /\ pos' = [pos EXCEPT ![c] = headers[header[c]].tail]
    /\ Move(c, "locate")
    /\ UNCHANGED <<header, block, wanted, seen, over, first>>

LocateEntry(c) ==
    /\ stage[c] = "locate"
    /\ pos' = [pos EXCEPT ![c] = Locate(header[c], @, first[c])]
    /\ Move(c, "take")
    /\ UNCHANGED <<header, block, wanted, seen, over, first>>

EntryOf(c) == EntryAt(header[c], pos[c])
Here(c) == {i \in {Wrap(first[c] + k) : k \in 0..(wanted[c] - 1)} : Base(i) = Base(first[c])}

(* The elements of one block are moved out and destroyed.                   *)
TakeOut(c) ==
    /\ stage[c] = "take"
    /\ block' = [block EXCEPT ![c] = entries[EntryOf(c)].value]
    /\ elements' = [elements EXCEPT ![block'[c]] =
          [k \in 0..(BlockSize - 1) |-> IF \E i \in Here(c) : i % BlockSize = k THEN None ELSE @[k]]]
    /\ Move(c, "empty")
    /\ UNCHANGED <<header, pos, wanted, seen, over, first, entries, dequeued, freed>>

(* On to the next block of the claim, by the next entry of the same index.  *)
NextBlock(c) ==
    /\ block' = [block EXCEPT ![c] = None]
    /\ IF Cardinality(Here(c)) = wanted[c]
       THEN Leave(c) /\ pos' = [pos EXCEPT ![c] = 0] /\ header' = [header EXCEPT ![c] = 0]
       ELSE /\ pos' = [pos EXCEPT ![c] = (@ + 1) % Cap(header[c])]
            /\ wanted' = [wanted EXCEPT ![c] = @ - Cardinality(Here(c))]
            /\ first' = [first EXCEPT ![c] = Wrap(@ + Cardinality(Here(c)))]
            /\ Move(c, "take")
            /\ UNCHANGED <<seen, over, header>>

(* set_empty and set_many_empty: was it the last of the block?              *)
SetEmpty(c) ==
    /\ stage[c] = "empty"
    /\ dequeued' = [dequeued EXCEPT ![block[c]] = @ + Cardinality(Here(c))]
    /\ IF dequeued'[block[c]] = BlockSize THEN Move(c, "unlist") /\ UNCHANGED <<registers, found>>
       ELSE NextBlock(c)
    /\ UNCHANGED <<elements, entries, freed>>

Unlist(c) ==
    /\ stage[c] = "unlist"
    /\ entries' = [entries EXCEPT ![EntryOf(c)].value = None]
    /\ Move(c, "free")
    /\ UNCHANGED <<registers, found, elements, dequeued, freed>>

FreeBlock(c) ==
    /\ stage[c] = "free"
    /\ freed' = [freed EXCEPT ![block[c]] = @ + 1]
    /\ NextBlock(c)
    /\ UNCHANGED <<elements, dequeued, entries>>

Emptying(c) ==
    /\ \/ /\ LoadIndex(c) \/ LoadIndexTail(c) \/ LocateEntry(c)
          /\ UNCHANGED <<elements, dequeued, freed, entries>>
       \/ TakeOut(c) \/ SetEmpty(c) \/ Unlist(c) \/ FreeBlock(c)
    /\ UNCHANGED <<tailIndex, headIndex, dequeueOptimisticCount, dequeueOvercommit>>
    /\ UNCHANGED <<headers, unborn, producer>>

Consume(c) ==
    \/ writer # "destroyed" /\ Claiming(c) /\ UNCHANGED <<index_, memory, producer, found>>
    \/ Emptying(c)

Produce ==
    \/ Reserve \/ Grow \/ List \/ (\E b \in Blocks : TakeBlock(b)) \/ NoBlock
    \/ Fill \/ Throw \/ Published \/ Undo \/ UndoBlock \/ Undone

ImplicitNext == EnqueueBulk \/ Produce \/ Destroy \/ \E c \in Takers : Consume(c)

ImplicitSpec == ImplicitInit /\ [][ImplicitNext]_implicitVars

-----------------------------------------------------------------------------
ImplicitTypeOK ==
    /\ CountersTypeOK
    /\ \A j \in DOMAIN entries : entries[j].key \in Index \union {-1}
                              /\ entries[j].value \in Blocks \union {None, Wild}
    /\ \A h \in DOMAIN headers : headers[h].tail \in 0..(Cap(h) - 1)
    /\ dequeued \in [Blocks -> 0..BlockSize]
    /\ Len(chain) <= MaxCall /\ todo \in 0..MaxCall
    /\ writer \in {"idle", "reserve", "list", "grow", "block", "fill", "publish", "undo",
                   "unlist", "destroyed"}

(* The entry a consumer has found, however old the index it loaded and      *)
(* however often the producer has grown it or taken entries back meanwhile, *)
(* is the one of its element and leads to the block with it: the two        *)
(* assertions of the lookup (concurrentqueue.h:2957-2962).                  *)
FindsItsElements ==
    \A c \in Takers : stage[c] = "take" =>
        /\ entries[EntryOf(c)].key = Base(first[c])
        /\ entries[EntryOf(c)].value \in Blocks
        /\ \A i \in Here(c) : elements[entries[EntryOf(c)].value][i % BlockSize] = i

Live == {i \in Index : Signed(i - headIndex) >= 0 /\ Signed(i - tailIndex) < 0}

(* A block is in one place: not allocated, free once, in the hands of the   *)
(* producer, or in use; the free ones hold no element and nobody works in   *)
(* them.  After the destructor every block ever allocated is free, once     *)
(* (concurrentqueue.h:2446-2469, 2596-2609, 2664-2678, 3067-3115).          *)
BlocksAccounted ==
    /\ \A b \in Blocks : freed[b] <= 1 /\ (freed[b] = 1 => b \notin unborn)
    /\ \A c \in Takers : block[c] # None => freed[block[c]] = 0
    /\ \A k \in DOMAIN chain : freed[chain[k]] = 0 /\ \A l \in DOMAIN chain : l # k => chain[l] # chain[k]
    /\ writer # "destroyed" =>
          \A i \in Live : \E b \in Blocks : freed[b] = 0 /\ elements[b][i % BlockSize] = i
    /\ writer = "destroyed" => \A b \in Blocks : b \in unborn \/ freed[b] = 1

=============================================================================

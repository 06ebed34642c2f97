-------------------------- MODULE ExplicitProducer --------------------------
(***************************************************************************)
(* The sub-queue of a producer token (concurrentqueue.h, ExplicitProducer).*)
(* Its blocks form a ring that it keeps: the producer goes on to the next  *)
(* block of the ring if that is empty, else it inserts a new one.  An      *)
(* index, copied when it grows, leads from a base to its block; consumers  *)
(* only mark the places they have emptied.  A call that fails puts back    *)
(* the tail of the ring and of the index, but keeps the blocks inserted.   *)
(*                                                                         *)
(* enqueue is the bulk of one, and so is dequeue.  An element is its index.*)
(***************************************************************************)
EXTENDS ProducerBase, Sequences

CONSTANTS
    Blocks,        \* bound: the blocks that can ever be allocated
    FirstSize,     \* EXPLICIT_INITIAL_INDEX_SIZE
    MaxHeaders,    \* bound: how often memory for an index is found
    AllocModes,    \* subset of BOOLEAN: may the calls allocate?
    Throws,        \* BOOLEAN: can the constructor of an element throw?
    Null, Wild     \* no block; what was never initialised

ExplicitAssumption ==
    /\ FirstSize \in Nat \ {0} /\ MaxHeaders \in Nat \ {0}
    /\ AllocModes \subseteq BOOLEAN /\ Throws \in BOOLEAN

VARIABLES
    headers,   \* the block indices, the last one current: [slots: Seq([base, block]), front]
    slotsUsed, frontSlot, \* pr_blockIndexSlotsUsed; pr_blockIndexFront, the next slot
    next,      \* the ring
    tailBlock,
    elements,  \* of each block, by place: an element or Null
    emptyFlags,\* the places of each block marked empty
    unborn,    \* blocks in the pools or not allocated yet
    pc,        \* where the producer is
    count, alloc, base, todo,   \* its call: elements, allocation mode, next base, blocks to go
    startBlock, firstAllocated, oldFront, oldSlotsUsed,
    pos, block, header          \* of a consumer: its slot, the block it works on, its index

ring == <<next, tailBlock>>
indexing == <<headers, slotsUsed, frontSlot>>
memory == <<elements, emptyFlags, unborn>>
call == <<count, alloc, base, todo, startBlock, firstAllocated, oldFront, oldSlotsUsed>>
found == <<pos, block, header>>
vars == <<claimVars, ring, indexing, memory, pc, call, found>>

Latest == Len(headers)
Size_(h) == Len(headers[h].slots)
Slot(h, p) == headers[h].slots[1 + (p % Size_(h))]
Places == 0..(BlockSize - 1)
IsEmpty(b) == emptyFlags[b] = Places

(* Start elements had come and gone through one block, again and again.     *)
Init ==
    /\ ClaimInit
    /\ \E b \in Blocks :
          LET past == Start \div BlockSize
              last(j) == past - 1 - ((past - 1 - j) % FirstSize)
          IN  /\ headers = <<[front |-> IF past = 0 THEN -1 ELSE (past - 1) % FirstSize,
                     slots |-> [j \in 1..FirstSize |->
                         IF last(j - 1) >= 0 THEN [base |-> BlockSize * last(j - 1), block |-> b]
                                             ELSE [base |-> -1, block |-> Wild]]]>>
              /\ frontSlot = past % FirstSize
              /\ slotsUsed = IF past = 0 THEN 0 ELSE 1
              /\ tailBlock = IF past = 0 THEN Null ELSE b
              /\ unborn = IF past = 0 THEN Blocks ELSE Blocks \ {b}
    /\ next = [b \in Blocks |-> IF b \in unborn THEN Null ELSE b]
    /\ emptyFlags = [b \in Blocks |-> Places]
    /\ elements = [b \in Blocks |-> [k \in Places |-> Null]]
    /\ pc = "idle" /\ count = 0 /\ alloc = FALSE /\ base = 0 /\ todo = 0
    /\ startBlock = Null /\ firstAllocated = Null /\ oldFront = 0 /\ oldSlotsUsed = 0
    /\ pos = [c \in Takers |-> 0] /\ header = pos
    /\ block = [c \in Takers |-> Null]

-----------------------------------------------------------------------------
(* enqueue and enqueue_bulk remember where they began.                      *)
Enqueue ==
    /\ pc = "idle"
    /\ \E k \in 1..MaxCall, canAlloc \in AllocModes :
          /\ Sent + k <= MaxSent
          /\ count' = k /\ alloc' = canAlloc
          /\ base' = Wrap(Base(tailIndex + BlockSize - 1))
          /\ todo' = (Base(tailIndex + k - 1 + BlockSize) - Base(tailIndex + BlockSize - 1)) \div BlockSize
          /\ pc' = IF todo' = 0 THEN "fill" ELSE "reuse"
    /\ startBlock' = tailBlock /\ firstAllocated' = Null
    /\ oldFront' = frontSlot /\ oldSlotsUsed' = slotsUsed
    /\ UNCHANGED <<claimVars, ring, indexing, memory, found>>

(* One more block b is the tail, and the index knows it.                    *)
Advance(b) ==
    /\ tailBlock' = b
    /\ firstAllocated' = IF firstAllocated = Null THEN b ELSE firstAllocated
    /\ headers' = [headers EXCEPT ![Latest].slots[1 + frontSlot] = [base |-> base, block |-> b]]
    /\ frontSlot' = (frontSlot + 1) % Size_(Latest)
    /\ base' = Wrap(base + BlockSize) /\ todo' = todo - 1

CanReuse ==
    /\ tailBlock # Null
    /\ next[tailBlock] # firstAllocated
    /\ IsEmpty(next[tailBlock])

Reuse ==
    /\ pc = "reuse"
    /\ IF CanReuse
       THEN Advance(next[tailBlock]) /\ pc' = (IF todo = 1 THEN "reset" ELSE "reuse")
       ELSE pc' = "room" /\ UNCHANGED <<tailBlock, firstAllocated, headers, frontSlot, base, todo>>
    /\ UNCHANGED <<claimVars, next, slotsUsed, memory, found, count, alloc, startBlock, oldFront, oldSlotsUsed>>

Full == ~Less(headIndex, base + BlockSize)

(* new_block_index copies the slots in use, the oldest first, and shows     *)
(* those that were in use when the call began.                              *)
Grown == [front |-> oldSlotsUsed - 1,
          slots |-> [j \in 1..(2 * Size_(Latest)) |->
                        IF j <= slotsUsed THEN Slot(Latest, frontSlot - slotsUsed + j - 1)
                        ELSE [base |-> -1, block |-> Wild]]]

(* Is there room for another block, in the range of the indices and in the  *)
(* index?                                                                   *)
Room ==
    /\ pc = "room"
    /\ IF ~Full /\ slotsUsed < Size_(Latest) THEN pc' = "block" /\ UNCHANGED <<headers, frontSlot, oldFront>>
       ELSE IF ~Full /\ alloc /\ Latest < MaxHeaders
       THEN /\ pc' = "block"
            /\ headers' = Append(headers, Grown)
            /\ frontSlot' = slotsUsed
            /\ oldFront' = oldSlotsUsed
       ELSE pc' = "revert" /\ UNCHANGED <<headers, frontSlot, oldFront>>
    /\ UNCHANGED <<claimVars, ring, slotsUsed, memory, found>>
    /\ UNCHANGED <<count, alloc, base, todo, startBlock, firstAllocated, oldSlotsUsed>>

(* requisition_block: the block is linked in after the tail.                *)
Inject(b) ==
    /\ pc = "block"
    /\ b \in unborn
    /\ unborn' = unborn \ {b}
    /\ emptyFlags' = [emptyFlags EXCEPT ![b] = Places]
    /\ next' = IF tailBlock = Null THEN [next EXCEPT ![b] = b]
               ELSE [next EXCEPT ![b] = next[tailBlock], ![tailBlock] = b]
    /\ slotsUsed' = slotsUsed + 1
    /\ Advance(b)
    /\ pc' = IF todo = 1 THEN "reset" ELSE "room"
    /\ UNCHANGED <<claimVars, elements, found, count, alloc, startBlock, oldFront, oldSlotsUsed>>

NoBlock ==
    /\ pc = "block"
    /\ ~alloc \/ unborn = {}
    /\ pc' = "revert"
    /\ UNCHANGED <<claimVars, ring, indexing, memory, found, call>>

(* The blocks from the first one allocated to the tail.                     *)
Allocated ==
    LET from[k \in 0..Cardinality(Blocks), b \in Blocks] ==
            IF b = tailBlock \/ k = 0 THEN {b} ELSE {b} \union from[k - 1, next[b]]
    IN  from[Cardinality(Blocks), firstAllocated]

(* The new blocks are no longer empty; if no constructor can throw, the     *)
(* front of the index is shown already.                                     *)
Reset ==
    /\ pc = "reset"
    /\ emptyFlags' = [b \in Blocks |-> IF b \in Allocated THEN {} ELSE emptyFlags[b]]
    /\ headers' = IF Throws THEN headers
                  ELSE [headers EXCEPT ![Latest].front = (frontSlot - 1) % Size_(Latest)]
    /\ pc' = "fill"
    /\ UNCHANGED <<claimVars, ring, slotsUsed, frontSlot, elements, unborn, found, call>>

(* The block of a new element: the one the call began in, or the k-th of    *)
(* those it took.                                                           *)
NewElements == {Wrap(tailIndex + k) : k \in 0..(count - 1)}
FirstBase == Wrap(Base(tailIndex + BlockSize - 1))
BlockOf(i) ==
    LET ahead[k \in 0..MaxCall] == IF k = 0 THEN firstAllocated ELSE next[ahead[k - 1]]
    IN  IF Signed(i - FirstBase) < 0 THEN startBlock ELSE ahead[Wrap(i - FirstBase) \div BlockSize]

(* The elements are constructed; a front not shown yet is shown.            *)
Fill ==
    /\ pc = "fill"
    /\ elements' = [b \in Blocks |-> [k \in Places |->
          LET here == {i \in NewElements : BlockOf(i) = b /\ i % BlockSize = k}
          IN  IF here = {} THEN elements[b][k] ELSE CHOOSE i \in here : TRUE]]
    /\ headers' = IF firstAllocated = Null THEN headers
                  ELSE [headers EXCEPT ![Latest].front = (frontSlot - 1) % Size_(Latest)]
    /\ pc' = "publish"
    /\ UNCHANGED <<claimVars, ring, slotsUsed, frontSlot, emptyFlags, unborn, found, call>>

(* The constructor of an element throws: those before it are destroyed.     *)
Throw ==
    /\ pc = "fill" /\ Throws
    /\ pc' = "revert"
    /\ UNCHANGED <<claimVars, ring, indexing, memory, found, call>>

Done ==
    /\ pc' = "idle" /\ count' = 0 /\ alloc' = FALSE /\ base' = 0 /\ todo' = 0
    /\ startBlock' = Null /\ firstAllocated' = Null /\ oldFront' = 0 /\ oldSlotsUsed' = 0

Published ==
    /\ pc = "publish"
    /\ Publish(count)
    /\ Done
    /\ UNCHANGED <<headIndex, dequeueOptimisticCount, dequeueOvercommit, stage, registers>>
    /\ UNCHANGED <<ring, indexing, memory, found>>

(* The call fails: the tail goes back, the blocks stay in the ring.         *)
Revert ==
    /\ pc = "revert"
    /\ frontSlot' = oldFront /\ slotsUsed' = oldSlotsUsed
    /\ tailBlock' = IF startBlock = Null THEN firstAllocated ELSE startBlock
    /\ Done
    /\ UNCHANGED <<claimVars, headers, next, memory, found>>

(* ~ExplicitProducer, when every call has returned: in each block not       *)
(* marked empty the elements from the head to the tail are destroyed.       *)
(* What is destroyed without having been constructed becomes Wild.          *)
HalfDequeued ==
    LET from[k \in 0..slotsUsed] ==
            LET s == Slot(Latest, frontSlot - k)
            IN  IF k = 0 THEN Null
                ELSE IF Less(s.base + BlockSize, headIndex) THEN from[k - 1] ELSE s.block
    IN  IF headIndex % BlockSize = 0 THEN Null ELSE from[slotsUsed]

(* The ring as the destructor walks it.                                     *)
Walked ==
    LET from[k \in 0..Cardinality(Blocks)] ==
            IF k = 0 THEN {tailBlock} ELSE from[k - 1] \union {next[b] : b \in from[k - 1]}
    IN  IF tailBlock = Null THEN {} ELSE from[Cardinality(Blocks)]

Destroy ==
    /\ pc = "idle" /\ \A c \in Takers : stage[c] = "idle"
    /\ LET lo(b) == IF b = HalfDequeued THEN headIndex % BlockSize ELSE 0
           hi(b) == IF b = tailBlock /\ tailIndex % BlockSize # 0 THEN tailIndex % BlockSize ELSE BlockSize
       IN  elements' = [b \in Blocks |-> [k \in Places |->
              IF b \notin Walked \/ IsEmpty(b) \/ k < lo(b) \/ k >= hi(b) THEN elements[b][k]
              ELSE IF elements[b][k] = Null THEN Wild ELSE Null]]
    /\ pc' = "destroyed"
    /\ UNCHANGED <<claimVars, ring, indexing, emptyFlags, unborn, found, call>>

-----------------------------------------------------------------------------
(* The rest of dequeue and dequeue_bulk.                                    *)
LoadIndex(c) ==
    /\ stage[c] = "claimed"
    /\ header' = [header EXCEPT ![c] = Latest]
    /\ Move(c, "front")
    /\ UNCHANGED <<pos, block, wanted, seen, over, first>>

LoadFront(c) ==
    /\ stage[c] = "front"
    /\ pos' = [pos EXCEPT ![c] = headers[header[c]].front]
    /\ Move(c, "locate")
    /\ UNCHANGED <<header, block, wanted, seen, over, first>>

(* C division keeps the sign of the offset.                                 *)
LocateSlot(c) ==
    LET h == header[c]
        d == Signed(Base(first[c]) - Slot(h, pos[c]).base)
        offset == IF d >= 0 THEN d \div BlockSize ELSE -((-d) \div BlockSize)
    IN  /\ stage[c] = "locate"
        /\ pos' = [pos EXCEPT ![c] = (@ + offset) % Size_(h)]
        /\ Move(c, "take")
        /\ UNCHANGED <<header, block, wanted, seen, over, first>>

SlotOf(c) == Slot(header[c], pos[c])
Here(c) == {i \in {Wrap(first[c] + k) : k \in 0..(wanted[c] - 1)} : Base(i) = Base(first[c])}

(* The elements of one block are moved out and destroyed.                   *)
TakeOut(c) ==
    /\ stage[c] = "take"
    /\ block' = [block EXCEPT ![c] = SlotOf(c).block]
    /\ elements' = [elements EXCEPT ![block'[c]] =
          [k \in Places |-> IF \E i \in Here(c) : i % BlockSize = k THEN Null ELSE @[k]]]
    /\ Move(c, "empty")
    /\ UNCHANGED <<header, pos, wanted, seen, over, first, emptyFlags>>

(* set_empty and set_many_empty mark the places; on to the next block.      *)
SetEmpty(c) ==
    /\ stage[c] = "empty"
    /\ emptyFlags' = [emptyFlags EXCEPT ![block[c]] = @ \union {i % BlockSize : i \in Here(c)}]
    /\ block' = [block EXCEPT ![c] = Null]
    /\ IF Cardinality(Here(c)) = wanted[c]
       THEN Leave(c) /\ pos' = [pos EXCEPT ![c] = 0] /\ header' = [header EXCEPT ![c] = 0]
       ELSE /\ pos' = [pos EXCEPT ![c] = (@ + 1) % Size_(header[c])]
            /\ wanted' = [wanted EXCEPT ![c] = @ - Cardinality(Here(c))]
            /\ first' = [first EXCEPT ![c] = Wrap(@ + Cardinality(Here(c)))]
            /\ Move(c, "take")
            /\ UNCHANGED <<seen, over, header>>
    /\ UNCHANGED elements

Emptying(c) ==
    /\ \/ (LoadIndex(c) \/ LoadFront(c) \/ LocateSlot(c)) /\ UNCHANGED <<elements, emptyFlags>>
       \/ TakeOut(c) \/ SetEmpty(c)
    /\ UNCHANGED <<tailIndex, headIndex, dequeueOptimisticCount, dequeueOvercommit,
                   ring, indexing, unborn, pc, call>>

Consume(c) ==
    \/ pc # "destroyed" /\ Claiming(c) /\ UNCHANGED <<ring, indexing, memory, pc, call, found>>
    \/ Emptying(c)

Next ==
    \/ Enqueue \/ Reuse \/ Room \/ (\E b \in Blocks : Inject(b)) \/ NoBlock
    \/ Reset \/ Fill \/ Throw \/ Published \/ Revert \/ Destroy
    \/ \E c \in Takers : Consume(c)

Spec == Init /\ [][Next]_vars

-----------------------------------------------------------------------------
TypeOK ==
    /\ CountersTypeOK
    /\ next \in [Blocks -> Blocks \union {Null}] /\ tailBlock \in Blocks \union {Null}
    /\ slotsUsed \in 0..Size_(Latest) /\ frontSlot \in 0..(Size_(Latest) - 1)
    /\ emptyFlags \in [Blocks -> SUBSET Places]
    /\ pc \in {"idle", "reuse", "room", "block", "reset", "fill", "publish", "revert", "destroyed"}

(* The slot a consumer has found, however old its index, is the one of its  *)
(* element and leads to the block with it (concurrentqueue.h:2005-2017,     *)
(* 2272-2282).                                                              *)
FindsItsElements ==
    \A c \in Takers : stage[c] = "take" =>
        /\ SlotOf(c).base = Base(first[c])
        /\ SlotOf(c).block \in Blocks
        /\ \A i \in Here(c) : elements[SlotOf(c).block][i % BlockSize] = i

Ring == Blocks \ unborn

(* Between calls a block is marked empty exactly where nothing is left in   *)
(* it to take and nothing can still be put before it is used again: so      *)
(* every block left over by the consumers, and every block a failed call    *)
(* has left in the ring, is available for the next call                     *)
(* (concurrentqueue.h:1857-1867, 1918-1927).                                *)
LeftAvailable ==
    pc = "idle" /\ (\A c \in Takers : stage[c] \in {"idle", "overcommit", "desire", "count"}) =>
        \A b \in Ring : (\A k \in Places : elements[b][k] = Null) =>
            IsEmpty(b) \/ (b = tailBlock /\ tailIndex % BlockSize # 0)

(* The destructor destroys what is left in the queue and nothing else       *)
(* (concurrentqueue.h:1788-1846).                                           *)
DestroysTheRest ==
    pc = "destroyed" => \A b \in Blocks, k \in Places : elements[b][k] = Null
=============================================================================

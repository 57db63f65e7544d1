-------------------------------- MODULE Buddy -------------------------------
(***************************************************************************)
(* The buddy frame allocator of src/mm/buddy.rs.  Addresses are frame      *)
(* numbers: physical addresses divided by 4096, with base_addr already     *)
(* subtracted.  A free list, doubly linked through the free blocks, is the *)
(* sequence of its blocks from the head.  The bitmap is the set of the     *)
(* indices of its set bits.  Every operation runs under FRAME_ALLOCATOR's  *)
(* lock with interrupts disabled, so it is one step.                       *)
(***************************************************************************)
EXTENDS Integers, Sequences, FiniteSets, SequencesExt

CONSTANTS
  MaxOrder,  \* MAX_ORDER, the number of block sizes
  Highest,   \* the number of frames below the highest usable address
  Regions,   \* the free memory, in the order it is fed: <<first, past the last>>
  MaxBlocks  \* bound: how many blocks may be allocated at a time

ASSUME BuddyAssumption ==
  /\ MaxOrder \in Nat \ {0}
  /\ Highest \in Nat
  /\ MaxBlocks \in Nat
  /\ \A i \in DOMAIN Regions :
       Regions[i][1] \in Nat /\ Regions[i][2] \in 0..Highest

VARIABLES
  freeList,   \* free_list
  bitmap,     \* bitmap
  allocated   \* the blocks handed out and not yet freed, with their order

buddyVars == <<freeList, bitmap, allocated>>

Orders == 0..MaxOrder - 1

Block == [addr : Nat, order : Orders]

----------------------------------------------------------------------------
(* Geometry. *)

Least(S) == CHOOSE x \in S : \A y \in S : x <= y

Greatest(S) == CHOOSE x \in S : \A y \in S : x >= y

\* The least order of that many pages, capped at the largest.
SizeToOrder(pages) == Least({o \in Orders : pages <= 2^o} \cup {MaxOrder - 1})

\* One bit per pair of frames (highest >> 16 bytes), rounded up to 4 KiB.
BitmapSize == (((Highest \div 16) + 4095) \div 4096) * 4096

\* The bits of the orders below this one: order 0 has half of the bitmap, order 1
\* a quarter ...
Offset[order \in 0..MaxOrder] ==
  IF order = 0 THEN 0 ELSE Offset[order - 1] + (BitmapSize * 8) \div 2^order

BitIndex(order, addr) == Offset[order] + addr \div 2^(order + 1)

\* (Mutant: the buddy is always the upper neighbour.)
BuddyOfAbove(order, addr) == addr + 2^order

\* addr ^ size
BuddyOf(order, addr) ==
  IF (addr \div 2^order) % 2 = 0 THEN addr + 2^order ELSE addr - 2^order

\* The block of that order that contains addr: addr & !size, once per merge.
AlignedDown(order, addr) == (addr \div 2^order) * 2^order

\* The bitmap after toggle_bit on each of these <<order, addr>>: a bit that two of them
\* share is toggled twice.
Toggled(bits, places) ==
  LET at(b) == {p \in places : BitIndex(p[1], p[2]) = b}
  IN SymDiff(bits, {b \in {BitIndex(p[1], p[2]) : p \in places} : Cardinality(at(b)) % 2 = 1})

----------------------------------------------------------------------------
(* Operations. *)

\* The first block that add_free_region carves out of a range: the largest that
\* fits and that the start is aligned for.
CarveOrder(start, end) ==
  Greatest({o \in Orders : 2^o <= end - start /\ start % 2^o = 0})

\* The blocks of a range, in the order they are carved.
Carved(start, end) ==
  LET blocks[s \in start..end] ==
        IF s >= end THEN <<>>
        ELSE <<[addr |-> s, order |-> CarveOrder(s, end)]>>
               \o blocks[s + 2^CarveOrder(s, end)]
  IN blocks[start]

\* push_block and toggle_bit.
FedBlock(heap, b) ==
  [heap EXCEPT !.list[b.order] = <<b.addr>> \o @,
               !.bits = Toggled(@, {<<b.order, b.addr>>})]

AddFreeRegion(heap, start, end) == FoldLeft(FedBlock, heap, Carved(start, end))

EmptyHeap == [list |-> [o \in Orders |-> <<>>], bits |-> {}]

\* The places whose bits alloc toggles: the block it takes and the upper halves
\* it leaves behind.
SplitPlaces(order, found, block) ==
  {<<found, block>>} \cup {<<o, block + 2^o>> : o \in order..found - 1}

\* alloc: take the head of the first list that is not empty, from this order up,
\* and put back the upper half of each split.
Alloc(order) ==
  LET enough == {o \in order..MaxOrder - 1 : freeList[o] # <<>>}
      found == Least(enough)
      block == Head(freeList[found])
  IN /\ Cardinality(allocated) < MaxBlocks
     /\ enough # {}
     /\ freeList' = [o \in Orders |->
                       IF o = found THEN Tail(freeList[o])
                       ELSE IF o \in order..found - 1
                            THEN <<block + 2^o>> \o freeList[o]
                            ELSE freeList[o]]
     /\ bitmap' = Toggled(bitmap, SplitPlaces(order, found, block))
     /\ allocated' = allocated \cup {[addr |-> block, order |-> order]}

\* alloc: no block is large enough.
AllocNone(order) ==
  /\ \A o \in order..MaxOrder - 1 : freeList[o] = <<>>
  /\ UNCHANGED buddyVars

\* (Mutant: a block is merged at most once.)
MergedOrderOnce(addr, order) ==
  IF order < MaxOrder - 1 /\ BitIndex(order, addr) \in bitmap THEN order + 1 ELSE order

\* How far free merges: up to the first order whose bit becomes 1, that is, was 0.
MergedOrder(addr, order) ==
  Least({o \in order..MaxOrder - 1 :
           o = MaxOrder - 1 \/ BitIndex(o, addr) \notin bitmap})

\* free: toggle a bit per order, take each free buddy off its list, and put the
\* merged block on the list of its order.  The largest order has no bit to toggle.
Free(b) ==
  LET top == MergedOrder(b.addr, b.order)
      unlinked(o) == BuddyOf(o, AlignedDown(o, b.addr))
  IN /\ freeList' = [o \in Orders |->
                       IF o = top THEN <<AlignedDown(o, b.addr)>> \o freeList[o]
                       ELSE IF o \in b.order..top - 1
                            THEN Remove(freeList[o], unlinked(o))
                            ELSE freeList[o]]
     /\ bitmap' = Toggled(bitmap, {<<o, b.addr>> :
                                     o \in b.order..Least({top, MaxOrder - 2})})
     /\ allocated' = allocated \ {b}

\* count_free_memory, in frames.
CountFreeMemory ==
  LET upTo[o \in -1..MaxOrder - 1] ==
        IF o = -1 THEN 0 ELSE upTo[o - 1] + Len(freeList[o]) * 2^o
  IN upTo[MaxOrder - 1]

BuddyInit ==
  LET fed == FoldLeft(LAMBDA heap, r : AddFreeRegion(heap, r[1], r[2]), EmptyHeap, Regions)
  IN freeList = fed.list /\ bitmap = fed.bits /\ allocated = {}

BuddyNext ==
  \/ \E order \in Orders : Alloc(order)
  \/ \E order \in Orders : AllocNone(order)
  \/ \E b \in allocated : Free(b)

BuddySpec == BuddyInit /\ [][BuddyNext]_buddyVars

----------------------------------------------------------------------------
(* Properties. *)

\* The types of the lists, the bitmap and the handed-out blocks.  toggle_bit's
\* panic is out of reach: every bit lies inside the bitmap.
BuddyTypeOK ==
  /\ DOMAIN freeList = Orders
  /\ \A o \in Orders : Range(freeList[o]) \subseteq 0..Highest - 1
  /\ bitmap \subseteq 0..(BitmapSize * 8) - 1
  /\ allocated \subseteq Block

Managed == UNION {Regions[i][1]..Regions[i][2] - 1 : i \in DOMAIN Regions}

FramesOf(b) == b.addr..b.addr + 2^b.order - 1

FreeBlocks ==
  UNION {{[addr |-> a, order |-> o] : a \in Range(freeList[o])} : o \in Orders}

\* The free blocks and the blocks handed out by alloc are aligned and disjoint and
\* make up the memory that was fed in, and count_free_memory counts the free part:
\* splitting and merging neither lose a frame nor hand one out twice.
Conserved ==
  LET blocks == FreeBlocks \cup allocated
      used == UNION {FramesOf(b) : b \in allocated}
  IN /\ BuddyTypeOK
     /\ \A b, c \in blocks : b # c => FramesOf(b) \cap FramesOf(c) = {}
     /\ \A b \in blocks : b.addr % 2^b.order = 0
     /\ FreeBlocks \cap allocated = {}
     /\ UNION {FramesOf(b) : b \in blocks} = Managed
     /\ CountFreeMemory = Cardinality(Managed) - Cardinality(used)

\* A bit is 1 exactly when one of its two buddies is free as a block of that order
\* and the other is not.  The largest order never merges and free does not keep its
\* bits.
BitsTell ==
  \A o \in 0..MaxOrder - 2 : \A a \in {AlignedDown(o + 1, f) : f \in Managed} :
    BitIndex(o, a) \in bitmap <=>
      (a \in Range(freeList[o])) # (a + 2^o \in Range(freeList[o]))

\* A buddy that free is about to merge with is free and of the same order: it is on
\* the list that remove_block unlinks it from.
MergesFree ==
  \A b \in allocated : \A o \in b.order..MergedOrder(b.addr, b.order) - 1 :
    BuddyOf(o, AlignedDown(o, b.addr)) \in Range(freeList[o])

\* Buddies are never both free.
Coalesced ==
  \A o \in 0..MaxOrder - 2 : \A a \in Range(freeList[o]) :
    BuddyOf(o, a) \notin Range(freeList[o])

\* One bit for two buddies is enough: free may trust it when it decides to merge,
\* and merges as far as the blocks go, so that the largest ones come back once
\* their parts are freed.
MergeExact == BitsTell /\ Coalesced

=============================================================================

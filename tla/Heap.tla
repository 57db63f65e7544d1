-------------------------------- MODULE Heap --------------------------------
(***************************************************************************)
(* The kernel heap: HeapAllocator of src/mm/allocator.rs over the slab     *)
(* caches of src/mm/slab.rs and the buddy allocator of Buddy.  alloc and   *)
(* dealloc hold the heap's lock with interrupts disabled and are one step. *)
(* A slab block is named by its offset in the heap window, a large block   *)
(* by its buddy block.  The first write to a fresh page of the window      *)
(* faults, inside populate_cache, and the handler backs it with a frame.   *)
(***************************************************************************)
EXTENDS Buddy

CONSTANTS
  BlockSizes,  \* BLOCK_SIZES
  Layouts,     \* the layouts requested, each [size, align]
  HeapPages,   \* the pages in the heap window
  MaxHeld      \* bound: how many blocks callers hold at a time

ASSUME HeapAssumption ==
  /\ HeapPages \in Nat
  /\ MaxHeld \in Nat
  /\ BlockSizes \in Seq(Nat \ {0})
  /\ \A l \in Layouts : l.size \in Nat \ {0} /\ l.align \in Nat \ {0}

VARIABLES
  listHeads,  \* the slab's free lists, one per class
  bump,       \* virtual_bump_ptr, in pages
  backing,    \* the buddy block behind each page of the window
  live        \* what callers hold: [layout, kind, addr]

heapVars == <<buddyVars, listHeads, bump, backing, live>>

PageSize == 4096

Classes == DOMAIN BlockSizes

----------------------------------------------------------------------------

AlignTo(size, align) == ((size + align - 1) \div align) * align

\* list_index: the first class that is large enough.
Small(size) == \E c \in Classes : size <= BlockSizes[c]

ListIndex(size) == Least({c \in Classes : size <= BlockSizes[c]})

\* (Mutant: the first block is linked as well.)
PageBlocksAll(page, class) ==
  LET n == PageSize \div BlockSizes[class]
  IN [i \in 1..n |-> page * PageSize + (i - 1) * BlockSizes[class]]

\* populate_cache links the blocks of a page behind each other, all but the first.
PageBlocks(page, class) ==
  LET n == PageSize \div BlockSizes[class]
  IN [i \in 1..n - 1 |-> page * PageSize + i * BlockSizes[class]]

Room == Cardinality(live) < MaxHeld

\* What is added to live.
Held(layout, kind, addr) == [layout |-> layout, kind |-> kind, addr |-> addr]

Size(layout) == AlignTo(layout.size, layout.align)

\* size_to_order of the size rounded up to pages.
LargeOrder(layout) == SizeToOrder(AlignTo(Size(layout), PageSize) \div PageSize)

\* alloc: pop the head of the class's list.
AllocCached(l) ==
  LET c == ListIndex(Size(l))
  IN /\ Room
     /\ Small(Size(l))
     /\ listHeads[c] # <<>>
     /\ listHeads' = [listHeads EXCEPT ![c] = Tail(@)]
     /\ live' = live \cup {Held(l, "slab", Head(listHeads[c]))}
     /\ UNCHANGED <<buddyVars, bump, backing>>

\* alloc, cache miss: a fresh page, its first block for the caller, the others for
\* the cache; the page fault takes a frame (without one its handler panics).
AllocRefill(l) ==
  LET c == ListIndex(Size(l))
  IN /\ Room
     /\ Small(Size(l))
     /\ listHeads[c] = <<>>
     /\ bump < HeapPages
     /\ Alloc(0)
     /\ backing' = Append(backing, CHOOSE b \in allocated' \ allocated : TRUE)
     /\ listHeads' = [listHeads EXCEPT ![c] = PageBlocks(bump, c)]
     /\ bump' = bump + 1
     /\ live' = live \cup {Held(l, "slab", bump * PageSize)}

\* alloc, more than the largest class: a buddy block, up to 4 MiB (the largest order).
AllocLarge(l) ==
  /\ Room
  /\ ~Small(Size(l))
  /\ AlignTo(Size(l), PageSize) <= PageSize * 2^(MaxOrder - 1)
  /\ Alloc(LargeOrder(l))
  /\ live' = live \cup {Held(l, "buddy", (CHOOSE b \in allocated' \ allocated : TRUE).addr)}
  /\ UNCHANGED <<listHeads, bump, backing>>

\* alloc returns null: no page is left in the window, the request is too large, or
\* the buddy allocator has no block.
AllocNull(l) ==
  /\ \/ Small(Size(l)) /\ listHeads[ListIndex(Size(l))] = <<>> /\ bump = HeapPages
     \/ ~Small(Size(l)) /\ AlignTo(Size(l), PageSize) > PageSize * 2^(MaxOrder - 1)
     \/ ~Small(Size(l)) /\ AllocNone(LargeOrder(l))
  /\ UNCHANGED heapVars

\* (Mutant: the class is chosen by the size before it is aligned.)
DeallocClassUnaligned(l) == ListIndex(l.size)

DeallocClass(l) == ListIndex(Size(l))

\* dealloc: the layout alone tells where the block belongs.
DeallocSlab(x) ==
  LET c == DeallocClass(x.layout)
  IN /\ Small(Size(x.layout))
     /\ listHeads' = [listHeads EXCEPT ![c] = <<x.addr>> \o @]
     /\ live' = live \ {x}
     /\ UNCHANGED <<buddyVars, bump, backing>>

DeallocLarge(x) ==
  /\ ~Small(Size(x.layout))
  /\ Free([addr |-> x.addr, order |-> LargeOrder(x.layout)])
  /\ live' = live \ {x}
  /\ UNCHANGED <<listHeads, bump, backing>>

HeapInit ==
  /\ BuddyInit
  /\ listHeads = [c \in Classes |-> <<>>]
  /\ bump = 0
  /\ backing = <<>>
  /\ live = {}

HeapNext ==
  \/ \E l \in Layouts : AllocCached(l)
  \/ \E l \in Layouts : AllocRefill(l)
  \/ \E l \in Layouts : AllocLarge(l)
  \/ \E l \in Layouts : AllocNull(l)
  \/ \E x \in live : DeallocSlab(x)
  \/ \E x \in live : DeallocLarge(x)

HeapSpec == HeapInit /\ [][HeapNext]_heapVars

----------------------------------------------------------------------------
(* Properties. *)

\* The types of the heap's own state.
HeapTypeOK ==
  /\ DOMAIN listHeads = Classes
  /\ \A c \in Classes : Range(listHeads[c]) \subseteq 0..HeapPages * PageSize - 1
  /\ bump \in 0..HeapPages
  /\ Len(backing) = bump
  /\ Range(backing) \subseteq allocated

\* The bytes of a block: of its class or its order, not only those requested.
Extent(x) ==
  IF x.kind = "slab" THEN BlockSizes[ListIndex(Size(x.layout))]
  ELSE PageSize * 2^LargeOrder(x.layout)

\* Byte address of a held block within its own address range.
Start(x) == IF x.kind = "slab" THEN x.addr ELSE x.addr * PageSize

\* What alloc returned is large enough and aligned as the layout asks.
FitsLayout ==
  \A x \in live : x.layout.size <= Extent(x) /\ Start(x) % x.layout.align = 0

Disjoint(a, m, b, n) == a + m <= b \/ b + n <= a

\* No two blocks held by callers share a byte, and none is on a free list; large
\* blocks are handed out by the buddy allocator and back no page of the window.
\* Each is as large and as aligned as its layout asks: size and alignment rounded
\* together choose the class.
HeldApart ==
  /\ FitsLayout
  /\ \A x, y \in live : x # y /\ x.kind = y.kind =>
       Disjoint(Start(x), Extent(x), Start(y), Extent(y))
  /\ \A x \in live : x.kind = "slab" =>
       \A c \in Classes : \A a \in Range(listHeads[c]) :
         Disjoint(x.addr, Extent(x), a, BlockSizes[c])
  /\ \A x \in live : x.kind = "buddy" =>
       [addr |-> x.addr, order |-> LargeOrder(x.layout)] \in allocated \ Range(backing)

\* Every byte of the pages taken from the window is held or on a free list, once: a
\* block always returns to the class it was cut for.
SlabExact ==
  LET held == {x \in live : x.kind = "slab"}
      heldBytes == MapThenSumSet(Extent, held)
      freeBytes == MapThenSumSet(LAMBDA c : Len(listHeads[c]) * BlockSizes[c], Classes)
  IN HeapTypeOK /\ heldBytes + freeBytes = bump * PageSize

=============================================================================

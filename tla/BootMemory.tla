------------------------------ MODULE BootMemory ----------------------------
(***************************************************************************)
(* The way of _start (src/lib.rs) to a running frame allocator and to the  *)
(* interrupt controllers, with src/mm/memory.rs.  The information of the   *)
(* boot loader is read as in BootInfo; ranges are reserved, the bump       *)
(* allocator hands out frames for the tables of the direct map and for the *)
(* bitmap, and what is left of the usable memory is fed to the buddy       *)
(* allocator, whose lists and bitmap are those of Buddy.  Byte addresses   *)
(* are kept to a fraction of a page, so that ranges need not start or end  *)
(* at a page.                                                              *)
(***************************************************************************)
EXTENDS Buddy, BootInfo

CONSTANTS
  Grain,         \* address units in a page
  Machines,      \* the machines: what the boot loader finds and places
  LegacyStart,   \* where the legacy area below the kernel begins
  Kernels,       \* the kernel images, each [start, end, stack, stackTop]
  TableFrames,   \* how many tables the direct map needs
  BitmapFrames,  \* how many frames the bitmap takes
  MaxReserved    \* MAX_RESERVED

ASSUME BootAssumption ==
  /\ Grain \in Nat \ {0}
  /\ TableFrames \in Nat
  /\ BitmapFrames \in Nat
  /\ MaxReserved \in Nat

VARIABLES
  stage,     \* how far _start is
  machine,   \* the machine: its memory map, a sequence of [base, end, usable]; the
             \* modules, each [start, end, line], and the range of the information;
             \* the firmware, [tags, sdt, madt]
  mbi,       \* the Multiboot2 information structure, in words
  memoryMap, \* the memory map as the kernel read it
  kernel,    \* the kernel image
  reserved,  \* RESERVED_TRACKER
  nextFree,  \* next_free_frame of the bump allocator, an address
  tables,    \* the frames of the direct map's tables
  map,       \* the frames of the bitmap
  madt,      \* madt_phys_addr, or 0
  offset,    \* current_offset of the walk through the MADT
  ioApic     \* the address of the I/O APIC, or 0

apicVars == <<madt, offset, ioApic>>
bootVars == <<buddyVars, stage, machine, mbi, memoryMap, kernel, reserved, nextFree, tables, map,
              apicVars>>

----------------------------------------------------------------------------

\* Round up to a page.
PageUp(a) == ((a + Grain - 1) \div Grain) * Grain

PageDown(a) == (a \div Grain) * Grain

\* (Mutant: the end of the range is left out of the comparison.)
IsReservedAt(regions, a) ==
  \E i \in DOMAIN regions : a < regions[i].end /\ a >= regions[i].start

\* is_reserved for the page at a.
IsReserved(regions, a) ==
  \E i \in DOMAIN regions : a < regions[i].end /\ a + Grain > regions[i].start

Usable == {memoryMap[i] : i \in {j \in DOMAIN memoryMap : memoryMap[j].usable}}

\* Where allocate_contiguous_frames may find a run of frames in an entry.
RunStarts(e, count) ==
  {a \in PageUp(Greatest({e.base, nextFree}))..e.end :
     /\ a % Grain = 0
     /\ a + count * Grain <= e.end
     /\ \A i \in 0..count - 1 : ~IsReserved(reserved, a + i * Grain)}

\* The first run, in the first usable entry that has one: skipping past each
\* reserved frame finds the lowest.
HasRun(count) == \E e \in Usable : RunStarts(e, count) # {}

FirstRun(count) ==
  LET i == Least({j \in DOMAIN memoryMap :
                    memoryMap[j].usable /\ RunStarts(memoryMap[j], count) # {}})
  IN Least(RunStarts(memoryMap[i], count))

FramesFrom(a, count) == {a \div Grain + i : i \in 0..count - 1}

----------------------------------------------------------------------------

\* reserve_region: one more range, or a panic.
Reserve(regions, start, end) == Append(regions, [start |-> start, end |-> end])

\* _start reserves the first page, the legacy area, the kernel image, the information
\* structure, the stack with its guard page and each module, and starts the bump
\* allocator after the kernel.
ReserveFixed ==
  LET legacy == Reserve(Reserve(<<>>, 0, Grain), LegacyStart, kernel.start)
      info == Reserve(Reserve(legacy, kernel.start, kernel.end),
                      machine.info.start, machine.info.end)
      regions == Reserve(info, kernel.stack - Grain, kernel.stackTop) \o ModuleRanges(mbi)
  IN /\ stage = "start"
     /\ IF Len(regions) > MaxReserved
        THEN stage' = "panic" /\ UNCHANGED <<reserved, memoryMap, nextFree>>
        ELSE /\ reserved' = regions
             /\ memoryMap' = MemoryMapEntries(mbi)
             /\ nextFree' = PageUp(kernel.end)
             /\ stage' = "map"
     /\ UNCHANGED <<buddyVars, machine, mbi, kernel, tables, map, apicVars>>

\* map_all_physical_memory takes one more frame for a table ...
MapTable ==
  /\ stage = "map"
  /\ Cardinality(tables) < TableFrames
  /\ HasRun(1)
  /\ tables' = tables \cup FramesFrom(FirstRun(1), 1)
  /\ nextFree' = FirstRun(1) + Grain
  /\ UNCHANGED <<buddyVars, stage, machine, mbi, memoryMap, kernel, reserved, map, apicVars>>

\* (Mutant: the tables are not reserved.)
ReserveTablesNot ==
  /\ stage = "map"
  /\ Cardinality(tables) = TableFrames
  /\ stage' = "bitmap"
  /\ UNCHANGED <<buddyVars, machine, mbi, memoryMap, kernel, reserved, nextFree, tables, map, apicVars>>

\* ... and _start reserves everything from the kernel to the bump pointer.
ReserveTables ==
  /\ stage = "map"
  /\ Cardinality(tables) = TableFrames
  /\ Len(reserved) < MaxReserved
  /\ reserved' = Reserve(reserved, kernel.end, nextFree)
  /\ stage' = "bitmap"
  /\ UNCHANGED <<buddyVars, machine, mbi, memoryMap, kernel, nextFree, tables, map, apicVars>>

\* (Mutant: the last whole page of an entry is left out.)
FedFramesShort(e, regions) ==
  {f \in (PageUp(e.base) \div Grain)..(PageDown(e.end) \div Grain - 2) :
     ~IsReserved(regions, f * Grain)}

\* The frames of an entry that are fed: its whole pages that are not reserved.
FedFrames(e, regions) ==
  {f \in (PageUp(e.base) \div Grain)..(PageDown(e.end) \div Grain - 1) :
     ~IsReserved(regions, f * Grain)}

\* The maximal runs of a set of frames, lowest first.
Runs(F) ==
  LET starts == {f \in F : f - 1 \notin F}
      past(f) == Least({g \in f..f + Cardinality(F) : g \notin F})
  IN SetToSortSeq({<<f, past(f)>> : f \in starts}, LAMBDA x, y : x[1] < y[1])

FedEntry(heap, e, regions) ==
  IF ~e.usable THEN heap
  ELSE FoldLeft(LAMBDA h, r : AddFreeRegion(h, r[1], r[2]), heap, Runs(FedFrames(e, regions)))

\* init_physical_memory: frames for the bitmap, reserved at once, and then the
\* usable memory, run by run.
InitPhysicalMemory ==
  /\ stage = "bitmap"
  /\ HasRun(BitmapFrames)
  /\ Len(reserved) < MaxReserved
  /\ LET a == FirstRun(BitmapFrames)
         regions == Reserve(reserved, a, a + BitmapFrames * Grain)
         fed == FoldLeft(LAMBDA h, e : FedEntry(h, e, regions), EmptyHeap, memoryMap)
     IN /\ map' = FramesFrom(a, BitmapFrames)
        /\ nextFree' = a + BitmapFrames * Grain
        /\ reserved' = regions
        /\ freeList' = fed.list
        /\ bitmap' = fed.bits
  /\ stage' = "up"
  /\ UNCHANGED <<allocated, machine, mbi, memoryMap, kernel, tables, apicVars>>

\* expect("Early OOM"), expect("FATAL: ...") and a full table of reserved ranges.
BootPanic ==
  /\ \/ stage = "map" /\ Cardinality(tables) < TableFrames /\ ~HasRun(1)
     \/ stage = "map" /\ Cardinality(tables) = TableFrames /\ Len(reserved) = MaxReserved
     \/ stage = "bitmap" /\ (Len(reserved) = MaxReserved \/ ~HasRun(BitmapFrames))
  /\ stage' = "panic"
  /\ UNCHANGED <<buddyVars, machine, mbi, memoryMap, kernel, reserved, nextFree, tables, map, apicVars>>

\* The frame allocator at work.
BootAlloc ==
  /\ stage = "up"
  /\ \E order \in Orders : Alloc(order)
  /\ UNCHANGED <<stage, machine, mbi, memoryMap, kernel, reserved, nextFree, tables, map, apicVars>>

Firmware == machine.firmware

\* The RSDT or XSDT is checked and searched for the MADT.
FindMadt ==
  /\ stage = "up"
  /\ madt' = MadtAddress(mbi, Firmware.sdt, DOMAIN Firmware.madt)
  /\ stage' = IF ChecksumsValid(mbi, Firmware.sdt) /\ madt' # 0 THEN "madt" ELSE "panic"
  /\ UNCHANGED <<buddyVars, machine, mbi, memoryMap, kernel, reserved, nextFree, tables, map,
                 offset, ioApic>>

\* (Mutant: a record of length 0 does not end the walk.)
EndOfRecordsAtEnd(words) == offset >= Len(words)

\* The table ends, or its records do: the rest is padding.
EndOfRecords(words) == offset >= Len(words) \/ words[offset + 2] < 2

\* One record of the MADT.  The walk stops at the first I/O APIC; without one,
\* init_keyboard's unwrap panics.
WalkMadt ==
  LET words == MadtWords(Firmware.madt[madt])
  IN /\ stage = "madt"
     /\ \/ /\ EndOfRecords(words)
           /\ stage' = "panic"
           /\ UNCHANGED apicVars
        \/ /\ ~EndOfRecords(words)
           /\ words[offset + 1] = 1
           /\ ioApic' = words[offset + 3]
           /\ stage' = "done"
           /\ UNCHANGED <<madt, offset>>
        \/ /\ ~EndOfRecords(words)
           /\ words[offset + 1] # 1
           /\ offset' = offset + words[offset + 2]
           /\ UNCHANGED <<stage, madt, ioApic>>
     /\ UNCHANGED <<buddyVars, machine, mbi, memoryMap, kernel, reserved, nextFree, tables, map>>

\* The tags, in the boot loader's order.
Tags(m) ==
  <<[type |-> 1, body |-> <<7>>]>> \o [i \in DOMAIN m.modules |-> ModuleTag(m.modules[i])]
  \o <<MapTag(m.map)>> \o m.firmware.tags

Apart(a, b) == a.end <= b.start \/ a.start >= b.end

BootInit ==
  /\ stage = "start"
  /\ machine \in Machines
  /\ mbi = Information(Tags(machine))
  /\ kernel \in Kernels
  /\ Apart(machine.info, kernel)
  /\ \A m \in Range(machine.modules) : Apart(m, kernel) /\ Apart(m, machine.info)
  /\ memoryMap = <<>>
  /\ reserved = <<>>
  /\ nextFree = 0
  /\ tables = {}
  /\ map = {}
  /\ freeList = EmptyHeap.list
  /\ bitmap = EmptyHeap.bits
  /\ allocated = {}
  /\ madt = 0
  /\ offset = 0
  /\ ioApic = 0

BootNext ==
  \/ ReserveFixed
  \/ MapTable
  \/ ReserveTables
  \/ InitPhysicalMemory
  \/ BootPanic
  \/ BootAlloc
  \/ FindMadt
  \/ WalkMadt

BootSpec == BootInit /\ [][BootNext]_bootVars

\* _start is the only thread and interrupts are disabled: it goes on while it can.
BootFairSpec == BootSpec /\ WF_bootVars(WalkMadt)

----------------------------------------------------------------------------
(* Properties. *)

\* The types of the boot state.
BootTypeOK ==
  /\ stage \in {"start", "map", "bitmap", "up", "madt", "done", "panic"}
  /\ nextFree % Grain = 0
  /\ \A i \in DOMAIN reserved : reserved[i].start <= reserved[i].end
  /\ Len(reserved) <= MaxReserved

\* The units of a frame.
Units(f) == f * Grain..f * Grain + Grain - 1

\* The memory the firmware really reported as usable.
TrulyUsable == {e \in Range(machine.map) : e.usable}

UsableUnits == UNION {e.base..e.end - 1 : e \in TrulyUsable}

\* Somebody else's memory: the first page, the legacy area, the kernel image, what the
\* boot loader wrote and the modules it loaded.
Occupied ==
  (0..Grain - 1) \cup (LegacyStart..kernel.start - 1)
  \cup UNION {r.start..r.end - 1 : r \in {kernel, machine.info} \cup Range(machine.modules)}

Given == UNION {FramesOf(b) : b \in FreeBlocks \cup allocated}

\* What the bump allocator hands out lies in usable memory and is nobody else's.
BootFramesOwn ==
  /\ BootTypeOK
  /\ tables \cap map = {}
  /\ \A f \in tables \cup map : Units(f) \subseteq UsableUnits \ Occupied

\* The frame allocator never owns a frame of the kernel, of a module, of a table
\* of the direct map or of its own bitmap, and owns only usable memory.
NothingReservedGiven ==
  /\ Given \cap (tables \cup map) = {}
  /\ \A f \in Given : Units(f) \subseteq UsableUnits \ Occupied

\* Whole usable pages below the kernel, or above the bump pointer, that nobody has
\* taken are all given to the frame allocator: booting loses no memory there.
NothingLost ==
  stage \in {"up", "madt", "done"} =>
    \A e \in TrulyUsable : \A f \in 0..Highest - 1 :
      /\ Units(f) \subseteq (e.base..e.end - 1) \ Occupied
      /\ f \notin map
      /\ f * Grain + Grain <= kernel.end \/ f * Grain >= nextFree
      => f \in Given

\* The first I/O APIC among the records before the padding.
FirstIoApic(records) ==
  LET real == SelectSeq(records, LAMBDA r : r.length >= 2)
      apics == SelectSeq(real, LAMBDA r : r.type = 1)
  IN Head(Head(apics).body)

\* The walk through the MADT ends, whatever its records: at the first I/O APIC
\* of the table, or in a panic.  Zero padding does not make it go round for ever.
MadtWalkEnds ==
  stage = "madt" ~>
    \/ stage = "panic"
    \/ stage = "done" /\ ioApic = FirstIoApic(Firmware.madt[madt])

=============================================================================

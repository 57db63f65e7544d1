----------------------------- MODULE AddressSpace ---------------------------
(***************************************************************************)
(* User address spaces: page tables (src/mm/paging.rs), the loading of a   *)
(* program (spawn_user_process), sys_brk and the page-fault handler, over  *)
(* a pool of frames.  A page table is a function from the places it fills  *)
(* to frames: <<0, p>> for page p, <<l, i>> for the i-th table of level l. *)
(* Each action runs with interrupts disabled.  Frames are interchangeable, *)
(* so an allocation takes the lowest.                                      *)
(***************************************************************************)
EXTENDS Integers, Sequences, FiniteSets, TLC, Functions, SequencesExt

CONSTANTS
  Spaces,      \* address spaces of processes
  Frames,      \* physical frames, numbers
  Fan,         \* entries of a table: 512
  Levels,      \* levels of tables between the root and the pages: 3
  Grain,       \* address units in a page
  Code,        \* the pages of the program's segments: 0..Code - 1
  StackStart,  \* first page of the stack
  StackEnd,    \* page past the stack
  KernelPages  \* pages of the kernel heap window

ASSUME SpaceAssumption ==
  /\ Frames \subseteq Nat
  /\ Fan \in Nat \ {0, 1}
  /\ {Levels, Grain, Code, StackStart, StackEnd} \subseteq Nat \ {0}
  /\ Code < StackStart /\ StackStart < StackEnd
  /\ KernelPages \in Nat

VARIABLES
  pool,     \* free frames
  entries,  \* what the tables of each address space hold
  kernel,   \* what the kernel half, shared by all of them, holds
  status,   \* what became of each address space
  brk,      \* program_break of each process
  stopped   \* whether, and how, the kernel has stopped

spaceVars == <<pool, entries, kernel, status, brk, stopped>>

----------------------------------------------------------------------------
(* Page tables. *)

Least(S) == CHOOSE x \in S : \A y \in S : x <= y

Nth(S, n) == CHOOSE x \in S : Cardinality({y \in S : y < x}) = n - 1

Root == <<Levels + 1, 0>>

Place(level, p) == <<level, p \div Fan^level>>

\* (Mutant: the walk starts below the top level.)
MissingBelow(e, p) == {l \in 1..Levels - 1 : Place(l, p) \notin DOMAIN e}

\* The levels of the walk to page p that have no table yet.
Missing(e, p) == {l \in 1..Levels : Place(l, p) \notin DOMAIN e}

\* map_to: link the missing tables from the top down, as long as there are frames,
\* then enter the page unless it is mapped already.  Tables linked before an error
\* stay.
MapTo(e, p, f, free) ==
  LET missing == Missing(e, p)
      rank(l) == Cardinality({k \in missing : k > l}) + 1
      given == {l \in missing : rank(l) <= Cardinality(free)}
      linked == e @@ [t \in {Place(l, p) : l \in given} |-> Nth(free, rank(t[1]))]
      ok == given = missing /\ Place(0, p) \notin DOMAIN e
  IN [ok |-> ok,
      entries |-> IF ok THEN linked @@ (Place(0, p) :> f) ELSE linked,
      pool |-> free \ {Nth(free, rank(l)) : l \in given}]

\* (Mutant: the frame is dropped when map_to fails.)
MapFreshDropped(e, p, free) ==
  IF free = {} THEN [ok |-> FALSE, entries |-> e, pool |-> free]
  ELSE MapTo(e, p, Least(free), free \ {Least(free)})

\* Allocate a frame and map it; if map_to fails the frame goes back.
MapFresh(e, p, free) ==
  IF free = {} THEN [ok |-> FALSE, entries |-> e, pool |-> free]
  ELSE LET f == Least(free)
           m == MapTo(e, p, f, free \ {f})
       IN IF m.ok THEN m ELSE [m EXCEPT !.pool = @ \cup {f}]

\* unmap, and the frames go back to the pool.
Unmap(h, pages) ==
  LET places == {Place(0, p) : p \in pages} \cap DOMAIN h.entries
  IN [h EXCEPT !.entries = Restrict(@, DOMAIN @ \ places),
               !.pool = @ \cup {h.entries[k] : k \in places}]

Mapped(s) == {p \in 0..StackEnd : Place(0, p) \in DOMAIN entries[s]}

----------------------------------------------------------------------------
(* Operations. *)

Up == stopped = "no"

\* expect("OOM") and unwrap(): the kernel panics.
Panic ==
  /\ stopped' = "panic"
  /\ UNCHANGED <<pool, entries, kernel, status, brk>>

\* create_user_address_space: a zeroed root with the kernel half of the active one.
Create(s) ==
  /\ Up
  /\ status[s] = "none"
  /\ IF pool = {} THEN Panic
     ELSE /\ entries' = [entries EXCEPT ![s] = Root :> Least(pool)]
          /\ pool' = pool \ {Least(pool)}
          /\ status' = [status EXCEPT ![s] = "loading"]
          /\ UNCHANGED <<kernel, brk, stopped>>

\* spawn_user_process maps the next page of the program, and last the page at the
\* top of the stack, past its end ...
LoadPage(s) ==
  LET p == IF Mapped(s) = 0..Code - 1 THEN StackEnd ELSE Cardinality(Mapped(s))
      m == MapFresh(entries[s], p, pool)
  IN /\ Up
     /\ status[s] = "loading"
     /\ StackEnd \notin Mapped(s)
     /\ IF ~m.ok THEN Panic
        ELSE /\ entries' = [entries EXCEPT ![s] = m.entries]
             /\ pool' = m.pool
             /\ UNCHANGED <<kernel, status, brk, stopped>>

\* ... and enters the process: the heap begins after the program.
Enter(s) ==
  /\ Up
  /\ status[s] = "loading"
  /\ StackEnd \in Mapped(s)
  /\ status' = [status EXCEPT ![s] = "live"]
  /\ brk' = [brk EXCEPT ![s] = Code * Grain]
  /\ UNCHANGED <<pool, entries, kernel, stopped>>

\* The page past an address.
PageEnd(a) == (a + Grain - 1) \div Grain

\* sys_brk's early returns: below the heap, or within a page of the stack.
Refuses(r) == r < Code * Grain \/ r >= (StackStart - 1) * Grain

\* One more page of a growing heap, after the ones mapped before it.
GrowPage(h, p) ==
  IF ~h.ok THEN h
  ELSE LET m == MapFresh(h.entries, p, h.pool)
       IN m @@ [done |-> IF m.ok THEN h.done \cup {p} ELSE h.done]

\* (Mutant: a failed growth is not undone.)
GrowUndoneNot(s, from, to) ==
  FoldLeft(GrowPage, [ok |-> TRUE, entries |-> entries[s], pool |-> pool, done |-> {}],
           [i \in 1..to - from |-> from + i - 1])

\* Growing by the pages from..to - 1; on failure the pages mapped so far are undone.
Grow(s, from, to) ==
  LET h == FoldLeft(GrowPage, [ok |-> TRUE, entries |-> entries[s], pool |-> pool, done |-> {}],
                    [i \in 1..to - from |-> from + i - 1])
  IN IF h.ok THEN h ELSE Unmap(h, h.done)

\* The pages between the ends of the two breaks.
ShrinkPages(r, b) == PageEnd(r)..PageEnd(b) - 1

\* sys_brk: grow, with all or nothing, or shrink.
Brk(s, r) ==
  LET h == IF PageEnd(r) >= PageEnd(brk[s]) THEN Grow(s, PageEnd(brk[s]), PageEnd(r))
           ELSE Unmap([ok |-> TRUE, entries |-> entries[s], pool |-> pool],
                      ShrinkPages(r, brk[s]))
  IN /\ Up
     /\ status[s] = "live"
     /\ ~Refuses(r)
     /\ entries' = [entries EXCEPT ![s] = h.entries]
     /\ pool' = h.pool
     /\ brk' = IF h.ok THEN [brk EXCEPT ![s] = r] ELSE brk
     /\ UNCHANGED <<kernel, status, stopped>>

\* is_user_heap, is_user_stack.
InHeapOrStack(s, p) ==
  \/ p * Grain >= Code * Grain /\ p * Grain < brk[s]
  \/ p >= StackStart /\ p < StackEnd

\* page_fault_handler for a user page that is not mapped: a fresh page, or the
\* machine halts.
UserFault(s, p) ==
  LET m == MapFresh(entries[s], p, pool)
  IN /\ Up
     /\ status[s] = "live"
     /\ p \notin Mapped(s)
     /\ InHeapOrStack(s, p)
     /\ IF ~m.ok THEN Panic
        ELSE /\ entries' = [entries EXCEPT ![s] = m.entries]
             /\ pool' = m.pool
             /\ UNCHANGED <<kernel, status, brk, stopped>>

\* page_fault_handler for an access outside the heap and the stack, to a page that
\* is not mapped or not executable: the machine halts.
HaltingFault(s, p) ==
  /\ Up
  /\ status[s] = "live"
  /\ p \notin Mapped(s) \/ p >= Code
  /\ ~InHeapOrStack(s, p)
  /\ stopped' = "halt"
  /\ UNCHANGED <<pool, entries, kernel, status, brk>>

\* page_fault_handler for the execution of a mapped page of the heap or the stack:
\* it does not look at the error code, and map_to finds the page mapped.
RepeatedFault(s, p) ==
  /\ Up
  /\ status[s] = "live"
  /\ p \in Mapped(s)
  /\ InHeapOrStack(s, p)
  /\ Panic

\* page_fault_handler for the kernel heap: the window is touched page by page.
KernelFault ==
  LET p == Cardinality({k \in DOMAIN kernel : k[1] = 0})
      m == MapFresh(kernel, p, pool)
  IN /\ Up
     /\ p < KernelPages
     /\ IF ~m.ok THEN Panic
        ELSE /\ kernel' = m.entries
             /\ pool' = m.pool
             /\ UNCHANGED <<entries, status, brk, stopped>>

\* What destroy_user_address_space frees: every page, every table and the root.
TornDown(e) == {e[k] : k \in DOMAIN e}

Destroy(s) ==
  /\ Up
  /\ status[s] = "live"
  /\ pool' = pool \cup TornDown(entries[s])
  /\ entries' = [entries EXCEPT ![s] = <<>>]
  /\ status' = [status EXCEPT ![s] = "none"]
  /\ UNCHANGED <<kernel, brk, stopped>>

SpaceInit ==
  /\ pool = Frames
  /\ entries = [s \in Spaces |-> <<>>]
  /\ kernel = <<>>
  /\ status = [s \in Spaces |-> "none"]
  /\ brk = [s \in Spaces |-> 0]
  /\ stopped = "no"

SpaceNext ==
  \/ \E s \in Spaces : Create(s)
  \/ \E s \in Spaces : LoadPage(s)
  \/ \E s \in Spaces : Enter(s)
  \/ \E s \in Spaces, r \in 0..StackEnd * Grain : Brk(s, r)
  \/ \E s \in Spaces, p \in 0..StackEnd : UserFault(s, p)
  \/ \E s \in Spaces, p \in 0..StackEnd : HaltingFault(s, p)
  \/ \E s \in Spaces, p \in 0..StackEnd : RepeatedFault(s, p)
  \/ KernelFault
  \/ \E s \in Spaces : Destroy(s)

SpaceSpec == SpaceInit /\ [][SpaceNext]_spaceVars

----------------------------------------------------------------------------
(* Properties. *)

\* The types of the tables and the pool.
SpaceTypeOK ==
  /\ pool \subseteq Frames
  /\ \A s \in Spaces : Range(entries[s]) \subseteq Frames
  /\ Range(kernel) \subseteq Frames
  /\ status \in [Spaces -> {"none", "loading", "live"}]
  /\ brk \in [Spaces -> 0..(StackStart - 1) * Grain]
  /\ stopped \in {"no", "panic", "halt"}

\* Every place of every table: <<address space or "kernel", place>>.
Uses ==
  UNION {{<<s, k>> : k \in DOMAIN entries[s]} : s \in Spaces}
    \cup {<<"kernel", k>> : k \in DOMAIN kernel}

FrameAt(u) == IF u[1] = "kernel" THEN kernel[u[2]] ELSE entries[u[1]][u[2]]

\* Every frame is free or used in exactly one place, whatever fails half-way: no
\* frame is shared by two pages or tables and none leaks.
FramesConserved ==
  /\ SpaceTypeOK
  /\ \A u, v \in Uses : u # v => FrameAt(u) # FrameAt(v)
  /\ {FrameAt(u) : u \in Uses} \cap pool = {}
  /\ {FrameAt(u) : u \in Uses} \cup pool = Frames

\* Every page and table hangs on a table of the next level: translation and
\* destroy_user_address_space, which walk down from the root, reach all of them.
Rooted ==
  \A s \in Spaces : \A k \in DOMAIN entries[s] :
    k # Root => \/ k[1] = Levels /\ Root \in DOMAIN entries[s]
                \/ <<k[1] + 1, k[2] \div Fan>> \in DOMAIN entries[s]

\* The heap of a process is mapped exactly up to its break, and the page below the
\* stack never is: a failed brk leaves no page behind, a successful one none out.
HeapExact ==
  \A s \in Spaces : status[s] = "live" =>
    Mapped(s) \cap (Code..StackStart - 1) = Code..PageEnd(brk[s]) - 1

=============================================================================

----------------------------- MODULE LockProofs -----------------------------
(***************************************************************************)
(* Proofs about the locks and the GS base under interrupts, faults and      *)
(* switches, for every number of threads.  What the code does with its      *)
(* locks at each place is a fact about the code alone, Disciplined, that    *)
(* has no threads in it; here it is shown to be enough.                    *)
(***************************************************************************)
EXTENDS InterruptsProofs

----------------------------------------------------------------------------
(* Every instruction, interrupt and fault keeps the locks. *)

\* Outside the code nothing is held, and interrupts may be enabled.
LEMMA OutsideFacts ==
  ASSUME NEW p \in Outside, NEW i
  PROVE  /\ p \notin DOMAIN Code
         /\ OwnAt(p, i) = {} /\ GuardsAt(p, i) = {}
         /\ ~ShutAt(p, i) /\ ~AloneAt(p, i)
  <1>1. p \notin DOMAIN Code
    BY CodeFacts, PathNames, Zenon DEF Outside, KernelCode
  <1>2. OwnAt(p, i) = {} /\ GuardsAt(p, i) = {}
    BY <1>1, Zenon DEF OwnAt, GuardsAt, Pending
  <1>3. ~DisabledAt(p, i)
    BY <1>1, Zenon DEF DisabledAt
  <1> QED
    BY <1>1, <1>2, <1>3, Zenon DEF ShutAt, AloneAt, Starting, Outside

\* What the discipline says of the instruction the current thread executes.
LEMMA PlaceFacts ==
  ASSUME Disciplined, StackInv, LockInv, NEW i, AtOp(i)
  PROVE  LET p == path[current]
             n == at[current]
         IN /\ current \in Threads \ {Idle} /\ p \in DOMAIN Code
            /\ n \in DOMAIN Code[p] /\ n \in Nat \ {0} /\ n + 1 <= Len(Code[p]) + 1
            /\ Code[p][n].op = i
            /\ InstructionOK(p, n) /\ BalancedOK(p, n)
            /\ PlaceOK(p, n) /\ PlaceOK(p, n + 1)
  <1> DEFINE p == path[current]
             n == at[current]
  <1>1. /\ current \in Threads \ {Idle} /\ p \in DOMAIN Code /\ n \in Nat \ {0}
        /\ n \in DOMAIN Code[p] /\ Code[p][n].op = i
    BY Zenon DEF StackInv, AtOp, Outside
  <1>2. n \in 1..Len(Code[p]) /\ Len(Code[p]) \in Nat
    BY <1>1, CodeFacts, LenProperties, Zenon
  <1>3. n \in 1..(Len(Code[p]) + 1) /\ n + 1 \in 1..(Len(Code[p]) + 1)
    BY <1>2
  <1> HIDE DEF p, n
  <1>4. /\ InstructionOK(p, n) /\ BalancedOK(p, n)
        /\ PlaceOK(p, n) /\ PlaceOK(p, n + 1)
    BY <1>1, <1>3, Zenon DEF Disciplined
  <1> QED
    BY <1>1, <1>2, <1>3, <1>4 DEF p, n

\* The types in the invariant.
LockTypes ==
  /\ held \in [Locks -> Threads \cup {None}]
  /\ saved \in [LockedLocks -> BOOLEAN]
  /\ intr \in BOOLEAN /\ savedIF \in [Threads -> BOOLEAN]
  /\ sched \in [Threads -> {"Ready", "key", "child", "dead"}]

\* The current thread goes from one place to another: what it must leave behind.
LEMMA MoveInv ==
  ASSUME StackInv, LockInv, current # Idle,
         NEW q \in Outside \cup DOMAIN Code, NEW m \in Nat \ {0},
         path'[current] = q, at'[current] = m, current' = current,
         \A t \in Threads \ {current} : path'[t] = path[t] /\ at'[t] = at[t],
         LockTypes',
         q \in DOMAIN Code => m <= Len(Code[q]) + 1,
         ShutAt(q, m) => ~intr',
         \A l \in GuardsAt(q, m) : l \notin MayEnableAt(q, m) => ~saved'[l],
         \A l \in Locks : held'[l] # None =>
           \/ held'[l] = held[l] /\ held[l] # current
           \/ held'[l] = current /\ l \in OwnAt(q, m),
         current \in Users => q \notin Starting,
         current \notin Users => \A t \in Users : sched[t] = "dead" => sched'[t] = "dead",
         current = Monitor /\ AloneAt(q, m) =>
           AloneAt(path[current], at[current]) \/ \A t \in Users : sched'[t] = "dead"
  PROVE  LockInv'
  <1>1. current \in Threads
    BY Zenon DEF StackInv
  <1>2. \A t \in Threads : path'[t] \in DOMAIN Code => at'[t] <= Len(Code[path'[t]]) + 1
    BY <1>1, Zenon DEF LockInv
  <1>3. \A t \in Threads : ShutAt(path'[t], at'[t]) => t = current' /\ ~intr'
    BY <1>1, Zenon DEF LockInv
  <1>4. \A l \in GuardsAt(path'[current'], at'[current']) :
          l \notin MayEnableAt(path'[current'], at'[current']) => ~saved'[l]
    BY <1>1, Zenon
  <1>5. ASSUME NEW l \in Locks, held'[l] # None
        PROVE  l \in OwnAt(path'[held'[l]], at'[held'[l]])
    <2>1. CASE held'[l] = held[l] /\ held[l] # current
      <3>1. held'[l] \in Threads \ {current}
        BY <1>5, <2>1, Zenon DEF LockTypes
      <3>2. l \in OwnAt(path[held[l]], at[held[l]])
        BY <1>5, <2>1, Zenon DEF LockInv
      <3> QED
        BY <2>1, <3>1, <3>2, Zenon
    <2>2. CASE held'[l] = current /\ l \in OwnAt(q, m)
      BY <2>2, Zenon
    <2> QED
      BY <1>5, <2>1, <2>2, Zenon
  <1>6. \A t \in Users : path'[t] \notin Starting
    BY <1>1, Zenon DEF LockInv, Threads
  <1>7. ASSUME AloneAt(path'[Monitor], at'[Monitor])
        PROVE  current' \notin Users /\ \A t \in Users : sched'[t] = "dead"
    <2>1. CASE current = Monitor
      BY <1>7, <2>1, InterruptsAssumption, Zenon DEF LockInv
    <2>2. CASE current # Monitor
      <3>1. AloneAt(path[Monitor], at[Monitor])
        BY <1>7, <2>2, Zenon DEF Threads
      <3> QED
        BY <3>1, Zenon DEF LockInv
    <2> QED
      BY <2>1, <2>2, Zenon
  <1> QED
    BY <1>2, <1>3, <1>4, <1>5, <1>6, <1>7, Zenon DEF LockInv, LockTypes

\* Having started no program by place i + 1, the monitor thread has started none by i.
LEMMA AloneEarlier ==
  ASSUME NEW p, NEW i \in Nat \ {0}, AloneAt(p, i + 1)
  PROVE  AloneAt(p, i) /\ Code[p][i].op # "create"
  BY DEF AloneAt

\* The same for the next instruction of its path.
LEMMA AdvanceLocks ==
  ASSUME Disciplined, StackInv, LockInv, NEW i, AtOp(i), Advance,
         UNCHANGED <<current, path>>, LockTypes',
         LET p == path[current]
             n == at[current] + 1
         IN /\ ShutAt(p, n) => ~intr'
            /\ \A l \in GuardsAt(p, n) : l \notin MayEnableAt(p, n) => ~saved'[l]
            /\ \A l \in Locks : held'[l] # None =>
                 \/ held'[l] = held[l] /\ held[l] # current
                 \/ held'[l] = current /\ l \in OwnAt(p, n),
         current \notin Users => \A t \in Users : sched[t] = "dead" => sched'[t] = "dead"
  PROVE  LockInv'
  <1> DEFINE p == path[current]
             n == at[current] + 1
  <1>1. /\ current \in Threads \ {Idle} /\ p \in DOMAIN Code
        /\ n \in Nat \ {0} /\ n <= Len(Code[p]) + 1
    BY PlaceFacts
  <1>2. /\ path'[current] = p /\ at'[current] = n
        /\ \A t \in Threads \ {current} : path'[t] = path[t] /\ at'[t] = at[t]
    BY <1>1, Zenon DEF Advance, StackInv
  <1>3. current \in Users => p \notin Starting
    BY Zenon DEF LockInv
  <1>4. AloneAt(p, n) => AloneAt(path[current], at[current])
    BY <1>1, AloneEarlier, Zenon DEF StackInv
  <1> HIDE DEF p, n
  <1>5. /\ ShutAt(p, n) => ~intr'
        /\ \A l \in GuardsAt(p, n) : l \notin MayEnableAt(p, n) => ~saved'[l]
        /\ \A l \in Locks : held'[l] # None =>
                 \/ held'[l] = held[l] /\ held[l] # current
                 \/ held'[l] = current /\ l \in OwnAt(p, n)
    BY Zenon DEF p, n
  <1> QED
    BY <1>1, <1>2, <1>3, <1>4, <1>5, MoveInv, Zenon

\* What the place of the current thread says of a step that leaves the locks alone.
LEMMA SameLocks ==
  ASSUME Disciplined, StackInv, LockInv, NEW i, AtOp(i), Advance,
         UNCHANGED <<current, path, intr, savedIF, lockVars>>,
         i \in {"touch", "buffer", "swapgs", "scratch", "stack", "mark", "wakeParent", "create"},
         sched' \in [Threads -> {"Ready", "key", "child", "dead"}],
         current \notin Users => \A t \in Users : sched[t] = "dead" => sched'[t] = "dead"
  PROVE  LockInv'
  <1> DEFINE p == path[current]
             n == at[current]
  <1>1. current \in Threads /\ InstructionOK(p, n) /\ Code[p][n].op = i
    BY PlaceFacts, Zenon
  <1>2. OwnAt(p, n + 1) = OwnAt(p, n) /\ SameFlags(p, n, n + 1)
    BY <1>1, Zenon DEF InstructionOK
  <1>3. LockTypes'
    BY Zenon DEF LockInv, LockTypes, lockVars
  <1>4. /\ ShutAt(p, n) => ~intr
        /\ \A l \in GuardsAt(p, n) : l \notin MayEnableAt(p, n) => ~saved[l]
        /\ \A l \in Locks : held[l] = current /\ held[l] # None => l \in OwnAt(p, n)
    BY <1>1, Zenon DEF LockInv
  <1> HIDE DEF p, n
  <1>5. /\ ShutAt(p, n + 1) => ~intr'
        /\ \A l \in GuardsAt(p, n + 1) : l \notin MayEnableAt(p, n + 1) => ~saved'[l]
        /\ \A l \in Locks : held'[l] # None =>
                 \/ held'[l] = held[l] /\ held[l] # current
                 \/ held'[l] = current /\ l \in OwnAt(p, n + 1)
    BY <1>2, <1>4, Zenon DEF SameFlags, SameGuards, ShutAt, lockVars
  <1> QED
    BY <1>3, <1>5, AdvanceLocks, Zenon DEF p, n

\* A lock is held where the code of its holder says so, and by the current thread: all but
\* ROOT_FS are held with interrupts disabled only.
LEMMA HolderFacts ==
  ASSUME Disciplined, StackInv, LockInv, NEW l \in Locks, held[l] # None
  PROVE  /\ held[l] \in Threads /\ l \in OwnAt(path[held[l]], at[held[l]])
         /\ path[held[l]] \in DOMAIN Code /\ PlaceOK(path[held[l]], at[held[l]])
         /\ held[l] # current =>
              l = "ROOT_FS" /\ AloneAt(path[held[l]], at[held[l]])
  <1> DEFINE t == held[l]
  <1>1. t \in Threads /\ l \in OwnAt(path[t], at[t])
    BY Zenon DEF LockInv
  <1>2. path[t] \in DOMAIN Code
    BY <1>1, OutsideFacts, Zenon DEF StackInv
  <1>3. at[t] \in 1..(Len(Code[path[t]]) + 1)
    BY <1>1, <1>2, CodeFacts, LenProperties DEF LockInv, StackInv
  <1>4. PlaceOK(path[t], at[t])
    BY <1>2, <1>3, Zenon DEF Disciplined
  <1>5. t # current => ~ShutAt(path[t], at[t])
    BY <1>1, Zenon DEF LockInv
  <1>6. l \in LockedLocks \/ l \in {"ROOT_FS", "wait_queue", "KEYBOARD", "LOCAL_APIC"}
    BY Zenon DEF Locks, SpinLocks
  <1> HIDE DEF t
  <1>7. t # current => l = "ROOT_FS" /\ AloneAt(path[t], at[t])
    BY <1>1, <1>4, <1>5, <1>6, Zenon DEF PlaceOK, ShutAt
  <1> QED
    BY <1>1, <1>2, <1>4, <1>7, Zenon DEF t

\* Locked::lock.
LEMMA LockStep ==
  ASSUME Disciplined, StackInv, LockInv, Lock, halt' # "lock"
  PROVE  LockInv'
  <1> DEFINE p == path[current]
             n == at[current]
             l == Code[p][n].arg
  <1>1. /\ AtOp("lock") /\ Advance /\ UNCHANGED <<current, path, sched, savedIF>>
        /\ held' = [held EXCEPT ![l] = current]
        /\ saved' = [saved EXCEPT ![l] = intr] /\ intr' = FALSE
    BY Zenon DEF Lock, Stop, Arg
  <1>2. current \in Threads /\ InstructionOK(p, n) /\ Code[p][n].op = "lock"
    BY <1>1, PlaceFacts, Zenon
  <1> HIDE DEF p, n
  <1>3. /\ l \in LockedLocks
        /\ OwnAt(p, n + 1) = OwnAt(p, n) \cup {l}
        /\ GuardsAt(p, n + 1) = GuardsAt(p, n) \cup {l}
        /\ MayEnableAt(p, n + 1) = MayEnableAt(p, n) \cup (IF ShutAt(p, n) THEN {} ELSE {l})
    BY <1>2, Zenon DEF InstructionOK
  <1>4. l \in Locks
    BY <1>3, Zenon DEF Locks
  <1>5. /\ ShutAt(p, n) => ~intr
        /\ \A k \in GuardsAt(p, n) : k \notin MayEnableAt(p, n) => ~saved[k]
        /\ \A k \in Locks : held[k] = current /\ held[k] # None => k \in OwnAt(p, n)
    BY <1>2, Zenon DEF LockInv, p, n
  <1>6. GuardsAt(p, n) \subseteq Locks
    BY Zenon DEF GuardsAt, Pending
  <1>7. LockTypes'
    BY <1>1, <1>2, <1>3, <1>4, Zenon DEF LockInv, LockTypes
  <1> HIDE DEF l
  <1>8. ASSUME NEW k \in GuardsAt(p, n + 1), k \notin MayEnableAt(p, n + 1)
        PROVE  ~saved'[k]
    <2>1. CASE k = l
      BY <1>1, <1>3, <1>5, <1>8, <2>1, Zenon DEF LockInv
    <2>2. CASE k # l
      BY <1>1, <1>3, <1>5, <1>8, <2>2
    <2> QED
      BY <2>1, <2>2, Zenon
  <1>9. \A k \in Locks : held'[k] # None =>
                 \/ held'[k] = held[k] /\ held[k] # current
                 \/ held'[k] = current /\ k \in OwnAt(p, n + 1)
    BY <1>1, <1>3, <1>4, <1>5, Zenon DEF LockInv
  <1> QED
    BY <1>1, <1>7, <1>8, <1>9, AdvanceLocks, Zenon DEF p, n

\* spin::Mutex::lock.
LEMMA SpinStep ==
  ASSUME Disciplined, StackInv, LockInv, Spin, halt' # "lock"
  PROVE  LockInv'
  <1> DEFINE p == path[current]
             n == at[current]
             l == Code[p][n].arg
  <1>1. /\ AtOp("spin") /\ Advance /\ UNCHANGED <<current, path, sched, savedIF, intr, saved>>
        /\ held' = [held EXCEPT ![l] = current]
    BY Zenon DEF Spin, Stop, Arg, cpuVars
  <1>2. current \in Threads /\ InstructionOK(p, n) /\ Code[p][n].op = "spin"
    BY <1>1, PlaceFacts, Zenon
  <1> HIDE DEF p, n
  <1>3. /\ l \in SpinLocks /\ SameFlags(p, n, n + 1)
        /\ OwnAt(p, n + 1) = OwnAt(p, n) \cup {l}
    BY <1>2, Zenon DEF InstructionOK
  <1>4. l \in Locks
    BY <1>3, Zenon DEF Locks
  <1>5. /\ ShutAt(p, n) => ~intr
        /\ \A k \in GuardsAt(p, n) : k \notin MayEnableAt(p, n) => ~saved[k]
        /\ \A k \in Locks : held[k] = current /\ held[k] # None => k \in OwnAt(p, n)
    BY <1>2, Zenon DEF LockInv, p, n
  <1>6. LockTypes'
    BY <1>1, <1>2, <1>4, Zenon DEF LockInv, LockTypes
  <1> HIDE DEF l
  <1>7. /\ ShutAt(p, n + 1) => ~intr'
        /\ \A k \in GuardsAt(p, n + 1) : k \notin MayEnableAt(p, n + 1) => ~saved'[k]
    BY <1>1, <1>3, <1>5, Zenon DEF SameFlags, SameGuards, ShutAt
  <1>8. \A k \in Locks : held'[k] # None =>
                 \/ held'[k] = held[k] /\ held[k] # current
                 \/ held'[k] = current /\ k \in OwnAt(p, n + 1)
    BY <1>1, <1>3, <1>4, <1>5, Zenon DEF LockInv
  <1> QED
    BY <1>1, <1>6, <1>7, <1>8, AdvanceLocks, Zenon DEF p, n

\* The first half of a drop, and the drop of a spin::MutexGuard.
LEMMA ReleaseStep ==
  ASSUME Disciplined, StackInv, LockInv, Release
  PROVE  LockInv'
  <1> DEFINE p == path[current]
             n == at[current]
             l == Code[p][n].arg
  <1>1. /\ AtOp("release") \/ AtOp("unspin")
        /\ Advance /\ UNCHANGED <<current, path, sched, savedIF, intr, saved>>
        /\ held' = [held EXCEPT ![l] = None]
    BY Zenon DEF Release, Arg, cpuVars
  <1>2. current \in Threads /\ InstructionOK(p, n) /\ Code[p][n].op \in {"release", "unspin"}
    BY <1>1, PlaceFacts, Zenon
  <1> HIDE DEF p, n
  <1>3. /\ l \in Locks /\ SameFlags(p, n, n + 1)
        /\ OwnAt(p, n + 1) = OwnAt(p, n) \ {l}
    BY <1>2, Zenon DEF InstructionOK
  <1>4. /\ ShutAt(p, n) => ~intr
        /\ \A k \in GuardsAt(p, n) : k \notin MayEnableAt(p, n) => ~saved[k]
        /\ \A k \in Locks : held[k] = current /\ held[k] # None => k \in OwnAt(p, n)
    BY <1>2, Zenon DEF LockInv, p, n
  <1>5. LockTypes'
    BY <1>1, <1>2, <1>3, Zenon DEF LockInv, LockTypes
  <1> HIDE DEF l
  <1>6. /\ ShutAt(p, n + 1) => ~intr'
        /\ \A k \in GuardsAt(p, n + 1) : k \notin MayEnableAt(p, n + 1) => ~saved'[k]
    BY <1>1, <1>3, <1>4, Zenon DEF SameFlags, SameGuards, ShutAt
  <1>7. \A k \in Locks : held'[k] # None =>
                 \/ held'[k] = held[k] /\ held[k] # current
                 \/ held'[k] = current /\ k \in OwnAt(p, n + 1)
    BY <1>1, <1>3, <1>4, Zenon DEF LockInv
  <1> QED
    BY <1>1, <1>5, <1>6, <1>7, AdvanceLocks, Zenon DEF p, n

\* The second half of a drop: only the guard that was taken first enables interrupts.
LEMMA RestoreStep ==
  ASSUME Disciplined, StackInv, LockInv, Restore
  PROVE  LockInv'
  <1> DEFINE p == path[current]
             n == at[current]
             l == Code[p][n].arg
  <1>1. /\ AtOp("restore") /\ Advance /\ intr' = (intr \/ saved[l])
        /\ UNCHANGED <<current, path, sched, savedIF, held, saved>>
    BY Zenon DEF Restore, Arg, lockVars
  <1>2. current \in Threads /\ InstructionOK(p, n) /\ Code[p][n].op = "restore"
    BY <1>1, PlaceFacts, Zenon
  <1> HIDE DEF p, n
  <1>3. /\ l \in GuardsAt(p, n)
        /\ OwnAt(p, n + 1) = OwnAt(p, n)
        /\ GuardsAt(p, n + 1) = GuardsAt(p, n) \ {l}
        /\ MayEnableAt(p, n + 1) = MayEnableAt(p, n) \ {l}
        /\ l \in MayEnableAt(p, n) => ~ShutAt(p, n + 1)
    BY <1>2, Zenon DEF InstructionOK
  <1>4. /\ ShutAt(p, n) => ~intr
        /\ \A k \in GuardsAt(p, n) : k \notin MayEnableAt(p, n) => ~saved[k]
        /\ \A k \in Locks : held[k] = current /\ held[k] # None => k \in OwnAt(p, n)
    BY <1>2, Zenon DEF LockInv, p, n
  <1>5. LockTypes'
    <2>1. intr' \in BOOLEAN
      BY <1>1, Zenon
    <2> QED
      BY <1>1, <2>1, Zenon DEF LockInv, LockTypes
  <1> HIDE DEF l
  <1>6. ShutAt(p, n + 1) => ~intr'
    <2>1. ~intr
      BY <1>3, <1>4, Zenon DEF ShutAt
    <2>2. l \notin MayEnableAt(p, n) => ~saved[l]
      BY <1>3, <1>4, Zenon
    <2> QED
      BY <1>1, <1>3, <2>1, <2>2, Zenon
  <1>7. \A k \in GuardsAt(p, n + 1) : k \notin MayEnableAt(p, n + 1) => ~saved'[k]
    BY <1>1, <1>3, <1>4, Zenon
  <1>8. \A k \in Locks : held'[k] # None =>
                 \/ held'[k] = held[k] /\ held[k] # current
                 \/ held'[k] = current /\ k \in OwnAt(p, n + 1)
    BY <1>1, <1>3, <1>4, Zenon
  <1> QED
    BY <1>1, <1>5, <1>6, <1>7, <1>8, AdvanceLocks, Zenon DEF p, n

\* cli and sti.
LEMMA SetFlagStep ==
  ASSUME Disciplined, StackInv, LockInv, SetFlag
  PROVE  LockInv'
  <1> DEFINE p == path[current]
             n == at[current]
  <1>1. /\ AtOp("cli") \/ AtOp("sti")
        /\ Advance /\ intr' = AtOp("sti")
        /\ UNCHANGED <<current, path, sched, savedIF, held, saved>>
    BY Zenon DEF SetFlag, lockVars
  <1>2. current \in Threads /\ InstructionOK(p, n) /\ Code[p][n].op \in {"cli", "sti"}
    BY <1>1, PlaceFacts, Zenon
  <1>3. AtOp("sti") => Code[p][n].op = "sti"
    BY Zenon DEF AtOp
  <1> HIDE DEF p, n
  <1>4. /\ OwnAt(p, n + 1) = OwnAt(p, n) /\ SameGuards(p, n, n + 1)
        /\ AtOp("sti") => ~ShutAt(p, n + 1)
    BY <1>2, <1>3, Zenon DEF InstructionOK
  <1>5. /\ \A k \in GuardsAt(p, n) : k \notin MayEnableAt(p, n) => ~saved[k]
        /\ \A k \in Locks : held[k] = current /\ held[k] # None => k \in OwnAt(p, n)
    BY <1>2, Zenon DEF LockInv, p, n
  <1>6. intr' \in BOOLEAN
    BY <1>1, Zenon DEF AtOp
  <1>7. LockTypes'
    BY <1>1, <1>6, Zenon DEF LockInv, LockTypes
  <1>8. ShutAt(p, n + 1) => ~intr'
    BY <1>1, <1>4, Zenon
  <1>9. \A k \in GuardsAt(p, n + 1) : k \notin MayEnableAt(p, n + 1) => ~saved'[k]
    BY <1>1, <1>4, <1>5, Zenon DEF SameGuards
  <1>10. \A k \in Locks : held'[k] # None =>
                 \/ held'[k] = held[k] /\ held[k] # current
                 \/ held'[k] = current /\ k \in OwnAt(p, n + 1)
    BY <1>1, <1>4, <1>5, Zenon
  <1> QED
    BY <1>1, <1>7, <1>8, <1>9, <1>10, AdvanceLocks, Zenon DEF p, n

\* What leaves the places, the locks and the interrupt flag alone; sched may let a
\* sleeping thread run.
LEMMA StillLocks ==
  ASSUME LockInv, UNCHANGED <<current, path, at, intr, savedIF, lockVars>>,
         sched' \in [Threads -> {"Ready", "key", "child", "dead"}],
         \A t \in Users : sched[t] = "dead" => sched'[t] = "dead"
  PROVE  LockInv'
  BY Zenon DEF LockInv, lockVars

\* A key wakes a reader, and nobody who is dead.
LEMMA SentFacts ==
  ASSUME LockInv, NEW s \in {sched} \cup Sent
  PROVE  /\ s \in [Threads -> {"Ready", "key", "child", "dead"}]
         /\ \A t \in Threads : s[t] = "dead" <=> sched[t] = "dead"
  BY Zenon DEF LockInv, Sent

\* The instructions that leave the locks alone.
LEMMA QuietSteps ==
  ASSUME Disciplined, StackInv, LockInv,
         \/ Touch \/ Swapgs \/ SaveRsp \/ LoadRsp \/ Mark \/ WakeParent
         \/ UserFault \/ Keyboard \/ UNCHANGED intVars
  PROVE  LockInv'
  <1>1. ASSUME NEW why, Stop(why) PROVE LockInv'
    BY <1>1, StillLocks, Zenon DEF Stop, threadVars, cpuVars, LockInv
  <1>2. sched \in [Threads -> {"Ready", "key", "child", "dead"}]
    BY Zenon DEF LockInv
  <1>3. CASE Touch
    BY <1>1, <1>2, <1>3, SameLocks, Zenon DEF Touch, cpuVars
  <1>4. CASE Swapgs
    BY <1>2, <1>4, SameLocks, Zenon DEF Swapgs
  <1>5. CASE SaveRsp
    BY <1>1, <1>2, <1>5, SameLocks, Zenon DEF SaveRsp
  <1>6. CASE LoadRsp
    BY <1>2, <1>6, SameLocks, Zenon DEF LoadRsp, cpuVars
  <1>7. CASE Mark
    <2>1. /\ AtOp("mark") /\ sched' = [sched EXCEPT ![current] = Arg]
      BY <1>7, Zenon DEF Mark
    <2>2. /\ current \in Threads /\ InstructionOK(path[current], at[current])
          /\ Code[path[current]][at[current]].op = "mark"
      BY <2>1, PlaceFacts, Zenon
    <2>3. Arg \in {"key", "child", "dead"}
      BY <2>2, Zenon DEF InstructionOK, Arg
    <2>4. /\ sched' \in [Threads -> {"Ready", "key", "child", "dead"}]
          /\ current \notin Users => \A t \in Users : sched[t] = "dead" => sched'[t] = "dead"
      BY <1>2, <2>1, <2>2, <2>3, Zenon DEF Threads
    <2> QED
      BY <1>7, <2>4, SameLocks, Zenon DEF Mark, cpuVars
  <1>8. CASE WakeParent
    <2>1. /\ sched' \in [Threads -> {"Ready", "key", "child", "dead"}]
          /\ \A t \in Users : sched[t] = "dead" => sched'[t] = "dead"
      <3>1. PICK ts \in SUBSET {t \in Threads : sched[t] = "child"} :
              sched' = [t \in Threads |-> IF t \in ts THEN "Ready" ELSE sched[t]]
        BY <1>8, Zenon DEF WakeParent
      <3> QED
        BY <1>2, <3>1, Zenon DEF Threads
    <2> QED
      BY <1>8, <2>1, SameLocks, Zenon DEF WakeParent, cpuVars
  <1>9. CASE UserFault \/ UNCHANGED intVars
    <2>1. CASE UNCHANGED intVars
      BY <1>2, <2>1, StillLocks, Zenon DEF intVars, threadVars, cpuVars
    <2> QED
      BY <1>1, <1>9, <2>1, Zenon DEF UserFault
  <1>10. CASE Keyboard
    <2>1. CASE sched' \in {sched} \cup Sent /\ UNCHANGED <<current, path, at, cpuVars, lockVars>>
      <3>1. /\ sched' \in [Threads -> {"Ready", "key", "child", "dead"}]
            /\ \A t \in Threads : sched'[t] = "dead" <=> sched[t] = "dead"
        BY <2>1, SentFacts, Zenon
      <3> QED
        BY <2>1, <3>1, StillLocks, Zenon DEF cpuVars, Threads
    <2> QED
      BY <1>1, <1>10, <2>1, Zenon DEF Keyboard
  <1> QED
    BY <1>3, <1>4, <1>5, <1>6, <1>7, <1>8, <1>9, <1>10, Zenon

\* A thread that goes from a place where it holds nothing to another such place.
LEMMA FreeMove ==
  ASSUME Disciplined, StackInv, LockInv, current # Idle,
         OwnAt(path[current], at[current]) = {},
         NEW q \in Outside \cup DOMAIN Code, NEW m \in Nat \ {0},
         path'[current] = q, at'[current] = m, current' = current,
         \A t \in Threads \ {current} : path'[t] = path[t] /\ at'[t] = at[t],
         UNCHANGED <<sched, savedIF, lockVars>>, intr' \in BOOLEAN,
         q \in DOMAIN Code => m <= Len(Code[q]) + 1,
         GuardsAt(q, m) = {}, ShutAt(q, m) => ~intr',
         current \in Users => q \notin Starting,
         current = Monitor /\ AloneAt(q, m) => \A t \in Users : sched[t] = "dead"
  PROVE  LockInv'
  <1>1. LockTypes'
    BY Zenon DEF LockInv, LockTypes, lockVars
  <1>2. \A l \in Locks : held'[l] # None => held'[l] = held[l] /\ held[l] # current
    BY Zenon DEF LockInv, lockVars
  <1>3. /\ \A l \in GuardsAt(q, m) : l \notin MayEnableAt(q, m) => ~saved'[l]
        /\ current \notin Users => \A t \in Users : sched[t] = "dead" => sched'[t] = "dead"
    OBVIOUS
  <1>4. current = Monitor /\ AloneAt(q, m) =>
           AloneAt(path[current], at[current]) \/ \A t \in Users : sched'[t] = "dead"
    OBVIOUS
  <1> QED
    BY <1>1, <1>2, <1>3, <1>4, MoveInv, Zenon

\* Nothing is held outside the code, and where the code says so.
LEMMA FreePlaces ==
  ASSUME Disciplined
  PROVE  /\ \A p \in Outside, i \in Nat : FreeAt(p, i) /\ ~ShutAt(p, i) /\ ~AloneAt(p, i)
         /\ \A p \in DOMAIN Code : /\ FreeAt(p, 1) /\ (ShutAt(p, 1) => p \in Calls)
                                   /\ 1 <= Len(Code[p]) + 1
  <1>1. \A p \in Outside, i \in Nat : FreeAt(p, i) /\ ~ShutAt(p, i) /\ ~AloneAt(p, i)
    BY OutsideFacts, Zenon DEF FreeAt
  <1>2. ASSUME NEW p \in DOMAIN Code
        PROVE  FreeAt(p, 1) /\ (ShutAt(p, 1) => p \in Calls) /\ 1 <= Len(Code[p]) + 1
    <2>1. FreeAt(p, 1) /\ (DisabledAt(p, 1) => p \in Calls)
      BY Zenon DEF Disciplined
    <2>2. Len(Code[p]) \in Nat
      BY CodeFacts, LenProperties, Zenon
    <2> QED
      BY <2>1, <2>2 DEF FreeAt, ShutAt
  <1> QED
    BY <1>1, <1>2, Zenon

\* No system call and no path of the idle task starts a program for the monitor thread.
LEMMA StartingNames ==
  /\ Starting \cap Calls = {} /\ Starting \cap Outside = {}
  /\ "trampoline" \notin Starting /\ "monitorReap" \notin Starting
  BY Zenon DEF Starting, Calls, SystemCall, Outside

\* Returns to ring 3, system calls, and the turns of the monitor.
LEMMA PathSteps ==
  ASSUME Disciplined, StackInv, LockInv,
         \/ ReturnToUser
         \/ \E p \in Calls : Syscall(p)
         \/ \E p \in DOMAIN KernelCode : MonitorTurn(p)
         \/ MonitorNext
  PROVE  LockInv'
  <1>1. CASE ReturnToUser \/ MonitorNext
    <2>1. PICK i \in {"return", "next"}, q \in {"user", "loop"} :
            /\ AtOp(i) /\ path' = [path EXCEPT ![current] = q]
            /\ UNCHANGED <<current, at, sched, savedIF, lockVars>>
            /\ intr' = TRUE \/ intr' = intr
      BY <1>1, Zenon DEF ReturnToUser, MonitorNext, cpuVars
    <2>2. /\ current \in Threads \ {Idle} /\ InstructionOK(path[current], at[current])
          /\ Code[path[current]][at[current]].op = i
      BY <2>1, PlaceFacts, Zenon
    <2>3. OwnAt(path[current], at[current]) = {}
      BY <2>2, Zenon DEF InstructionOK, FreeAt
    <2>4. q \in Outside /\ at[current] \in Nat \ {0} /\ intr' \in BOOLEAN
      BY <2>1, <2>2, Zenon DEF StackInv, LockInv, Outside
    <2>5. GuardsAt(q, at[current]) = {} /\ ~ShutAt(q, at[current]) /\ ~AloneAt(q, at[current])
      BY <2>4, FreePlaces, Zenon DEF FreeAt
    <2>6. q \notin DOMAIN Code /\ q \notin Starting
      BY <2>4, OutsideFacts, StartingNames, Zenon
    <2>7. /\ path'[current] = q /\ at'[current] = at[current]
          /\ \A t \in Threads \ {current} : path'[t] = path[t] /\ at'[t] = at[t]
      BY <2>1, <2>2, Zenon DEF StackInv
    <2> QED
      BY <2>1, <2>2, <2>3, <2>4, <2>5, <2>6, <2>7, FreeMove, Zenon
  <1>2. ASSUME NEW q \in DOMAIN Code, path' = [path EXCEPT ![current] = q],
               at' = [at EXCEPT ![current] = 1], current # Idle, path[current] \in Outside,
               UNCHANGED <<current, sched, savedIF, lockVars>>,
               intr' \in BOOLEAN, q \in Calls => ~intr',
               q \in Starting => current = Monitor /\ \A t \in Users : sched[t] = "dead"
        PROVE  LockInv'
    <2>1. current \in Threads /\ at[current] \in Nat
      BY Zenon DEF StackInv
    <2>2. OwnAt(path[current], at[current]) = {}
      BY <1>2, <2>1, FreePlaces, Zenon DEF FreeAt
    <2>3. GuardsAt(q, 1) = {} /\ (ShutAt(q, 1) => ~intr') /\ 1 <= Len(Code[q]) + 1
      BY <1>2, FreePlaces, Zenon DEF FreeAt
    <2>4. /\ path'[current] = q /\ at'[current] = 1
          /\ \A t \in Threads \ {current} : path'[t] = path[t] /\ at'[t] = at[t]
      BY <1>2, <2>1, Zenon DEF StackInv
    <2>5. /\ current \in Users => q \notin Starting
          /\ current = Monitor /\ AloneAt(q, 1) => \A t \in Users : sched[t] = "dead"
      BY <1>2, InterruptsAssumption, Zenon DEF AloneAt
    <2> QED
      BY <1>2, <2>2, <2>3, <2>4, <2>5, FreeMove
  <1>3. ASSUME NEW p \in Calls, Syscall(p)
        PROVE  LockInv'
    <2>1. current # Idle /\ path[current] \in Outside
      BY <1>3, Zenon DEF Syscall, Ring3, StackInv, Outside
    <2>2. p \in DOMAIN Code /\ p \notin Starting
      BY CodeFacts, StartingNames, Zenon
    <2> QED
      BY <1>2, <1>3, <2>1, <2>2, Zenon DEF Syscall
  <1>4. ASSUME NEW p \in DOMAIN KernelCode, MonitorTurn(p)
        PROVE  LockInv'
    <2>1. current # Idle /\ path[current] \in Outside
      BY <1>4, Zenon DEF MonitorTurn, StackInv, Outside
    <2>2. p \in DOMAIN Code /\ p \notin Calls
      BY CodeFacts, PathNames, Zenon
    <2>3. p \in Starting => current = Monitor /\ \A t \in Users : sched[t] = "dead"
      BY <1>4, StartingNames, Zenon DEF MonitorTurn, MonitorPath
    <2>4. intr' \in BOOLEAN
      BY <1>4, Zenon DEF MonitorTurn, cpuVars, LockInv
    <2> QED
      BY <1>2, <1>4, <2>1, <2>2, <2>3, <2>4, Zenon DEF MonitorTurn, cpuVars
  <1> QED
    BY <1>1, <1>3, <1>4, Zenon

\* A woken thread goes on, or back to where it sleeps.
LEMMA AgainStep ==
  ASSUME Disciplined, StackInv, LockInv, Again
  PROVE  LockInv'
  <1> DEFINE p == path[current]
             i == at[current]
  <1>1. /\ current \in Threads \ {Idle} /\ p \in DOMAIN Code /\ InstructionOK(p, i)
        /\ Code[p][i].op = "again" /\ i \in Nat \ {0}
    BY PlaceFacts, Zenon DEF Again
  <1>2. PICK n \in {i + 1, Len(Entry) + Code[p][i].arg} : at' = [at EXCEPT ![current] = n]
    BY <1>1, Zenon DEF Again, Advance, Arg, StackInv
  <1>3. n \in Nat \ {0}
    <2>1. Code[p][i].arg \in Nat \ {0}
      BY AtOpFacts, Zenon DEF Again, Arg
    <2> QED
      BY <1>1, <1>2, <2>1, EntryCode
  <1> HIDE DEF p, i
  <1>4. p \in Calls /\ n <= Len(Code[p]) /\ FreeAt(p, i) /\ FreeAt(p, n) /\ ~ShutAt(p, n)
    BY <1>1, <1>2, Zenon DEF InstructionOK
  <1>5. /\ path'[current] = p /\ at'[current] = n
        /\ \A t \in Threads \ {current} : path'[t] = path[t] /\ at'[t] = at[t]
    BY <1>1, <1>2, Zenon DEF StackInv, Again, p
  <1>6. /\ UNCHANGED <<current, sched, savedIF, lockVars, intr>>
        /\ intr' \in BOOLEAN
    BY Zenon DEF Again, LockInv, cpuVars
  <1>7. current \in Users => p \notin Starting
    BY Zenon DEF LockInv, p
  <1>8. n <= Len(Code[p]) + 1
    BY <1>1, <1>3, <1>4, CodeFacts, LenProperties
  <1>9. ~AloneAt(p, n)
    BY <1>4, StartingNames, Zenon DEF AloneAt
  <1> QED
    BY <1>1, <1>3, <1>4, <1>5, <1>6, <1>7, <1>8, <1>9, FreeMove, Zenon DEF FreeAt, p, i

\* A user thread that is not the current one holds nothing.
LEMMA OthersFree ==
  ASSUME Disciplined, StackInv, LockInv, NEW t \in Users, t # current
  PROVE  \A l \in Locks : held[l] # t
  <1>1. ASSUME NEW l \in Locks, held[l] = t PROVE FALSE
    <2>1. held[l] # None
      BY <1>1, InterruptsAssumption, Zenon
    <2>2. AloneAt(path[t], at[t])
      BY <1>1, <2>1, HolderFacts, Zenon
    <2> QED
      BY <2>2, Zenon DEF AloneAt, LockInv
  <1> QED
    BY <1>1, Zenon

\* A switch leaves the locks alone, and goes to the monitor thread or the idle task while
\* the monitor thread is starting a program.
LEMMA SwitchLocks ==
  ASSUME Disciplined, StackInv, LockInv, NEW t \in Threads, SwitchTo(t),
         \A u \in Threads : ~ShutAt(path'[u], at'[u]),
         \A u \in Threads : path'[u] \in DOMAIN Code => at'[u] <= Len(Code[path'[u]]) + 1,
         \A l \in Locks : held[l] # None => l \in OwnAt(path'[held[l]], at'[held[l]]),
         AloneAt(path'[Monitor], at'[Monitor]) => AloneAt(path[Monitor], at[Monitor])
  PROVE  LockInv'
  <1>1. PICK s \in {sched} \cup Sent :
          /\ t \in Candidates(s) /\ current' = t /\ sched' = s
          /\ intr' = IF t = current THEN intr ELSE savedIF[t]
          /\ savedIF' = [savedIF EXCEPT ![current] = intr]
          /\ UNCHANGED <<path, lockVars>>
    BY Zenon DEF SwitchTo
  <1>2. /\ s \in [Threads -> {"Ready", "key", "child", "dead"}]
        /\ \A u \in Threads : s[u] = "dead" <=> sched[u] = "dead"
    BY SentFacts, Zenon
  <1>3. LockTypes'
    BY <1>1, <1>2, Zenon DEF LockInv, LockTypes, lockVars
  <1>4. GuardsAt(path'[t], at'[t]) = {}
    BY Zenon DEF ShutAt
  <1>5. ASSUME AloneAt(path'[Monitor], at'[Monitor])
        PROVE  t \notin Users /\ \A u \in Users : sched'[u] = "dead"
    <2>1. \A u \in Users : sched[u] = "dead"
      BY <1>5, Zenon DEF LockInv
    <2>2. \A u \in Users : s[u] = "dead"
      BY <1>2, <2>1, Zenon DEF Threads
    <2> QED
      BY <1>1, <2>2, InterruptsAssumption, Zenon DEF Candidates
  <1>6. \A u \in Users : path'[u] \notin Starting
    BY <1>1, Zenon DEF LockInv
  <1>7. held' = held /\ current' = t
    BY <1>1, Zenon DEF lockVars
  <1> QED
    BY <1>3, <1>4, <1>5, <1>6, <1>7, Zenon DEF LockInv, LockTypes

\* The timer comes in only where interrupts are enabled.
LEMMA TimerStep ==
  ASSUME Disciplined, StackInv, LockInv, NEW t \in Threads, Timer(t), halt' # "lock"
  PROVE  LockInv'
  <1>1. SwitchTo(t) /\ UNCHANGED <<at, path>> /\ intr
    BY Zenon DEF Timer, Stop, SwitchTo
  <1>2. \A u \in Threads : ~ShutAt(path[u], at[u])
    BY <1>1, Zenon DEF LockInv
  <1>3. /\ \A u \in Threads : path[u] \in DOMAIN Code => at[u] <= Len(Code[path[u]]) + 1
        /\ \A l \in Locks : held[l] # None => l \in OwnAt(path[held[l]], at[held[l]])
    BY Zenon DEF LockInv
  <1> QED
    BY <1>1, <1>2, <1>3, SwitchLocks, Zenon

\* A thread yields where it holds nothing.
LEMMA YieldStep ==
  ASSUME Disciplined, StackInv, LockInv, NEW t \in Threads, Yield(t), halt' # "lock"
  PROVE  LockInv'
  <1> DEFINE p == path[current]
             i == at[current]
  <1>1. AtOp("yield") /\ SwitchTo(t) /\ Advance /\ UNCHANGED path
    BY Zenon DEF Yield, Stop, SwitchTo
  <1>2. /\ current \in Threads /\ p \in DOMAIN Code /\ i \in Nat \ {0}
        /\ i + 1 <= Len(Code[p]) + 1
        /\ Code[p][i].op = "yield" /\ InstructionOK(p, i)
    BY <1>1, PlaceFacts, Zenon
  <1>3. /\ at'[current] = i + 1 /\ path'[current] = p
        /\ \A u \in Threads \ {current} : at'[u] = at[u] /\ path'[u] = path[u]
    BY <1>1, <1>2, Zenon DEF StackInv, Advance
  <1> HIDE DEF p, i
  <1>4. FreeAt(p, i) /\ ~ShutAt(p, i + 1)
    BY <1>2, Zenon DEF InstructionOK
  <1>5. \A u \in Threads : ~ShutAt(path'[u], at'[u])
    BY <1>3, <1>4, Zenon DEF LockInv
  <1>6. \A u \in Threads : path'[u] \in DOMAIN Code => at'[u] <= Len(Code[path'[u]]) + 1
    BY <1>2, <1>3, Zenon DEF LockInv
  <1>7. ASSUME NEW l \in Locks, held[l] # None
        PROVE  l \in OwnAt(path'[held[l]], at'[held[l]])
    <2>1. held[l] \in Threads /\ l \in OwnAt(path[held[l]], at[held[l]])
      BY <1>7, Zenon DEF LockInv
    <2>2. held[l] # current
      BY <1>4, <2>1, Zenon DEF FreeAt, p, i
    <2> QED
      BY <1>3, <2>1, <2>2, Zenon
  <1>8. AloneAt(path'[Monitor], at'[Monitor]) => AloneAt(path[Monitor], at[Monitor])
    <2>1. CASE current = Monitor
      BY <1>2, <1>3, <2>1, AloneEarlier, Zenon DEF p, i
    <2>2. CASE current # Monitor
      BY <1>3, <2>2, Zenon DEF Threads
    <2> QED
      BY <2>1, <2>2, Zenon
  <1> QED
    BY <1>1, <1>5, <1>6, <1>7, <1>8, SwitchLocks, Zenon

\* A new thread starts in a slot whose last thread held nothing.
LEMMA CreateStep ==
  ASSUME Disciplined, StackInv, LockInv, Create
  PROVE  LockInv'
  <1> DEFINE p == path[current]
             i == at[current]
  <1>1. AtOp("create") /\ UNCHANGED <<current, intr, lockVars>>
    BY Zenon DEF Create
  <1>2. /\ current \in Threads \ {Idle} /\ p \in DOMAIN Code /\ i \in Nat \ {0}
        /\ i + 1 <= Len(Code[p]) + 1
        /\ Code[p][i].op = "create" /\ InstructionOK(p, i)
    BY <1>1, PlaceFacts, Zenon
  <1>3. CASE Advance /\ UNCHANGED <<path, sched, savedIF>>
    <2>1. sched \in [Threads -> {"Ready", "key", "child", "dead"}]
      BY Zenon DEF LockInv
    <2> QED
      BY <1>1, <1>3, <2>1, SameLocks, Zenon
  <1>4. ASSUME NEW t \in Users \ {current}, path' = [path EXCEPT ![t] = "trampoline"],
               at' = [at EXCEPT ![t] = 1, ![current] = @ + 1],
               sched' = [sched EXCEPT ![t] = "Ready"],
               savedIF' = [savedIF EXCEPT ![t] = TRUE]
        PROVE  LockInv'
    <2>1. /\ t \in Threads /\ path'[t] = "trampoline" /\ at'[t] = 1
          /\ path'[current] = p /\ at'[current] = i + 1
          /\ \A u \in Threads \ {t, current} : path'[u] = path[u] /\ at'[u] = at[u]
      BY <1>2, <1>4, Zenon DEF StackInv, Threads
    <2>2. /\ "trampoline" \in DOMAIN Code /\ "trampoline" \notin Calls
          /\ "trampoline" \notin Starting
      BY CodeFacts, PathNames, StartingNames, Zenon
    <2>3. ~ShutAt("trampoline", 1) /\ 1 <= Len(Code["trampoline"]) + 1
      BY <2>2, FreePlaces, Zenon
    <2> HIDE DEF p, i
    <2>4. OwnAt(p, i + 1) = OwnAt(p, i) /\ SameFlags(p, i, i + 1)
      BY <1>2, Zenon DEF InstructionOK
    <2>5. LockTypes'
      BY <1>1, <1>2, <1>4, <2>1, Zenon DEF LockInv, LockTypes, lockVars
    <2>6. \A u \in Threads : path'[u] \in DOMAIN Code => at'[u] <= Len(Code[path'[u]]) + 1
      <3> SUFFICES ASSUME NEW u \in Threads, path'[u] \in DOMAIN Code
                   PROVE  at'[u] <= Len(Code[path'[u]]) + 1
        BY Zenon
      <3>1. CASE u = t
        BY <2>1, <2>3, <3>1, Zenon
      <3>2. CASE u = current
        BY <1>2, <2>1, <3>2, Zenon
      <3>3. CASE u \notin {t, current}
        BY <2>1, <3>3, Zenon DEF LockInv
      <3> QED
        BY <3>1, <3>2, <3>3, Zenon
    <2>7. \A u \in Threads : ShutAt(path'[u], at'[u]) => u = current' /\ ~intr'
      <3>1. ShutAt(p, i + 1) => ~intr
        BY <1>2, <2>4, Zenon DEF LockInv, SameFlags, SameGuards, ShutAt, p, i
      <3> SUFFICES ASSUME NEW u \in Threads, ShutAt(path'[u], at'[u])
                   PROVE  u = current /\ ~intr
        BY <1>1, Zenon
      <3>2. CASE u = t
        BY <2>1, <2>3, <3>2, Zenon
      <3>3. CASE u = current
        BY <2>1, <3>1, <3>3, Zenon
      <3>4. CASE u \notin {t, current}
        BY <2>1, <3>4, Zenon DEF LockInv
      <3> QED
        BY <3>2, <3>3, <3>4, Zenon
    <2>8. \A l \in GuardsAt(path'[current'], at'[current']) :
            l \notin MayEnableAt(path'[current'], at'[current']) => ~saved'[l]
      BY <1>1, <2>1, <2>4, Zenon DEF LockInv, SameFlags, SameGuards, lockVars, p, i
    <2>9. ASSUME NEW l \in Locks, held'[l] # None
          PROVE  l \in OwnAt(path'[held'[l]], at'[held'[l]])
      <3>1. held'[l] = held[l] /\ held[l] \in Threads /\ l \in OwnAt(path[held[l]], at[held[l]])
        BY <1>1, <2>9, Zenon DEF LockInv, lockVars
      <3>2. held[l] # t
        BY OthersFree, Zenon
      <3>3. CASE held[l] = current
        BY <2>1, <2>4, <3>1, <3>3, Zenon DEF p, i
      <3>4. CASE held[l] # current
        BY <2>1, <3>1, <3>2, <3>4, Zenon
      <3> QED
        BY <3>3, <3>4, Zenon
    <2>10. \A u \in Users : path'[u] \notin Starting
      BY <2>1, <2>2, Zenon DEF LockInv, Threads, p
    <2>11. ~AloneAt(path'[Monitor], at'[Monitor])
      <3>1. CASE current = Monitor
        BY <1>2, <2>1, <3>1, AloneEarlier, Zenon
      <3>2. CASE current # Monitor
        <4>1. current \in Users /\ Monitor \in Threads \ {t, current}
          BY <1>2, <3>2, InterruptsAssumption, Zenon DEF Threads
        <4> QED
          BY <2>1, <4>1, Zenon DEF LockInv
      <3> QED
        BY <3>1, <3>2, Zenon
    <2> QED
      BY <2>5, <2>6, <2>7, <2>8, <2>9, <2>10, <2>11, Zenon DEF LockInv, LockTypes
  <1> QED
    BY <1>3, <1>4, Zenon DEF Create

\* A processor that makes no progress keeps its locks.
LEMMA StopLocks ==
  ASSUME LockInv, NEW why, Stop(why)
  PROVE  LockInv'
  BY StillLocks, Zenon DEF Stop, threadVars, cpuVars, LockInv

\* At boot no lock is taken, and the monitor thread starts the first program.
LEMMA LockInitInv ==
  ASSUME Disciplined
  PROVE  IntInit => LockInv
  <1> SUFFICES ASSUME IntInit PROVE LockInv
    OBVIOUS
  <1>1. "monitorSpawn" \in DOMAIN Code /\ "monitorSpawn" \notin Calls
    BY CodeFacts, PathNames, Zenon DEF KernelCode
  <1>2. \A t \in Threads : path[t] \in Outside \cup {"monitorSpawn"} /\ at[t] = 1
    BY Zenon DEF IntInit, Outside
  <1>3. \A t \in Threads : FreeAt(path[t], 1) /\ ~ShutAt(path[t], 1)
    BY <1>1, <1>2, FreePlaces, Zenon
  <1>4. \A t \in Threads : path[t] \in DOMAIN Code => at[t] <= Len(Code[path[t]]) + 1
    BY <1>1, <1>2, FreePlaces, Zenon
  <1>5. current \in Threads /\ GuardsAt(path[current], at[current]) = {}
    BY <1>2, <1>3, Zenon DEF IntInit, FreeAt, Threads
  <1>6. \A t \in Users : path[t] \notin Starting
    BY InterruptsAssumption, Zenon DEF IntInit, Threads, Starting
  <1>7. current \notin Users /\ \A t \in Users : sched[t] = "dead"
    BY InterruptsAssumption, Zenon DEF IntInit, Threads
  <1>8. LockTypes
    BY Zenon DEF IntInit, LockTypes
  <1>9. \A l \in Locks : held[l] = None
    BY Zenon DEF IntInit
  <1> QED
    BY <1>2, <1>3, <1>4, <1>5, <1>6, <1>7, <1>8, <1>9, Zenon DEF LockInv, LockTypes

\* A step keeps the locks.
LEMMA LockStepInv ==
  ASSUME Disciplined, StackInv, LockInv, [IntNext]_intVars
  PROVE  LockInv'
  <1>1. CASE Lock
    BY <1>1, StopLocks, LockStep, Zenon DEF Lock, AtOp, Running
  <1>2. CASE Spin
    BY <1>2, StopLocks, SpinStep, Zenon DEF Spin, AtOp, Running
  <1>3. ASSUME NEW t \in Threads, Timer(t) PROVE LockInv'
    BY <1>3, StopLocks, TimerStep, Zenon DEF Timer, SwitchTo, Running
  <1>4. ASSUME NEW t \in Threads, Yield(t) PROVE LockInv'
    BY <1>4, StopLocks, YieldStep, Zenon DEF Yield, SwitchTo, AtOp, Running
  <1> QED
    BY <1>1, <1>2, <1>3, <1>4, ReleaseStep, RestoreStep, SetFlagStep, QuietSteps, PathSteps,
       AgainStep, CreateStep, Zenon DEF IntNext

\* The inductive invariant holds: what the code says of each place, which interrupts are
\* disabled and which locks are held, is so in every state, for any number of threads.
THEOREM LockInvariant ==
  ASSUME Disciplined
  PROVE  IntSpec => []LockInv
  <1>1. StackInv /\ LockInv /\ [IntNext]_intVars => LockInv'
    BY LockStepInv, Zenon
  <1>2. IntInit => LockInv
    BY LockInitInv, Zenon
  <1> QED
    BY <1>1, <1>2, StackInvariant, PTL DEF IntSpec

\* LockedIsAtomic of Interrupts: a section under a guard of Locked runs alone, for any
\* number of threads, whatever the sections are nested in.
THEOREM LockedIsAtomicTheorem ==
  ASSUME Disciplined
  PROVE  IntSpec => []LockedIsAtomic
  <1>1. StackInv /\ LockInv => LockedIsAtomic
    <2> SUFFICES ASSUME StackInv, LockInv, NEW l \in LockedLocks, held[l] # None
                 PROVE  held[l] = current /\ ~intr
      BY Zenon DEF LockedIsAtomic
    <2>1. l \in Locks /\ l # "ROOT_FS"
      BY Zenon DEF Locks, LockedLocks
    <2>2. /\ held[l] = current /\ l \in OwnAt(path[current], at[current])
          /\ PlaceOK(path[current], at[current]) /\ current \in Threads
      BY <2>1, HolderFacts, Zenon
    <2>3. ShutAt(path[current], at[current])
      BY <2>2, Zenon DEF PlaceOK, ShutAt
    <2> QED
      BY <2>2, <2>3, Zenon DEF LockInv
  <1> QED
    BY <1>1, StackInvariant, LockInvariant, PTL

\* A lock the current thread does not hold is free: a holder that is not the current
\* thread is the monitor thread in the file system, while no other program exists.
LEMMA FreeLocks ==
  ASSUME Disciplined, StackInv, LockInv, NEW l \in Locks,
         l \notin OwnAt(path[current], at[current]), l # "ROOT_FS" \/ current # Idle
  PROVE  held[l] = None
  <1> SUFFICES ASSUME held[l] # None PROVE FALSE
    OBVIOUS
  <1>1. held[l] # current
    BY HolderFacts, Zenon
  <1>2. l = "ROOT_FS" /\ held[l] \in Threads /\ AloneAt(path[held[l]], at[held[l]])
    BY <1>1, HolderFacts, Zenon
  <1>3. held[l] = Monitor
    BY <1>2, StartingNames, Zenon DEF LockInv, StackInv, AloneAt, Threads, Outside
  <1>4. current \notin Users
    BY <1>2, <1>3, Zenon DEF LockInv
  <1> QED
    BY <1>1, <1>2, <1>3, <1>4, Zenon DEF Threads, StackInv

\* The locks of the handlers.
LEMMA HandlerLocks ==
  /\ FaultLocks \subseteq Locks \ {"ROOT_FS"}
  /\ TimerLocks \subseteq Locks \ {"ROOT_FS"}
  /\ KeyboardLocks \subseteq Locks \ {"ROOT_FS"}
  BY Zenon DEF FaultLocks, TimerLocks, KeyboardLocks, SendLocks, Locks, LockedLocks, SpinLocks

\* Where interrupts are enabled, and in ring 3, the locks of the handlers are free.
LEMMA EnabledFree ==
  ASSUME Disciplined, StackInv, LockInv, intr \/ path[current] \in Outside
  PROVE  \A l \in Locks \ {"ROOT_FS"} : held[l] = None
  <1> SUFFICES ASSUME NEW l \in Locks \ {"ROOT_FS"}, held[l] # None PROVE FALSE
    OBVIOUS
  <1>1. /\ held[l] = current /\ l \in OwnAt(path[current], at[current])
        /\ path[current] \in DOMAIN Code /\ current \in Threads
        /\ PlaceOK(path[current], at[current])
    BY HolderFacts, Zenon
  <1>2. intr
    BY <1>1, OutsideFacts, Zenon
  <1>3. ~ShutAt(path[current], at[current])
    BY <1>1, <1>2, Zenon DEF LockInv
  <1>4. l \in LockedLocks \/ l \in {"wait_queue", "KEYBOARD", "LOCAL_APIC"}
    BY Zenon DEF Locks, SpinLocks
  <1> QED
    BY <1>1, <1>3, <1>4, Zenon DEF PlaceOK, ShutAt

\* No step of the processor ends in a lock that nobody can release.
LEMMA NeverSpinsStep ==
  ASSUME Disciplined, ~FreshBuffers, StackInv, LockInv, NeverSpins, [IntNext]_intVars
  PROVE  NeverSpins'
  <1> DEFINE p == path[current]
             n == at[current]
  <1>1. UNCHANGED halt => NeverSpins'
    BY Zenon DEF NeverSpins
  <1>2. CASE Lock
    <2>1. InstructionOK(p, n) /\ Code[p][n].op = "lock" /\ current # Idle
      BY <1>2, PlaceFacts, Zenon DEF Lock
    <2>2. Arg \in Locks /\ Arg \notin OwnAt(p, n)
      BY <2>1, Zenon DEF InstructionOK, Arg, Locks
    <2>3. held[Arg] = None
      BY <2>1, <2>2, FreeLocks, Zenon
    <2> QED
      BY <1>1, <1>2, <2>3, Zenon DEF Lock
  <1>3. CASE Spin
    <2>1. InstructionOK(p, n) /\ Code[p][n].op = "spin" /\ current # Idle
      BY <1>3, PlaceFacts, Zenon DEF Spin
    <2>2. Arg \in Locks /\ Arg \notin OwnAt(p, n)
      BY <2>1, Zenon DEF InstructionOK, Arg, Locks
    <2>3. held[Arg] = None
      BY <2>1, <2>2, FreeLocks, Zenon
    <2> QED
      BY <1>1, <1>3, <2>3, Zenon DEF Spin
  <1>4. CASE Touch
    <2>1. CASE AtOp("touch")
      <3>1. InstructionOK(p, n) /\ Code[p][n].op = "touch"
        BY <2>1, PlaceFacts, Zenon
      <3>2. OwnAt(p, n) \cap FaultLocks = {}
        BY <3>1, Zenon DEF InstructionOK
      <3>3. \A l \in FaultLocks : held[l] = None
        BY <3>2, FreeLocks, HandlerLocks, Zenon
      <3> QED
        BY <1>1, <1>4, <3>3, Zenon DEF Touch, Busy
    <2>2. CASE ~AtOp("touch")
      BY <1>1, <1>4, <2>2, Zenon DEF Touch
    <2> QED
      BY <2>1, <2>2, Zenon
  <1>5. CASE UserFault
    <2>1. \A l \in FaultLocks : held[l] = None
      BY <1>5, EnabledFree, HandlerLocks, Zenon DEF UserFault, Ring3, Outside
    <2> QED
      BY <1>1, <1>5, <2>1, Zenon DEF UserFault, Busy, intVars
  <1>6. ASSUME NEW t \in Threads, Timer(t) PROVE NeverSpins'
    <2>1. \A l \in TimerLocks : held[l] = None
      BY <1>6, EnabledFree, HandlerLocks, Zenon DEF Timer
    <2> QED
      BY <1>1, <1>6, <2>1, Zenon DEF Timer, Busy, SwitchTo
  <1>7. ASSUME NEW t \in Threads, Yield(t) PROVE NeverSpins'
    <2>1. InstructionOK(p, n) /\ Code[p][n].op = "yield"
      BY <1>7, PlaceFacts, Zenon DEF Yield
    <2>2. OwnAt(p, n) = {}
      BY <2>1, Zenon DEF InstructionOK, FreeAt
    <2>3. \A l \in TimerLocks : held[l] = None
      BY <2>2, FreeLocks, HandlerLocks, Zenon
    <2> QED
      BY <1>1, <1>7, <2>3, Zenon DEF Yield, Busy, SwitchTo
  <1>8. CASE Keyboard
    <2>1. \A l \in KeyboardLocks : held[l] = None
      BY <1>8, EnabledFree, HandlerLocks, Zenon DEF Keyboard
    <2> QED
      BY <1>1, <1>8, <2>1, Zenon DEF Keyboard, Busy
  <1>9. CASE Release \/ Restore \/ SetFlag \/ Swapgs \/ LoadRsp \/ ReturnToUser
    BY <1>1, <1>9, Zenon DEF Release, Restore, SetFlag, Swapgs, LoadRsp, ReturnToUser
  <1>10. CASE SaveRsp
    BY <1>1, <1>10, Zenon DEF SaveRsp, Stop, NeverSpins
  <1>11. CASE (\E q \in Calls : Syscall(q)) \/ (\E q \in DOMAIN KernelCode : MonitorTurn(q))
              \/ MonitorNext
    BY <1>1, <1>11, Zenon DEF Syscall, MonitorTurn, MonitorNext
  <1>12. CASE Mark \/ WakeParent \/ Again \/ Create
    BY <1>1, <1>12, Zenon DEF Mark, WakeParent, Again, Create
  <1>13. CASE UNCHANGED intVars
    BY <1>1, <1>13, Zenon DEF intVars
  <1> QED
    BY <1>2, <1>3, <1>4, <1>5, <1>6, <1>7, <1>8, <1>9, <1>10, <1>11, <1>12, <1>13, Zenon
       DEF IntNext

\* NeverSpins of Interrupts: no step of any thread, interrupt or page fault finds a lock
\* taken that nobody can release, for any number of threads.
THEOREM NeverSpinsTheorem ==
  ASSUME Disciplined, ~FreshBuffers
  PROVE  IntSpec => []NeverSpins
  <1>1. StackInv /\ LockInv /\ NeverSpins /\ [IntNext]_intVars => NeverSpins'
    BY NeverSpinsStep, Zenon
  <1>2. IntInit => NeverSpins
    BY Zenon DEF IntInit, NeverSpins
  <1> QED
    BY <1>1, <1>2, StackInvariant, LockInvariant, PTL DEF IntSpec

----------------------------------------------------------------------------
(* Where the threads are, and the GS base. *)

\* The current thread goes to another place of the code, or leaves it.
LEMMA MovePlace ==
  ASSUME PlaceInv, NEW q, NEW m, current' = current,
         path'[current] = q, at'[current] = m,
         \A t \in Threads \ {current} : path'[t] = path[t] /\ at'[t] = at[t],
         \A t \in Threads \ {current} : sched[t] = "dead" => sched'[t] = "dead",
         q \in DOMAIN Code => m \in DOMAIN Code[q] /\ (ExitedAt(q, m) => sched'[current] = "dead")
  PROVE  PlaceInv'
  <1> SUFFICES ASSUME NEW t \in Threads, path'[t] \in DOMAIN Code
               PROVE  /\ at'[t] \in DOMAIN Code[path'[t]] \/ (sched'[t] = "dead" /\ t # current')
                      /\ ExitedAt(path'[t], at'[t]) => sched'[t] = "dead"
    BY Zenon DEF PlaceInv
  <1>1. CASE t = current
    BY <1>1, Zenon
  <1>2. CASE t # current
    BY <1>2, Zenon DEF PlaceInv
  <1> QED
    BY <1>1, <1>2, Zenon

\* The instructions after which comes the next one.
LEMMA AdvancePlace ==
  ASSUME Disciplined, StackInv, LockInv, PlaceInv, NEW i, AtOp(i), Advance,
         i \notin {"again", "yield", "mark", "return", "next"}, UNCHANGED <<current, path>>,
         \A t \in Threads : sched[t] = "dead" => sched'[t] = "dead"
  PROVE  PlaceInv'
  <1> DEFINE p == path[current]
             n == at[current]
  <1>1. /\ current \in Threads /\ p \in DOMAIN Code /\ BalancedOK(p, n) /\ Code[p][n].op = i
        /\ n \in Nat
    BY PlaceFacts, Zenon
  <1>2. /\ path'[current] = p /\ at'[current] = n + 1
        /\ \A t \in Threads \ {current} : path'[t] = path[t] /\ at'[t] = at[t]
    BY <1>1, Zenon DEF Advance, StackInv
  <1>3. ExitedAt(p, n) => sched[current] = "dead"
    BY <1>1, Zenon DEF PlaceInv
  <1> HIDE DEF p, n
  <1>4. n + 1 \in DOMAIN Code[p] /\ (ExitedAt(p, n + 1) => ExitedAt(p, n))
    BY <1>1, Zenon DEF BalancedOK
  <1> QED
    BY <1>1, <1>2, <1>3, <1>4, MovePlace, Zenon

\* What leaves the places alone.
LEMMA StillPlace ==
  ASSUME PlaceInv, UNCHANGED <<current, path, at>>,
         \A t \in Threads : sched[t] = "dead" => sched'[t] = "dead"
  PROVE  PlaceInv'
  BY Zenon DEF PlaceInv

\* The instructions, interrupts and faults that do not switch.
LEMMA InstructionPlaces ==
  ASSUME Disciplined, StackInv, LockInv, PlaceInv,
         \/ Lock \/ Spin \/ Release \/ Restore \/ SetFlag \/ Touch
         \/ Swapgs \/ SaveRsp \/ LoadRsp \/ WakeParent
         \/ UserFault \/ Keyboard \/ UNCHANGED intVars
  PROVE  PlaceInv'
  <1>1. ASSUME NEW why, Stop(why) PROVE PlaceInv'
    BY <1>1, StillPlace, Zenon DEF Stop, threadVars
  <1>2. CASE Lock
    BY <1>1, <1>2, AdvancePlace, Zenon DEF Lock
  <1>3. CASE Spin
    BY <1>1, <1>3, AdvancePlace, Zenon DEF Spin
  <1>4. CASE Release
    BY <1>4, AdvancePlace, Zenon DEF Release
  <1>5. CASE Restore
    BY <1>5, AdvancePlace, Zenon DEF Restore
  <1>6. CASE SetFlag
    BY <1>6, AdvancePlace, Zenon DEF SetFlag
  <1>7. CASE Touch
    BY <1>1, <1>7, AdvancePlace, Zenon DEF Touch
  <1>8. CASE Swapgs
    BY <1>8, AdvancePlace, Zenon DEF Swapgs
  <1>9. CASE SaveRsp
    BY <1>1, <1>9, AdvancePlace, Zenon DEF SaveRsp
  <1>10. CASE LoadRsp
    BY <1>10, AdvancePlace, Zenon DEF LoadRsp
  <1>11. CASE WakeParent
    <2>1. \A t \in Threads : sched[t] = "dead" => sched'[t] = "dead"
      BY <1>11, Zenon DEF WakeParent
    <2> QED
      BY <1>11, <2>1, AdvancePlace, Zenon DEF WakeParent
  <1>12. CASE UserFault \/ UNCHANGED intVars
    BY <1>1, <1>12, StillPlace, Zenon DEF UserFault, intVars, threadVars
  <1>13. CASE Keyboard
    BY <1>1, <1>13, SentFacts, StillPlace, Zenon DEF Keyboard
  <1> QED
    BY <1>2, <1>3, <1>4, <1>5, <1>6, <1>7, <1>8, <1>9, <1>10, <1>11, <1>12, <1>13, Zenon

\* A path begins at its first instruction, where nobody has marked itself dead.
LEMMA FirstPlace ==
  ASSUME Disciplined, NEW p \in DOMAIN Code
  PROVE  1 \in DOMAIN Code[p] /\ ~ExitedAt(p, 1)
  <1>1. 1 \in DOMAIN Code[p]
    BY Zenon DEF Disciplined
  <1>2. ~ExitedAt(p, 1)
    BY DEF ExitedAt
  <1> QED
    BY <1>1, <1>2, Zenon

\* The threads that mark themselves, change their path, begin, or go back to sleep.
LEMMA PathPlaces ==
  ASSUME Disciplined, StackInv, LockInv, PlaceInv,
         \/ Mark \/ Again \/ Create \/ ReturnToUser \/ MonitorNext
         \/ \E p \in Calls : Syscall(p)
         \/ \E p \in DOMAIN KernelCode : MonitorTurn(p)
  PROVE  PlaceInv'
  <1> DEFINE p == path[current]
             n == at[current]
  <1>1. ASSUME NEW i, AtOp(i)
        PROVE  /\ current \in Threads /\ p \in DOMAIN Code /\ n \in Nat
               /\ BalancedOK(p, n) /\ Code[p][n].op = i
               /\ ExitedAt(p, n) => sched[current] = "dead"
    <2>1. /\ current \in Threads /\ p \in DOMAIN Code /\ n \in Nat
          /\ BalancedOK(p, n) /\ Code[p][n].op = i
      BY <1>1, PlaceFacts, Zenon
    <2> QED
      BY <2>1, Zenon DEF PlaceInv
  <1>2. /\ path = [t \in Threads |-> path[t]] /\ at = [t \in Threads |-> at[t]]
        /\ sched = [t \in Threads |-> sched[t]] /\ current \in Threads
    BY Zenon DEF StackInv, LockInv
  <1>3. CASE Mark
    <2>1. /\ AtOp("mark") /\ Advance /\ UNCHANGED <<current, path>>
          /\ sched' = [sched EXCEPT ![current] = Code[p][n].arg]
      BY <1>3, Zenon DEF Mark, Arg
    <2>2. /\ path'[current] = p /\ at'[current] = n + 1
          /\ \A t \in Threads \ {current} : path'[t] = path[t] /\ at'[t] = at[t]
          /\ sched'[current] = Code[p][n].arg
          /\ \A t \in Threads \ {current} : sched'[t] = sched[t]
      BY <1>2, <2>1, Zenon DEF Advance
    <2>3. BalancedOK(p, n) /\ Code[p][n].op = "mark"
      BY <1>1, <2>1, Zenon
    <2> HIDE DEF p, n
    <2>4. n + 1 \in DOMAIN Code[p] /\ (ExitedAt(p, n + 1) => Code[p][n].arg = "dead")
      BY <2>3, Zenon DEF BalancedOK
    <2> QED
      BY <2>1, <2>2, <2>4, MovePlace, Zenon
  <1>4. CASE Again
    <2>1. PICK m \in {n + 1, Len(Entry) + Code[p][n].arg} : at' = [at EXCEPT ![current] = m]
      BY <1>2, <1>4, Zenon DEF Again, Advance, Arg
    <2>2. /\ AtOp("again") /\ UNCHANGED <<current, path, sched>>
      BY <1>4, Zenon DEF Again
    <2>3. /\ path'[current] = p /\ at'[current] = m
          /\ \A t \in Threads \ {current} : path'[t] = path[t] /\ at'[t] = at[t]
      BY <1>2, <2>1, <2>2, Zenon
    <2>4. /\ BalancedOK(p, n) /\ Code[p][n].op = "again"
          /\ ExitedAt(p, n) => sched[current] = "dead"
      BY <1>1, <2>2, Zenon
    <2> HIDE DEF p, n
    <2>5. m \in DOMAIN Code[p] /\ (ExitedAt(p, m) => ExitedAt(p, n))
      BY <2>1, <2>4, Zenon DEF BalancedOK
    <2> QED
      BY <2>2, <2>3, <2>4, <2>5, MovePlace, Zenon
  <1>5. CASE ReturnToUser \/ MonitorNext
    <2>1. PICK q \in {"user", "loop"} :
            path' = [path EXCEPT ![current] = q] /\ UNCHANGED <<current, at, sched>>
      BY <1>5, Zenon DEF ReturnToUser, MonitorNext
    <2>2. q \notin DOMAIN Code
      BY <2>1, OutsideFacts, Zenon DEF Outside
    <2>3. /\ path'[current] = q /\ at'[current] = n
          /\ \A t \in Threads \ {current} : path'[t] = path[t] /\ at'[t] = at[t]
      BY <1>2, <2>1, Zenon
    <2> QED
      BY <2>1, <2>2, <2>3, MovePlace, Zenon
  <1>6. CASE \/ \E q \in Calls : Syscall(q)
             \/ \E q \in DOMAIN KernelCode : MonitorTurn(q)
    <2>1. PICK q \in DOMAIN Code : /\ path' = [path EXCEPT ![current] = q]
                                   /\ at' = [at EXCEPT ![current] = 1]
                                   /\ UNCHANGED <<current, sched>>
      BY <1>6, CodeFacts, Zenon DEF Syscall, MonitorTurn
    <2>2. /\ path'[current] = q /\ at'[current] = 1
          /\ \A t \in Threads \ {current} : path'[t] = path[t] /\ at'[t] = at[t]
      BY <1>2, <2>1, Zenon
    <2> QED
      BY <2>1, <2>2, FirstPlace, MovePlace, Zenon
  <1>7. CASE Create
    <2>1. AtOp("create") /\ current' = current
      BY <1>7, Zenon DEF Create
    <2>2. CASE Advance /\ UNCHANGED <<path, sched>>
      BY <2>1, <2>2, AdvancePlace, Zenon
    <2>3. ASSUME NEW t \in Users \ {current}, path' = [path EXCEPT ![t] = "trampoline"],
                 at' = [at EXCEPT ![t] = 1, ![current] = @ + 1],
                 sched' = [sched EXCEPT ![t] = "Ready"]
          PROVE  PlaceInv'
      <3>1. t \in Threads /\ t # current
        BY Zenon DEF Threads
      <3>2. /\ path'[t] = "trampoline" /\ at'[t] = 1
            /\ path'[current] = p /\ at'[current] = n + 1 /\ sched'[current] = sched[current]
            /\ \A u \in Threads \ {t, current} :
                 path'[u] = path[u] /\ at'[u] = at[u] /\ sched'[u] = sched[u]
        BY <1>2, <2>3, <3>1, Zenon
      <3>3. "trampoline" \in DOMAIN Code
        BY CodeFacts, PathNames, Zenon
      <3>4. 1 \in DOMAIN Code["trampoline"] /\ ~ExitedAt("trampoline", 1)
        BY <3>3, FirstPlace, Zenon
      <3>5. /\ BalancedOK(p, n) /\ Code[p][n].op = "create"
            /\ ExitedAt(p, n) => sched[current] = "dead"
        BY <1>1, <2>1, Zenon
      <3> HIDE DEF p, n
      <3>6. n + 1 \in DOMAIN Code[p] /\ (ExitedAt(p, n + 1) => ExitedAt(p, n))
        BY <3>5, Zenon DEF BalancedOK
      <3> SUFFICES ASSUME NEW u \in Threads, path'[u] \in DOMAIN Code
                   PROVE  /\ \/ at'[u] \in DOMAIN Code[path'[u]]
                             \/ sched'[u] = "dead" /\ u # current'
                          /\ ExitedAt(path'[u], at'[u]) => sched'[u] = "dead"
        BY Zenon DEF PlaceInv
      <3>7. CASE u = t
        BY <3>2, <3>4, <3>7, Zenon
      <3>8. CASE u = current
        BY <3>2, <3>5, <3>6, <3>8, Zenon
      <3>9. CASE u \notin {t, current}
        BY <2>1, <3>2, <3>9, Zenon DEF PlaceInv
      <3> QED
        BY <3>7, <3>8, <3>9, Zenon
    <2> QED
      BY <1>7, <2>2, <2>3, Zenon DEF Create
  <1> QED
    BY <1>3, <1>4, <1>5, <1>6, <1>7, Zenon

\* schedule() picks a thread that is not dead, or the idle task.
LEMMA SwitchFacts ==
  ASSUME StackInv, LockInv, NEW t \in Threads, SwitchTo(t)
  PROVE  /\ current' = t /\ gs' = GsAfterSwitch(t) /\ UNCHANGED <<path, halt>>
         /\ \A u \in Threads : sched'[u] = "dead" <=> sched[u] = "dead"
         /\ t # Idle => sched[t] # "dead"
         /\ path[Idle] \notin DOMAIN Code
  <1>1. PICK s \in {sched} \cup Sent : t \in Candidates(s) /\ sched' = s
    BY Zenon DEF SwitchTo
  <1>2. \A u \in Threads : s[u] = "dead" <=> sched[u] = "dead"
    BY SentFacts, Zenon
  <1>3. t # Idle => s[t] = "Ready"
    BY <1>1, Zenon DEF Candidates
  <1>4. path[Idle] \notin DOMAIN Code
    BY OutsideFacts, Zenon DEF StackInv, Outside
  <1> QED
    BY <1>1, <1>2, <1>3, <1>4, Zenon DEF SwitchTo

\* A switch goes to a thread that is in its code.
LEMMA SwitchPlaces ==
  ASSUME Disciplined, StackInv, LockInv, PlaceInv, NEW t \in Threads, Timer(t) \/ Yield(t)
  PROVE  PlaceInv'
  <1>1. ASSUME NEW why, Stop(why) PROVE PlaceInv'
    BY <1>1, StillPlace, Zenon DEF Stop, threadVars
  <1>2. ASSUME SwitchTo(t), UNCHANGED at PROVE PlaceInv'
    <2> SUFFICES ASSUME NEW u \in Threads, path[u] \in DOMAIN Code
                 PROVE  /\ at[u] \in DOMAIN Code[path[u]] \/ (sched[u] = "dead" /\ u # t)
                        /\ ExitedAt(path[u], at[u]) => sched[u] = "dead"
      BY <1>2, SwitchFacts, Zenon DEF PlaceInv
    <2>1. u = t => sched[u] # "dead"
      BY <1>2, SwitchFacts, Zenon
    <2> QED
      BY <2>1, Zenon DEF PlaceInv
  <1>3. ASSUME AtOp("yield"), SwitchTo(t), Advance PROVE PlaceInv'
    <2> DEFINE p == path[current]
               n == at[current]
    <2>1. /\ current \in Threads /\ p \in DOMAIN Code /\ n \in Nat
          /\ BalancedOK(p, n) /\ Code[p][n].op = "yield"
      BY <1>3, PlaceFacts, Zenon
    <2>2. ExitedAt(p, n) => sched[current] = "dead"
      BY <2>1, Zenon DEF PlaceInv
    <2>3. at'[current] = n + 1 /\ \A u \in Threads \ {current} : at'[u] = at[u]
      BY <1>3, <2>1, Zenon DEF Advance, StackInv
    <2>4. current = t => sched[current] # "dead"
      BY <1>3, <2>1, SwitchFacts, Zenon
    <2>5. \/ ExitedAt(p, n)
          \/ n + 1 \in DOMAIN Code[p] /\ (ExitedAt(p, n + 1) => ExitedAt(p, n))
      <3> HIDE DEF p, n
      <3> QED
        BY <2>1, Zenon DEF BalancedOK
    <2> SUFFICES ASSUME NEW u \in Threads, path[u] \in DOMAIN Code
                 PROVE  /\ at'[u] \in DOMAIN Code[path[u]] \/ (sched[u] = "dead" /\ u # t)
                        /\ ExitedAt(path[u], at'[u]) => sched[u] = "dead"
      BY <1>3, SwitchFacts, Zenon DEF PlaceInv
    <2>6. CASE u = current
      BY <2>2, <2>3, <2>4, <2>5, <2>6, Zenon
    <2>7. CASE u # current
      <3>1. u = t => sched[u] # "dead"
        BY <1>3, SwitchFacts, Zenon
      <3> QED
        BY <2>3, <2>7, <3>1, Zenon DEF PlaceInv
    <2> QED
      BY <2>6, <2>7, Zenon
  <1> QED
    BY <1>1, <1>2, <1>3, Zenon DEF Timer, Yield

\* A thread that can be switched to is at an instruction of its code.
LEMMA PlaceInvariant ==
  ASSUME Disciplined
  PROVE  IntSpec => []PlaceInv
  <1>1. IntInit => PlaceInv
    <2> SUFFICES ASSUME IntInit, NEW t \in Threads, path[t] \in DOMAIN Code
                 PROVE  at[t] \in DOMAIN Code[path[t]] /\ ~ExitedAt(path[t], at[t])
      BY Zenon DEF PlaceInv
    <2>1. at[t] = 1
      BY Zenon DEF IntInit
    <2> QED
      BY <2>1, FirstPlace, Zenon
  <1>2. StackInv /\ LockInv /\ PlaceInv /\ [IntNext]_intVars => PlaceInv'
    BY InstructionPlaces, PathPlaces, SwitchPlaces, Zenon DEF IntNext
  <1> QED
    BY <1>1, <1>2, StackInvariant, LockInvariant, PTL DEF IntSpec

\* The GS base that is due, by where the current thread is.
LEMMA GsDueFacts ==
  ASSUME StackInv
  PROVE  /\ path[current] = "user" => GsDue = "user"
         /\ path[current] \in Outside \ {"user"} => GsDue = "kernel"
         /\ path[current] \in DOMAIN Code => GsDue = GsAt(path[current], at[current])
  <1>1. path[current] \in DOMAIN Code => path[current] \notin Outside
    BY OutsideFacts, Zenon
  <1>2. path[current] \in Outside => path[current] \notin Calls
    BY PathNames, Zenon
  <1> QED
    BY <1>1, <1>2, Zenon DEF GsDue, GsAt, Outside

\* The same after a step.
LEMMA GsDueNext ==
  ASSUME StackInv'
  PROVE  /\ path'[current'] = "user" => GsDue' = "user"
         /\ path'[current'] \in Outside \ {"user"} => GsDue' = "kernel"
         /\ path'[current'] \in DOMAIN Code => GsDue' = GsAt(path'[current'], at'[current'])
  <1>1. StackInv' => (/\ path[current] = "user" => GsDue = "user"
                      /\ path[current] \in Outside \ {"user"} => GsDue = "kernel"
                      /\ path[current] \in DOMAIN Code =>
                           GsDue = GsAt(path[current], at[current]))'
    BY GsDueFacts, PTL
  <1> QED
    BY <1>1, Zenon

\* What GsLostOnlyInReturn says of a step.
GsStep == gs = GsDue /\ gs' # GsDue' => InReturn \/ InReturn'

\* The instructions after which comes the next one.
LEMMA AdvanceGs ==
  ASSUME Disciplined, StackInv, StackInv', LockInv, NEW i, AtOp(i), Advance,
         i \notin {"yield", "return", "next"}, UNCHANGED <<current, path>>,
         gs' = IF i = "swapgs" THEN Swapped(gs) ELSE gs
  PROVE  GsStep
  <1> DEFINE p == path[current]
             n == at[current]
  <1>1. /\ current \in Threads /\ p \in DOMAIN Code /\ BalancedOK(p, n) /\ Code[p][n].op = i
        /\ n \in Nat
    BY PlaceFacts, Zenon
  <1>2. path'[current] = p /\ at'[current] = n + 1
    BY <1>1, Zenon DEF Advance, StackInv
  <1>3. GsDue = GsAt(p, n) /\ GsDue' = GsAt(p, n + 1)
    <2>1. GsDue = GsAt(p, n)
      BY <1>1, GsDueFacts, Zenon
    <2> QED
      BY <1>1, <1>2, <2>1, GsDueNext, Zenon
  <1> HIDE DEF p, n
  <1>4. IF i = "swapgs" THEN GsAt(p, n + 1) # GsAt(p, n) ELSE GsAt(p, n + 1) = GsAt(p, n)
    BY <1>1, Zenon DEF BalancedOK
  <1>5. GsAt(p, n) \in {"kernel", "user"} /\ GsAt(p, n + 1) \in {"kernel", "user"}
    BY Zenon DEF GsAt
  <1> QED
    BY <1>3, <1>4, <1>5, Zenon DEF GsStep, Swapped

\* What leaves the place of the current thread and the GS base alone.
LEMMA StillGs ==
  ASSUME UNCHANGED <<current, path, at, gs>>
  PROVE  GsStep
  BY Zenon DEF GsStep, GsDue

\* The instructions, interrupts and faults that do not switch.
LEMMA InstructionGs ==
  ASSUME Disciplined, StackInv, StackInv', LockInv,
         \/ Lock \/ Spin \/ Release \/ Restore \/ SetFlag \/ Touch
         \/ Swapgs \/ SaveRsp \/ LoadRsp \/ Mark \/ WakeParent
         \/ UserFault \/ Keyboard \/ UNCHANGED intVars
  PROVE  GsStep
  <1>1. ASSUME NEW why, Stop(why) PROVE GsStep
    BY <1>1, StillGs, Zenon DEF Stop, threadVars, cpuVars
  <1>2. CASE Lock
    BY <1>1, <1>2, AdvanceGs, Zenon DEF Lock
  <1>3. CASE Spin
    BY <1>1, <1>3, AdvanceGs, Zenon DEF Spin, cpuVars
  <1>4. CASE Release
    BY <1>4, AdvanceGs, Zenon DEF Release, cpuVars
  <1>5. CASE Restore
    BY <1>5, AdvanceGs, Zenon DEF Restore
  <1>6. CASE SetFlag
    BY <1>6, AdvanceGs, Zenon DEF SetFlag
  <1>7. CASE Touch
    BY <1>1, <1>7, AdvanceGs, Zenon DEF Touch, cpuVars
  <1>8. CASE Swapgs
    BY <1>8, AdvanceGs, Zenon DEF Swapgs
  <1>9. CASE SaveRsp
    BY <1>1, <1>9, AdvanceGs, Zenon DEF SaveRsp
  <1>10. CASE LoadRsp
    BY <1>10, AdvanceGs, Zenon DEF LoadRsp, cpuVars
  <1>11. CASE Mark
    BY <1>11, AdvanceGs, Zenon DEF Mark, cpuVars
  <1>12. CASE WakeParent
    BY <1>12, AdvanceGs, Zenon DEF WakeParent, cpuVars
  <1>13. CASE UserFault \/ UNCHANGED intVars
    BY <1>1, <1>13, StillGs, Zenon DEF UserFault, intVars, threadVars, cpuVars
  <1>14. CASE Keyboard
    BY <1>1, <1>14, StillGs, Zenon DEF Keyboard, cpuVars
  <1> QED
    BY <1>2, <1>3, <1>4, <1>5, <1>6, <1>7, <1>8, <1>9, <1>10, <1>11, <1>12, <1>13, <1>14, Zenon

\* The threads that change their path, begin, or go back to sleep.
LEMMA PathGs ==
  ASSUME Disciplined, StackInv, StackInv', LockInv,
         \/ Again \/ Create \/ ReturnToUser \/ MonitorNext
         \/ \E p \in Calls : Syscall(p)
         \/ \E p \in DOMAIN KernelCode : MonitorTurn(p)
  PROVE  GsStep
  <1> DEFINE p == path[current]
             n == at[current]
  <1>1. /\ path = [t \in Threads |-> path[t]] /\ at = [t \in Threads |-> at[t]]
        /\ current \in Threads
    BY Zenon DEF StackInv
  <1>2. CASE Again
    <2>1. PICK m \in {n + 1, Len(Entry) + Code[p][n].arg} : at' = [at EXCEPT ![current] = m]
      BY <1>1, <1>2, Zenon DEF Again, Advance, Arg
    <2>2. AtOp("again") /\ UNCHANGED <<current, path, gs>>
      BY <1>2, Zenon DEF Again, cpuVars
    <2>3. path'[current] = p /\ at'[current] = m
      BY <1>1, <2>1, <2>2, Zenon
    <2>4. p \in DOMAIN Code /\ BalancedOK(p, n) /\ Code[p][n].op = "again"
      BY <2>2, PlaceFacts, Zenon
    <2>5. GsDue = GsAt(p, n)
      BY <2>4, GsDueFacts, Zenon
    <2>6. GsDue' = GsAt(p, m)
      BY <2>2, <2>3, <2>4, GsDueNext, Zenon
    <2> HIDE DEF p, n
    <2>7. GsAt(p, m) = GsAt(p, n)
      BY <2>1, <2>4, Zenon DEF BalancedOK
    <2> QED
      BY <2>2, <2>5, <2>6, <2>7, Zenon DEF GsStep
  <1>3. CASE Create
    <2>1. AtOp("create") /\ UNCHANGED <<current, gs>>
      BY <1>3, Zenon DEF Create
    <2>2. CASE Advance /\ UNCHANGED path
      BY <2>1, <2>2, AdvanceGs, Zenon
    <2>3. ASSUME NEW t \in Users \ {current}, path' = [path EXCEPT ![t] = "trampoline"],
                 at' = [at EXCEPT ![t] = 1, ![current] = @ + 1]
          PROVE  GsStep
      <3>1. path'[current] = p /\ at'[current] = n + 1
        BY <1>1, <2>3, Zenon DEF Threads
      <3>2. /\ p \in DOMAIN Code /\ BalancedOK(p, n) /\ Code[p][n].op = "create"
        BY <2>1, PlaceFacts, Zenon
      <3>3. GsDue = GsAt(p, n)
        BY <3>2, GsDueFacts, Zenon
      <3>4. GsDue' = GsAt(p, n + 1)
        BY <2>1, <3>1, <3>2, GsDueNext, Zenon
      <3> HIDE DEF p, n
      <3>5. GsAt(p, n + 1) = GsAt(p, n)
        BY <3>2, Zenon DEF BalancedOK
      <3> QED
        BY <2>1, <3>3, <3>4, <3>5, Zenon DEF GsStep
    <2> QED
      BY <1>3, <2>2, <2>3, Zenon DEF Create
  <1>4. CASE ReturnToUser
    BY <1>4, Zenon DEF ReturnToUser, GsStep, InReturn
  <1>5. CASE MonitorNext
    <2>1. p \in DOMAIN Code /\ Code[p][n].op = "next"
      BY <1>5, PlaceFacts, Zenon DEF MonitorNext
    <2>2. GsDue = "kernel"
      <3>1. ~(p \in Calls /\ n = 1)
        BY <2>1, CodeFacts, Zenon
      <3> QED
        BY <2>1, <3>1, GsDueFacts, Zenon DEF GsAt
    <2>3. path'[current'] = "loop" /\ gs' = gs
      BY <1>1, <1>5, Zenon DEF MonitorNext, cpuVars
    <2>4. GsDue' = "kernel"
      BY <2>3, GsDueNext, Zenon DEF Outside
    <2> QED
      BY <2>2, <2>3, <2>4, Zenon DEF GsStep
  <1>6. ASSUME NEW q \in Calls, Syscall(q) PROVE GsStep
    <2>1. p = "user" /\ path'[current'] = q /\ at'[current'] = 1 /\ gs' = gs
      BY <1>1, <1>6, Zenon DEF Syscall, Ring3
    <2>2. GsDue = "user"
      BY <2>1, GsDueFacts, Zenon
    <2>3. GsDue' = "user"
      BY <2>1, CodeFacts, GsDueNext, Zenon DEF GsAt
    <2> QED
      BY <2>1, <2>2, <2>3, Zenon DEF GsStep
  <1>7. ASSUME NEW q \in DOMAIN KernelCode, MonitorTurn(q) PROVE GsStep
    <2>1. p = "loop" /\ path'[current'] = q /\ at'[current'] = 1 /\ gs' = gs
      BY <1>1, <1>7, Zenon DEF MonitorTurn, cpuVars
    <2>2. GsDue = "kernel"
      BY <2>1, GsDueFacts, Zenon DEF Outside
    <2>3. q \in DOMAIN Code /\ q \notin Calls
      BY CodeFacts, PathNames, Zenon
    <2>4. GsAt(q, 1) = "kernel"
      BY <2>3, Zenon DEF Disciplined
    <2>5. GsDue' = "kernel"
      BY <2>1, <2>3, <2>4, GsDueNext, Zenon
    <2> QED
      BY <2>1, <2>2, <2>5, Zenon DEF GsStep
  <1> QED
    BY <1>2, <1>3, <1>4, <1>5, <1>6, <1>7, Zenon

\* The timer swaps by the ring it comes from and the ring it goes to, which are right
\* wherever the current thread and the next one are not between a swapgs and a return.
LEMMA SwitchGs ==
  ASSUME Disciplined, StackInv, StackInv', LockInv, PlaceInv, PlaceInv',
         NEW t \in Threads, Timer(t) \/ Yield(t)
  PROVE  GsStep
  <1> SUFFICES ASSUME SwitchTo(t), Timer(t) \/ Yield(t), gs = GsDue, ~InReturn, ~InReturn'
               PROVE  gs' = GsDue'
    BY StillGs, Zenon DEF Timer, Yield, Stop, threadVars, cpuVars, GsStep
  <1>1. /\ current' = t /\ gs' = GsAfterSwitch(t) /\ UNCHANGED <<path, halt>>
        /\ current \in Threads /\ Running /\ Running'
    BY SwitchFacts, Zenon DEF StackInv, Timer, Yield, AtOp, Running
  <1>2. GsDue = IF Ring3(current) THEN "user" ELSE "kernel"
    <2>1. CASE path[current] \in Outside
      BY <2>1, GsDueFacts, Zenon DEF Ring3
    <2>2. CASE path[current] \in DOMAIN Code
      <3>1. at[current] \in DOMAIN Code[path[current]] /\ path[current] \notin Outside
        BY <1>1, <2>2, OutsideFacts, Zenon DEF PlaceInv
      <3>2. Code[path[current]][at[current]].op # "return"
        BY <1>1, <3>1, Zenon DEF InReturn, AtOp
      <3>3. ~(path[current] \in Calls /\ at[current] = 1)
        <4>1. CASE Timer(t)
          BY <1>1, <4>1, EntryCode DEF Timer, StackInv, InStub
        <4>2. CASE Yield(t)
          BY <4>2, CodeFacts, Zenon DEF Yield, AtOp
        <4> QED
          BY <4>1, <4>2, Zenon
      <3> QED
        BY <2>2, <3>1, <3>2, <3>3, GsDueFacts, Zenon DEF GsAt, Ring3, Outside
    <2> QED
      BY <1>1, <2>1, <2>2, Zenon DEF StackInv
  <1>3. GsDue' = IF Ring3(t) THEN "user" ELSE "kernel"
    <2>1. CASE path[t] \in Outside
      BY <1>1, <2>1, GsDueNext, Zenon DEF Ring3
    <2>2. CASE path[t] \in DOMAIN Code
      <3>1. at'[t] \in DOMAIN Code[path[t]] /\ path[t] \notin Outside
        BY <1>1, <2>2, OutsideFacts, Zenon DEF PlaceInv
      <3>2. Code[path[t]][at'[t]].op # "return"
        BY <1>1, <3>1, Zenon DEF InReturn, AtOp
      <3>3. ~(path[t] \in Calls /\ at'[t] = 1)
        <4>1. CASE Timer(t)
          <5>1. intr /\ at' = at
            BY <1>1, <4>1, Zenon DEF Timer, Stop, threadVars
          <5> QED
            BY <5>1, EntryCode DEF StackInv, InStub
        <4>2. CASE Yield(t)
          <5>1. at'[t] = 1 /\ path[t] \in Calls => t # current /\ at[t] = 1
            <6>1. Advance \/ UNCHANGED at
              BY <4>2, Zenon DEF Yield, Stop, threadVars
            <6>2. path[current] \in Calls => at[current] # 1
              BY <4>2, CodeFacts, Zenon DEF Yield, AtOp
            <6>3. at \in [Threads -> Nat \ {0}]
              BY Zenon DEF StackInv
            <6> QED
              BY <1>1, <6>1, <6>2, <6>3 DEF Advance
          <5> QED
            BY <5>1, EntryCode DEF StackInv, InStub
        <4> QED
          BY <4>1, <4>2, Zenon
      <3> QED
        BY <1>1, <2>2, <3>1, <3>2, <3>3, GsDueNext, Zenon DEF GsAt, Ring3, Outside
    <2> QED
      BY <2>1, <2>2, Zenon DEF StackInv
  <1> QED
    BY <1>1, <1>2, <1>3, Zenon DEF GsAfterSwitch, Swapped, Ring3

\* GsLostOnlyInReturn of Interrupts: for any number of threads, only an interrupt between
\* swapgs and the return to ring 3 makes the GS base disagree with where the thread is.
THEOREM GsTheorem ==
  ASSUME Disciplined
  PROVE  IntSpec => GsLostOnlyInReturn
  <1>1. StackInv /\ StackInv' /\ LockInv /\ PlaceInv /\ PlaceInv' /\ [IntNext]_intVars
          => (gs = GsDue /\ gs' # GsDue' => InReturn \/ InReturn')
    BY InstructionGs, PathGs, SwitchGs, Zenon DEF IntNext, GsStep
  <1> QED
    BY <1>1, StackInvariant, LockInvariant, PlaceInvariant, PTL DEF IntSpec, GsLostOnlyInReturn

=============================================================================

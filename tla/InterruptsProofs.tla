--------------------------- MODULE InterruptsProofs ---------------------------
(***************************************************************************)
(* Proofs about the entries to the kernel, for every number of threads and  *)
(* whatever interrupts and faults come in between: a thread that enters     *)
(* finds its own stacks.                                                   *)
(***************************************************************************)
EXTENDS Interrupts, SequenceTheorems, TLAPS

----------------------------------------------------------------------------
(* The code of the kernel is made of instructions. *)

\* The instructions: an operation, with a lock, a state or a distance.
Operations ==
  {"lock", "release", "restore", "spin", "unspin", "cli", "sti", "touch", "buffer",
   "swapgs", "scratch", "stack", "return", "yield", "mark", "wakeParent", "create", "next"}

Operands == Locks \cup {"key", "child", "dead"}

Instructions ==
  [op : Operations] \cup [op : Operations, arg : Operands]
    \cup [op : {"again"}, arg : Nat \ {0}]

\* An operation without an argument.
LEMMA DoType ==
  ASSUME NEW i \in Operations
  PROVE  Do(i) \in Seq(Instructions)
  BY DEF Do, Instructions

\* An operation on a lock or a state.
LEMMA OnType ==
  ASSUME NEW i \in Operations, NEW x \in Operands
  PROVE  On(i, x) \in Seq(Instructions)
  BY DEF On, Instructions

\* The jump of a woken thread.
LEMMA AgainType ==
  ASSUME NEW n \in Nat \ {0}
  PROVE  On("again", n) \in Seq(Instructions)
  BY DEF On, Instructions

\* Code can be put together.
LEMMA JoinType ==
  ASSUME NEW s \in Seq(Instructions), NEW r \in Seq(Instructions)
  PROVE  s \o r \in Seq(Instructions)
  BY ConcatProperties

\* No code is code.
LEMMA EmptyType == <<>> \in Seq(Instructions)
  BY EmptySeq

\* A section under a guard of Locked is code when its body is.
LEMMA GuardedType ==
  ASSUME NEW l \in Locks, NEW body \in Seq(Instructions)
  PROVE  Guarded(l, body) \in Seq(Instructions)
  <1>1. On("lock", l) \in Seq(Instructions)
    BY OnType DEF Operations, Operands
  <1>2. On("release", l) \in Seq(Instructions) /\ On("restore", l) \in Seq(Instructions)
    BY OnType DEF Operations, Operands
  <1> QED
    BY <1>1, <1>2, JoinType, Zenon DEF Guarded

\* A section under a spin lock is code when its body is.
LEMMA SpunType ==
  ASSUME NEW l \in Locks, NEW body \in Seq(Instructions)
  PROVE  Spun(l, body) \in Seq(Instructions)
  <1>1. On("spin", l) \in Seq(Instructions) /\ On("unspin", l) \in Seq(Instructions)
    BY OnType DEF Operations, Operands
  <1> QED
    BY <1>1, JoinType, Zenon DEF Spun

\* The sections the system calls are made of are code.
LEMMA SectionTypes ==
  /\ {Heap, Frames, Receive, SleepForKey, SleepForChild, SpawnFromVfs, ExitThread}
       \subseteq Seq(Instructions)
  /\ \A body \in Seq(Instructions) : SerialPrint(body) \in Seq(Instructions)
  <1> DEFINE S == Seq(Instructions)
  <1>1. \A i \in {"touch", "cli", "sti", "yield", "create", "wakeParent"} : Do(i) \in S
    BY DoType DEF Operations
  <1>2. \A l \in Locks : On("spin", l) \in S /\ On("unspin", l) \in S
    BY OnType DEF Operations, Operands
  <1>3. /\ \A i \in {"lock", "release", "restore"}, l \in Locks : On(i, l) \in S
        /\ \A x \in {"key", "child", "dead"} : On("mark", x) \in S
    BY OnType DEF Operations, Operands
  <1>4. \A l \in Locks, body \in S : Guarded(l, body) \in S /\ Spun(l, body) \in S
    BY GuardedType, SpunType
  <1>5. \A s, r \in S : s \o r \in S
    BY JoinType
  <1>6. <<>> \in S
    BY EmptyType
  <1>7. /\ {"SCHEDULER", "ALLOCATOR", "FRAME_ALLOCATOR", "SERIAL1", "QUEUE"} \subseteq Locks
        /\ {"ROOT_FS", "wait_queue"} \subseteq Locks
    BY DEF Locks, LockedLocks, SpinLocks
  <1> HIDE DEF S
  <1>8. Heap \in S /\ Frames \in S
    BY <1>1, <1>4, <1>5, <1>6, <1>7, Zenon DEF Heap, Frames
  <1>9. Receive \in S
    BY <1>1, <1>4, <1>5, <1>6, <1>7, Zenon DEF Receive
  <1>10. SleepForKey \in S
    BY <1>1, <1>2, <1>3, <1>5, <1>7, Zenon DEF SleepForKey
  <1>11. SleepForChild \in S
    BY <1>1, <1>3, <1>4, <1>5, <1>6, <1>7, Zenon DEF SleepForChild
  <1>12. SpawnFromVfs \in S
    BY <1>1, <1>4, <1>5, <1>7, <1>8, Zenon DEF SpawnFromVfs
  <1>13. ExitThread \in S
    BY <1>1, <1>3, <1>4, <1>5, <1>6, <1>7, Zenon DEF ExitThread
  <1>14. \A body \in S : SerialPrint(body) \in S
    BY <1>4, <1>7, Zenon DEF SerialPrint
  <1> QED
    BY <1>8, <1>9, <1>10, <1>11, <1>12, <1>13, <1>14 DEF S

\* The entry stub has three instructions.
LEMMA EntryCode ==
  /\ Entry \in Seq(Instructions) /\ Len(Entry) = 3
  /\ Entry[1].op = "swapgs" /\ Entry[2].op = "scratch" /\ Entry[3].op = "stack"
  <1>1. /\ Do("swapgs") \in Seq(Instructions) /\ Do("scratch") \in Seq(Instructions)
        /\ Do("stack") \in Seq(Instructions)
    BY DoType DEF Operations
  <1>2. Entry \in Seq(Instructions)
    BY <1>1, JoinType, Zenon DEF Entry
  <1>3. \A i \in Operations : Len(Do(i)) = 1 /\ Do(i)[1].op = i
    BY DEF Do
  <1>4. /\ Do("swapgs") \o Do("scratch") \in Seq(Instructions)
        /\ Len(Do("swapgs") \o Do("scratch")) = 2
        /\ (Do("swapgs") \o Do("scratch"))[1].op = "swapgs"
        /\ (Do("swapgs") \o Do("scratch"))[2].op = "scratch"
    BY <1>1, <1>3, ConcatProperties DEF Operations
  <1> QED
    BY <1>1, <1>2, <1>3, <1>4, ConcatProperties DEF Entry, Operations

\* The handler of every system call is code.
LEMMA SystemCallTypes ==
  ASSUME NEW p \in Calls
  PROVE  SystemCall[p] \in Seq(Instructions)
  <1> DEFINE S == Seq(Instructions)
  <1>1. \A i \in {"touch", "buffer", "wakeParent"} : Do(i) \in S
    BY DoType DEF Operations
  <1>2. \A n \in {1, 4} : On("again", n) \in S
    BY AgainType
  <1>3. \A l \in Locks, body \in S : Guarded(l, body) \in S /\ Spun(l, body) \in S
    BY GuardedType, SpunType
  <1>4. \A s, r \in S : s \o r \in S
    BY JoinType
  <1>5. <<>> \in S
    BY EmptyType
  <1>6. {"SCHEDULER", "WRITER", "ROOT_FS", "wait_queue"} \subseteq Locks
    BY DEF Locks, LockedLocks, SpinLocks
  <1>7. /\ Heap \in S /\ Frames \in S /\ Receive \in S /\ SleepForKey \in S
        /\ SleepForChild \in S /\ SpawnFromVfs \in S /\ ExitThread \in S
        /\ \A body \in S : SerialPrint(body) \in S
    BY SectionTypes
  <1> HIDE DEF S
  <1>8. /\ SystemCall.read \in S
        /\ SystemCall.key \in S
        /\ SystemCall.keySleep \in S
    BY <1>1, <1>2, <1>3, <1>4, <1>5, <1>6, <1>7, Zenon DEF SystemCall
  <1>9. /\ SystemCall.write \in S
        /\ SystemCall.open \in S
        /\ SystemCall.close \in S
    BY <1>1, <1>2, <1>3, <1>4, <1>5, <1>6, <1>7, Zenon DEF SystemCall
  <1>10. /\ SystemCall.spawn \in S
        /\ SystemCall.exit \in S
        /\ SystemCall.wait \in S
    BY <1>1, <1>2, <1>3, <1>4, <1>5, <1>6, <1>7, Zenon DEF SystemCall
  <1>11. /\ SystemCall.waitSleep \in S
        /\ SystemCall.getdents \in S
        /\ SystemCall.brk \in S
        /\ SystemCall.unknown \in S
    BY <1>1, <1>2, <1>3, <1>4, <1>5, <1>6, <1>7, Zenon DEF SystemCall
  <1>12. p \in {"read", "key", "keySleep", "write", "open", "close", "spawn",
             "exit", "wait", "waitSleep", "getdents", "brk", "unknown"}
    BY DEF Calls, SystemCall
  <1> HIDE DEF SystemCall
  <1> QED
    BY <1>8, <1>9, <1>10, <1>11, <1>12 DEF S

\* What a new process and the monitor execute is code.
LEMMA KernelCodeTypes ==
  ASSUME NEW p \in DOMAIN KernelCode
  PROVE  KernelCode[p] \in Seq(Instructions)
  <1> DEFINE S == Seq(Instructions)
  <1>1. \A i \in {"swapgs", "return", "next", "yield"} : Do(i) \in S
    BY DoType DEF Operations
  <1>2. \A l \in Locks, body \in S : Guarded(l, body) \in S
    BY GuardedType
  <1>3. \A s, r \in S : s \o r \in S
    BY JoinType
  <1>4. <<>> \in S /\ "SCHEDULER" \in Locks
    BY EmptyType DEF Locks, LockedLocks
  <1>5. /\ Heap \in S /\ Frames \in S /\ SpawnFromVfs \in S /\ ExitThread \in S
        /\ \A body \in S : SerialPrint(body) \in S
    BY SectionTypes
  <1> HIDE DEF S
  <1>6. /\ KernelCode.trampoline \in S
        /\ KernelCode.monitorSpawn \in S
        /\ KernelCode.monitorReap \in S
        /\ KernelCode.monitorShell \in S
    BY <1>1, <1>2, <1>3, <1>4, <1>5, Zenon DEF KernelCode, JumpToUserSpace
  <1>7. p \in {"trampoline", "monitorSpawn", "monitorReap", "monitorShell"}
    BY DEF KernelCode
  <1> HIDE DEF KernelCode
  <1> QED
    BY <1>6, <1>7 DEF S

\* What comes after an entry leaves its instructions where they are.
LEMMA PrefixFacts ==
  ASSUME NEW s \in Seq(Instructions), NEW r \in Seq(Instructions), Len(s) >= 3
  PROVE  /\ s \o r \in Seq(Instructions) /\ Len(s \o r) >= 3
         /\ \A i \in 1..3 : (s \o r)[i] = s[i]
  <1>1. Len(s) \in Nat /\ Len(r) \in Nat
    BY LenProperties
  <1> QED
    BY <1>1, ConcatProperties

\* All of the code, and the beginning of a system call.
LEMMA CodeFacts ==
  /\ DOMAIN Code = Calls \cup DOMAIN KernelCode
  /\ \A p \in DOMAIN Code : Code[p] \in Seq(Instructions)
  /\ \A p \in Calls : /\ Code[p][1].op = "swapgs" /\ Code[p][2].op = "scratch"
                      /\ Code[p][3].op = "stack"
  <1>1. DOMAIN Code = Calls \cup DOMAIN KernelCode
    BY DEF Code
  <1>2. ASSUME NEW p \in Calls
        PROVE  /\ Code[p] \in Seq(Instructions)
               /\ Code[p][1].op = "swapgs" /\ Code[p][2].op = "scratch"
               /\ Code[p][3].op = "stack"
    <2>1. Code[p] = (Entry \o SystemCall[p]) \o Return
      BY DEF Code
    <2>2. Return \in Seq(Instructions)
      <3>1. Do("swapgs") \in Seq(Instructions) /\ Do("return") \in Seq(Instructions)
        BY DoType DEF Operations
      <3> QED
        BY <3>1, JoinType, Zenon DEF Return
    <2> DEFINE front == Entry \o SystemCall[p]
    <2>3. /\ front \in Seq(Instructions) /\ Len(front) >= 3
          /\ \A i \in 1..3 : front[i] = Entry[i]
      <3>1. SystemCall[p] \in Seq(Instructions)
        BY SystemCallTypes
      <3>2. Len(Entry) >= 3
        BY EntryCode
      <3> QED
        BY <3>1, <3>2, EntryCode, PrefixFacts
    <2> HIDE DEF front
    <2>4. /\ front \o Return \in Seq(Instructions)
          /\ \A i \in 1..3 : (front \o Return)[i] = front[i]
      BY <2>2, <2>3, PrefixFacts
    <2> QED
      BY <2>1, <2>3, <2>4, EntryCode DEF front
  <1>3. ASSUME NEW p \in DOMAIN KernelCode, p \notin Calls
        PROVE  Code[p] \in Seq(Instructions)
    BY <1>3, KernelCodeTypes DEF Code
  <1> QED
    BY <1>1, <1>2, <1>3

----------------------------------------------------------------------------
(* Every instruction, interrupt and fault keeps the stacks. *)

\* Nothing but a system call is in the code of one.
LEMMA PathNames ==
  /\ Outside \cap Calls = {} /\ DOMAIN KernelCode \cap Calls = {}
  /\ "trampoline" \in DOMAIN KernelCode
  BY DEF Outside, Calls, SystemCall, KernelCode

\* What a thread executes: the idle task nothing of this, and in the entry stub only the
\* instructions of the stub.  A woken thread jumps to an instruction after the stub.
LEMMA AtOpFacts ==
  ASSUME StackInv, NEW i, AtOp(i)
  PROVE  /\ current \in Threads \ {Idle}
         /\ i = "again" => Arg \in Nat \ {0}
         /\ InStub(current) =>
              \/ at[current] = 1 /\ i = "swapgs"
              \/ at[current] = 2 /\ i = "scratch"
              \/ at[current] = 3 /\ i = "stack"
  <1>1. current \in Threads \ {Idle}
    BY DEF StackInv, AtOp, Outside
  <1>2. ASSUME i = "again"
        PROVE  Arg \in Nat \ {0}
    <2>1. /\ path[current] \in DOMAIN Code
          /\ at[current] \in DOMAIN Code[path[current]]
          /\ Code[path[current]] \in Seq(Instructions)
      BY CodeFacts DEF StackInv, AtOp
    <2>2. Code[path[current]][at[current]] \in Instructions
      BY <2>1, ElementOfSeq, LenProperties
    <2> QED
      BY <1>2, <2>2 DEF AtOp, Arg, Instructions, Operations
  <1>3. ASSUME InStub(current)
        PROVE  \/ at[current] = 1 /\ i = "swapgs"
               \/ at[current] = 2 /\ i = "scratch"
               \/ at[current] = 3 /\ i = "stack"
    <2>1. at[current] \in 1..3 /\ path[current] \in Calls
      BY <1>3, EntryCode DEF StackInv, InStub
    <2> QED
      BY <2>1, CodeFacts DEF AtOp
  <1> QED
    BY <1>1, <1>2, <1>3

\* An instruction after the stub keeps the stacks, whatever it does to the interrupt flag.
LEMMA AdvanceInv ==
  ASSUME StackInv, ~InStub(current), current # Idle, Advance,
         UNCHANGED <<current, path, kernelRsp, rsp0>>
  PROVE  StackInv'
  <1>1. at' \in [Threads -> Nat \ {0}] /\ \A t \in Threads : at'[t] >= at[t]
    BY DEF StackInv, Advance
  <1>2. \A t \in Threads : ~InStub(t)
    BY DEF StackInv
  <1>3. \A t \in Threads : ~InStub(t)'
    BY <1>1, <1>2, EntryCode DEF StackInv, InStub
  <1> QED
    BY <1>1, <1>3 DEF StackInv

\* So does what leaves the thread and its stacks alone.
LEMMA SameInv ==
  ASSUME StackInv, UNCHANGED <<threadVars, cpuVars>>
  PROVE  StackInv'
  BY DEF StackInv, InStub, threadVars, cpuVars

\* A processor that makes no progress keeps its stacks.
LEMMA StopInv ==
  ASSUME StackInv, NEW why, Stop(why)
  PROVE  StackInv'
  BY SameInv DEF Stop

\* The locks, the flags and the memory.
LEMMA LocksInv ==
  ASSUME StackInv, Lock \/ Spin \/ Release \/ Restore \/ SetFlag \/ Touch
  PROVE  StackInv'
  <1>1. ASSUME NEW i, AtOp(i), i \notin {"swapgs", "scratch", "stack"}, Advance,
               UNCHANGED <<current, path, kernelRsp, rsp0>>
        PROVE  StackInv'
    BY <1>1, AtOpFacts, AdvanceInv
  <1>2. CASE Lock
    BY <1>1, <1>2, StopInv DEF Lock
  <1>3. CASE Spin
    BY <1>1, <1>3, StopInv DEF Spin, cpuVars
  <1>4. CASE Release
    BY <1>1, <1>4 DEF Release, cpuVars
  <1>5. CASE Restore
    BY <1>1, <1>5 DEF Restore
  <1>6. CASE SetFlag
    BY <1>1, <1>6 DEF SetFlag
  <1>7. CASE Touch
    BY <1>1, <1>7, StopInv DEF Touch, cpuVars
  <1> QED
    BY <1>2, <1>3, <1>4, <1>5, <1>6, <1>7

\* The instructions of the stubs.
LEMMA StubsInv ==
  ASSUME StackInv, Swapgs \/ SaveRsp \/ LoadRsp
  PROVE  StackInv'
  <1>1. ASSUME NEW i, AtOp(i), i \in {"swapgs", "scratch", "stack"}, Advance,
               UNCHANGED <<current, path, intr, kernelRsp, rsp0>>,
               i = "scratch" => scratch' = current
        PROVE  StackInv'
    <2>1. CASE ~InStub(current)
      BY <1>1, <2>1, AtOpFacts, AdvanceInv
    <2>2. CASE InStub(current)
      <3>1. /\ at' \in [Threads -> Nat \ {0}] /\ at'[current] = at[current] + 1
            /\ \A t \in Threads : t # current => at'[t] = at[t]
            /\ current \in Threads /\ ~intr
        BY <1>1, <2>2 DEF StackInv, Advance
      <3>2. at'[current] = 3 => scratch' = current
        BY <1>1, <2>2, <3>1, AtOpFacts
      <3>3. \A t \in Threads : InStub(t)' => t = current
        BY <1>1, <3>1 DEF StackInv, InStub
      <3> QED
        BY <1>1, <3>1, <3>2, <3>3, EntryCode DEF StackInv
    <2> QED
      BY <2>1, <2>2
  <1>2. CASE Swapgs
    BY <1>1, <1>2 DEF Swapgs
  <1>3. CASE SaveRsp
    BY <1>1, <1>3, StopInv DEF SaveRsp
  <1>4. CASE LoadRsp
    BY <1>1, <1>4 DEF LoadRsp, cpuVars
  <1> QED
    BY <1>2, <1>3, <1>4

\* A thread that changes its path is not in the stub, except at the beginning of a
\* system call, when interrupts are disabled.
LEMMA PathInv ==
  ASSUME StackInv, NEW t \in Threads \ {Idle}, NEW p \in Outside \cup DOMAIN Code,
         path' = [path EXCEPT ![t] = p], at' \in [Threads -> Nat \ {0}],
         \A u \in Threads \ {t} : at'[u] >= at[u],
         UNCHANGED <<current, kernelRsp, rsp0>>,
         ~InStub(current),
         p \in Calls => t = current /\ at'[t] = 1 /\ ~intr'
  PROVE  StackInv'
  <1>1. \A u \in Threads : ~InStub(u)
    BY DEF StackInv
  <1>2. path' \in [Threads -> Outside \cup DOMAIN Code] /\ path'[Idle] = "idle"
    BY DEF StackInv, Threads
  <1>3. ASSUME NEW u \in Threads, InStub(u)'
        PROVE  u = t /\ p \in Calls
    <2>1. CASE u # t
      <3>1. path'[u] = path[u] /\ at'[u] >= at[u] /\ at[u] \in Nat /\ at'[u] \in Nat
        BY <2>1 DEF StackInv
      <3> QED
        BY <1>1, <1>3, <3>1, EntryCode DEF InStub
    <2>2. CASE u = t
      BY <1>3, <2>2 DEF StackInv, InStub
    <2> QED
      BY <2>1, <2>2
  <1>4. InStub(current)' => at'[current] # Len(Entry)
    BY <1>3, EntryCode DEF StackInv
  <1> QED
    BY <1>2, <1>3, <1>4 DEF StackInv

\* Returns to ring 3, system calls, and the turns of the monitor.
LEMMA PathsInv ==
  ASSUME StackInv,
         \/ ReturnToUser
         \/ \E p \in Calls : Syscall(p)
         \/ \E p \in DOMAIN KernelCode : MonitorTurn(p)
         \/ MonitorNext
  PROVE  StackInv'
  <1>1. CASE ReturnToUser
    <2>1. current \in Threads \ {Idle} /\ ~InStub(current)
      BY <1>1, AtOpFacts DEF ReturnToUser
    <2>2. "user" \in Outside /\ "user" \notin Calls
      BY PathNames DEF Outside
    <2>3. /\ at' \in [Threads -> Nat \ {0}]
          /\ \A u \in Threads \ {current} : at'[u] >= at[u]
      BY <1>1 DEF ReturnToUser, StackInv
    <2> QED
      BY <1>1, <2>1, <2>2, <2>3, PathInv DEF ReturnToUser
  <1>2. ASSUME NEW p \in Calls, Syscall(p)
        PROVE  StackInv'
    <2>1. current \in Threads \ {Idle} /\ ~InStub(current)
      BY <1>2, PathNames DEF Syscall, Ring3, StackInv, InStub, Outside
    <2>2. p \in Outside \cup DOMAIN Code
      BY CodeFacts
    <2>3. /\ at' \in [Threads -> Nat \ {0}] /\ at'[current] = 1
          /\ \A u \in Threads \ {current} : at'[u] >= at[u]
      BY <1>2, <2>1 DEF Syscall, StackInv
    <2> QED
      BY <1>2, <2>1, <2>2, <2>3, PathInv DEF Syscall
  <1>3. ASSUME NEW p \in DOMAIN KernelCode, MonitorTurn(p)
        PROVE  StackInv'
    <2>1. current \in Threads \ {Idle} /\ ~InStub(current)
      BY <1>3, PathNames DEF MonitorTurn, StackInv, InStub, Outside
    <2>2. p \in Outside \cup DOMAIN Code /\ p \notin Calls
      BY CodeFacts, PathNames
    <2>3. /\ at' \in [Threads -> Nat \ {0}]
          /\ \A u \in Threads \ {current} : at'[u] >= at[u]
      BY <1>3, <2>1 DEF MonitorTurn, StackInv
    <2> QED
      BY <1>3, <2>1, <2>2, <2>3, PathInv DEF MonitorTurn, cpuVars
  <1>4. CASE MonitorNext
    <2>1. current \in Threads \ {Idle} /\ ~InStub(current)
      BY <1>4, AtOpFacts DEF MonitorNext
    <2>2. "loop" \in Outside /\ "loop" \notin Calls
      BY PathNames DEF Outside
    <2>3. /\ at' \in [Threads -> Nat \ {0}]
          /\ \A u \in Threads \ {current} : at'[u] >= at[u]
      BY <1>4 DEF MonitorNext, StackInv
    <2> QED
      BY <1>4, <2>1, <2>2, <2>3, PathInv DEF MonitorNext, cpuVars
  <1> QED
    BY <1>1, <1>2, <1>3, <1>4

\* A switch is never made in the stub, and sets the stacks of the next thread.
LEMMA SwitchToInv ==
  ASSUME StackInv, ~InStub(current), NEW t \in Threads, SwitchTo(t),
         UNCHANGED at \/ (Advance /\ current # Idle)
  PROVE  StackInv'
  <1>1. \A u \in Threads : ~InStub(u)
    BY DEF StackInv
  <1>2. at' \in [Threads -> Nat \ {0}] /\ \A u \in Threads : at'[u] >= at[u]
    BY DEF StackInv, Advance
  <1>3. path' = path /\ current' = t /\ kernelRsp' = t /\ (t # Idle => rsp0' = t)
    BY DEF SwitchTo, Stacks
  <1>4. \A u \in Threads : ~InStub(u)'
    BY <1>1, <1>2, <1>3, EntryCode DEF StackInv, InStub
  <1> QED
    BY <1>2, <1>3, <1>4 DEF StackInv

\* The timer, the keyboard, and the threads that sleep, wake and begin.
LEMMA ThreadsInv ==
  ASSUME StackInv,
         \/ \E t \in Threads : Timer(t) \/ Yield(t)
         \/ Keyboard \/ UserFault \/ Mark \/ WakeParent \/ Again \/ Create
  PROVE  StackInv'
  <1>1. ASSUME NEW t \in Threads, Timer(t)
        PROVE  StackInv'
    <2>1. ~InStub(current)
      BY <1>1 DEF Timer, StackInv
    <2> QED
      BY <1>1, <2>1, StopInv, SwitchToInv DEF Timer
  <1>2. ASSUME NEW t \in Threads, Yield(t)
        PROVE  StackInv'
    <2>1. ~InStub(current) /\ current # Idle
      BY <1>2, AtOpFacts DEF Yield
    <2> QED
      BY <1>2, <2>1, StopInv, SwitchToInv DEF Yield
  <1>3. CASE Keyboard
    <2>1. CASE UNCHANGED <<current, path, at, cpuVars>>
      BY <2>1 DEF StackInv, InStub, cpuVars
    <2> QED
      BY <1>3, <2>1, StopInv DEF Keyboard
  <1>4. CASE UserFault
    BY <1>4, StopInv, SameInv DEF UserFault, intVars
  <1>5. CASE Mark
    BY <1>5, AtOpFacts, AdvanceInv DEF Mark, cpuVars
  <1>6. CASE WakeParent
    BY <1>6, AtOpFacts, AdvanceInv DEF WakeParent, cpuVars
  <1>7. CASE Again
    <2>1. ~InStub(current) /\ current \in Threads \ {Idle} /\ Arg \in Nat \ {0}
      BY <1>7, AtOpFacts DEF Again
    <2>2. CASE Advance
      BY <1>7, <2>1, <2>2, AdvanceInv DEF Again, cpuVars
    <2>3. CASE at' = [at EXCEPT ![current] = Len(Entry) + Arg]
      <3>1. /\ at' \in [Threads -> Nat \ {0}] /\ at'[current] > 3
            /\ \A u \in Threads \ {current} : at'[u] = at[u]
        BY <2>1, <2>3, EntryCode DEF StackInv
      <3>2. \A u \in Threads : ~InStub(u)
        BY <2>1 DEF StackInv
      <3>3. path' = path
        BY <1>7 DEF Again
      <3>4. \A u \in Threads : ~InStub(u)'
        BY <3>1, <3>2, <3>3, EntryCode DEF InStub
      <3> QED
        BY <1>7, <3>1, <3>4 DEF StackInv, Again, cpuVars
    <2> QED
      BY <1>7, <2>2, <2>3 DEF Again
  <1>8. CASE Create
    <2>1. ~InStub(current) /\ current \in Threads \ {Idle}
      BY <1>8, AtOpFacts DEF Create
    <2>2. CASE Advance /\ UNCHANGED path
      BY <1>8, <2>1, <2>2, AdvanceInv DEF Create
    <2>3. ASSUME NEW t \in Users \ {current}, path' = [path EXCEPT ![t] = "trampoline"],
                 at' = [at EXCEPT ![t] = 1, ![current] = @ + 1]
          PROVE  StackInv'
      <3>1. t \in Threads \ {Idle}
        BY InterruptsAssumption DEF Threads
      <3>2. /\ at' \in [Threads -> Nat \ {0}]
            /\ \A u \in Threads \ {t} : at'[u] >= at[u]
        BY <2>3, <3>1 DEF StackInv
      <3>3. "trampoline" \in Outside \cup DOMAIN Code /\ "trampoline" \notin Calls
        BY PathNames, CodeFacts
      <3> QED
        BY <1>8, <2>1, <2>3, <3>1, <3>2, <3>3, PathInv DEF Create
    <2> QED
      BY <1>8, <2>2, <2>3 DEF Create
  <1> QED
    BY <1>1, <1>2, <1>3, <1>4, <1>5, <1>6, <1>7, <1>8

\* At boot the monitor thread is on the CPU, on its own stack.
LEMMA IntInitInv == IntInit => StackInv
  <1> SUFFICES ASSUME IntInit PROVE StackInv
    OBVIOUS
  <1>1. "monitorSpawn" \in DOMAIN KernelCode
    BY DEF KernelCode
  <1>2. /\ current \in Threads
        /\ path \in [Threads -> Outside \cup DOMAIN Code]
        /\ at \in [Threads -> Nat \ {0}]
        /\ path[Idle] = "idle"
    BY <1>1, CodeFacts, InterruptsAssumption DEF IntInit, Threads, Outside
  <1>3. \A t \in Threads : ~InStub(t)
    BY <1>1, PathNames DEF IntInit, InStub, Outside
  <1> QED
    BY <1>2, <1>3 DEF IntInit, StackInv

\* The inductive invariant holds: whatever interrupts and faults come in, the stacks the
\* next entry uses are the current thread's, and the entry stub is not interrupted.
THEOREM StackInvariant == IntSpec => []StackInv
  <1>1. StackInv /\ [IntNext]_intVars => StackInv'
    <2> SUFFICES ASSUME StackInv, [IntNext]_intVars PROVE StackInv'
      OBVIOUS
    <2>1. CASE UNCHANGED intVars
      BY <2>1, SameInv DEF intVars
    <2> QED
      BY <2>1, LocksInv, StubsInv, PathsInv, ThreadsInv DEF IntNext
  <1> QED
    BY IntInitInv, <1>1, PTL DEF IntSpec

\* OwnStack of Interrupts: in ring 3 kernel_rsp and RSP0 are those of the current thread,
\* and the stub reads back the user stack pointer it saved, for any number of threads.
THEOREM OwnStackTheorem == IntSpec => []OwnStack
  <1>1. StackInv => OwnStack
    <2> SUFFICES ASSUME StackInv PROVE OwnStack
      OBVIOUS
    <2>1. Ring3(current) => current # Idle
      BY DEF StackInv, Ring3
    <2>2. path[current] \in Calls /\ at[current] = Len(Entry) => scratch = current
      BY EntryCode DEF StackInv, InStub
    <2> QED
      BY <2>1, <2>2 DEF StackInv, OwnStack
  <1> QED
    BY StackInvariant, <1>1, PTL

=============================================================================

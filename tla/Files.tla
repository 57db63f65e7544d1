------------------------------- MODULE Files --------------------------------
(***************************************************************************)
(* Open files: the descriptor tables, SYS_READ, SYS_WRITE, SYS_OPEN and    *)
(* SYS_CLOSE (src/process/syscall.rs), the console, the files of the       *)
(* archive that Initramfs reads, and the user programs' way of running a   *)
(* child (src/sh.c).                                                       *)
(*                                                                         *)
(* A system call runs with interrupts disabled, so it is one step, except  *)
(* where a read of the console waits for a key: the semaphore of the       *)
(* mailbox enables interrupts, and from then until the call returns others *)
(* run while the reader holds the spin lock of the open file.  Who finds   *)
(* that lock taken spins with interrupts disabled, for ever: no such step  *)
(* is modelled, NoSpin says that it is never due.  Calls that fail (EBADF, *)
(* ENOENT, EMFILE) change nothing and are not steps.                       *)
(***************************************************************************)
EXTENDS Initramfs, FiniteSetsExt, Functions

CONSTANTS
  Procs,     \* user processes
  None,      \* no process, no file, no vnode
  OpenFiles, \* addresses of OpenFile objects
  Archives,  \* the archives: sequences of members, each [name, data]
  Console,   \* the ConsoleVnode
  MaxFds,    \* MAX_FDS
  FirstFd,   \* the first descriptor SYS_OPEN assigns: 3
  MaxLen,    \* the longest buffer
  MaxOffset, \* the offset beyond which a console's is not counted
  MaxKeys    \* keys waiting in the mailbox

ASSUME FilesAssumption ==
  /\ None \notin Procs \cup OpenFiles \cup {Console}
  /\ {MaxFds, FirstFd, MaxLen, MaxOffset, MaxKeys} \subseteq Nat
  /\ FirstFd < MaxFds

VARIABLES
  members, \* what was put into the archive
  image,  \* the archive in memory
  dir,    \* the TarDirectory in ROOT_FS
  fds,    \* fd_table of each process
  file,   \* each OpenFile: its vnode, by its index in dir, and its offset
  lock,   \* who holds the lock of each OpenFile
  phase,  \* what each process is doing
  call,   \* the OpenFile a process reads, the file_arc of the call
  parent, \* the process that waits for this one
  keys    \* keys in KEYBOARD_MAILBOX

rootVars == <<members, image, dir>>
filesVars == <<rootVars, fds, file, lock, phase, call, parent, keys>>

Fds == 0..MaxFds - 1

\* A console's offset is never looked at: it is counted only so far.
Counted(n) == Min({n, MaxOffset})

NoFds == [fd \in Fds |-> None]

----------------------------------------------------------------------------

\* An OpenFile lives as long as a table or a call refers to it (an Arc).
Referenced == (UNION {Range(fds[p]) : p \in Procs}) \cup Range(call)

Fresh == OpenFiles \ Referenced

Active(p) == phase[p] = "user"

\* A call that finds the lock free takes it and, unless it waits for a key, releases
\* it within the step.
Available(p, fd) == fds[p][fd] # None /\ lock[fds[p][fd]] = None

----------------------------------------------------------------------------
(* Processes. *)

\* spawn_user_process with ppid 0: a console of its own, on descriptors 0, 1 and 2.
Launch(p) ==
  /\ phase[p] = "none"
  /\ \E f \in Fresh :
       /\ file' = [file EXCEPT ![f] = [vnode |-> Console, offset |-> 0]]
       /\ fds' = [fds EXCEPT ![p] = [fd \in Fds |-> IF fd < FirstFd THEN f ELSE None]]
  /\ phase' = [phase EXCEPT ![p] = "user"]
  /\ UNCHANGED <<rootVars, lock, call, parent, keys>>

\* (Mutant: the shell does not wait.)
ExecNoWait(q, p) ==
  /\ Active(q)
  /\ phase[p] = "none"
  /\ fds' = [fds EXCEPT ![p] = fds[q]]
  /\ phase' = [phase EXCEPT ![p] = "user"]
  /\ UNCHANGED <<rootVars, file, lock, call, parent, keys>>

\* cmd_exec: SYS_SPAWN, the child with a copy of the table, and SYS_WAIT for it.
Exec(q, p) ==
  /\ Active(q)
  /\ phase[p] = "none"
  /\ fds' = [fds EXCEPT ![p] = fds[q]]
  /\ phase' = [phase EXCEPT ![p] = "user", ![q] = "waiting"]
  /\ parent' = [parent EXCEPT ![p] = q]
  /\ UNCHANGED <<rootVars, file, lock, call, keys>>

\* SYS_EXIT: the zombie keeps its table ...
ExitProcess(p) ==
  /\ Active(p)
  /\ phase' = [phase EXCEPT ![p] = "zombie"]
  /\ UNCHANGED <<rootVars, fds, file, lock, call, parent, keys>>

\* ... until its parent's SYS_WAIT, or reap_zombies for a launched process, drops it.
Reap(p) ==
  /\ phase[p] = "zombie"
  /\ fds' = [fds EXCEPT ![p] = NoFds]
  /\ phase' = [q \in Procs |-> IF q = p THEN "none"
                               ELSE IF q = parent[p] THEN "user" ELSE phase[q]]
  /\ parent' = [parent EXCEPT ![p] = None]
  /\ UNCHANGED <<rootVars, file, lock, call, keys>>

----------------------------------------------------------------------------
(* System calls. *)

\* SYS_OPEN: the lowest free descriptor, and a new OpenFile at offset 0.
Open(p, name) ==
  LET free == {fd \in FirstFd..MaxFds - 1 : fds[p][fd] = None}
  IN /\ Active(p)
     /\ Lookup(dir, name) # 0
     /\ free # {}
     /\ \E f \in Fresh :
          /\ file' = [file EXCEPT ![f] = [vnode |-> Lookup(dir, name), offset |-> 0]]
          /\ fds' = [fds EXCEPT ![p][Min(free)] = f]
     /\ UNCHANGED <<rootVars, lock, phase, call, parent, keys>>

\* SYS_CLOSE.
Close(p, fd) ==
  /\ Active(p)
  /\ fds[p][fd] # None
  /\ fds' = [fds EXCEPT ![p][fd] = None]
  /\ UNCHANGED <<rootVars, file, lock, phase, call, parent, keys>>

\* SYS_READ of a file.
ReadFile(p, fd, len) ==
  LET f == fds[p][fd]
  IN /\ Active(p)
     /\ Available(p, fd)
     /\ file[f].vnode # Console
     /\ file' = [file EXCEPT ![f].offset = @ + BytesRead(dir[file[f].vnode], @, len)]
     /\ UNCHANGED <<rootVars, fds, lock, phase, call, parent, keys>>

\* SYS_READ of the console, with a buffer that is not empty: the lock is taken, and
\* the mailbox's semaphore is next.
ReadConsole(p, fd) ==
  LET f == fds[p][fd]
  IN /\ Active(p)
     /\ Available(p, fd)
     /\ file[f].vnode = Console
     /\ lock' = [lock EXCEPT ![f] = p]
     /\ call' = [call EXCEPT ![p] = f]
     /\ phase' = [phase EXCEPT ![p] = "reading"]
     /\ UNCHANGED <<rootVars, fds, file, parent, keys>>

\* The semaphore is acquired and the key popped, now or after a sleep, with
\* interrupts enabled afterwards.  Other raw keys go around the loop.
TakeKey(p) ==
  /\ phase[p] = "reading"
  /\ keys > 0
  /\ keys' = keys - 1
  /\ \/ phase' = [phase EXCEPT ![p] = "got"]
     \/ UNCHANGED phase
  /\ UNCHANGED <<rootVars, fds, file, lock, call, parent>>

\* (Mutant: the lock outlives the call.)
ReturnKeyLocked(p) ==
  /\ phase[p] = "got"
  /\ \E n \in 1..MaxLen : file' = [file EXCEPT ![call[p]].offset = Counted(@ + n)]
  /\ call' = [call EXCEPT ![p] = None]
  /\ phase' = [phase EXCEPT ![p] = "user"]
  /\ UNCHANGED <<rootVars, fds, lock, parent, keys>>

\* The read returns the key's bytes, and the lock is released.
ReturnKey(p) ==
  /\ phase[p] = "got"
  /\ \E n \in 1..MaxLen : file' = [file EXCEPT ![call[p]].offset = Counted(@ + n)]
  /\ lock' = [lock EXCEPT ![call[p]] = None]
  /\ call' = [call EXCEPT ![p] = None]
  /\ phase' = [phase EXCEPT ![p] = "user"]
  /\ UNCHANGED <<rootVars, fds, parent, keys>>

\* SYS_WRITE: the console takes every byte; other files refuse (EBADF).
Write(p, fd, len) ==
  LET f == fds[p][fd]
  IN /\ Active(p)
     /\ Available(p, fd)
     /\ file[f].vnode = Console
     /\ file' = [file EXCEPT ![f].offset = Counted(@ + len)]
     /\ UNCHANGED <<rootVars, fds, lock, phase, call, parent, keys>>

\* keyboard_handler.
KeyPressed ==
  /\ keys < MaxKeys
  /\ keys' = keys + 1
  /\ UNCHANGED <<rootVars, fds, file, lock, phase, call, parent>>

\* _start has put the archive's directory into ROOT_FS.
FilesInit ==
  /\ members \in Archives
  /\ image = Archive(members)
  /\ dir = ParseTarball(image)
  /\ fds = [p \in Procs |-> NoFds]
  /\ file = [f \in OpenFiles |-> [vnode |-> None, offset |-> 0]]
  /\ lock = [f \in OpenFiles |-> None]
  /\ phase = [p \in Procs |-> "none"]
  /\ call = [p \in Procs |-> None]
  /\ parent = [p \in Procs |-> None]
  /\ keys = 0

FilesNext ==
  \/ \E p \in Procs : Launch(p)
  \/ \E q, p \in Procs : Exec(q, p)
  \/ \E p \in Procs : ExitProcess(p)
  \/ \E p \in Procs : Reap(p)
  \/ \E p \in Procs, i \in DOMAIN members : Open(p, members[i].name)
  \/ \E p \in Procs, fd \in Fds : Close(p, fd)
  \/ \E p \in Procs, fd \in Fds, len \in 0..MaxLen : ReadFile(p, fd, len)
  \/ \E p \in Procs, fd \in Fds : ReadConsole(p, fd)
  \/ \E p \in Procs : TakeKey(p)
  \/ \E p \in Procs : ReturnKey(p)
  \/ \E p \in Procs, fd \in Fds, len \in 0..MaxLen : Write(p, fd, len)
  \/ KeyPressed

FilesSpec == FilesInit /\ [][FilesNext]_filesVars

----------------------------------------------------------------------------
(* Properties. *)

\* The types.
FilesTypeOK ==
  /\ fds \in [Procs -> [Fds -> OpenFiles \cup {None}]]
  /\ phase \in [Procs -> {"none", "user", "reading", "got", "waiting", "zombie"}]
  /\ keys \in 0..MaxKeys

\* The data from an offset on, as much as a buffer takes.
DataAt(data, at, len) == SubSeq(data, at + 1, Min({at + len, Len(data)}))

\* The directory lists and finds the members of the archive, and an open file
\* reads the bytes of its member: whoever reads next, of the processes that share
\* the file, and with whatever buffer, gets the member's data from the offset on, no
\* byte of a header, of padding or of another member, and nothing past the end.
ReadsTheArchive ==
  /\ FilesTypeOK
  /\ \A i \in DOMAIN members :
       /\ Lookup(dir, members[i].name) = i
       /\ ReadDir(dir, i) = <<[size |-> Len(members[i].data), name |-> members[i].name]>>
  /\ ReadDir(dir, Len(members) + 1) = <<>>
  /\ \A f \in Referenced \ {None} : file[f].vnode # Console =>
       \A len \in 0..MaxLen :
         ReadAt(image, dir[file[f].vnode], file[f].offset, len)
           = DataAt(members[file[f].vnode].data, file[f].offset, len)

\* A lock is held exactly while its holder is inside a read of that file: no lock
\* outlives its call, and no file is dropped and reused under a reader that sleeps.
LockExact ==
  /\ \A f \in OpenFiles, p \in Procs : lock[f] = p <=> call[p] = f
  /\ \A p \in Procs : call[p] # None <=> phase[p] \in {"reading", "got"}
  /\ \A p \in Procs : call[p] # None => file[call[p]].vnode = Console

\* No process that can make a system call has a descriptor whose lock is held by a
\* sleeping reader: SYS_READ and SYS_WRITE never spin with interrupts disabled,
\* although a console is shared by a whole family of processes.
NoSpin ==
  \A p \in Procs, fd \in Fds :
    phase[p] = "user" /\ fds[p][fd] # None => lock[fds[p][fd]] = None

----------------------------------------------------------------------------
(* What keeps them: an inductive invariant. *)

\* Processes that are related, or that share a file, are of one family, and in a
\* family everybody waits but one.
FamiliesOK(fams) ==
  /\ \A F, G \in fams, p \in Procs : p \in F /\ p \in G => F = G
  /\ \A p \in Procs : phase[p] # "none" <=> \E F \in fams : p \in F
  /\ \A F \in fams, p, q \in Procs :
       {p, q} \subseteq F /\ "waiting" \notin {phase[p], phase[q]} => p = q
  /\ \A F \in fams, p \in Procs : parent[p] # None => (p \in F <=> parent[p] \in F)
  /\ \A F, G \in fams, p, q \in Procs, i, j \in Fds :
       p \in F /\ q \in G /\ fds[p][i] = fds[q][j] /\ fds[p][i] # None => F = G

\* A process waits for one child; a slot of the table that is free has no parent and
\* no files; an open file that is being read is in the reader's table.
FilesInv ==
  /\ FilesTypeOK
  /\ lock \in [OpenFiles -> Procs \cup {None}]
  /\ call \in [Procs -> OpenFiles \cup {None}]
  /\ parent \in [Procs -> Procs \cup {None}]
  /\ file = [f \in OpenFiles |-> [vnode |-> file[f].vnode, offset |-> file[f].offset]]
  /\ \A p \in Procs : phase[p] = "none" => parent[p] = None /\ fds[p] = NoFds
  /\ \A p \in Procs : parent[p] # None =>
       /\ phase[parent[p]] = "waiting"
       /\ \A q \in Procs : parent[q] = parent[p] => q = p
  /\ \A p \in Procs : call[p] # None => \E fd \in Fds : fds[p][fd] = call[p]
  /\ LockExact
  /\ \E fams \in SUBSET SUBSET Procs : FamiliesOK(fams)

Bytes == 0..255

\* The data of a vnode is in the image, from the address the vnode has.
Holds(tar, v, data) ==
  /\ tar \in Seq(Bytes) /\ data \in Seq(Bytes)
  /\ v.size = Len(data)
  /\ v.data \in Nat /\ v.data + Len(data) <= Len(tar)
  /\ \A k \in 1..Len(data) : tar[v.data + k] = data[k]

\* The directory of an archive finds and lists the members, and holds their data.
Parsed(ms) ==
  LET tar == Archive(ms)
      vnodes == ParseTarball(tar)
  IN /\ \A i \in DOMAIN ms :
          /\ Lookup(vnodes, ms[i].name) = i
          /\ ReadDir(vnodes, i) = <<[size |-> Len(ms[i].data), name |-> ms[i].name]>>
          /\ Holds(tar, vnodes[i], ms[i].data)
     /\ ReadDir(vnodes, Len(ms) + 1) = <<>>

\* The directory in ROOT_FS stays that of the archive, and an open file that is not a
\* console is of one of its vnodes, at an offset within the data.
ArchiveInv ==
  /\ FilesInv
  /\ members \in Archives /\ image = Archive(members) /\ dir = ParseTarball(image)
  /\ \A f \in OpenFiles : file[f].offset \in Nat
  /\ \A f \in Referenced \ {None} : file[f].vnode # Console =>
       /\ file[f].vnode \in DOMAIN members
       /\ file[f].offset <= Len(members[file[f].vnode].data)

=============================================================================

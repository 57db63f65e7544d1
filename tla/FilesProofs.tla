----------------------------- MODULE FilesProofs -----------------------------
(***************************************************************************)
(* Proofs about open files, for every number of processes, descriptors and *)
(* files: a lock is held exactly while its holder is inside a read of the  *)
(* console, no system call ever spins on one, and a file reads the data of *)
(* its member of the archive.                                              *)
(***************************************************************************)
EXTENDS Files, SequenceTheorems, TLAPS

----------------------------------------------------------------------------
(* Facts about the state. *)

\* No process that may call the kernel has a file whose lock is held: the holder, which
\* has the file in its table too, would be of the same family, where all but one wait.
LEMMA InvNoSpin ==
  ASSUME FilesInv
  PROVE  NoSpin
  <1> SUFFICES ASSUME NEW p \in Procs, NEW fd \in Fds, phase[p] = "user", fds[p][fd] # None,
                      lock[fds[p][fd]] # None
               PROVE  FALSE
    BY Zenon DEF NoSpin
  <1> DEFINE f == fds[p][fd]
  <1>1. f \in OpenFiles
    BY DEF FilesInv, FilesTypeOK
  <1>2. PICK q \in Procs : lock[f] = q
    BY <1>1 DEF FilesInv
  <1>3. call[q] = f /\ phase[q] \in {"reading", "got"}
    BY <1>1, <1>2, FilesAssumption DEF FilesInv, LockExact
  <1>4. PICK i \in Fds : fds[q][i] = f
    BY <1>3 DEF FilesInv
  <1>5. PICK fams \in SUBSET SUBSET Procs : FamiliesOK(fams)
    BY Zenon DEF FilesInv
  <1>6. PICK F \in fams : p \in F
    BY <1>5, Zenon DEF FamiliesOK
  <1>7. PICK G \in fams : q \in G
    BY <1>3, <1>5, Zenon DEF FamiliesOK
  <1>8. F = G
    BY <1>4, <1>5, <1>6, <1>7 DEF FamiliesOK
  <1>9. p = q
    BY <1>3, <1>5, <1>6, <1>7, <1>8 DEF FamiliesOK
  <1> QED
    BY <1>3, <1>9, Zenon

\* A file that no table and no call refers to.
LEMMA FreshFacts ==
  ASSUME FilesInv, NEW f \in Fresh
  PROVE  /\ f \in OpenFiles
         /\ \A p \in Procs, fd \in Fds : fds[p][fd] # f
         /\ \A p \in Procs : call[p] # f
         /\ lock[f] = None
  <1>1. f \in OpenFiles /\ f \notin Referenced
    BY Zenon DEF Fresh
  <1>2. \A p \in Procs, fd \in Fds : fds[p][fd] # f
    <2> SUFFICES ASSUME NEW p \in Procs, NEW fd \in Fds
                 PROVE  fds[p][fd] \in Referenced
      BY <1>1, Zenon
    <2>1. fds[p][fd] \in Range(fds[p])
      BY DEF Range, FilesInv, FilesTypeOK
    <2> QED
      BY <2>1, Zenon DEF Referenced
  <1>3. \A p \in Procs : call[p] # f
    <2>1. \A p \in Procs : call[p] \in Range(call)
      BY Zenon DEF Range, FilesInv
    <2>2. Range(call) \subseteq Referenced
      BY Zenon DEF Referenced
    <2> QED
      BY <1>1, <2>1, <2>2, Zenon
  <1>4. lock[f] = None
    BY <1>1, <1>3 DEF FilesInv, LockExact
  <1> QED
    BY <1>1, <1>2, <1>3, <1>4, Zenon

\* The families stay as they are while nobody starts or stops waiting, nobody comes or
\* goes, and nobody gets a file that somebody else has.
LEMMA SameFamilies ==
  ASSUME NEW fams, FamiliesOK(fams), NEW fresh,
         \A p \in Procs : phase'[p] = "none" <=> phase[p] = "none",
         \A p \in Procs : phase'[p] = "waiting" <=> phase[p] = "waiting",
         UNCHANGED parent,
         \A p \in Procs, i \in Fds : fds'[p][i] \in {fds[p][i], None, fresh},
         \A p \in Procs, i \in Fds : fds[p][i] # fresh,
         \A p, q \in Procs, i, j \in Fds :
           fds'[p][i] = fresh /\ fds'[q][j] = fresh /\ fresh # None => p = q
  PROVE  FamiliesOK(fams)'
  <1>1. /\ \A F, G \in fams, p \in Procs : p \in F /\ p \in G => F = G
        /\ \A p \in Procs : phase'[p] # "none" <=> \E F \in fams : p \in F
        /\ \A F \in fams, p, q \in Procs :
             {p, q} \subseteq F /\ "waiting" \notin {phase'[p], phase'[q]} => p = q
        /\ \A F \in fams, p \in Procs : parent'[p] # None => (p \in F <=> parent'[p] \in F)
    BY DEF FamiliesOK
  <1>2. ASSUME NEW F \in fams, NEW G \in fams, NEW p \in Procs, NEW q \in Procs,
               NEW i \in Fds, NEW j \in Fds,
               p \in F, q \in G, fds'[p][i] = fds'[q][j], fds'[p][i] # None
        PROVE  F = G
    <2>1. CASE fds'[p][i] = fresh
      <3>1. p = q
        BY <1>2, <2>1, Zenon
      <3> QED
        BY <1>1, <1>2, <3>1, Zenon
    <2>2. CASE fds'[p][i] # fresh
      <3>1. fds'[p][i] = fds[p][i] /\ fds'[q][j] = fds[q][j]
        BY <1>2, <2>2, Zenon
      <3>2. fds[p][i] = fds[q][j] /\ fds[p][i] # None
        BY <1>2, <3>1, Zenon
      <3>3. \A k, l \in Fds : fds[p][k] = fds[q][l] /\ fds[p][k] # None => F = G
        BY <1>2 DEF FamiliesOK
      <3> QED
        BY <3>2, <3>3, Zenon
    <2> QED
      BY <2>1, <2>2, Zenon
  <1> QED
    BY <1>1, <1>2 DEF FamiliesOK

\* The locks stay as they are while nobody enters or leaves a read and the files that
\* are being read keep their vnode.
LEMMA SameLocks ==
  ASSUME LockExact, UNCHANGED <<lock, call>>,
         \A p \in Procs : phase'[p] \in {"reading", "got"} <=> phase[p] \in {"reading", "got"},
         \A p \in Procs : call[p] # None => file'[call[p]].vnode = file[call[p]].vnode
  PROVE  LockExact'
  <1>1. /\ \A f \in OpenFiles, p \in Procs : lock'[f] = p <=> call'[p] = f
        /\ \A p \in Procs : call'[p] # None <=> phase'[p] \in {"reading", "got"}
    BY Zenon DEF LockExact
  <1>2. \A p \in Procs : call'[p] # None => file'[call'[p]].vnode = Console
    BY Zenon DEF LockExact
  <1> QED
    BY <1>1, <1>2, Zenon DEF LockExact

----------------------------------------------------------------------------
(* One lemma for each action. *)

\* A launched process is a family of its own, with a console nobody else has.
LEMMA LaunchInv ==
  ASSUME FilesInv, NEW p \in Procs, Launch(p)
  PROVE  FilesInv'
  <1> USE DEF FilesInv
  <1>1. /\ phase[p] = "none" /\ phase' = [phase EXCEPT ![p] = "user"]
        /\ UNCHANGED <<lock, call, parent, keys>>
    BY Zenon DEF Launch
  <1>2. PICK f \in Fresh :
          /\ file' = [file EXCEPT ![f] = [vnode |-> Console, offset |-> 0]]
          /\ fds' = [fds EXCEPT ![p] = [fd \in Fds |-> IF fd < FirstFd THEN f ELSE None]]
    BY Zenon DEF Launch
  <1>3. /\ f \in OpenFiles /\ lock[f] = None
        /\ \A q \in Procs, fd \in Fds : fds[q][fd] # f
        /\ \A q \in Procs : call[q] # f
    BY FreshFacts, Zenon
  <1>4. FilesTypeOK'
    BY <1>1, <1>2, <1>3, Zenon DEF FilesTypeOK
  <1>5. \A q \in Procs : phase'[q] = IF q = p THEN "user" ELSE phase[q]
    BY <1>1, Zenon DEF FilesTypeOK
  <1>6. /\ \A q \in Procs, fd \in Fds : q # p => fds'[q][fd] = fds[q][fd]
        /\ \A q \in Procs : q # p => fds'[q] = fds[q]
        /\ \A fd \in Fds : fds'[p][fd] \in {f, None}
    BY <1>2 DEF FilesTypeOK
  <1>7. file' = [g \in OpenFiles |-> [vnode |-> file'[g].vnode, offset |-> file'[g].offset]]
    BY <1>2, <1>3, Zenon
  <1>8. parent[p] = None /\ call[p] = None
    BY <1>1, Zenon DEF LockExact
  <1>9. LockExact'
    <2>1. \A q \in Procs : call[q] # None => file'[call[q]] = file[call[q]]
      BY <1>2, <1>3
    <2>2. \A q \in Procs : phase'[q] \in {"reading", "got"} <=> phase[q] \in {"reading", "got"}
      BY <1>1, <1>5
    <2> QED
      BY <1>1, <2>1, <2>2, SameLocks, Zenon
  <1>10. \A q \in Procs : call[q] # None => \E fd \in Fds : fds'[q][fd] = call[q]
    BY <1>6, <1>8
  <1>11. \E fams \in SUBSET SUBSET Procs : FamiliesOK(fams)'
    <2>1. PICK fams \in SUBSET SUBSET Procs : FamiliesOK(fams)
      OBVIOUS
    <2>2. \A F \in fams : p \notin F
      BY <1>1, <2>1, Zenon DEF FamiliesOK
    <2>3. \A q \in Procs : parent[q] # p
      BY <1>1, FilesAssumption
    <2> DEFINE new == fams \cup {{p}}
    <2>4. \A F \in new, q \in Procs : q \in F => (q = p /\ F = {p}) \/ (q # p /\ F \in fams)
      BY <2>2
    <2>5. \A F, G \in new, q \in Procs : q \in F /\ q \in G => F = G
      <3> SUFFICES ASSUME NEW F \in new, NEW G \in new, NEW q \in Procs, q \in F, q \in G
                   PROVE  F = G
        OBVIOUS
      <3>1. CASE q = p
        BY <2>4, <3>1, Zenon
      <3>2. CASE q # p
        <4>1. F \in fams /\ G \in fams
          BY <2>4, <3>2, Zenon
        <4> QED
          BY <2>1, <4>1 DEF FamiliesOK
      <3> QED
        BY <3>1, <3>2, Zenon
    <2>6. \A q \in Procs : phase'[q] # "none" <=> \E F \in new : q \in F
      BY <1>5, <2>1, <2>4, Zenon DEF FamiliesOK
    <2>7. \A F \in new, q, r \in Procs :
             {q, r} \subseteq F /\ "waiting" \notin {phase'[q], phase'[r]} => q = r
      BY <1>5, <2>1, <2>4 DEF FamiliesOK
    <2>8. \A F \in new, q \in Procs : parent'[q] # None => (q \in F <=> parent'[q] \in F)
      BY <1>1, <1>8, <2>1, <2>3, <2>4, Zenon DEF FamiliesOK
    <2>9. ASSUME NEW F \in new, NEW G \in new, NEW q \in Procs, NEW r \in Procs,
                 NEW i \in Fds, NEW j \in Fds,
                 q \in F, r \in G, fds'[q][i] = fds'[r][j], fds'[q][i] # None
          PROVE  F = G
      <3>1. (q = p) <=> (r = p)
        BY <1>3, <1>6, <2>9
      <3>2. CASE q = p
        BY <2>4, <2>9, <3>1, <3>2, Zenon
      <3>3. CASE q # p
        <4>1. F \in fams /\ G \in fams /\ fds[q][i] = fds[r][j] /\ fds[q][i] # None
          BY <1>6, <2>4, <2>9, <3>1, <3>3, Zenon
        <4> QED
          BY <2>1, <2>9, <4>1 DEF FamiliesOK
      <3> QED
        BY <3>2, <3>3, Zenon
    <2>10. new \in SUBSET SUBSET Procs
      OBVIOUS
    <2> HIDE DEF new
    <2>11. FamiliesOK(new)'
      BY <2>5, <2>6, <2>7, <2>8, <2>9 DEF FamiliesOK
    <2> QED
      BY <2>10, <2>11, Zenon
  <1>12. \A q \in Procs : phase'[q] = "none" => parent'[q] = None /\ fds'[q] = NoFds
    BY <1>1, <1>5, <1>6
  <1>13. \A q \in Procs : parent'[q] # None =>
          /\ phase'[parent'[q]] = "waiting"
          /\ \A r \in Procs : parent'[r] = parent'[q] => r = q
    BY <1>1, <1>5
  <1> QED
    BY <1>1, <1>4, <1>7, <1>9, <1>10, <1>11, <1>12, <1>13 DEF NoFds

\* A child joins the family of its parent, which now waits.
LEMMA ExecInv ==
  ASSUME FilesInv, NEW q \in Procs, NEW p \in Procs, Exec(q, p)
  PROVE  FilesInv'
  <1> USE DEF FilesInv
  <1>1. /\ phase[q] = "user" /\ phase[p] = "none"
        /\ UNCHANGED <<file, lock, call, keys>>
    BY Zenon DEF Exec, Active
  <1>2. q # p /\ parent[p] = None /\ call[p] = None /\ call[q] = None
    BY <1>1, Zenon DEF LockExact
  <1>3. /\ \A r \in Procs : phase'[r] = IF r = p THEN "user" ELSE IF r = q THEN "waiting" ELSE phase[r]
        /\ \A r \in Procs : parent'[r] = IF r = p THEN q ELSE parent[r]
        /\ \A r \in Procs : fds'[r] = IF r = p THEN fds[q] ELSE fds[r]
    BY <1>2, Zenon DEF Exec, FilesTypeOK
  <1>4. FilesTypeOK' /\ parent' \in [Procs -> Procs \cup {None}]
    BY <1>1, Zenon DEF Exec, FilesTypeOK
  <1>5. \A r \in Procs : parent[r] # p /\ parent[r] # q
    BY <1>1, FilesAssumption
  <1>6. LockExact'
    <2>1. \A r \in Procs : phase'[r] \in {"reading", "got"} <=> phase[r] \in {"reading", "got"}
      BY <1>1, <1>3, Zenon
    <2> QED
      BY <1>1, <2>1, SameLocks, Zenon
  <1>7. \A r \in Procs : call[r] # None => \E fd \in Fds : fds'[r][fd] = call[r]
    BY <1>2, <1>3
  <1>8. \E fams \in SUBSET SUBSET Procs : FamiliesOK(fams)'
    <2>1. PICK fams \in SUBSET SUBSET Procs : FamiliesOK(fams)
      OBVIOUS
    <2> DEFINE grown(F) == IF q \in F THEN F \cup {p} ELSE F
               new == {grown(F) : F \in fams}
               rep(r) == IF r = p THEN q ELSE r
    <2>2. \A F \in fams : p \notin F
      BY <1>1, <2>1 DEF FamiliesOK
    <2>3. \A F \in fams, r \in Procs : r \in grown(F) <=> rep(r) \in F
      BY <2>2
    <2>4. \A r \in Procs : rep(r) \in Procs /\ fds'[r] = fds[rep(r)]
      BY <1>3, Zenon
    <2>5. \A F, G \in fams, r \in Procs : rep(r) \in F /\ rep(r) \in G => F = G
      BY <2>1, <2>4, Zenon DEF FamiliesOK
    <2>6. \A r \in Procs : phase'[r] # "none" <=> \E F \in fams : rep(r) \in F
      BY <1>1, <1>3, <2>1 DEF FamiliesOK
    <2>7. \A F \in fams, r, s \in Procs :
            rep(r) \in F /\ rep(s) \in F /\ "waiting" \notin {phase'[r], phase'[s]} => r = s
      <3> SUFFICES ASSUME NEW F \in fams, NEW r \in Procs, NEW s \in Procs,
                          rep(r) \in F, rep(s) \in F, phase'[r] # "waiting", phase'[s] # "waiting"
                   PROVE  r = s
        BY DEF FamiliesOK
      <3>1. r # q /\ s # q /\ phase[rep(r)] # "waiting" /\ phase[rep(s)] # "waiting"
        BY <1>1, <1>2, <1>3, Zenon
      <3>2. rep(r) = rep(s)
        BY <2>1, <2>4, <3>1 DEF FamiliesOK
      <3> QED
        BY <3>1, <3>2, Zenon
    <2>8. \A F \in fams, r \in Procs : parent'[r] # None => (rep(r) \in F <=> rep(parent'[r]) \in F)
      BY <1>2, <1>3, <1>5, <2>1 DEF FamiliesOK
    <2>9. \A F, G \in fams, r, s \in Procs, i, j \in Fds :
            rep(r) \in F /\ rep(s) \in G /\ fds'[r][i] = fds'[s][j] /\ fds'[r][i] # None => F = G
      BY <2>1, <2>4 DEF FamiliesOK
    <2>10. new \in SUBSET SUBSET Procs
      OBVIOUS
    <2>11. \A H \in new : \E F \in fams : H = grown(F) /\ \A r \in Procs : r \in H <=> rep(r) \in F
      BY <2>3
    <2>12. \A F \in fams : grown(F) \in new
      OBVIOUS
    <2>13. \A H \in new, r \in Procs : parent'[r] # None => parent'[r] \in Procs
      BY <1>4
    <2> HIDE DEF grown, new, rep
    <2>14. \A H, K \in new, r \in Procs : r \in H /\ r \in K => H = K
      BY <2>5, <2>11
    <2>15. \A r \in Procs : phase'[r] # "none" <=> \E H \in new : r \in H
      BY <2>3, <2>6, <2>11, <2>12
    <2>16. \A H \in new, r, s \in Procs :
             {r, s} \subseteq H /\ "waiting" \notin {phase'[r], phase'[s]} => r = s
      BY <2>7, <2>11
    <2>17. \A H \in new, r \in Procs : parent'[r] # None => (r \in H <=> parent'[r] \in H)
      BY <2>8, <2>11, <2>13, Zenon
    <2>18. \A H, K \in new, r, s \in Procs, i, j \in Fds :
             r \in H /\ s \in K /\ fds'[r][i] = fds'[s][j] /\ fds'[r][i] # None => H = K
      BY <2>9, <2>11
    <2>19. FamiliesOK(new)'
      BY <2>14, <2>15, <2>16, <2>17, <2>18, Zenon DEF FamiliesOK
    <2> QED
      BY <2>10, <2>19, Zenon
  <1>9. \A r \in Procs : phase'[r] = "none" => parent'[r] = None /\ fds'[r] = NoFds
    BY <1>1, <1>3
  <1>10. \A r \in Procs : parent'[r] # None =>
           /\ phase'[parent'[r]] = "waiting"
           /\ \A s \in Procs : parent'[s] = parent'[r] => s = r
    BY <1>2, <1>3, <1>5
  <1> QED
    BY <1>1, <1>4, <1>6, <1>7, <1>8, <1>9, <1>10 DEF NoFds

\* A reaped child leaves the family, and its parent is the one that acts.
LEMMA ReapInv ==
  ASSUME FilesInv, NEW p \in Procs, Reap(p)
  PROVE  FilesInv'
  <1> USE DEF FilesInv
  <1>1. phase[p] = "zombie" /\ UNCHANGED <<file, lock, call, keys>>
    BY Zenon DEF Reap
  <1>2. parent[p] # p /\ call[p] = None /\ \A r \in Procs : parent[r] # p
    BY <1>1, FilesAssumption DEF LockExact
  <1>3. /\ \A r \in Procs : phase'[r] = IF r = p THEN "none"
                                        ELSE IF r = parent[p] THEN "user" ELSE phase[r]
        /\ \A r \in Procs : parent'[r] = IF r = p THEN None ELSE parent[r]
        /\ \A r \in Procs : fds'[r] = IF r = p THEN NoFds ELSE fds[r]
    BY DEF Reap, FilesTypeOK
  <1>4. FilesTypeOK' /\ parent' \in [Procs -> Procs \cup {None}]
    BY <1>1, Zenon DEF Reap, FilesTypeOK, NoFds
  <1>5. parent[p] # None => phase[parent[p]] = "waiting"
    OBVIOUS
  <1>6. LockExact'
    <2>1. \A r \in Procs : phase'[r] \in {"reading", "got"} <=> phase[r] \in {"reading", "got"}
      BY <1>1, <1>3, <1>5, FilesAssumption
    <2> QED
      BY <1>1, <2>1, SameLocks, Zenon
  <1>7. \A r \in Procs : call[r] # None => \E fd \in Fds : fds'[r][fd] = call[r]
    BY <1>2, <1>3
  <1>8. \E fams \in SUBSET SUBSET Procs : FamiliesOK(fams)'
    <2>1. PICK fams \in SUBSET SUBSET Procs : FamiliesOK(fams)
      OBVIOUS
    <2> DEFINE new == {F \ {p} : F \in fams}
    <2>2. \A H \in new : \E F \in fams : H = F \ {p}
      OBVIOUS
    <2>3. \A F \in fams : F \ {p} \in new
      OBVIOUS
    <2>4. new \in SUBSET SUBSET Procs
      OBVIOUS
    <2> HIDE DEF new
    <2>5. ASSUME NEW H \in new, NEW K \in new, NEW r \in Procs, r \in H, r \in K
          PROVE  H = K
      <3>1. PICK F \in fams, G \in fams : H = F \ {p} /\ K = G \ {p}
        BY <2>2
      <3>2. F = G
        BY <2>1, <2>5, <3>1 DEF FamiliesOK
      <3> QED
        BY <3>1, <3>2, Zenon
    <2>6. \A r \in Procs : phase'[r] # "none" <=> \E H \in new : r \in H
      <3>1. \A r \in Procs : phase'[r] # "none" <=> r # p /\ phase[r] # "none"
        BY <1>3, <1>5, FilesAssumption
      <3>2. \A r \in Procs : phase[r] # "none" <=> \E F \in fams : r \in F
        BY <2>1, Zenon DEF FamiliesOK
      <3>3. ASSUME NEW r \in Procs
            PROVE  (\E H \in new : r \in H) <=> r # p /\ \E F \in fams : r \in F
        <4>1. ASSUME NEW H \in new, r \in H
              PROVE  r # p /\ \E F \in fams : r \in F
          BY <2>2, <4>1
        <4>2. ASSUME r # p, NEW F \in fams, r \in F
              PROVE  \E H \in new : r \in H
          <5>1. r \in F \ {p}
            BY <4>2, Zenon
          <5> QED
            BY <2>3, <5>1
        <4> QED
          BY <4>1, <4>2, Zenon
      <3> QED
        BY <3>1, <3>2, <3>3, Zenon
    <2>7. ASSUME NEW H \in new, NEW r \in Procs, NEW s \in Procs, r \in H, s \in H,
                 phase'[r] # "waiting", phase'[s] # "waiting"
          PROVE  r = s
      <3>1. PICK F \in fams : H = F \ {p}
        BY <2>2, Zenon
      <3>2. r # p /\ s # p /\ r \in F /\ s \in F
        BY <2>7, <3>1, Zenon
      <3>3. CASE p \in F
        <4>1. phase[r] = "waiting" /\ phase[s] = "waiting"
          BY <1>1, <2>1, <3>2, <3>3 DEF FamiliesOK
        <4> QED
          BY <1>3, <2>7, <3>2, <4>1
      <3>4. CASE p \notin F
        <4>1. r # parent[p] /\ s # parent[p]
          BY <2>1, <3>2, <3>4, FilesAssumption DEF FamiliesOK
        <4>2. phase[r] # "waiting" /\ phase[s] # "waiting"
          BY <1>3, <2>7, <3>2, <4>1, Zenon
        <4> QED
          BY <2>1, <3>2, <4>2 DEF FamiliesOK
      <3> QED
        BY <3>3, <3>4, Zenon
    <2>8. \A H \in new, r \in Procs : parent'[r] # None => (r \in H <=> parent'[r] \in H)
      BY <1>2, <1>3, <2>1, <2>2 DEF FamiliesOK
    <2>9. ASSUME NEW H \in new, NEW K \in new, NEW r \in Procs, NEW s \in Procs,
                 NEW i \in Fds, NEW j \in Fds,
                 r \in H, s \in K, fds'[r][i] = fds'[s][j], fds'[r][i] # None
          PROVE  H = K
      <3>1. PICK F \in fams, G \in fams : H = F \ {p} /\ K = G \ {p}
        BY <2>2
      <3>2. r \in F /\ s \in G /\ fds[r][i] = fds[s][j] /\ fds[r][i] # None
        BY <1>3, <2>9, <3>1, Zenon
      <3>3. F = G
        BY <2>1, <3>2 DEF FamiliesOK
      <3> QED
        BY <3>1, <3>3, Zenon
    <2>10. FamiliesOK(new)'
      BY <2>5, <2>6, <2>7, <2>8, <2>9 DEF FamiliesOK
    <2> QED
      BY <2>4, <2>10, Zenon
  <1>9. \A r \in Procs : phase'[r] = "none" => parent'[r] = None /\ fds'[r] = NoFds
    BY <1>3, <1>5
  <1>10. \A r \in Procs : parent'[r] # None =>
           /\ phase'[parent'[r]] = "waiting"
           /\ \A s \in Procs : parent'[s] = parent'[r] => s = r
    BY <1>2, <1>3
  <1> QED
    BY <1>1, <1>4, <1>6, <1>7, <1>8, <1>9, <1>10 DEF NoFds

\* A step of one process by itself: nobody comes, goes, or starts or stops waiting.
LEMMA OwnStep ==
  ASSUME FilesInv, UNCHANGED parent, FilesTypeOK', LockExact', NEW fresh,
         lock' \in [OpenFiles -> Procs \cup {None}],
         call' \in [Procs -> OpenFiles \cup {None}],
         file' = [f \in OpenFiles |-> [vnode |-> file'[f].vnode, offset |-> file'[f].offset]],
         \A p \in Procs : phase'[p] = "none" <=> phase[p] = "none",
         \A p \in Procs : phase'[p] = "waiting" <=> phase[p] = "waiting",
         \A p \in Procs : phase[p] = "none" => fds'[p] = fds[p],
         \A p \in Procs, i \in Fds : fds'[p][i] \in {fds[p][i], None, fresh},
         \A p \in Procs, i \in Fds : fds[p][i] # fresh,
         \A p, q \in Procs, i, j \in Fds :
           fds'[p][i] = fresh /\ fds'[q][j] = fresh /\ fresh # None => p = q,
         \A p \in Procs : call'[p] # None => \E fd \in Fds : fds'[p][fd] = call'[p]
  PROVE  FilesInv'
  <1>1. PICK fams \in SUBSET SUBSET Procs : FamiliesOK(fams)
    BY Zenon DEF FilesInv
  <1>2. FamiliesOK(fams)'
    BY <1>1, SameFamilies, Zenon
  <1>3. \E G \in SUBSET SUBSET Procs : FamiliesOK(G)'
    BY <1>2, Zenon
  <1>4. \A p \in Procs : phase'[p] = "none" => parent'[p] = None /\ fds'[p] = NoFds
    BY DEF FilesInv
  <1>5. \A p \in Procs : parent'[p] # None =>
          /\ phase'[parent'[p]] = "waiting"
          /\ \A q \in Procs : parent'[q] = parent'[p] => q = p
    BY DEF FilesInv
  <1>6. parent' \in [Procs -> Procs \cup {None}]
    BY Zenon DEF FilesInv
  <1> QED
    BY <1>3, <1>4, <1>5, <1>6, Zenon DEF FilesInv, NoFds

\* The same for a step that leaves the tables alone.
LEMMA SameTables ==
  ASSUME FilesInv, UNCHANGED <<fds, parent>>, FilesTypeOK', LockExact',
         lock' \in [OpenFiles -> Procs \cup {None}],
         call' \in [Procs -> OpenFiles \cup {None}],
         file' = [f \in OpenFiles |-> [vnode |-> file'[f].vnode, offset |-> file'[f].offset]],
         \A p \in Procs : phase'[p] = "none" <=> phase[p] = "none",
         \A p \in Procs : phase'[p] = "waiting" <=> phase[p] = "waiting",
         \A p \in Procs : call'[p] # None => \E fd \in Fds : fds[p][fd] = call'[p]
  PROVE  FilesInv'
  <1>1. PICK fresh : fresh \notin OpenFiles \cup {None}
    BY NoSetContainsEverything, Zenon
  <1>2. \A p \in Procs, i \in Fds : fds[p][i] \in OpenFiles \cup {None}
    BY DEF FilesInv, FilesTypeOK
  <1>3. \A p \in Procs, i \in Fds : fds[p][i] # fresh
    BY <1>1, <1>2
  <1>4. \A p \in Procs, i \in Fds : fds'[p][i] \in {fds[p][i], None, fresh}
    OBVIOUS
  <1>5. \A p, q \in Procs, i, j \in Fds :
          fds'[p][i] = fresh /\ fds'[q][j] = fresh /\ fresh # None => p = q
    BY <1>3, Zenon
  <1>6. /\ \A p \in Procs : phase[p] = "none" => fds'[p] = fds[p]
        /\ \A p \in Procs : call'[p] # None => \E fd \in Fds : fds'[p][fd] = call'[p]
    OBVIOUS
  <1> QED
    BY <1>3, <1>4, <1>5, <1>6, OwnStep, Zenon

\* An exit, a key taken or pressed, and no step at all leave the tables, the locks and
\* the files alone.
LEMMA PhaseInv ==
  ASSUME FilesInv, UNCHANGED <<fds, file, lock, call, parent>>, FilesTypeOK',
         \A p \in Procs :
           \/ phase'[p] = phase[p]
           \/ phase[p] = "user" /\ phase'[p] = "zombie"
           \/ phase[p] = "reading" /\ phase'[p] = "got"
  PROVE  FilesInv'
  <1>1. /\ \A p \in Procs : phase'[p] \in {"reading", "got"} <=> phase[p] \in {"reading", "got"}
        /\ \A p \in Procs : phase'[p] = "none" <=> phase[p] = "none"
        /\ \A p \in Procs : phase'[p] = "waiting" <=> phase[p] = "waiting"
    OBVIOUS
  <1>2. LockExact'
    BY <1>1, SameLocks, Zenon DEF FilesInv
  <1>3. /\ lock' \in [OpenFiles -> Procs \cup {None}]
        /\ call' \in [Procs -> OpenFiles \cup {None}]
        /\ file' = [f \in OpenFiles |-> [vnode |-> file'[f].vnode, offset |-> file'[f].offset]]
        /\ \A p \in Procs : call'[p] # None => \E fd \in Fds : fds[p][fd] = call'[p]
    BY DEF FilesInv
  <1> QED
    BY <1>1, <1>2, <1>3, SameTables, Zenon

\* Moving the offset of a file keeps every vnode.
LEMMA OffsetFacts ==
  ASSUME file = [g \in OpenFiles |-> [vnode |-> file[g].vnode, offset |-> file[g].offset]],
         NEW f \in OpenFiles, NEW n, file' = [file EXCEPT ![f].offset = n]
  PROVE  /\ \A g \in OpenFiles : file'[g].vnode = file[g].vnode
         /\ file' = [g \in OpenFiles |-> [vnode |-> file'[g].vnode, offset |-> file'[g].offset]]
  OBVIOUS

\* A read of a file and a write to the console move an offset.
LEMMA OffsetInv ==
  ASSUME FilesInv, NEW f \in OpenFiles, NEW n,
         file' = [file EXCEPT ![f].offset = n],
         UNCHANGED <<fds, lock, phase, call, parent, keys>>
  PROVE  FilesInv'
  <1>1. /\ \A g \in OpenFiles : file'[g].vnode = file[g].vnode
        /\ file' = [g \in OpenFiles |-> [vnode |-> file'[g].vnode, offset |-> file'[g].offset]]
    BY OffsetFacts, Zenon DEF FilesInv
  <1>2. LockExact'
    <2>1. \A p \in Procs : call[p] # None => file'[call[p]].vnode = file[call[p]].vnode
      BY <1>1 DEF FilesInv
    <2> QED
      BY <2>1, SameLocks, Zenon DEF FilesInv
  <1>3. FilesTypeOK'
    BY Zenon DEF FilesInv, FilesTypeOK
  <1>4. /\ lock' \in [OpenFiles -> Procs \cup {None}]
        /\ call' \in [Procs -> OpenFiles \cup {None}]
        /\ \A p \in Procs : call'[p] # None => \E fd \in Fds : fds[p][fd] = call'[p]
    BY Zenon DEF FilesInv
  <1> QED
    BY <1>1, <1>2, <1>3, <1>4, SameTables, Zenon

\* SYS_OPEN gives the caller a file nobody has.
LEMMA OpenInv ==
  ASSUME FilesInv, NEW p \in Procs, NEW name, Open(p, name)
  PROVE  FilesInv'
  <1> DEFINE free == {fd \in FirstFd..MaxFds - 1 : fds[p][fd] = None}
  <1>1. phase[p] = "user" /\ UNCHANGED <<lock, phase, call, parent, keys>>
    BY Zenon DEF Open, Active
  <1>2. PICK f \in Fresh :
          /\ file' = [file EXCEPT ![f] = [vnode |-> Lookup(dir, name), offset |-> 0]]
          /\ fds' = [fds EXCEPT ![p][Min(free)] = f]
    BY Zenon DEF Open
  <1>3. /\ f \in OpenFiles /\ lock[f] = None
        /\ \A q \in Procs, fd \in Fds : fds[q][fd] # f
        /\ \A q \in Procs : call[q] # f
    BY FreshFacts, Zenon
  <1> DEFINE at == Min(free)
  <1> HIDE DEF free, at
  <1>4. /\ fds' \in [Procs -> [Fds -> OpenFiles \cup {None}]]
        /\ \A q \in Procs, i \in Fds : fds'[q][i] = IF q = p /\ i = at THEN f ELSE fds[q][i]
        /\ \A q \in Procs : q # p => fds'[q] = fds[q]
    BY <1>2, <1>3, Zenon DEF FilesInv, FilesTypeOK, at
  <1>5. FilesTypeOK'
    BY <1>1, <1>4, Zenon DEF FilesInv, FilesTypeOK
  <1>6. LockExact'
    <2>1. \A q \in Procs : call[q] # None => file'[call[q]] = file[call[q]]
      BY <1>2, <1>3 DEF FilesInv
    <2> QED
      BY <1>1, <2>1, SameLocks, Zenon DEF FilesInv
  <1>7. file' = [g \in OpenFiles |-> [vnode |-> file'[g].vnode, offset |-> file'[g].offset]]
    BY <1>2, <1>3, Zenon DEF FilesInv
  <1>8. /\ lock' \in [OpenFiles -> Procs \cup {None}]
        /\ call' \in [Procs -> OpenFiles \cup {None}]
        /\ call[p] = None
    BY <1>1, Zenon DEF FilesInv, LockExact
  <1>9. \A q \in Procs : call'[q] # None => \E fd \in Fds : fds'[q][fd] = call'[q]
    <2>1. \A q \in Procs : call[q] # None => \E fd \in Fds : fds[q][fd] = call[q]
      BY Zenon DEF FilesInv
    <2> QED
      BY <1>1, <1>4, <1>8, <2>1
  <1>10. /\ \A q \in Procs, i \in Fds : fds'[q][i] \in {fds[q][i], None, f}
         /\ \A q, r \in Procs, i, j \in Fds :
              fds'[q][i] = f /\ fds'[r][j] = f /\ f # None => q = r
         /\ \A q \in Procs : phase[q] = "none" => fds'[q] = fds[q]
    BY <1>1, <1>3, <1>4
  <1> QED
    BY <1>1, <1>3, <1>5, <1>6, <1>7, <1>8, <1>9, <1>10, OwnStep, Zenon

\* SYS_CLOSE takes a file from the caller's table, never while it reads.
LEMMA CloseInv ==
  ASSUME FilesInv, NEW p \in Procs, NEW fd \in Fds, Close(p, fd)
  PROVE  FilesInv'
  <1>1. /\ phase[p] = "user" /\ fds' = [fds EXCEPT ![p][fd] = None]
        /\ UNCHANGED <<file, lock, phase, call, parent, keys>>
    BY Zenon DEF Close, Active
  <1>2. /\ fds' \in [Procs -> [Fds -> OpenFiles \cup {None}]]
        /\ \A q \in Procs, i \in Fds : fds'[q][i] = IF q = p /\ i = fd THEN None ELSE fds[q][i]
        /\ \A q \in Procs : q # p => fds'[q] = fds[q]
    BY <1>1 DEF FilesInv, FilesTypeOK
  <1>3. FilesTypeOK'
    BY <1>1, <1>2, Zenon DEF FilesInv, FilesTypeOK
  <1>4. LockExact'
    BY <1>1, SameLocks, Zenon DEF FilesInv
  <1>5. /\ lock' \in [OpenFiles -> Procs \cup {None}]
        /\ call' \in [Procs -> OpenFiles \cup {None}]
        /\ file' = [f \in OpenFiles |-> [vnode |-> file'[f].vnode, offset |-> file'[f].offset]]
        /\ call[p] = None
    BY <1>1 DEF FilesInv, LockExact
  <1>6. \A q \in Procs : call'[q] # None => \E i \in Fds : fds'[q][i] = call'[q]
    <2>1. \A q \in Procs : call[q] # None => \E i \in Fds : fds[q][i] = call[q]
      BY Zenon DEF FilesInv
    <2> QED
      BY <1>1, <1>2, <1>5, <2>1
  <1>7. PICK fresh : fresh \notin OpenFiles \cup {None}
    BY NoSetContainsEverything, Zenon
  <1>8. /\ \A q \in Procs, i \in Fds : fds[q][i] # fresh
        /\ \A q \in Procs, i \in Fds : fds'[q][i] # fresh
    BY <1>2, <1>7 DEF FilesInv, FilesTypeOK
  <1>9. /\ \A q \in Procs, i \in Fds : fds'[q][i] \in {fds[q][i], None, fresh}
        /\ \A q, r \in Procs, i, j \in Fds :
             fds'[q][i] = fresh /\ fds'[r][j] = fresh /\ fresh # None => q = r
        /\ \A q \in Procs : phase[q] = "none" => fds'[q] = fds[q]
    BY <1>1, <1>2, <1>8
  <1> QED
    BY <1>1, <1>3, <1>4, <1>5, <1>6, <1>8, <1>9, OwnStep, Zenon

\* A reader of the console takes a lock that is free.
LEMMA ReadConsoleInv ==
  ASSUME FilesInv, NEW p \in Procs, NEW fd \in Fds, ReadConsole(p, fd)
  PROVE  FilesInv'
  <1> DEFINE f == fds[p][fd]
  <1>1. /\ phase[p] = "user" /\ f # None /\ lock[f] = None /\ file[f].vnode = Console
        /\ lock' = [lock EXCEPT ![f] = p] /\ call' = [call EXCEPT ![p] = f]
        /\ phase' = [phase EXCEPT ![p] = "reading"]
        /\ UNCHANGED <<fds, file, parent, keys>>
    BY Zenon DEF ReadConsole, Active, Available
  <1>2. f \in OpenFiles
    BY <1>1 DEF FilesInv, FilesTypeOK
  <1>3. /\ FilesTypeOK'
        /\ lock' \in [OpenFiles -> Procs \cup {None}]
        /\ call' \in [Procs -> OpenFiles \cup {None}]
        /\ file' = [g \in OpenFiles |-> [vnode |-> file'[g].vnode, offset |-> file'[g].offset]]
    BY <1>1, <1>2, Zenon DEF FilesInv, FilesTypeOK
  <1>4. /\ \A q \in Procs : phase'[q] = IF q = p THEN "reading" ELSE phase[q]
        /\ \A q \in Procs : call'[q] = IF q = p THEN f ELSE call[q]
        /\ \A g \in OpenFiles : lock'[g] = IF g = f THEN p ELSE lock[g]
    BY <1>1, <1>2 DEF FilesInv, FilesTypeOK
  <1>5. LockExact'
    <2>1. LockExact /\ call[p] = None
      BY <1>1, Zenon DEF FilesInv, LockExact
    <2>2. \A q \in Procs : call[q] # f
      BY <1>1, <1>2, <2>1, FilesAssumption DEF LockExact
    <2>3. \A g \in OpenFiles, q \in Procs : lock'[g] = q <=> call'[q] = g
      BY <1>2, <1>4, <2>1, <2>2, FilesAssumption DEF LockExact
    <2>4. \A q \in Procs : call'[q] # None <=> phase'[q] \in {"reading", "got"}
      BY <1>1, <1>4, <2>1 DEF LockExact
    <2>5. \A q \in Procs : call'[q] # None => file'[call'[q]].vnode = Console
      BY <1>1, <1>4, <2>1 DEF LockExact
    <2> QED
      BY <2>3, <2>4, <2>5, Zenon DEF LockExact
  <1>6. \A q \in Procs : call'[q] # None => \E i \in Fds : fds[q][i] = call'[q]
    BY <1>4 DEF FilesInv
  <1>7. /\ \A q \in Procs : phase'[q] = "none" <=> phase[q] = "none"
        /\ \A q \in Procs : phase'[q] = "waiting" <=> phase[q] = "waiting"
    BY <1>1, <1>4
  <1> QED
    BY <1>1, <1>3, <1>5, <1>6, <1>7, SameTables, Zenon

\* The read returns and releases its own lock.
LEMMA ReturnKeyInv ==
  ASSUME FilesInv, NEW p \in Procs, ReturnKey(p)
  PROVE  FilesInv'
  <1> DEFINE f == call[p]
  <1>1. /\ phase[p] = "got"
        /\ lock' = [lock EXCEPT ![f] = None] /\ call' = [call EXCEPT ![p] = None]
        /\ phase' = [phase EXCEPT ![p] = "user"]
        /\ UNCHANGED <<fds, parent, keys>>
        /\ \E n \in 1..MaxLen : file' = [file EXCEPT ![f].offset = Counted(@ + n)]
    BY Zenon DEF ReturnKey
  <1>2. f \in OpenFiles /\ LockExact
    <2>1. LockExact /\ call[p] \in OpenFiles \cup {None}
      BY Zenon DEF FilesInv
    <2>2. call[p] # None
      BY <1>1, <2>1, Zenon DEF LockExact
    <2> QED
      BY <2>1, <2>2, Zenon
  <1>3. PICK n : file' = [file EXCEPT ![f].offset = n]
    BY <1>1, Zenon
  <1>4. /\ \A g \in OpenFiles : file'[g].vnode = file[g].vnode
        /\ file' = [g \in OpenFiles |-> [vnode |-> file'[g].vnode, offset |-> file'[g].offset]]
    BY <1>2, <1>3, OffsetFacts, Zenon DEF FilesInv
  <1>5. /\ FilesTypeOK'
        /\ lock' \in [OpenFiles -> Procs \cup {None}]
        /\ call' \in [Procs -> OpenFiles \cup {None}]
    BY <1>1, <1>2, Zenon DEF FilesInv, FilesTypeOK
  <1>6. /\ \A q \in Procs : phase'[q] = IF q = p THEN "user" ELSE phase[q]
        /\ \A q \in Procs : call'[q] = IF q = p THEN None ELSE call[q]
        /\ \A g \in OpenFiles : lock'[g] = IF g = f THEN None ELSE lock[g]
        /\ \A q \in Procs : call[q] \in OpenFiles \cup {None}
    BY <1>1, <1>2 DEF FilesInv, FilesTypeOK
  <1>7. LockExact'
    <2>1. \A q \in Procs : q # p => call[q] # f
      BY <1>2 DEF LockExact
    <2>2. \A g \in OpenFiles, q \in Procs : lock'[g] = q <=> call'[q] = g
      BY <1>2, <1>6, <2>1, FilesAssumption DEF LockExact
    <2>3. \A q \in Procs : call'[q] # None <=> phase'[q] \in {"reading", "got"}
      BY <1>2, <1>6, Zenon DEF LockExact
    <2>4. \A q \in Procs : call'[q] # None => file'[call'[q]].vnode = Console
      BY <1>2, <1>4, <1>6 DEF LockExact
    <2> QED
      BY <2>2, <2>3, <2>4, Zenon DEF LockExact
  <1>8. \A q \in Procs : call'[q] # None => \E i \in Fds : fds[q][i] = call'[q]
    BY <1>6 DEF FilesInv
  <1>9. /\ \A q \in Procs : phase'[q] = "none" <=> phase[q] = "none"
        /\ \A q \in Procs : phase'[q] = "waiting" <=> phase[q] = "waiting"
    BY <1>1, <1>6
  <1> QED
    BY <1>1, <1>4, <1>5, <1>7, <1>8, <1>9, SameTables, Zenon

----------------------------------------------------------------------------
(* The theorems. *)

\* Before the first process there is no family, no open file and no lock.
LEMMA FilesInitInv ==
  ASSUME FilesInit
  PROVE  FilesInv
  <1> USE DEF FilesInit
  <1>1. FilesTypeOK
    BY FilesAssumption DEF FilesTypeOK, NoFds
  <1>2. LockExact
    BY FilesAssumption, Zenon DEF LockExact
  <1>3. FamiliesOK({})
    BY Zenon DEF FamiliesOK
  <1>4. {} \in SUBSET SUBSET Procs
    OBVIOUS
  <1> QED
    BY <1>1, <1>2, <1>3, <1>4, Zenon DEF FilesInv

\* Every step keeps the inductive invariant.
LEMMA FilesNextInv ==
  ASSUME FilesInv, [FilesNext]_filesVars
  PROVE  FilesInv'
  <1>1. ASSUME NEW p \in Procs, Launch(p) \/ Reap(p) \/ ReturnKey(p)
        PROVE  FilesInv'
    BY <1>1, LaunchInv, ReapInv, ReturnKeyInv, Zenon
  <1>2. ASSUME NEW q \in Procs, NEW p \in Procs, Exec(q, p)
        PROVE  FilesInv'
    BY <1>2, ExecInv, Zenon
  <1>3. ASSUME NEW p \in Procs, ExitProcess(p)
        PROVE  FilesInv'
    <2>1. /\ phase' \in [Procs -> {"none", "user", "reading", "got", "waiting", "zombie"}]
          /\ phase[p] = "user"
          /\ \A q \in Procs : phase'[q] = IF q = p THEN "zombie" ELSE phase[q]
          /\ UNCHANGED <<fds, file, lock, call, parent, keys>>
      BY <1>3, Zenon DEF ExitProcess, Active, FilesInv, FilesTypeOK
    <2>2. FilesTypeOK'
      BY <2>1, Zenon DEF FilesInv, FilesTypeOK
    <2> QED
      BY <2>1, <2>2, PhaseInv, Zenon
  <1>4. ASSUME NEW p \in Procs, NEW name, Open(p, name)
        PROVE  FilesInv'
    BY <1>4, OpenInv, Zenon
  <1>5. ASSUME NEW p \in Procs, NEW fd \in Fds, Close(p, fd) \/ ReadConsole(p, fd)
        PROVE  FilesInv'
    BY <1>5, CloseInv, ReadConsoleInv, Zenon
  <1>6. ASSUME NEW p \in Procs, NEW fd \in Fds, NEW len, ReadFile(p, fd, len) \/ Write(p, fd, len)
        PROVE  FilesInv'
    <2> DEFINE f == fds[p][fd]
    <2>1. /\ f # None /\ UNCHANGED <<fds, lock, phase, call, parent, keys>>
          /\ \E n : file' = [file EXCEPT ![f].offset = n]
      BY <1>6, Zenon DEF ReadFile, Write, Available
    <2>2. f \in OpenFiles
      BY <2>1 DEF FilesInv, FilesTypeOK
    <2> QED
      BY <2>1, <2>2, OffsetInv, Zenon
  <1>7. ASSUME NEW p \in Procs, TakeKey(p)
        PROVE  FilesInv'
    <2>1. /\ phase' \in [Procs -> {"none", "user", "reading", "got", "waiting", "zombie"}]
          /\ phase[p] = "reading"
          /\ \A q \in Procs : phase'[q] = phase[q] \/ (q = p /\ phase'[q] = "got")
          /\ UNCHANGED <<fds, file, lock, call, parent>>
      BY <1>7 DEF TakeKey, FilesInv, FilesTypeOK
    <2>2. keys' \in 0..MaxKeys
      BY <1>7, FilesAssumption DEF TakeKey, FilesInv, FilesTypeOK
    <2>3. FilesTypeOK'
      BY <2>1, <2>2, Zenon DEF FilesInv, FilesTypeOK
    <2> QED
      BY <2>1, <2>3, PhaseInv, Zenon
  <1>8. ASSUME KeyPressed \/ UNCHANGED filesVars
        PROVE  FilesInv'
    <2>1. UNCHANGED <<fds, file, lock, phase, call, parent>>
      BY <1>8, Zenon DEF KeyPressed, filesVars
    <2>2. keys' \in 0..MaxKeys
      BY <1>8, FilesAssumption DEF KeyPressed, filesVars, FilesInv, FilesTypeOK
    <2>3. FilesTypeOK'
      BY <2>1, <2>2, Zenon DEF FilesInv, FilesTypeOK
    <2> QED
      BY <2>1, <2>3, PhaseInv, Zenon
  <1> QED
    BY <1>1, <1>2, <1>3, <1>4, <1>5, <1>6, <1>7, <1>8, Zenon DEF FilesNext

\* The inductive invariant holds in every reachable state.
THEOREM FilesInvariant == FilesSpec => []FilesInv
  <1>1. FilesInit => FilesInv
    BY FilesInitInv, Zenon
  <1>2. FilesInv /\ [FilesNext]_filesVars => FilesInv'
    BY FilesNextInv, Zenon
  <1> QED
    BY <1>1, <1>2, PTL DEF FilesSpec

\* The lock of an OpenFile is held exactly while its holder is inside a read of the
\* console, and such a file is neither dropped nor reused under the sleeping reader.
THEOREM LockTheorem == FilesSpec => []LockExact
  <1>1. FilesInv => LockExact
    BY Zenon DEF FilesInv
  <1> QED
    BY <1>1, FilesInvariant, PTL

\* No SYS_READ and no SYS_WRITE ever finds the lock of an open file taken: with any
\* number of processes that share consoles, none spins with interrupts disabled.
THEOREM NoSpinTheorem == FilesSpec => []NoSpin
  <1>1. FilesInv => NoSpin
    BY InvNoSpin, Zenon
  <1> QED
    BY <1>1, FilesInvariant, PTL

----------------------------------------------------------------------------
(* What a file reads. *)

\* A stretch of n elements, after the first a.
LEMMA StretchFacts ==
  ASSUME NEW S, NEW s \in Seq(S), NEW a \in Nat, NEW n \in Nat, a + n <= Len(s)
  PROVE  /\ SubSeq(s, a + 1, a + n) \in Seq(S)
         /\ Len(SubSeq(s, a + 1, a + n)) = n
         /\ \A k \in 1..n : SubSeq(s, a + 1, a + n)[k] = s[a + k]
  <1>1. Len(s) \in Nat /\ \A i \in 1..Len(s) : s[i] \in S
    BY LenProperties, ElementOfSeq
  <1>2. \A i \in a + 1..a + n : s[i] \in S
    BY <1>1
  <1>3. a + 1 \in Int /\ a + n \in Int
    OBVIOUS
  <1>4. /\ SubSeq(s, a + 1, a + n) \in Seq(S)
        /\ Len(SubSeq(s, a + 1, a + n)) = IF a + 1 <= a + n THEN a + n - (a + 1) + 1 ELSE 0
        /\ \A i \in 1..(a + n - (a + 1) + 1) :
             SubSeq(s, a + 1, a + n)[i] = s[a + 1 + i - 1]
    BY <1>2, <1>3, SubSeqProperties
  <1>5. (IF a + 1 <= a + n THEN a + n - (a + 1) + 1 ELSE 0) = n /\ a + n - (a + 1) + 1 = n
    OBVIOUS
  <1>6. \A k \in 1..n : a + 1 + k - 1 = a + k
    OBVIOUS
  <1> QED
    BY <1>4, <1>5, <1>6

\* TarVnode::read counts the bytes that are left and fit the buffer.
LEMMA BytesReadFacts ==
  ASSUME NEW v, v.size \in Nat, NEW offset \in Nat, offset <= v.size, NEW len \in Nat
  PROVE  /\ BytesRead(v, offset, len) \in Nat
         /\ offset + BytesRead(v, offset, len) <= v.size
         /\ Min({offset + len, v.size}) = offset + BytesRead(v, offset, len)
  <1> DEFINE size == v.size
  <1>1. size \in Nat /\ offset <= size
    OBVIOUS
  <1>2. BytesRead(v, offset, len) = IF offset >= size THEN 0
                                    ELSE IF len < size - offset THEN len ELSE size - offset
    BY Zenon DEF BytesRead
  <1> HIDE DEF size
  <1>3. \A x, y \in Nat : Min({x, y}) = IF x <= y THEN x ELSE y
    BY DEF Min
  <1>4. Min({offset + len, size}) = IF offset + len <= size THEN offset + len ELSE size
    BY <1>1, <1>3
  <1>5. /\ BytesRead(v, offset, len) \in Nat
        /\ offset + BytesRead(v, offset, len) <= size
        /\ Min({offset + len, size}) = offset + BytesRead(v, offset, len)
    BY <1>1, <1>2, <1>4
  <1> QED
    BY <1>5, Zenon DEF size

\* TarVnode::read of a vnode whose data is in the image returns the data from the
\* offset on, as much as the buffer takes and the file has.
LEMMA ReadAtFacts ==
  ASSUME NEW tar, NEW v, NEW data, Holds(tar, v, data),
         NEW offset \in Nat, offset <= Len(data), NEW len \in Nat
  PROVE  ReadAt(tar, v, offset, len) = DataAt(data, offset, len)
  <1>1. PICK from : from = v.data
    BY Zenon
  <1>2. /\ tar \in Seq(Bytes) /\ data \in Seq(Bytes)
        /\ from \in Nat /\ from + Len(data) <= Len(tar)
        /\ \A k \in 1..Len(data) : tar[from + k] = data[k]
    BY <1>1, Zenon DEF Holds
  <1>3. Len(data) \in Nat /\ Len(tar) \in Nat
    BY <1>2, LenProperties, Zenon
  <1> DEFINE n == BytesRead(v, offset, len)
  <1>4. n \in Nat /\ offset + n <= Len(data) /\ Min({offset + len, Len(data)}) = offset + n
    <2>1. v.size = Len(data)
      BY Zenon DEF Holds
    <2>2. /\ n \in Nat /\ offset + n <= v.size
          /\ Min({offset + len, v.size}) = offset + n
      BY <1>3, <2>1, BytesReadFacts, Zenon
    <2> QED
      BY <2>1, <2>2, Zenon
  <1>5. ReadAt(tar, v, offset, len) = SubSeq(tar, from + offset + 1, from + offset + n)
    BY <1>1, Zenon DEF ReadAt
  <1> HIDE DEF n
  <1>6. from + offset \in Nat /\ from + offset + n <= Len(tar)
    BY <1>2, <1>3, <1>4
  <1> DEFINE got == SubSeq(tar, from + offset + 1, from + offset + n)
             due == SubSeq(data, offset + 1, offset + n)
  <1>7. /\ got \in Seq(Bytes) /\ Len(got) = n
        /\ \A k \in 1..n : got[k] = tar[from + offset + k]
    BY <1>2, <1>4, <1>6, StretchFacts
  <1>8. /\ due \in Seq(Bytes) /\ Len(due) = n
        /\ \A k \in 1..n : due[k] = data[offset + k]
    BY <1>2, <1>4, StretchFacts
  <1> HIDE DEF got, due
  <1>9. \A k \in 1..n : tar[from + offset + k] = data[offset + k]
    <2> SUFFICES ASSUME NEW k \in 1..n
                 PROVE  tar[from + offset + k] = data[offset + k]
      OBVIOUS
    <2>1. offset + k \in 1..Len(data) /\ from + offset + k = from + (offset + k)
      BY <1>2, <1>3, <1>4
    <2> QED
      BY <1>2, <2>1
  <1>10. got = due
    <2>1. Len(got) = Len(due) /\ \A k \in 1..Len(got) : got[k] = due[k]
      BY <1>7, <1>8, <1>9, Zenon
    <2> QED
      BY <1>7, <1>8, <2>1, SeqEqual
  <1> QED
    BY <1>4, <1>5, <1>10, Zenon DEF got, due, DataAt

----------------------------------------------------------------------------
(* Which files are open. *)

\* An open file is in somebody's table.
LEMMA TableFacts ==
  ASSUME FilesInv, NEW f
  PROVE  f \in Referenced \ {None} <=>
           f \in OpenFiles /\ \E p \in Procs, fd \in Fds : fds[p][fd] = f
  <1>1. /\ \A p \in Procs : fds[p] \in [Fds -> OpenFiles \cup {None}]
        /\ call \in [Procs -> OpenFiles \cup {None}]
        /\ \A p \in Procs : call[p] # None => \E fd \in Fds : fds[p][fd] = call[p]
    BY DEF FilesInv, FilesTypeOK
  <1>2. f \in Range(call) <=> \E p \in Procs : call[p] = f
    <2>1. DOMAIN call = Procs
      BY <1>1
    <2> QED
      BY <2>1, Zenon DEF Range
  <1>3. \A p \in Procs : f \in Range(fds[p]) <=> \E fd \in Fds : fds[p][fd] = f
    <2>1. \A p \in Procs : DOMAIN fds[p] = Fds
      BY <1>1
    <2> QED
      BY <2>1, Zenon DEF Range
  <1>4. f \in Referenced <=> (\E p \in Procs : f \in Range(fds[p])) \/ f \in Range(call)
    BY Zenon DEF Referenced
  <1>5. \A p \in Procs, fd \in Fds : fds[p][fd] \in OpenFiles \/ fds[p][fd] = None
    BY <1>1
  <1>6. None \notin OpenFiles
    BY FilesAssumption, Zenon
  <1>7. ASSUME f \in Referenced \ {None}
        PROVE  \E p \in Procs, fd \in Fds : fds[p][fd] = f
    BY <1>1, <1>2, <1>3, <1>4, <1>7, Zenon
  <1>8. ASSUME NEW p \in Procs, NEW fd \in Fds, fds[p][fd] = f
        PROVE  f \in Referenced
    BY <1>3, <1>4, <1>8, Zenon
  <1> QED
    BY <1>5, <1>6, <1>7, <1>8, Zenon

\* The same after a step.
LEMMA TableFactsNext ==
  ASSUME FilesInv', NEW f
  PROVE  f \in Referenced' \ {None} <=>
           f \in OpenFiles /\ \E p \in Procs, fd \in Fds : fds'[p][fd] = f
  <1>1. /\ \A p \in Procs : fds'[p] \in [Fds -> OpenFiles \cup {None}]
        /\ call' \in [Procs -> OpenFiles \cup {None}]
        /\ \A p \in Procs : call'[p] # None => \E fd \in Fds : fds'[p][fd] = call'[p]
    BY DEF FilesInv, FilesTypeOK
  <1>2. f \in Range(call') <=> \E p \in Procs : call'[p] = f
    <2>1. DOMAIN call' = Procs
      BY <1>1
    <2> QED
      BY <2>1, Zenon DEF Range
  <1>3. \A p \in Procs : f \in Range(fds'[p]) <=> \E fd \in Fds : fds'[p][fd] = f
    <2>1. \A p \in Procs : DOMAIN fds'[p] = Fds
      BY <1>1
    <2> QED
      BY <2>1, Zenon DEF Range
  <1>4. f \in Referenced' <=> (\E p \in Procs : f \in Range(fds'[p])) \/ f \in Range(call')
    BY Zenon DEF Referenced
  <1>5. \A p \in Procs, fd \in Fds : fds'[p][fd] \in OpenFiles \/ fds'[p][fd] = None
    BY <1>1
  <1>6. None \notin OpenFiles
    BY FilesAssumption, Zenon
  <1>7. ASSUME f \in Referenced' \ {None}
        PROVE  \E p \in Procs, fd \in Fds : fds'[p][fd] = f
    BY <1>1, <1>2, <1>3, <1>4, <1>7, Zenon
  <1>8. ASSUME NEW p \in Procs, NEW fd \in Fds, fds'[p][fd] = f
        PROVE  f \in Referenced'
    BY <1>3, <1>4, <1>8, Zenon
  <1> QED
    BY <1>5, <1>6, <1>7, <1>8, Zenon

\* What the steps have in common: the archive stays, and the files that are open
\* afterwards are at a place within their data.
LEMMA FilesAtPlace ==
  ASSUME ArchiveInv, FilesInv', UNCHANGED rootVars,
         \A f \in OpenFiles : file'[f].offset \in Nat,
         \A p \in Procs, fd \in Fds :
           LET f == fds'[p][fd]
           IN f # None /\ file'[f].vnode # Console =>
                /\ file'[f].vnode \in DOMAIN members
                /\ file'[f].offset <= Len(members[file'[f].vnode].data)
  PROVE  ArchiveInv'
  <1>1. members' = members /\ image' = image /\ dir' = dir
    BY Zenon DEF rootVars
  <1>2. ASSUME NEW f, f \in Referenced' \ {None}, file'[f].vnode # Console
        PROVE  /\ file'[f].vnode \in DOMAIN members
               /\ file'[f].offset <= Len(members[file'[f].vnode].data)
    <2>1. PICK p \in Procs, fd \in Fds : fds'[p][fd] = f
      BY <1>2, TableFactsNext, Zenon
    <2>2. fds'[p][fd] # None /\ file'[fds'[p][fd]].vnode # Console
      BY <1>2, <2>1, Zenon
    <2>3. /\ file'[fds'[p][fd]].vnode \in DOMAIN members
          /\ file'[fds'[p][fd]].offset <= Len(members[file'[fds'[p][fd]].vnode].data)
      BY <2>2, Zenon
    <2> QED
      BY <2>1, <2>3, Zenon
  <1> QED
    BY <1>1, <1>2, Zenon DEF ArchiveInv

\* A descriptor in use has an open file.
LEMMA FdTypes ==
  ASSUME ArchiveInv, NEW p \in Procs, NEW fd \in Fds, fds[p][fd] # None
  PROVE  fds[p][fd] \in OpenFiles
  BY DEF ArchiveInv, FilesInv, FilesTypeOK

\* Every file in a table is at a place within its data.
LEMMA PlaceFacts ==
  ASSUME ArchiveInv, NEW p \in Procs, NEW fd \in Fds, fds[p][fd] # None,
         file[fds[p][fd]].vnode # Console
  PROVE  /\ file[fds[p][fd]].vnode \in DOMAIN members
         /\ file[fds[p][fd]].offset <= Len(members[file[fds[p][fd]].vnode].data)
  <1>1. fds[p][fd] \in OpenFiles
    BY FdTypes, Zenon
  <1>2. fds[p][fd] \in Referenced \ {None}
    BY <1>1, TableFacts, Zenon DEF ArchiveInv
  <1> QED
    BY <1>2, Zenon DEF ArchiveInv

\* A step that opens no file and moves none keeps every file at its place.
LEMMA NoMove ==
  ASSUME ArchiveInv, FilesInv', UNCHANGED <<rootVars, file>>,
         \A p \in Procs, fd \in Fds :
           fds'[p][fd] # None => \E q \in Procs, i \in Fds : fds'[p][fd] = fds[q][i]
  PROVE  ArchiveInv'
  <1>1. \A f \in OpenFiles : file'[f].offset \in Nat
    BY Zenon DEF ArchiveInv
  <1>2. ASSUME NEW p \in Procs, NEW fd \in Fds, fds'[p][fd] # None,
               file'[fds'[p][fd]].vnode # Console
        PROVE  /\ file'[fds'[p][fd]].vnode \in DOMAIN members
               /\ file'[fds'[p][fd]].offset <= Len(members[file'[fds'[p][fd]].vnode].data)
    <2>1. PICK q \in Procs, i \in Fds : fds'[p][fd] = fds[q][i]
      BY <1>2, Zenon
    <2>2. fds[q][i] # None /\ file[fds[q][i]].vnode # Console
      BY <1>2, <2>1, Zenon
    <2>3. /\ file[fds[q][i]].vnode \in DOMAIN members
          /\ file[fds[q][i]].offset <= Len(members[file[fds[q][i]].vnode].data)
      BY <2>2, PlaceFacts, Zenon
    <2> QED
      BY <2>1, <2>3, Zenon
  <1> QED
    BY <1>1, <1>2, FilesAtPlace, Zenon

\* SYS_OPEN and the launch of a process put one new file into tables, at its beginning.
LEMMA NewFile ==
  ASSUME ArchiveInv, FilesInv', UNCHANGED rootVars, NEW f \in Fresh, NEW vnode,
         file' = [file EXCEPT ![f] = [vnode |-> vnode, offset |-> 0]],
         vnode # Console => vnode \in DOMAIN members /\ Len(members[vnode].data) \in Nat,
         \A p \in Procs, fd \in Fds :
           fds'[p][fd] \notin {f, None} => \E q \in Procs, i \in Fds : fds'[p][fd] = fds[q][i]
  PROVE  ArchiveInv'
  <1>1. f \in OpenFiles /\ \A p \in Procs, fd \in Fds : fds[p][fd] # f
    BY FreshFacts, Zenon DEF ArchiveInv
  <1>2. \A g \in OpenFiles : file'[g] = IF g = f THEN [vnode |-> vnode, offset |-> 0] ELSE file[g]
    BY Zenon DEF ArchiveInv, FilesInv
  <1>3. file'[f].vnode = vnode /\ file'[f].offset = 0
    BY <1>1, <1>2
  <1>4. \A g \in OpenFiles : file'[g].offset \in Nat
    BY <1>2, <1>3 DEF ArchiveInv
  <1>5. ASSUME NEW p \in Procs, NEW fd \in Fds, fds'[p][fd] # None,
               file'[fds'[p][fd]].vnode # Console
        PROVE  /\ file'[fds'[p][fd]].vnode \in DOMAIN members
               /\ file'[fds'[p][fd]].offset <= Len(members[file'[fds'[p][fd]].vnode].data)
    <2>1. CASE fds'[p][fd] = f
      BY <1>3, <1>5, <2>1
    <2>2. CASE fds'[p][fd] # f
      <3>1. PICK q \in Procs, i \in Fds : fds'[p][fd] = fds[q][i]
        BY <1>5, <2>2, Zenon
      <3>2. fds[q][i] \in OpenFiles
        BY <1>5, <3>1, FdTypes, Zenon
      <3>3. file'[fds'[p][fd]] = file[fds[q][i]] /\ fds[q][i] # None
        BY <1>2, <1>5, <2>2, <3>1, <3>2, Zenon
      <3>4. file[fds[q][i]].vnode # Console
        BY <1>5, <3>3, Zenon
      <3>5. /\ file[fds[q][i]].vnode \in DOMAIN members
            /\ file[fds[q][i]].offset <= Len(members[file[fds[q][i]].vnode].data)
        BY <3>3, <3>4, PlaceFacts, Zenon
      <3> QED
        BY <3>3, <3>5, Zenon
    <2> QED
      BY <2>1, <2>2, Zenon
  <1> QED
    BY <1>4, <1>5, FilesAtPlace, Zenon

\* A step that only moves one file, to a place within its data if it is not a console.
LEMMA Moved ==
  ASSUME ArchiveInv, FilesInv', UNCHANGED <<rootVars, fds>>, NEW f \in OpenFiles, NEW n \in Nat,
         file' = [file EXCEPT ![f].offset = n],
         file[f].vnode # Console => n <= Len(members[file[f].vnode].data)
  PROVE  ArchiveInv'
  <1>1. file = [g \in OpenFiles |-> [vnode |-> file[g].vnode, offset |-> file[g].offset]]
    BY Zenon DEF ArchiveInv, FilesInv
  <1>2. \A g \in OpenFiles : /\ file'[g].vnode = file[g].vnode
                             /\ file'[g].offset = IF g = f THEN n ELSE file[g].offset
    BY <1>1
  <1>3. \A g \in OpenFiles : file'[g].offset \in Nat
    BY <1>2, Zenon DEF ArchiveInv
  <1>4. ASSUME NEW p \in Procs, NEW fd \in Fds, fds'[p][fd] # None,
               file'[fds'[p][fd]].vnode # Console
        PROVE  /\ file'[fds'[p][fd]].vnode \in DOMAIN members
               /\ file'[fds'[p][fd]].offset <= Len(members[file'[fds'[p][fd]].vnode].data)
    <2>1. fds[p][fd] \in OpenFiles /\ fds'[p][fd] = fds[p][fd]
      BY <1>4, FdTypes, Zenon
    <2>2. fds[p][fd] # None /\ file[fds[p][fd]].vnode # Console
      BY <1>2, <1>4, <2>1, Zenon
    <2>3. /\ file[fds[p][fd]].vnode \in DOMAIN members
          /\ file[fds[p][fd]].offset <= Len(members[file[fds[p][fd]].vnode].data)
      BY <2>2, PlaceFacts, Zenon
    <2> DEFINE g == fds[p][fd]
    <2>4. g \in OpenFiles /\ fds'[p][fd] = g /\ file[g].vnode # Console
      BY <2>1, <2>2, Zenon
    <2>5. file'[g].vnode = file[g].vnode /\ file'[g].offset \in {n, file[g].offset}
      BY <1>2, <2>4, Zenon
    <2>6. file'[g].offset = n => g = f \/ n = file[g].offset
      BY <1>2, <2>4, Zenon
    <2> HIDE DEF g
    <2> QED
      BY <2>3, <2>4, <2>5, <2>6, Zenon DEF g
  <1> QED
    BY <1>3, <1>4, FilesAtPlace, Zenon

----------------------------------------------------------------------------
(* Reading the archive. *)

\* What parse_tarball made of the archive in memory.
LEMMA DataFacts ==
  ASSUME \A ms \in Archives : Parsed(ms), ArchiveInv
  PROVE  /\ \A i \in DOMAIN members :
              /\ Lookup(dir, members[i].name) = i
              /\ ReadDir(dir, i) = <<[size |-> Len(members[i].data), name |-> members[i].name]>>
              /\ Holds(image, dir[i], members[i].data)
              /\ Len(members[i].data) \in Nat
         /\ ReadDir(dir, Len(members) + 1) = <<>>
  <1>1. Parsed(members) /\ image = Archive(members) /\ dir = ParseTarball(Archive(members))
    BY Zenon DEF ArchiveInv
  <1>2. \A i \in DOMAIN members : Holds(image, dir[i], members[i].data)
    BY <1>1, Zenon DEF Parsed
  <1>3. \A i \in DOMAIN members : Len(members[i].data) \in Nat
    BY <1>2, LenProperties, Zenon DEF Holds
  <1> QED
    BY <1>1, <1>2, <1>3, Zenon DEF Parsed

\* A table of tables with one entry changed.
LEMMA OneEntry ==
  ASSUME NEW S, NEW T, NEW V, NEW g \in [S -> [T -> V]], NEW h, NEW s \in S, NEW t, NEW x,
         h = [g EXCEPT ![s][t] = x]
  PROVE  \A q \in S, u \in T : h[q][u] = x \/ h[q][u] = g[q][u]
  OBVIOUS

\* An offset that moves forward stays a number.
LEMMA NatSum ==
  ASSUME NEW m \in Nat, NEW n \in Nat
  PROVE  m + n \in Nat
  OBVIOUS

\* A launch opens a console of its own.
LEMMA LaunchArchive ==
  ASSUME ArchiveInv, FilesInv', NEW p \in Procs, Launch(p)
  PROVE  ArchiveInv'
  <1>1. PICK f \in Fresh :
          /\ file' = [file EXCEPT ![f] = [vnode |-> Console, offset |-> 0]]
          /\ fds' = [fds EXCEPT ![p] = [fd \in Fds |-> IF fd < FirstFd THEN f ELSE None]]
    BY Zenon DEF Launch
  <1>2. \A q \in Procs, fd \in Fds : fds'[q][fd] \notin {f, None} => fds'[q][fd] = fds[q][fd]
    BY <1>1 DEF ArchiveInv, FilesInv, FilesTypeOK
  <1>3. UNCHANGED rootVars
    BY Zenon DEF Launch
  <1>4. \A q \in Procs, fd \in Fds :
          fds'[q][fd] \notin {f, None} => \E r \in Procs, i \in Fds : fds'[q][fd] = fds[r][i]
    BY <1>2, Zenon
  <1> QED
    BY <1>1, <1>3, <1>4, NewFile, Zenon

\* SYS_OPEN opens the member of the name, at its beginning.
LEMMA OpenArchive ==
  ASSUME \A ms \in Archives : Parsed(ms), ArchiveInv, FilesInv',
         NEW p \in Procs, NEW i \in DOMAIN members, Open(p, members[i].name)
  PROVE  ArchiveInv'
  <1>1. Lookup(dir, members[i].name) = i /\ Len(members[i].data) \in Nat
    BY DataFacts, Zenon
  <1> DEFINE at == Min({fd \in FirstFd..MaxFds - 1 : fds[p][fd] = None})
  <1>2. PICK f \in Fresh :
          /\ file' = [file EXCEPT ![f] = [vnode |-> i, offset |-> 0]]
          /\ fds' = [fds EXCEPT ![p][at] = f]
    BY <1>1, Zenon DEF Open
  <1> HIDE DEF at
  <1>3. \A q \in Procs, fd \in Fds : fds'[q][fd] \notin {f, None} => fds'[q][fd] = fds[q][fd]
    <2>1. fds \in [Procs -> [Fds -> OpenFiles \cup {None}]]
      BY Zenon DEF ArchiveInv, FilesInv, FilesTypeOK
    <2>2. \A q \in Procs, fd \in Fds : fds'[q][fd] = f \/ fds'[q][fd] = fds[q][fd]
      BY <1>2, <2>1, OneEntry, Zenon
    <2> QED
      BY <2>2, Zenon
  <1>4. UNCHANGED rootVars
    BY Zenon DEF Open
  <1>5. \A q \in Procs, fd \in Fds :
          fds'[q][fd] \notin {f, None} => \E r \in Procs, j \in Fds : fds'[q][fd] = fds[r][j]
    BY <1>3, Zenon
  <1> QED
    BY <1>1, <1>2, <1>4, <1>5, NewFile, Zenon

\* SYS_READ of a file moves it by the bytes it returns, and not past the end.
LEMMA ReadFileArchive ==
  ASSUME \A ms \in Archives : Parsed(ms), ArchiveInv, FilesInv',
         NEW p \in Procs, NEW fd \in Fds, NEW len \in 0..MaxLen, ReadFile(p, fd, len)
  PROVE  ArchiveInv'
  <1> DEFINE f == fds[p][fd]
             v == file[f].vnode
             n == BytesRead(dir[v], file[f].offset, len)
  <1>1. f # None /\ v # Console /\ UNCHANGED <<rootVars, fds>>
    BY Zenon DEF ReadFile, Available
  <1>2. f \in OpenFiles
    BY <1>1, FdTypes, Zenon
  <1>3. file[f].offset \in Nat /\ v \in DOMAIN members /\ file[f].offset <= Len(members[v].data)
    BY <1>1, <1>2, PlaceFacts, Zenon DEF ArchiveInv
  <1>4. dir[v].size = Len(members[v].data) /\ Len(members[v].data) \in Nat
    BY <1>3, DataFacts, Zenon DEF Holds
  <1>5. len \in Nat
    BY FilesAssumption
  <1>6. n \in Nat /\ file[f].offset + n <= Len(members[v].data)
    BY <1>3, <1>4, <1>5, BytesReadFacts, Zenon
  <1>7. file' = [file EXCEPT ![f].offset = file[f].offset + n]
    BY Zenon DEF ReadFile
  <1>8. file[f].offset + n \in Nat
    BY <1>3, <1>6, NatSum, Zenon
  <1> HIDE DEF n, v, f
  <1> QED
    BY <1>1, <1>2, <1>6, <1>7, <1>8, Moved, Zenon DEF v

\* The offset of a console is a number, whatever is written or read.
LEMMA CountedFacts ==
  ASSUME NEW n \in Nat
  PROVE  Counted(n) \in Nat
  <1>1. MaxOffset \in Nat
    BY FilesAssumption
  <1>2. Min({n, MaxOffset}) = IF n <= MaxOffset THEN n ELSE MaxOffset
    BY <1>1 DEF Min
  <1> QED
    BY <1>1, <1>2, Zenon DEF Counted

\* SYS_WRITE moves a console.
LEMMA WriteArchive ==
  ASSUME ArchiveInv, FilesInv', NEW p \in Procs, NEW fd \in Fds, NEW len \in 0..MaxLen,
         Write(p, fd, len)
  PROVE  ArchiveInv'
  <1> DEFINE f == fds[p][fd]
             n == Counted(file[f].offset + len)
  <1>1. /\ f # None /\ file[f].vnode = Console /\ UNCHANGED <<rootVars, fds>>
        /\ file' = [file EXCEPT ![f].offset = n]
    BY Zenon DEF Write, Available
  <1>2. f \in OpenFiles
    BY <1>1, FdTypes, Zenon
  <1>3. file[f].offset \in Nat
    BY <1>2, Zenon DEF ArchiveInv
  <1>4. file[f].offset + len \in Nat
    BY <1>3, FilesAssumption
  <1>5. n \in Nat
    BY <1>4, CountedFacts, Zenon
  <1> HIDE DEF n, f
  <1> QED
    BY <1>1, <1>2, <1>5, Moved, Zenon

\* A read of the console that returns moves the console it was called for.
LEMMA ReturnKeyArchive ==
  ASSUME ArchiveInv, FilesInv', NEW p \in Procs, ReturnKey(p)
  PROVE  ArchiveInv'
  <1> DEFINE f == call[p]
  <1>1. PICK m \in 1..MaxLen : file' = [file EXCEPT ![f].offset = Counted(file[f].offset + m)]
    BY Zenon DEF ReturnKey
  <1>2. phase[p] = "got" /\ UNCHANGED <<rootVars, fds>>
    BY Zenon DEF ReturnKey
  <1>3. f # None /\ file[f].vnode = Console
    BY <1>2 DEF ArchiveInv, FilesInv, LockExact
  <1>4. f \in OpenFiles
    BY <1>3 DEF ArchiveInv, FilesInv
  <1>5. file[f].offset \in Nat
    BY <1>4, Zenon DEF ArchiveInv
  <1>6. file[f].offset + m \in Nat
    BY <1>5, FilesAssumption
  <1>7. Counted(file[f].offset + m) \in Nat
    BY <1>6, CountedFacts, Zenon
  <1> HIDE DEF f
  <1> QED
    BY <1>1, <1>2, <1>3, <1>4, <1>7, Moved, Zenon

\* Every other step opens no file and moves none.
LEMMA ArchiveNextInv ==
  ASSUME \A ms \in Archives : Parsed(ms), ArchiveInv, [FilesNext]_filesVars
  PROVE  ArchiveInv'
  <1>1. FilesInv'
    BY FilesNextInv, Zenon DEF ArchiveInv
  <1> USE <1>1
  <1>2. fds \in [Procs -> [Fds -> OpenFiles \cup {None}]]
    BY Zenon DEF ArchiveInv, FilesInv, FilesTypeOK
  <1>3. ASSUME NEW p \in Procs, Launch(p) \/ ReturnKey(p)
        PROVE  ArchiveInv'
    BY <1>3, LaunchArchive, ReturnKeyArchive, Zenon
  <1>4. ASSUME NEW q \in Procs, NEW p \in Procs, Exec(q, p)
        PROVE  ArchiveInv'
    <2>1. UNCHANGED <<rootVars, file>> /\ fds' = [fds EXCEPT ![p] = fds[q]]
      BY <1>4, Zenon DEF Exec
    <2>2. \A r \in Procs, fd \in Fds : fds'[r][fd] = fds[r][fd] \/ fds'[r][fd] = fds[q][fd]
      BY <1>2, <2>1
    <2> QED
      BY <2>1, <2>2, NoMove, Zenon
  <1>5. ASSUME NEW p \in Procs, Reap(p)
        PROVE  ArchiveInv'
    <2>1. UNCHANGED <<rootVars, file>> /\ fds' = [fds EXCEPT ![p] = NoFds]
      BY <1>5, Zenon DEF Reap
    <2>2. \A r \in Procs, fd \in Fds : fds'[r][fd] = fds[r][fd] \/ fds'[r][fd] = None
      BY <1>2, <2>1 DEF NoFds
    <2> QED
      BY <2>1, <2>2, NoMove, Zenon
  <1>6. ASSUME NEW p \in Procs, NEW i \in DOMAIN members, Open(p, members[i].name)
        PROVE  ArchiveInv'
    BY <1>6, OpenArchive, Zenon
  <1>7. ASSUME NEW p \in Procs, NEW c \in Fds, Close(p, c)
        PROVE  ArchiveInv'
    <2>1. UNCHANGED <<rootVars, file>> /\ fds' = [fds EXCEPT ![p][c] = None]
      BY <1>7, Zenon DEF Close
    <2>2. \A r \in Procs, fd \in Fds : fds'[r][fd] = fds[r][fd] \/ fds'[r][fd] = None
      BY <1>2, <2>1
    <2> QED
      BY <2>1, <2>2, NoMove, Zenon
  <1>8. ASSUME NEW p \in Procs, NEW fd \in Fds, NEW len \in 0..MaxLen,
               ReadFile(p, fd, len) \/ Write(p, fd, len)
        PROVE  ArchiveInv'
    BY <1>8, ReadFileArchive, WriteArchive, Zenon
  <1>9. ASSUME UNCHANGED <<rootVars, file, fds>>
        PROVE  ArchiveInv'
    BY <1>9, NoMove, Zenon
  <1>10. ASSUME NEW p \in Procs,
                \/ ExitProcess(p) \/ TakeKey(p)
                \/ \E fd \in Fds : ReadConsole(p, fd)
         PROVE  ArchiveInv'
    BY <1>9, <1>10, Zenon DEF ExitProcess, TakeKey, ReadConsole
  <1>11. ASSUME KeyPressed \/ UNCHANGED filesVars
         PROVE  ArchiveInv'
    BY <1>9, <1>11, Zenon DEF KeyPressed, filesVars
  <1> QED
    BY <1>3, <1>4, <1>5, <1>6, <1>7, <1>8, <1>10, <1>11, Zenon DEF FilesNext

\* At the start no file is open.
LEMMA ArchiveInitInv ==
  ASSUME FilesInit
  PROVE  ArchiveInv
  <1>1. FilesInv
    BY FilesInitInv, Zenon
  <1>2. \A p \in Procs, fd \in Fds : fds[p][fd] = None
    BY DEF FilesInit, NoFds
  <1>3. \A f : f \notin Referenced \ {None}
    BY <1>1, <1>2, TableFacts, FilesAssumption, Zenon
  <1>4. \A f \in OpenFiles : file[f].offset \in Nat
    BY DEF FilesInit
  <1> QED
    BY <1>1, <1>3, <1>4, Zenon DEF ArchiveInv, FilesInit

\* In a state of the invariant, whoever reads next gets the member's data.
LEMMA InvReads ==
  ASSUME \A ms \in Archives : Parsed(ms), ArchiveInv
  PROVE  ReadsTheArchive
  <1>1. ASSUME NEW f \in Referenced \ {None}, file[f].vnode # Console, NEW len \in 0..MaxLen
        PROVE  ReadAt(image, dir[file[f].vnode], file[f].offset, len)
                 = DataAt(members[file[f].vnode].data, file[f].offset, len)
    <2> DEFINE v == file[f].vnode
               data == members[v].data
               offset == file[f].offset
    <2>1. f \in OpenFiles
      BY TableFacts, Zenon DEF ArchiveInv
    <2>2. v \in DOMAIN members /\ offset \in Nat /\ offset <= Len(data)
      BY <1>1, <2>1, Zenon DEF ArchiveInv
    <2>3. Holds(image, dir[v], data)
      BY <2>2, DataFacts, Zenon
    <2>4. len \in Nat
      BY FilesAssumption
    <2> HIDE DEF v, data, offset
    <2>5. ReadAt(image, dir[v], offset, len) = DataAt(data, offset, len)
      BY <2>2, <2>3, <2>4, ReadAtFacts
    <2> QED
      BY <2>5, Zenon DEF v, data, offset
  <1>2. FilesTypeOK
    BY Zenon DEF ArchiveInv, FilesInv
  <1> QED
    BY <1>1, <1>2, DataFacts, Zenon DEF ReadsTheArchive

\* Whoever reads a file, of the processes that share it, and with whatever buffer, gets
\* the member's data from the offset on and nothing past the end, provided that
\* parse_tarball finds the members of every archive the kernel may be given.
THEOREM ReadTheorem ==
  ASSUME \A ms \in Archives : Parsed(ms)
  PROVE  FilesSpec => []ReadsTheArchive
  <1>1. FilesInit => ArchiveInv
    BY ArchiveInitInv, Zenon
  <1>2. ArchiveInv /\ [FilesNext]_filesVars => ArchiveInv'
    BY ArchiveNextInv, Zenon
  <1>3. ArchiveInv => ReadsTheArchive
    BY InvReads, Zenon
  <1> QED
    BY <1>1, <1>2, <1>3, PTL DEF FilesSpec

=============================================================================

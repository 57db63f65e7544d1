------------------------------ MODULE MCFiles -------------------------------
(* A small instance of Files. *)
EXTENDS Files, TLC

CONSTANTS a, b, c, f1, f2, f3

SomeProcs == {a, b, c}
SomeFiles == {f1, f2, f3}

\* A file of a whole number of blocks before another, and an empty one before one.
SomeArchives ==
  {<<[name |-> <<97>>, data |-> <<1, 0, 2, 48>>], [name |-> <<98>>, data |-> <<5>>]>>,
   <<[name |-> <<97>>, data |-> <<>>], [name |-> <<98>>, data |-> <<7, 8>>]>>}

\* parse_tarball makes of them what the proofs about reads assume.
ASSUME ParsedBack == \A ms \in SomeArchives : Parsed(ms)

\* Nobody sees a file that no table and no call refers to.
Live == <<members, fds, [f \in Referenced \ {None} |-> file[f]], lock, phase, call, parent, keys>>

Interchangeable == Permutations(SomeProcs) \cup Permutations(SomeFiles)

=============================================================================

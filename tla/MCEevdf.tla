------------------------------ MODULE MCEevdf ------------------------------
(* The scheduling policy for TLC. *)
EXTENDS Eevdf, TLC

Symmetry == Permutations(Nodes)

\* The keys of a node outside the tree and the fields of a thread that is gone
\* are dead: they are written before they are read again.
Live ==
  <<t, members, started, current, systemRuntime, totalWeight, minDeadline,
    [n \in members |-> <<vruntime[n], deadline[n]>>],
    [n \in {m \in Nodes : minDeadline[m] # Nil} |-> thread[n]]>>

=============================================================================

------------------------------- MODULE MCSync -------------------------------
(* Three threads besides idle, and interrupt handlers, share a mutex and a   *)
(* mailbox.                                                                  *)
EXTENDS Sync, TLC

CONSTANTS t1, t2, t3

Symmetry == Permutations({t1, t2, t3})

=============================================================================

------------------------------- MODULE MCBuddy ------------------------------
(* A machine with more than 128 MiB, for Buddy. *)
EXTENDS Buddy

\* Eight frames at 1 MiB and eight above 128 MiB.
FarRegions == <<<<256, 264>>, <<32896, 32904>>>>

=============================================================================

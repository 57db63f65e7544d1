---------------------------- MODULE MCInterrupts ----------------------------
(* Interrupts for model checking. *)
EXTENDS Interrupts, TLC

CONSTANTS u1, u2, m, idle

MCUsers == {u1, u2}

\* The code keeps the lock discipline.
ASSUME LockDiscipline == Disciplined

Symmetry == Permutations(MCUsers)

=============================================================================

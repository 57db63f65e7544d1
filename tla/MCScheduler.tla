---------------------------- MODULE MCScheduler ----------------------------
(* The scheduler and its arena with three threads besides idle and two wait *)
(* queues, and the boot sequence with a single thread.                     *)
EXTENDS ArenaScheduler

MCSlots == 0..3

MCBootSlots == 0..1

=============================================================================

------------------------------ MODULE SlotPool ------------------------------
(***************************************************************************)
(* What ThreadArena (src/process/process.rs) promises: identifiers that are *)
(* never in use twice, and a new slot only when every old one is in use, so *)
(* that the arena grows to the largest number of threads alive at once and  *)
(* no further.                                                              *)
(***************************************************************************)
EXTENDS FiniteSets

CONSTANT Ids        \* every identifier there may be

VARIABLES
  used,             \* the identifiers of live threads
  opened            \* the identifiers that have ever been in use

poolVars == <<used, opened>>

PoolInit ==
  /\ used \subseteq Ids
  /\ opened = used

Take(i) ==
  /\ i \in Ids \ used
  /\ i \in opened <=> opened # used
  /\ used' = used \cup {i}
  /\ opened' = opened \cup {i}

Give(i) ==
  /\ i \in used
  /\ used' = used \ {i}
  /\ UNCHANGED opened

PoolNext == \E i \in Ids : Take(i) \/ Give(i)

PoolSpec == PoolInit /\ [][PoolNext]_poolVars

=============================================================================

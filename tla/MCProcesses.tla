---------------------------- MODULE MCProcesses ----------------------------
(* The process table with three or four threads besides idle, so that a    *)
(* parent, a child and a dead child or the monitor coexist.                *)
EXTENDS Processes, TLC

CONSTANTS t1, t2, t3, t4, pt1, pt2, pt3

MCPids == 0..3

MCObjects == Pids \cup {Console}

\* Programs that wait for their children ...
MCWaits == {{"waits"}}

\* ... or leave them behind, starting some under pid 0 too.
MCHabits == {{"waits"}, {"orphans", "heirs"}}

\* Programs that do both.
MCBoth == {{"waits", "orphans"}}

\* Programs that wait, and start children under pid 0 too.
MCHeirs == {{"waits", "heirs"}}

Symmetry ==
  {f @@ g : f \in Permutations(Tids \ {Idle}), g \in Permutations(PageTables \ {KernelPT})}

=============================================================================

---------------------------- MODULE MCBootMemory ----------------------------
(* Small memories for the run of BootMemory: eleven pages of two units. *)
EXTENDS BootMemory, TLC

SmallMaps ==
  {<<[base |-> 0, end |-> a, usable |-> TRUE],
     [base |-> a, end |-> b, usable |-> FALSE],
     [base |-> b, end |-> 22, usable |-> TRUE]>> :
       <<a, b>> \in {p \in (3..13) \X (4..15) : p[1] <= p[2]}}

SmallKernels == {[start |-> 4, end |-> e, stack |-> 6, stackTop |-> 7] : e \in 7..8}

SmallInformations == {[start |-> s, end |-> s + 1] : s \in {8, 12}}

\* One module, with a command line that needs padding or not, two, and more
\* than there is room for.
SmallModules ==
  {<<[start |-> s, end |-> s + n, line |-> l]>> :
     s \in {1, 10, 13, 17, 19}, n \in {1, 3}, l \in {<<>>, <<9>>}}
  \cup {<<[start |-> 14, end |-> 15, line |-> <<9>>], [start |-> 18, end |-> 19, line |-> <<>>]>>}
  \cup {[i \in 1..n |-> [start |-> 14 + i, end |-> 15 + i, line |-> <<>>]] : n \in 3..5}

\* Table 1 is a MADT among others and table 2 another one; 3 is something else.
Sdts == 10 :> [valid |-> TRUE, tables |-> <<3, 1, 2>>] @@ 11 :> [valid |-> TRUE, tables |-> <<3>>]
        @@ 12 :> [valid |-> FALSE, tables |-> <<1>>] @@ 13 :> [valid |-> TRUE, tables |-> <<2, 3>>]

Record(t, words) == [type |-> t, length |-> 2 + Len(words), body |-> words]

Padding == [type |-> 0, length |-> 0, body |-> <<>>]

\* Table 1 has two I/O APICs after a local one, table 2 none before its padding.
Madts == 1 :> <<Record(0, <<5>>), Record(2, <<>>), Record(1, <<7, 0>>), Record(1, <<8>>)>>
         @@ 2 :> <<Record(0, <<5>>), Padding, Padding>>

FirmwareOf(ts) ==
  [tags |-> [i \in DOMAIN ts |-> [type |-> 13 + i, body |-> <<ts[i]>>]], sdt |-> Sdts, madt |-> Madts]

MachineOf(maps, lists, rsdps) ==
  {[map |-> mp, info |-> i, modules |-> ms, firmware |-> FirmwareOf(ts)] :
     mp \in maps, i \in SmallInformations, ms \in lists, ts \in rsdps}

\* Every memory with one firmware, and every firmware with one memory.
SmallMachines ==
  MachineOf(SmallMaps, SmallModules, {<<10>>})
  \cup MachineOf({<<[base |-> 0, end |-> 22, usable |-> TRUE]>>},
                 {<<[start |-> 19, end |-> 20, line |-> <<9>>]>>},
                 {<<12, 10>>, <<13, 10>>, <<10, 11>>, <<10, 13>>, <<13>>, <<11>>})

NoRegions == <<>>

=============================================================================

--------------------------- MODULE MCAddressSpace ---------------------------
(***************************************************************************)
(* The instance of the run of AddressSpace.  No action looks at a frame's  *)
(* number, and two states with the same places filled, in both of which    *)
(* every frame has one use, differ by a renaming of the frames: TLC keeps  *)
(* one of them.                                                            *)
(***************************************************************************)
EXTENDS AddressSpace

SomeFrames == 1..19

Shape ==
  <<[s \in Spaces |-> DOMAIN entries[s]], DOMAIN kernel, Cardinality(pool),
    status, brk, stopped, FramesConserved>>

=============================================================================

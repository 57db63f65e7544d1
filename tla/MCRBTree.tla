------------------------------ MODULE MCRBTree ------------------------------
(***************************************************************************)
(* The instance of the runs of RBTree.  No action tells two nodes apart by *)
(* name, and AddTask and Requeue choose the vruntime and the deadline of   *)
(* the node they insert: TLC keeps one of the states that have the same    *)
(* tree and as many nodes outside it with each min_deadline.               *)
(***************************************************************************)
EXTENDS RBTree

RECURSIVE ShapeOf(_)
ShapeOf(n) ==
  IF n = Nil THEN <<>>
  ELSE <<t.color[n], vruntime[n], deadline[n], minDeadline[n],
         ShapeOf(t.child["left"][n]), ShapeOf(t.child["right"][n])>>

Outside(d) == Cardinality({n \in Nodes \ members : minDeadline[n] = d})

\* The links themselves where they are not those of a tree.
Shape ==
  IF WellLinked
  THEN <<ShapeOf(t.root), [d \in Deadlines |-> Outside(d)], Outside(Nil)>>
  ELSE <<t, members>>

=============================================================================

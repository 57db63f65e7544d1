CONSTANTS
  Nodes = {n1, n2, n3, n4, n5, n6}
  Nil = Nil
  Vruntimes = {0, 1}
  Deadlines = {0, 1}
SPECIFICATION RBSpec
VIEW Shape
INVARIANTS
  RedBlack
  PickEligible

------------------------------- MODULE RBTree -------------------------------
(***************************************************************************)
(* The red-black tree of runnable threads (src/rbtree.c), link by link:    *)
(* insertion and removal with their fix-ups, and the EEVDF pick.           *)
(*                                                                         *)
(* The C code writes every case twice, for a left and for a right child;   *)
(* here the side is a parameter.  The links of a node outside the tree are *)
(* dead (insertion overwrites all of them) and are reset on removal.       *)
(***************************************************************************)
EXTENDS Integers, Sequences, FiniteSets

CONSTANTS
  Nodes,      \* SchedNode addresses
  Nil,        \* the null pointer
  Vruntimes,  \* values of SchedNode.vruntime
  Deadlines   \* values of SchedNode.deadline

ASSUME RBAssumption ==
  /\ Nil \notin Nodes
  /\ Vruntimes \subseteq Nat
  /\ Deadlines \subseteq Nat

VARIABLES
  t,            \* the links: root, child, parent, color
  vruntime,     \* SchedNode.vruntime
  deadline,     \* SchedNode.deadline
  minDeadline,  \* SchedNode.min_deadline, Nil for a node that is not allocated
  members       \* the nodes handed to rbtree_insert and not yet removed

rbVars == <<t, vruntime, deadline, minDeadline, members>>

Side == {"left", "right"}

Other(s) == IF s = "left" THEN "right" ELSE "left"

Links ==
  [root   : Nodes \cup {Nil},
   child  : [Side -> [Nodes -> Nodes \cup {Nil}]],
   parent : [Nodes -> Nodes \cup {Nil}],
   color  : [Nodes -> {"red", "black"}]]

\* The types of the links and of the scheduling data.
RBTypeOK ==
  /\ t \in Links
  /\ vruntime \in [Nodes -> Vruntimes]
  /\ deadline \in [Nodes -> Deadlines]
  /\ minDeadline \in [Nodes -> Deadlines \cup {Nil}]
  /\ members \subseteq {n \in Nodes : minDeadline[n] # Nil}

----------------------------------------------------------------------------
(* Link manipulation.  r is a record of Links. *)

SetColor(r, n, c) == [r EXCEPT !.color[n] = c]

SetChild(r, n, s, v) == [r EXCEPT !.child[s][n] = v]

SetParent(r, n, p) == IF n = Nil THEN r ELSE [r EXCEPT !.parent[n] = p]

SideOf(r, n, p) == IF n = r.child["left"][p] THEN "left" ELSE "right"

\* v takes the place of u below p, or as the root.
ReplaceChild(r, p, u, v) ==
  IF p = Nil THEN [r EXCEPT !.root = v] ELSE SetChild(r, p, SideOf(r, u, p), v)

\* rb_color_safe: null nodes are black.
ColorOf(r, n) == IF n = Nil THEN "black" ELSE r.color[n]

\* rb_rotate_left (s = "left") and rb_rotate_right.
Rotate(r, x, s) ==
  LET o == Other(s)
      y == r.child[o][x]
      p == r.parent[x]
      r1 == SetParent(SetChild(r, x, o, r.child[s][y]), r.child[s][y], x)
      r2 == SetParent(ReplaceChild(r1, p, x, y), y, p)
  IN IF y = Nil THEN r ELSE SetParent(SetChild(r2, y, s, x), x, y)

\* rb_transplant.
Transplant(r, u, v) ==
  SetParent(ReplaceChild(r, r.parent[u], u, v), v, r.parent[u])

RECURSIVE Leftmost(_, _)
\* rbtree_leftmost.
Leftmost(r, n) ==
  IF n = Nil \/ r.child["left"][n] = Nil THEN n ELSE Leftmost(r, r.child["left"][n])

----------------------------------------------------------------------------
(* Insertion. *)

\* Which way the search for n's place turns at cur.
DescendSide(key, n, cur) == IF key[n] < key[cur] THEN "left" ELSE "right"

RECURSIVE Descend(_, _, _, _)
\* The node below which n is inserted, starting at cur.
Descend(r, key, n, cur) ==
  LET next == r.child[DescendSide(key, n, cur)][cur]
  IN IF next = Nil THEN cur ELSE Descend(r, key, n, next)

RECURSIVE InsertFixup(_, _)
\* rb_insert_fixup, one turn of the loop per call.
InsertFixup(r, n) ==
  IF n = r.root \/ r.color[r.parent[n]] = "black"
  THEN SetColor(r, r.root, "black")
  ELSE
    LET p == r.parent[n]
        g == r.parent[p]
        s == SideOf(r, p, g)
        uncle == r.child[Other(s)][g]
        inside == n = r.child[Other(s)][p]
        r1 == IF inside THEN Rotate(r, p, s) ELSE r
        n1 == IF inside THEN p ELSE n
        p1 == r1.parent[n1]
    IN IF ColorOf(r, uncle) = "red"
       THEN InsertFixup(SetColor(SetColor(SetColor(r, p, "black"), uncle, "black"),
                                 g, "red"), g)
       ELSE InsertFixup(Rotate(SetColor(SetColor(r1, p1, "black"), g, "red"),
                               g, Other(s)), n1)

\* rbtree_insert.
Insert(r, key, n) ==
  LET r0 == SetChild(SetChild(r, n, "left", Nil), n, "right", Nil)
      p == Descend(r, key, n, r.root)
      r1 == SetChild(SetColor(SetParent(r0, n, p), n, "red"), p, DescendSide(key, n, p), n)
  IN IF r.root = Nil
     THEN SetColor(SetParent([r0 EXCEPT !.root = n], n, Nil), n, "black")
     ELSE InsertFixup(r1, n)

----------------------------------------------------------------------------
(* Removal. *)

\* (Mutant: case 4 paints w black instead of its parent's colour.)
FarRedBlack(r, w, xp, s) ==
  Rotate(SetColor(SetColor(SetColor(r, w, "black"), xp, "black"),
                  r.child[Other(s)][w], "black"), xp, s)

\* Case 4 of rb_remove_fixup: the far child of the sibling w is red.
FarRed(r, w, xp, s) ==
  Rotate(SetColor(SetColor(SetColor(r, w, r.color[xp]), xp, "black"),
                  r.child[Other(s)][w], "black"), xp, s)

RECURSIVE RemoveFixup(_, _, _)
\* rb_remove_fixup, one turn of the loop per call; x may be null.
RemoveFixup(r, x, xp) ==
  IF x = r.root \/ ColorOf(r, x) = "red"
  THEN IF x = Nil THEN r ELSE SetColor(r, x, "black")
  ELSE
    LET s == SideOf(r, x, xp)
        w == r.child[Other(s)][xp]
        near == r.child[s][w]
        far == r.child[Other(s)][w]
        r4 == FarRed(r, w, xp, s)
    IN CASE ColorOf(r, w) = "red" ->
              RemoveFixup(Rotate(SetColor(SetColor(r, xp, "red"), w, "black"), xp, s), x, xp)
         [] ColorOf(r, w) = "black" /\ ColorOf(r, near) = "black" /\ ColorOf(r, far) = "black" ->
              RemoveFixup(SetColor(r, w, "red"), xp, r.parent[xp])
         [] ColorOf(r, w) = "black" /\ ColorOf(r, near) = "red" /\ ColorOf(r, far) = "black" ->
              RemoveFixup(Rotate(SetColor(SetColor(r, near, "black"), w, "red"), w, Other(s)),
                          x, xp)
         [] OTHER -> RemoveFixup(r4, r4.root, xp)

\* z has two children: its successor y takes its place and its colour.
Splice(r, z, y) ==
  LET r1 == IF r.parent[y] = z THEN r
            ELSE LET q == SetChild(Transplant(r, y, r.child["right"][y]),
                                   y, "right", r.child["right"][z])
                 IN SetParent(q, q.child["right"][y], y)
      r2 == SetChild(Transplant(r1, z, y), y, "left", r.child["left"][z])
  IN SetColor(SetParent(r2, r.child["left"][z], y), y, r.color[z])

Unlinked(r, z) ==
  [r EXCEPT !.child = [s \in Side |-> [r.child[s] EXCEPT ![z] = Nil]],
            !.parent[z] = Nil, !.color[z] = "black"]

\* rbtree_remove.
Remove(r, z) ==
  LET l == r.child["left"][z]
      rt == r.child["right"][z]
      y == Leftmost(r, rt)
      one == IF l = Nil THEN rt ELSE l
      out == IF l = Nil \/ rt = Nil
             THEN [r |-> Transplant(r, z, one), x |-> one, xp |-> r.parent[z],
                   lost |-> r.color[z]]
             ELSE [r |-> Splice(r, z, y), x |-> r.child["right"][y],
                   xp |-> IF r.parent[y] = z THEN y ELSE r.parent[y],
                   lost |-> r.color[y]]
  IN Unlinked(IF out.lost = "black" THEN RemoveFixup(out.r, out.x, out.xp) ELSE out.r, z)

----------------------------------------------------------------------------
(* The pick. *)

RECURSIVE PickFrom(_, _, _, _, _, _)
\* The loop of rbtree_pick_eevdf in the tree r with vruntimes key and deadlines
\* dl, at virtual time v: next to visit, best so far.
PickFrom(r, key, dl, v, cur, best) ==
  IF cur = Nil THEN best
  ELSE IF key[cur] > v THEN PickFrom(r, key, dl, v, r.child["left"][cur], best)
  ELSE
    LET b == IF best = Nil \/ dl[cur] < dl[best] THEN cur ELSE best
        Better(c) == c # Nil /\ minDeadline[c] < dl[b]
        l == r.child["left"][cur]
        rt == r.child["right"][cur]
    IN IF Better(l) THEN PickFrom(r, key, dl, v, l, b)
       ELSE IF Better(rt) THEN PickFrom(r, key, dl, v, rt, b)
       ELSE b

\* (Mutant: no fallback.)
PickNoFallback(r, key, dl, v) == PickFrom(r, key, dl, v, r.root, Nil)

\* rbtree_pick_eevdf: with nobody eligible, the leftmost node.
Pick(r, key, dl, v) ==
  LET best == PickFrom(r, key, dl, v, r.root, Nil)
  IN IF best = Nil THEN Leftmost(r, r.root) ELSE best

----------------------------------------------------------------------------
(* Actions: the calls the scheduler makes. *)

\* add_task allocates a node and inserts it.
AddTask(n, v, d) ==
  /\ minDeadline[n] = Nil
  /\ vruntime' = [vruntime EXCEPT ![n] = v]
  /\ deadline' = [deadline EXCEPT ![n] = d]
  /\ minDeadline' = [minDeadline EXCEPT ![n] = d]
  /\ t' = Insert(t, vruntime', n)
  /\ members' = members \cup {n}

\* schedule() and wake_task put a node back with a new vruntime and deadline;
\* neither touches min_deadline.
Requeue(n, v, d) ==
  /\ minDeadline[n] # Nil /\ n \notin members
  /\ vruntime' = [vruntime EXCEPT ![n] = v]
  /\ deadline' = [deadline EXCEPT ![n] = d]
  /\ t' = Insert(t, vruntime', n)
  /\ members' = members \cup {n}
  /\ UNCHANGED minDeadline

\* rbtree_remove.
RemoveNode(n) ==
  /\ n \in members
  /\ t' = Remove(t, n)
  /\ members' = members \ {n}
  /\ UNCHANGED <<vruntime, deadline, minDeadline>>

\* schedule() frees the node of a thread that has exited.
FreeNode(n) ==
  /\ minDeadline[n] # Nil /\ n \notin members
  /\ minDeadline' = [minDeadline EXCEPT ![n] = Nil]
  /\ UNCHANGED <<t, vruntime, deadline, members>>

RBInit ==
  /\ t = [root   |-> Nil,
          child  |-> [s \in Side |-> [n \in Nodes |-> Nil]],
          parent |-> [n \in Nodes |-> Nil],
          color  |-> [n \in Nodes |-> "black"]]
  /\ vruntime = [n \in Nodes |-> CHOOSE v \in Vruntimes : TRUE]
  /\ deadline = [n \in Nodes |-> CHOOSE d \in Deadlines : TRUE]
  /\ minDeadline = [n \in Nodes |-> Nil]
  /\ members = {}

RBNext ==
  \/ \E n \in Nodes, v \in Vruntimes, d \in Deadlines : AddTask(n, v, d)
  \/ \E n \in Nodes, v \in Vruntimes, d \in Deadlines : Requeue(n, v, d)
  \/ \E n \in Nodes : RemoveNode(n)
  \/ \E n \in Nodes : FreeNode(n)

RBSpec == RBInit /\ [][RBNext]_rbVars

----------------------------------------------------------------------------
(* Properties. *)

\* Both directions of every link agree, and exactly the inserted nodes are
\* linked.
WellLinked ==
  /\ RBTypeOK
  /\ t.root # Nil => t.root \in members /\ t.parent[t.root] = Nil
  /\ t.root = Nil => members = {}
  /\ \A n \in members, s \in Side :
       LET c == t.child[s][n]
       IN c # Nil => c \in members \ {t.root} /\ t.parent[c] = n
  /\ \A n \in members \ {t.root} :
       \E p \in members, s \in Side : t.child[s][p] = n

RECURSIVE InOrder(_)
InOrder(n) ==
  IF n = Nil THEN <<>>
  ELSE InOrder(t.child["left"][n]) \o <<n>> \o InOrder(t.child["right"][n])

\* The in-order walk visits every inserted node once, in order of vruntime.
Ordered ==
  LET walk == InOrder(t.root)
  IN /\ Len(walk) = Cardinality(members)
     /\ \A n \in members : \E i \in 1..Len(walk) : walk[i] = n
     /\ \A i \in 1..Len(walk) - 1 : vruntime[walk[i]] <= vruntime[walk[i + 1]]

RECURSIVE BlackHeights(_)
\* The numbers of black nodes on the paths from n down to a null link.
BlackHeights(n) ==
  IF n = Nil THEN {1}
  ELSE {h + (IF t.color[n] = "black" THEN 1 ELSE 0) :
          h \in UNION {BlackHeights(t.child[s][n]) : s \in Side}}

\* A black root, no red node with a red child, and the same number of black
\* nodes on every path.
Balanced ==
  /\ ColorOf(t, t.root) = "black"
  /\ \A n \in members, s \in Side :
       t.color[n] = "red" => ColorOf(t, t.child[s][n]) = "black"
  /\ Cardinality(BlackHeights(t.root)) = 1

\* Through any sequence of insertions and removals, equal keys included, the
\* nodes form a red-black tree of exactly the inserted threads: rotations,
\* transplants and the splice lose no subtree and keep the order, and every
\* search is short.
RedBlack == WellLinked /\ Ordered /\ Balanced

\* A non-empty tree always yields a node, and an eligible one if there is any:
\* the search never walks past all the threads that have waited long enough.
PickEligible ==
  \A v \in Vruntimes :
    LET p == Pick(t, vruntime, deadline, v)
    IN /\ members # {} => p \in members
       /\ (\E n \in members : vruntime[n] <= v) => vruntime[p] <= v

\* "... switches to whichever thread has the earliest virtual deadline", among
\* the eligible ones.
PickEarliest ==
  \A v \in Vruntimes : \A n \in members :
    vruntime[n] <= v => deadline[Pick(t, vruntime, deadline, v)] <= deadline[n]

=============================================================================

------------------------------ MODULE RBTree -------------------------------
(***************************************************************************)
(* The red-black tree of cs_rbtree.c, in which cs_scheduler.c registers    *)
(* its coroutines.  The key of a node is the address of its coroutine, so  *)
(* a node is named by its key; the sentinel has key 0.  A tree is a record *)
(*   root, link.left, link.right, parent, red                              *)
(* over the nodes and the sentinel.  The code writes each rebalancing case *)
(* twice, once for each side; here the side d is a parameter.              *)
(***************************************************************************)
EXTENDS Integers, FiniteSets

CONSTANTS Key,    \* the addresses a coroutine can be allocated at
          NULL    \* the nil pointer

VARIABLES tree,   \* coroutine_rbt, coroutine_rbs and the nodes
          ret,    \* the last query and its result, NULL after a change
          members \* history variable: the registered keys

vars == <<tree, ret, members>>

sentinel == 0
Node == Key \cup {sentinel}
Side == {"left", "right"}
Other(d) == IF d = "left" THEN "right" ELSE "left"

Tree == [root : Node, link : [Side -> [Node -> Node \cup {NULL}]],
         parent : [Node -> Node \cup {NULL}], red : [Node -> BOOLEAN]]

(***************************************************************************)
(* Stores into one field.                                                  *)
(***************************************************************************)
Child(t, d, n, x)  == [t EXCEPT !.link[d][n] = x]
Parent(t, n, x)    == [t EXCEPT !.parent[n] = x]
Paint(t, n, red)   == [t EXCEPT !.red[n] = red]

\* The side of its parent on which n hangs: the test n == n->parent->left.
SideOf(t, n) == IF n = t.link["left"][t.parent[n]] THEN "left" ELSE "right"

\* rbtree_node_init: the color is left as it is.
rbtree_node_init(t, n) ==
  Parent(Child(Child(t, "left", n, NULL), "right", n, NULL), n, NULL)

rbtree_init == [root   |-> sentinel,
                link   |-> [d \in Side |-> [n \in Node |-> NULL]],
                parent |-> [n \in Node |-> NULL],
                red    |-> [n \in Node |-> FALSE]]

rbtree_node_min(t, n) ==
  LET min[m \in Node] == LET l == t.link["left"][m]
                         IN  IF l = sentinel THEN m ELSE min[l]
  IN  min[n]

rbtree_min(t) == IF t.root = sentinel THEN NULL ELSE rbtree_node_min(t, t.root)

\* Mutant: the comparison of rbtree_lookup is the wrong way round.
LookupSwapped(t, n, key) ==
  LET walk[m \in Node \cup {NULL}] ==
        IF m = NULL \/ m = key THEN m
        ELSE walk[t.link[IF m < key THEN "left" ELSE "right"][m]]
  IN  walk[n]

\* The walk ends at NULL, below the sentinel, unless the key is met before.
LookupFrom(t, n, key) ==
  LET walk[m \in Node \cup {NULL}] ==
        IF m = NULL \/ m = key THEN m
        ELSE walk[t.link[IF m > key THEN "left" ELSE "right"][m]]
  IN  walk[n]

rbtree_lookup(t, key) == LookupFrom(t, t.root, key)

\* rbtree_left_rotate (d = "left") and rbtree_right_rotate (d = "right").
rbtree_rotate(t, d, n) ==
  LET o     == Other(d)
      temp  == t.link[o][n]
      inner == t.link[d][temp]
      t1    == Child(t, o, n, inner)
      t2    == IF inner # sentinel THEN Parent(t1, inner, n) ELSE t1
      t3    == Parent(t2, temp, t2.parent[n])
      t4    == IF n = t3.root THEN [t3 EXCEPT !.root = temp]
               ELSE Child(t3, SideOf(t3, n), t3.parent[n], temp)
  IN  Parent(Child(t4, d, temp, n), n, temp)

(***************************************************************************)
(* rbtree_insert.                                                          *)
(***************************************************************************)
\* The parent under which the new node n is hung.
InsertPoint(t, temp, n) ==
  LET point[m \in Node] == LET next == t.link[IF n < m THEN "left" ELSE "right"][m]
                           IN  IF next = sentinel THEN m ELSE point[next]
  IN  point[temp]

\* One turn of the re-balance loop: the tree it leaves and the next n.
InsertTurn(t, n) ==
  LET p     == t.parent[n]
      g     == t.parent[p]
      d     == SideOf(t, p)
      uncle == t.link[Other(d)][g]
      inner == n = t.link[Other(d)][p]
      t1    == IF inner THEN rbtree_rotate(t, d, p) ELSE t
      m     == IF inner THEN p ELSE n
      t2    == Paint(Paint(t1, t1.parent[m], FALSE), g, TRUE)
  IN  IF t.red[uncle]
        THEN <<Paint(Paint(Paint(t, p, FALSE), uncle, FALSE), g, TRUE), g>>
        ELSE <<rbtree_rotate(t2, Other(d), g), m>>

\* The re-balance loop and the final blackening of the root.
InsertFixup(t, n) ==
  LET fix[s \in Tree \X Node] ==
        IF s[2] = s[1].root \/ ~s[1].red[s[1].parent[s[2]]]
          THEN Paint(s[1], s[1].root, FALSE)
          ELSE fix[InsertTurn(s[1], s[2])]
  IN  fix[<<t, n>>]

rbtree_insert(t, n) ==
  LET leaf == Child(Child(t, "left", n, sentinel), "right", n, sentinel)
  IN  IF t.root = sentinel
        THEN [Paint(Parent(leaf, n, NULL), n, FALSE) EXCEPT !.root = n]
        ELSE LET p == InsertPoint(t, t.root, n)
                 hung == Child(leaf, IF n < p THEN "left" ELSE "right", p, n)
             IN  InsertFixup(Paint(Parent(hung, n, p), n, TRUE), n)

(***************************************************************************)
(* rbtree_delete.                                                          *)
(***************************************************************************)
\* Mutant: the fixup stops after the first blackening.
DeleteWithoutFixup(t, x) == Paint(t, x, FALSE)

\* One turn of the fixup loop: the tree it leaves and the next x, which is
\* the root when the loop is left.
DeleteTurn(t, x) ==
  LET p  == t.parent[x]
      d  == SideOf(t, x)
      o  == Other(d)
      w0 == t.link[o][p]
      t1 == IF t.red[w0] THEN rbtree_rotate(Paint(Paint(t, w0, FALSE), p, TRUE), d, p)
                         ELSE t
      w1 == t1.link[o][p]
      t2 == IF ~t1.red[t1.link[o][w1]]
              THEN rbtree_rotate(Paint(Paint(t1, t1.link[d][w1], FALSE), w1, TRUE), o, w1)
              ELSE t1
      w2 == t2.link[o][p]
      t3 == Paint(Paint(Paint(t2, w2, t2.red[p]), p, FALSE), t2.link[o][w2], FALSE)
      t4 == rbtree_rotate(t3, d, p)
  IN  IF ~t1.red[t1.link["left"][w1]] /\ ~t1.red[t1.link["right"][w1]]
        THEN <<Paint(t1, w1, TRUE), p>>
        ELSE <<t4, t4.root>>

\* The fixup loop: x carries one black too few.
DeleteFixup(t, x) ==
  LET fix[s \in Tree \X Node] ==
        IF s[2] = s[1].root \/ s[1].red[s[2]] THEN Paint(s[1], s[2], FALSE)
        ELSE fix[DeleteTurn(s[1], s[2])]
  IN  fix[<<t, x>>]

\* subst, which had at most one child, takes the place of node n.
Replace(t, n, subst) ==
  LET t1 == [t EXCEPT !.link["left"][subst]  = t.link["left"][n],
                      !.link["right"][subst] = t.link["right"][n],
                      !.parent[subst]        = t.parent[n],
                      !.red[subst]           = t.red[n]]
      t2 == IF n = t1.root THEN [t1 EXCEPT !.root = subst]
            ELSE Child(t1, SideOf(t1, n), t1.parent[n], subst)
      Adopt(u, d) == IF u.link[d][subst] # sentinel
                       THEN Parent(u, u.link[d][subst], subst) ELSE u
  IN  Adopt(Adopt(t2, "left"), "right")

rbtree_delete(t, n) ==
  LET left  == t.link["left"][n]
      right == t.link["right"][n]
      subst == IF left = sentinel \/ right = sentinel THEN n
               ELSE rbtree_node_min(t, right)
      temp  == IF t.link["left"][subst] # sentinel
                 THEN t.link["left"][subst] ELSE t.link["right"][subst]
      p     == t.parent[subst]
  IN  IF subst = t.root
        THEN rbtree_node_init(Paint([t EXCEPT !.root = temp], temp, FALSE), n)
        ELSE LET t1 == Child(t, SideOf(t, subst), p, temp)
                 t2 == Parent(t1, temp, IF subst # n /\ p = n THEN subst ELSE p)
                 t3 == IF subst = n THEN t2 ELSE Replace(t2, n, subst)
                 t4 == rbtree_node_init(t3, n)
             IN  IF t.red[subst] THEN t4 ELSE DeleteFixup(t4, temp)

-----------------------------------------------------------------------------
(***************************************************************************)
(* How cs_scheduler.c uses the tree.                                       *)
(***************************************************************************)
Init == tree = rbtree_init /\ ret = NULL /\ members = {}

\* coro_spawn registers a block that is not in the tree.
sched_register_coro(k) == /\ k \notin members
                          /\ tree' = rbtree_insert(tree, k)
                          /\ members' = members \cup {k}
                          /\ ret' = NULL

\* sched_run deletes the coroutine that it frees.
sched_delete_coro(k) == /\ k \in members
                        /\ tree' = rbtree_delete(tree, k)
                        /\ members' = members \ {k}
                        /\ ret' = NULL

\* The id 0 finds the sentinel, whose data is nil.
sched_get_coro(k) == LET value == rbtree_lookup(tree, k)
                     IN  /\ ret' = [key |-> k,
                                  val |-> IF value \in {NULL, sentinel} THEN NULL ELSE value]
                         /\ UNCHANGED <<tree, members>>

get_min == ret' = [min |-> rbtree_min(tree)] /\ UNCHANGED <<tree, members>>

Next == \/ get_min
        \/ sched_get_coro(sentinel)
        \/ \E k \in Key : \/ sched_register_coro(k)
                          \/ sched_delete_coro(k)
                          \/ sched_get_coro(k)

Spec == Init /\ [][Next]_vars

-----------------------------------------------------------------------------
\* The nodes of the subtree under n, and the number of black nodes on each
\* path down to the sentinel (-1 when the paths differ).
Under(n) ==
  LET under[m \in Node] == IF m = sentinel THEN {}
                           ELSE {m} \cup UNION {under[tree.link[d][m]] : d \in Side}
  IN  under[n]

BlackHeight(n) ==
  LET height[m \in Node] ==
        IF m = sentinel THEN 0
        ELSE LET l == height[tree.link["left"][m]]
                 r == height[tree.link["right"][m]]
             IN  IF l = -1 \/ r = -1 \/ l # r THEN -1
                 ELSE l + IF tree.red[m] THEN 0 ELSE 1
  IN  height[n]

\* Type correctness of the tree.
TypeOK == /\ tree \in Tree
          /\ ret \in {NULL} \cup [key : Node, val : Key \cup {NULL}] \cup [min : Key \cup {NULL}]
          /\ members \subseteq Key

\* Rotations and the replacement of a deleted inner node keep the search
\* order and lose no node: the tree holds exactly the registered keys.
SearchTree ==
  /\ Under(tree.root) = members
  /\ \A n \in members : /\ \A l \in Under(tree.link["left"][n]) : l < n
                        /\ \A r \in Under(tree.link["right"][n]) : r > n

\* Every insertion and deletion leaves a red-black tree: a black root, no red
\* node under a red node, the same number of black nodes on every path.
RedBlack ==
  /\ ~tree.red[tree.root]
  /\ \A n \in members : tree.red[n] => \A d \in Side : ~tree.red[tree.link[d][n]]
  /\ BlackHeight(tree.root) # -1

\* The parent pointers that the rebalancing loops follow agree with the child
\* pointers.  (The root's own parent pointer may be stale; nothing reads it.)
ParentsAgree ==
  \A n \in members : \A d \in Side :
    LET c == tree.link[d][n] IN c # sentinel => tree.parent[c] = n

\* The sentinel stays black and childless: rbtree_lookup, which does not test
\* for it, stops below it.
SentinelIntact == /\ ~tree.red[sentinel]
                  /\ \A d \in Side : tree.link[d][sentinel] = NULL

\* The tree implements the registry: a lookup finds a coroutine exactly when
\* it is registered.
R == INSTANCE Registry WITH Key <- Node
RegistrySpec == R!Spec

\* Whatever was inserted and deleted before, the tree is a balanced search tree
\* whose pointers agree in both directions and whose sentinel is untouched:
\* rotations and fixups leave no stale pointer and no unbalanced colour.
TreeSound == TypeOK /\ SearchTree /\ RedBlack /\ ParentsAgree /\ SentinelIntact
=============================================================================

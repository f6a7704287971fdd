------------------------------- MODULE RbTree -------------------------------
(***************************************************************************)
(* The ordered map of libdata_structure/rbtree_map: a red-black tree of    *)
(* nodes (rbtree.c) and begin, which must be kept at the first node.       *)
(*                                                                         *)
(* A node is known by its key: a second one of that key is never linked.   *)
(* An insertion and a deletion hold the lock throughout; each turn of the  *)
(* loop that restores the colours is a step here, and nothing else happens *)
(* in between.                                                             *)
(***************************************************************************)
EXTENDS Integers, Sequences, FiniteSets

CONSTANT Keys (* the keys are 1 to Keys, NULL is 0                         *)

ASSUME RbAssumption == Keys \in Nat

RbKey == 1..Keys
RbNode == 0..Keys
Side == {"left", "right"}
Other(s) == IF s = "left" THEN "right" ELSE "left"

VARIABLES
    tree,       (* the root; children, parent and colour of each node      *)
    rb_begin,   (* the node begin points to                                *)
    recolor,    (* the loop that runs: which, at which node and parent     *)
    destroying, (* rbtree_map_destroy runs                                 *)
    present     (* history: the keys inserted and not deleted              *)

rbVars == <<tree, rb_begin, recolor, destroying, present>>

Idle == [op |-> "none"]

RbInit ==
    /\ tree = [root  |-> 0,
               child |-> [s \in Side |-> [n \in RbKey |-> 0]],
               up    |-> [n \in RbKey |-> 0],
               red   |-> {}]
    /\ rb_begin = 0
    /\ recolor = Idle
    /\ destroying = FALSE
    /\ present = {}
-----------------------------------------------------------------------------
(* Single assignments.  NULL is black and has no parent.                     *)
SetChild(t, p, s, n) == [t EXCEPT !.child[s][p] = n]
SetUp(t, n, p) == IF n = 0 THEN t ELSE [t EXCEPT !.up[n] = p]
SetRed(t, n) == [t EXCEPT !.red = @ \cup {n}]
SetBlack(t, n) == [t EXCEPT !.red = @ \ {n}]

(* Variant for mutation: the colour is not taken over.                        *)
NewColor(t, n, m) == SetBlack(t, n)

(* rb_set_color(n, rb_color(m)).                                             *)
SameColor(t, n, m) == IF m \in t.red THEN SetRed(t, n) ELSE SetBlack(t, n)

(* The node is freed; what it points to does not matter any more.             *)
Freed(t, n) ==
    [t EXCEPT !.child["left"][n] = 0, !.child["right"][n] = 0, !.up[n] = 0, !.red = @ \ {n}]

SideOf(t, n, p) == IF t.child["left"][p] = n THEN "left" ELSE "right"

(* What points to n from above points to m.                                  *)
Relink(t, n, m) ==
    LET p == t.up[n] IN
    IF p = 0 THEN [t EXCEPT !.root = m] ELSE SetChild(t, p, SideOf(t, n, p), m)

(* __rb_rotate_left and __rb_rotate_right: n goes down on side s.             *)
Rotate(t, n, s) ==
    LET c == t.child[Other(s)][n]
        inner == t.child[s][c]
        t1 == SetUp(SetChild(t, n, Other(s), inner), inner, n)
        t2 == Relink(t1, n, c)
    IN  SetUp(SetUp(SetChild(t2, c, s, n), c, t.up[n]), n, c)

(* The last node that is met from n on going to side s, and rb_next.          *)
Outermost(t, n, s) ==
    LET at[k \in 0..Keys] ==
            IF k = 0 THEN n
            ELSE LET m == at[k - 1] IN
                 IF m = 0 \/ t.child[s][m] = 0 THEN m ELSE t.child[s][m]
    IN  at[Keys]

RbFirst(t) == Outermost(t, t.root, "left")

RbNext(t, n) ==
    LET climb[k \in 0..Keys] ==
            IF k = 0 THEN n
            ELSE LET m == climb[k - 1] IN
                 IF t.up[m] # 0 /\ t.child["right"][t.up[m]] = m THEN t.up[m] ELSE m
    IN  IF t.child["right"][n] # 0 THEN Outermost(t, t.child["right"][n], "left")
        ELSE t.up[climb[Keys]]
-----------------------------------------------------------------------------
(* __rbtree_map_insert and __rbtree_map_search go down by comparing keys: the *)
(* nodes met, up to the one with the key or to NULL.                         *)
Toward(k, n) == IF k < n THEN "left" ELSE "right"

Path(k) ==
    LET at[i \in 0..Keys] ==
            IF i = 0 THEN tree.root
            ELSE LET m == at[i - 1] IN
                 IF m \in {0, k} THEN m ELSE tree.child[Toward(k, m)][m]
    IN  at

Find(k) == Path(k)[Keys]

(* The last node that was met before NULL.                                   *)
ParentFor(k) ==
    LET met == {i \in 0..Keys : Path(k)[i] # 0} IN
    IF met = {} THEN 0
    ELSE Path(k)[CHOOSE i \in met : \A j \in met : j <= i]

Ready == recolor = Idle /\ ~destroying

RbInsert(k) ==
    /\ Ready
    /\ Find(k) # k
    /\ LET p == ParentFor(k)
           t == SetRed(SetUp(tree, k, p), k)
       IN tree' = IF p = 0 THEN [t EXCEPT !.root = k] ELSE SetChild(t, p, Toward(k, p), k)
    /\ recolor' = [op |-> "insert", node |-> k]
    /\ present' = present \cup {k}
    /\ UNCHANGED <<rb_begin, destroying>>

(* The node of a key that is there already is neither linked nor freed.       *)
RbInsertAgain(k) ==
    /\ Ready
    /\ Find(k) = k
    /\ rb_begin' = RbFirst(tree)
    /\ UNCHANGED <<tree, recolor, destroying, present>>

(* rb_insert_color: the parent is red, so that it has a parent itself.        *)
UncleIsRed(n) ==
    LET p == tree.up[n]
        g == tree.up[p]
        u == tree.child[Other(SideOf(tree, p, g))][g]
    IN
    /\ u \in tree.red
    /\ tree' = SetRed(SetBlack(SetBlack(tree, u), p), g)
    /\ recolor' = [recolor EXCEPT !.node = g]

UncleIsBlack(n) ==
    LET p == tree.up[n]
        g == tree.up[p]
        s == SideOf(tree, p, g)
        inner == tree.child[Other(s)][p] = n
        t == IF inner THEN Rotate(tree, p, s) ELSE tree
        top == IF inner THEN n ELSE p
    IN
    /\ tree.child[Other(s)][g] \notin tree.red
    /\ tree' = Rotate(SetRed(SetBlack(t, top), g), g, Other(s))
    /\ recolor' = [recolor EXCEPT !.node = IF inner THEN p ELSE n]

InsertColor ==
    /\ recolor.op = "insert"
    /\ tree.up[recolor.node] \in tree.red
    /\ UncleIsRed(recolor.node) \/ UncleIsBlack(recolor.node)
    /\ UNCHANGED <<rb_begin, destroying, present>>

InsertColorEnds ==
    /\ recolor.op = "insert"
    /\ tree.up[recolor.node] \notin tree.red
    /\ tree' = SetBlack(tree, tree.root)
    /\ rb_begin' = RbFirst(tree')
    /\ recolor' = Idle
    /\ UNCHANGED <<destroying, present>>
-----------------------------------------------------------------------------
(* rb_erase of a node with one child or none: the child takes its place.      *)
EraseOuter(n) ==
    LET c == IF tree.child["left"][n] = 0 THEN tree.child["right"][n] ELSE tree.child["left"][n]
        p == tree.up[n]
    IN
    /\ tree' = Freed(SetUp(Relink(tree, n, c), c, p), n)
    /\ recolor' = IF n \in tree.red THEN Idle ELSE [op |-> "erase", node |-> c, parent |-> p]

(* Of a node with two: its successor takes its place and its colour.          *)
EraseInner(n) ==
    LET next == Outermost(tree, tree.child["right"][n], "left")
        c == tree.child["right"][next]
        apart == tree.up[next] # n
        p == IF apart THEN tree.up[next] ELSE next
        t1 == Relink(tree, n, next)
        t2 == IF apart
              THEN LET u == SetChild(SetUp(t1, c, p), p, "left", c)
                   IN  SetUp(SetChild(u, next, "right", tree.child["right"][n]),
                             tree.child["right"][n], next)
              ELSE t1
        t3 == SetUp(SameColor(t2, next, n), next, tree.up[n])
        t4 == SetUp(SetChild(t3, next, "left", tree.child["left"][n]),
                    tree.child["left"][n], next)
    IN
    /\ tree' = Freed(t4, n)
    /\ recolor' = IF next \in tree.red THEN Idle ELSE [op |-> "erase", node |-> c, parent |-> p]

RbDelete(n) ==
    /\ recolor = Idle
    /\ destroying => n = rb_begin
    /\ Find(n) = n
    /\ rb_begin' = IF n = rb_begin THEN RbNext(tree, n) ELSE rb_begin
    /\ IF 0 \in {tree.child[s][n] : s \in Side} THEN EraseOuter(n) ELSE EraseInner(n)
    /\ present' = present \ {n}
    /\ UNCHANGED <<destroying>>

(* __rb_erase_color: the paths through node are one black node short.         *)
BothBlack(t, n) == \A s \in Side : t.child[s][n] \notin t.red

EraseColor ==
    LET n == recolor.node
        p == recolor.parent
        s == SideOf(tree, n, p)
        far == Other(s)
        sibling == tree.child[far][p]
        t1 == IF sibling \in tree.red
              THEN Rotate(SetRed(SetBlack(tree, sibling), p), p, s) ELSE tree
        o1 == t1.child[far][p]
        near == t1.child[far][o1] \notin t1.red
        t2 == IF near THEN Rotate(SetRed(SetBlack(t1, t1.child[s][o1]), o1), o1, far) ELSE t1
        o2 == t2.child[far][p]
        t3 == SetBlack(SetBlack(SameColor(t2, o2, p), p), t2.child[far][o2])
    IN
    /\ recolor.op = "erase"
    /\ n \notin tree.red /\ n # tree.root
    /\ IF BothBlack(t1, o1)
       THEN /\ tree' = SetRed(t1, o1)
            /\ recolor' = [recolor EXCEPT !.node = p, !.parent = t1.up[p]]
       ELSE /\ tree' = Rotate(t3, p, s)
            /\ recolor' = [recolor EXCEPT !.node = tree'.root, !.parent = 0]
    /\ UNCHANGED <<rb_begin, destroying, present>>

EraseColorEnds ==
    /\ recolor.op = "erase"
    /\ recolor.node \in tree.red \/ recolor.node = tree.root
    /\ tree' = SetBlack(tree, recolor.node)
    /\ recolor' = Idle
    /\ UNCHANGED <<rb_begin, destroying, present>>

(* rbtree_map_destroy deletes the node at begin until there is none.          *)
RbDestroy ==
    /\ Ready
    /\ destroying' = TRUE
    /\ UNCHANGED <<tree, rb_begin, recolor, present>>

RbNextStep ==
    \/ \E k \in RbKey : RbInsert(k) \/ RbInsertAgain(k) \/ RbDelete(k)
    \/ InsertColor \/ InsertColorEnds
    \/ EraseColor \/ EraseColorEnds
    \/ RbDestroy

RbSpec == RbInit /\ [][RbNextStep]_rbVars
-----------------------------------------------------------------------------
(* The nodes from begin on.                                                  *)
InOrder ==
    LET at[k \in 0..Keys] ==
            IF k = 0 THEN rb_begin
            ELSE LET m == at[k - 1] IN IF m = 0 THEN 0 ELSE RbNext(tree, m)
        Met == {k \in 0..Keys : at[k] # 0}
    IN  [k \in 1..Cardinality(Met) |-> at[k - 1]]

(* The black nodes from n up to the root.                                    *)
BlackAbove(n) ==
    LET Above[k \in 0..Keys] ==
            IF k = 0 THEN {n}
            ELSE LET S == Above[k - 1] IN (S \cup {tree.up[m] : m \in S}) \ {0}
    IN  Cardinality(Above[Keys] \ tree.red)

Balanced ==
    /\ tree.root \notin tree.red
    /\ \A n \in present \cap tree.red : tree.up[n] \notin tree.red
    /\ \A n, m \in present :
          (\E s \in Side : tree.child[s][n] = 0) /\ (\E s \in Side : tree.child[s][m] = 0)
              => BlackAbove(n) = BlackAbove(m)

(* Between operations the map is a balanced search tree of the keys inserted    *)
(* and not deleted: going through it from begin meets them all in order, each  *)
(* is found by going down, no path is more than twice as long as another, and  *)
(* its destruction reaches every node.                                         *)
RbTreeIsMap ==
    recolor = Idle =>
        /\ {InOrder[i] : i \in DOMAIN InOrder} = present
        /\ \A i \in 1..(Len(InOrder) - 1) : InOrder[i] < InOrder[i + 1]
        /\ \A k \in RbKey : Find(k) = k <=> k \in present
        /\ Balanced
=============================================================================

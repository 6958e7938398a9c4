------------------------------- MODULE RBTree -------------------------------
(* The red-black trees behind map entries and object pages: insertion,       *)
(* removal and the searches of core/subr_tree.c.  A node is its key; NIL is  *)
(* NULL.  The code has a mirror image of every case: d is the side.          *)
EXTENDS Integers, FiniteSets

CONSTANT Keys   \* positive integers

VARIABLE rbt    \* [root, kid: node -> side -> node, parent, color]

NIL == 0
Sides == {"left", "right"}
Other(d) == IF d = "left" THEN "right" ELSE "left"
Black(t, n) == n = NIL \/ t.color[n] = "black"

Init == rbt = [root |-> NIL, kid |-> [n \in Keys |-> [d \in Sides |-> NIL]],
               parent |-> [n \in Keys |-> NIL], color |-> [n \in Keys |-> "red"]]

\* Where a search for key ends: at the key, or at the node it would hang below.
RECURSIVE Descend(_, _, _, _)
Descend(t, key, n, parent) ==
  IF n = NIL \/ n = key THEN <<n, parent>>
  ELSE Descend(t, key, t.kid[n][IF key < n THEN "left" ELSE "right"], n)

Paint(t, n, color) == IF n = NIL THEN t ELSE [t EXCEPT !.color[n] = color]
rbe_set_blackred(t, black, red) == Paint(Paint(t, black, "black"), red, "red")

\* The parent's link to old leads to new.
Relink(t, parent, old, new) ==
  IF parent = NIL THEN [t EXCEPT !.root = new]
  ELSE [t EXCEPT !.kid[parent][IF t.kid[parent]["left"] = old THEN "left" ELSE "right"] = new]
SetParent(t, n, parent) == IF n = NIL THEN t ELSE [t EXCEPT !.parent[n] = parent]

\* n goes down to side d; its child on the other side takes its place.
rbe_rotate(t, n, d) ==
  LET tmp == t.kid[n][Other(d)]
      inner == t.kid[tmp][d]
      up == SetParent(Relink(SetParent([t EXCEPT !.kid[n][Other(d)] = inner], inner, n),
                             t.parent[n], n, tmp), tmp, t.parent[n])
  IN [up EXCEPT !.kid[tmp][d] = n, !.parent[n] = tmp]

RECURSIVE rbe_insert_color(_, _)
rbe_insert_color(t, n) ==
  LET parent == t.parent[n] IN
  IF parent = NIL \/ Black(t, parent) THEN Paint(t, t.root, "black")
  ELSE
    LET gparent == t.parent[parent]
        d == IF t.kid[gparent]["left"] = parent THEN "left" ELSE "right"
        uncle == t.kid[gparent][Other(d)]
        bent == t.kid[parent][Other(d)] = n
        u1 == IF bent THEN rbe_rotate(t, parent, d) ELSE t
        top == IF bent THEN n ELSE parent
    IN IF ~Black(t, uncle)
       THEN rbe_insert_color(rbe_set_blackred(Paint(t, uncle, "black"), parent, gparent), gparent)
       ELSE rbe_insert_color(rbe_rotate(rbe_set_blackred(u1, top, gparent), gparent, Other(d)),
                             IF bent THEN parent ELSE n)

_rb_insert(t, key) ==
  LET end == Descend(t, key, t.root, NIL)
      parent == end[2]
      u1 == [t EXCEPT !.kid[key] = [d \in Sides |-> NIL], !.parent[key] = parent,
                      !.color[key] = "red"]
      u2 == IF parent = NIL THEN [u1 EXCEPT !.root = key]
            ELSE [u1 EXCEPT !.kid[parent][IF key < parent THEN "left" ELSE "right"] = key]
  IN IF end[1] # NIL THEN t ELSE rbe_insert_color(u2, key)

-----------------------------------------------------------------------------

\* The black height below parent is one short on the side of n.
RECURSIVE rbe_remove_color(_, _, _)
rbe_remove_color(t, parent, n) ==
  IF ~Black(t, n) \/ n = t.root THEN Paint(t, n, "black")
  ELSE
    LET d == IF t.kid[parent]["left"] = n THEN "left" ELSE "right"
        tmp0 == t.kid[parent][Other(d)]
        u1 == IF Black(t, tmp0) THEN t
              ELSE rbe_rotate(rbe_set_blackred(t, tmp0, parent), parent, d)
        tmp1 == u1.kid[parent][Other(d)]
        bothBlack == \A s \in Sides : Black(u1, u1.kid[tmp1][s])
        u2 == IF ~Black(u1, u1.kid[tmp1][Other(d)]) THEN u1
              ELSE rbe_rotate(rbe_set_blackred(u1, u1.kid[tmp1][d], tmp1), tmp1, Other(d))
        tmp2 == u2.kid[parent][Other(d)]
        u3 == Paint(Paint(Paint(u2, tmp2, u2.color[parent]), parent, "black"),
                    u2.kid[tmp2][Other(d)], "black")
        u4 == rbe_rotate(u3, parent, d)
    IN IF bothBlack THEN rbe_remove_color(Paint(u1, tmp1, "red"), u1.parent[parent], parent)
       ELSE Paint(u4, u4.root, "black")

RECURSIVE Extreme(_, _, _)
Extreme(t, n, d) == IF n = NIL \/ t.kid[n][d] = NIL THEN n ELSE Extreme(t, t.kid[n][d], d)

\* A node with two children changes places with its successor first.
rbe_remove(t, old) ==
  LET two == \A d \in Sides : t.kid[old][d] # NIL
      n == IF two THEN Extreme(t, t.kid[old]["right"], "left") ELSE old
      child == IF t.kid[n]["left"] # NIL THEN t.kid[n]["left"] ELSE t.kid[n]["right"]
      u1 == Relink(SetParent(t, child, t.parent[n]), t.parent[n], n, child)
      u2 == [u1 EXCEPT !.kid[n] = u1.kid[old], !.parent[n] = u1.parent[old],
                       !.color[n] = u1.color[old]]
      u3 == Relink(u2, u2.parent[n], old, n)
      u4 == SetParent(SetParent(u3, u3.kid[n]["left"], n), u3.kid[n]["right"], n)
      parent == IF two /\ t.parent[n] = old THEN n ELSE t.parent[n]
      t5 == IF two THEN u4 ELSE u1
  IN IF t.color[n] = "black" THEN rbe_remove_color(t5, parent, child) ELSE t5

-----------------------------------------------------------------------------
_rb_find(t, key) == Descend(t, key, t.root, NIL)[1]

RECURSIVE NFind(_, _, _, _)
NFind(t, key, n, res) ==
  IF n = NIL THEN res
  ELSE IF n = key THEN n
  ELSE IF key < n THEN NFind(t, key, t.kid[n]["left"], n)
  ELSE NFind(t, key, t.kid[n]["right"], res)

\* _rb_next with d = "right", _rb_prev with d = "left".
RECURSIVE Climb(_, _, _)
Climb(t, n, d) ==
  IF t.parent[n] # NIL /\ t.kid[t.parent[n]][d] = n THEN Climb(t, t.parent[n], d)
  ELSE t.parent[n]
Neighbour(t, n, d) ==
  IF t.kid[n][d] # NIL THEN Extreme(t, t.kid[n][d], Other(d)) ELSE Climb(t, n, d)

RECURSIVE Below(_, _)
Below(t, n) == IF n = NIL THEN {} ELSE {n} \cup UNION {Below(t, t.kid[n][d]) : d \in Sides}
Members(t) == Below(t, t.root)

Insert(key) == rbt' = _rb_insert(rbt, key)
Remove(key) ==
  /\ _rb_find(rbt, key) = key
  /\ rbt' = [rbe_remove(rbt, key) EXCEPT !.kid[key] = [d \in Sides |-> NIL],
                                         !.parent[key] = NIL, !.color[key] = "red"]

Next == \E key \in Keys : Insert(key) \/ Remove(key)

-----------------------------------------------------------------------------
MinOf(S) == IF S = {} THEN NIL ELSE CHOOSE x \in S : \A y \in S : x <= y
MaxOf(S) == IF S = {} THEN NIL ELSE CHOOSE x \in S : \A y \in S : x >= y

RECURSIVE BlackHeight(_, _)   \* -1: the sides differ
BlackHeight(t, n) ==
  IF n = NIL THEN 0
  ELSE LET l == BlackHeight(t, t.kid[n]["left"])
           r == BlackHeight(t, t.kid[n]["right"])
       IN IF l # r \/ l < 0 THEN -1 ELSE l + (IF t.color[n] = "black" THEN 1 ELSE 0)

\* Whatever is inserted and removed in whatever order, the tree is ordered, its
\* links agree, no red node has a red child and all paths have the same number
\* of black nodes: a search is logarithmic.
IsRedBlack(t) ==
  /\ Black(t, t.root) /\ (t.root # NIL => t.parent[t.root] = NIL)
  /\ BlackHeight(t, t.root) >= 0
  /\ \A n \in Members(t), d \in Sides : LET c == t.kid[n][d] IN c # NIL =>
       /\ t.parent[c] = n /\ (Black(t, n) \/ Black(t, c))
       /\ \A m \in Below(t, c) : IF d = "left" THEN m < n ELSE m > n

\* The searches find what a scan of the members would (subr_tree.c:440-556).
SearchesAgree(t) ==
  LET S == Members(t) IN
  /\ Extreme(t, t.root, "left") = MinOf(S) /\ Extreme(t, t.root, "right") = MaxOf(S)
  /\ \A k \in Keys : /\ NFind(t, k, t.root, NIL) = MinOf({m \in S : m >= k})
                     /\ (_rb_find(t, k) = k) = (k \in S)
  /\ \A n \in S : /\ Neighbour(t, n, "right") = MinOf({m \in S : m > n})
                  /\ Neighbour(t, n, "left") = MaxOf({m \in S : m < n})

TreeIsSound == IsRedBlack(rbt) /\ SearchesAgree(rbt)
=============================================================================

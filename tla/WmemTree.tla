------------------------------ MODULE WmemTree ------------------------------
(* The red-black trees of wmem: wmem_tree.c with 32-bit keys and with string  *)
(* keys, and the interval tree built on it in wmem_interval_tree.c.  A node   *)
(* is named by the key it holds (the low edge of an interval), 0 is NULL, and *)
(* the left and right cases of the code, which mirror each other, are one     *)
(* definition with the side as a parameter.                                   *)
EXTENDS Integers, Sequences, FiniteSets, FiniteSetsExt

CONSTANTS WtKeys32, WtStrings, WtLows,  \* what is inserted into each kind of tree
          WtWide                        \* high edges of intervals that are not a point

VARIABLES wtKind, \* "int32", "string" or "interval"
          wt,     \* the tree
          wtDict  \* what its calls have put in and not taken out

wtVars == <<wtKind, wt, wtDict>>

WtNull == 0
WtKeys == WtKeys32 \cup WtStrings \cup WtLows
Sides == {"left", "right"}
Opposite(s) == IF s = "left" THEN "right" ELSE "left"

EmptyTree == [root |-> WtNull,
              child |-> [s \in Sides |-> [k \in WtKeys |-> WtNull]],
              parent |-> [k \in WtKeys |-> WtNull],
              red |-> {}, removed |-> {},
              high |-> [k \in WtKeys |-> 0], max_edge |-> [k \in WtKeys |-> 0]]

WtInit ==
  /\ wtKind \in {"int32", "string", "interval"}
  /\ wt = EmptyTree
  /\ wtDict = {}

IsRed(t, n) == n # WtNull /\ n \in t.red
SideOf(t, n) == IF t.child["left"][t.parent[n]] = n THEN "left" ELSE "right"

(* update_max_edge climbs as long as something changes.                       *)
RECURSIVE update_max_edge(_, _)
update_max_edge(t, n) ==
  IF n = WtNull THEN t
  ELSE LET edge == Max({t.high[n]} \cup {t.max_edge[t.child[s][n]] :
                                            s \in {s \in Sides : t.child[s][n] # WtNull}})
       IN  IF t.max_edge[n] = edge THEN t
           ELSE update_max_edge([t EXCEPT !.max_edge[n] = edge], t.parent[n])

(* post_rotation_cb, of interval trees only                                   *)
update_edges_after_rotation(t, n) ==
  IF wtKind # "interval" THEN t
  ELSE LET u == update_max_edge(t, t.child["left"][n]) IN update_max_edge(u, u.child["right"][n])

(* rotate_left is Rotate(t, n, "left"): the right child takes the place of n. *)
Rotate(t, n, s) ==
  LET o == Opposite(s)
      up == t.child[o][n]
      p == t.parent[n]
      inner == t.child[s][up]
      hung == IF p = WtNull THEN t.child ELSE [t.child EXCEPT ![SideOf(t, n)][p] = up]
      moved == [t.parent EXCEPT ![up] = p, ![n] = up]
  IN  update_edges_after_rotation(
        [t EXCEPT !.root = IF p = WtNull THEN up ELSE @,
                  !.child = [hung EXCEPT ![o][n] = inner, ![s][up] = n],
                  !.parent = IF inner = WtNull THEN moved ELSE [moved EXCEPT ![inner] = n]], n)

node_uncle(t, n) ==
  LET p == t.parent[n] IN
    IF p = WtNull \/ t.parent[p] = WtNull THEN WtNull ELSE t.child[Opposite(SideOf(t, p))][t.parent[p]]

rb_insert_case5(t, n) ==
  LET p == t.parent[n]
      g == t.parent[p]
      u == [t EXCEPT !.red = (@ \ {p}) \cup {g}]
  IN  Rotate(u, g, IF SideOf(t, n) = "left" /\ SideOf(t, p) = "left" THEN "right" ELSE "left")

\* Mutant: an inner grandchild is not turned outwards first.
rb_insert_case4_direct(t, n) ==
  IF t.parent[t.parent[n]] = WtNull THEN t ELSE rb_insert_case5(t, n)
rb_insert_case4(t, n) ==
  LET p == t.parent[n] IN
    IF t.parent[p] = WtNull THEN t
    ELSE IF SideOf(t, n) # SideOf(t, p) THEN rb_insert_case5(Rotate(t, p, SideOf(t, p)), p)
    ELSE rb_insert_case5(t, n)

(* rb_insert_case1, with cases 2 and 3                                        *)
RECURSIVE rb_insert_case1(_, _)
rb_insert_case1(t, n) ==
  LET p == t.parent[n]
      g == t.parent[p]
      uncle == node_uncle(t, n)
  IN  IF p = WtNull THEN [t EXCEPT !.red = @ \ {n}]
      ELSE IF p \notin t.red THEN t
      ELSE IF IsRed(t, uncle) THEN rb_insert_case1([t EXCEPT !.red = (@ \ {p, uncle}) \cup {g}], g)
      ELSE rb_insert_case4(t, n)

(* The node with this key, or the one below which it belongs.                 *)
RECURSIVE Descend(_, _, _)
Descend(t, n, key) ==
  LET next == t.child[IF key < n THEN "left" ELSE "right"][n]
  IN  IF key = n \/ next = WtNull THEN n ELSE Descend(t, next, key)

(* wmem_tree_insert_node, and lookup_or_insert32_node with replace.           *)
wmem_tree_insert_node(t, key) ==
  IF t.root = WtNull THEN [t EXCEPT !.root = key]
  ELSE LET n == Descend(t, t.root, key) IN
    IF n = key THEN [t EXCEPT !.removed = @ \ {key}]
    ELSE rb_insert_case1([t EXCEPT !.child[IF key < n THEN "left" ELSE "right"][n] = key,
                                   !.parent[key] = n, !.red = @ \cup {key}], key)

InTree(t) == IF t.root = WtNull THEN {} ELSE {t.root} \cup {k \in WtKeys : t.parent[k] # WtNull}

(* rb_remove_doubleblack after the leaf is cut off: the paths below side s of *)
(* p lack a black node.                                                       *)
RECURSIVE Rebalance(_, _, _)
Rebalance(t, p, s) ==
  LET o == Opposite(s)
      sib == t.child[o][p]
      close == t.child[s][sib]
      distant == t.child[o][sib]
      d4(u, b) == [u EXCEPT !.red = (@ \ {p}) \cup {b}]
      d6(u, b, d) == LET v == Rotate(u, p, s) IN
        [v EXCEPT !.red = (IF p \in v.red THEN @ \cup {b} ELSE @ \ {b}) \ {p, d}]
      d5(u, b, c) == LET v == Rotate(u, b, o) IN d6([v EXCEPT !.red = (@ \cup {b}) \ {c}], c, b)
      d3 == LET v == Rotate(t, p, s)
                u == [v EXCEPT !.red = (@ \cup {p}) \ {sib}]
            IN  CASE IsRed(u, u.child[o][close]) -> d6(u, close, u.child[o][close])
                  [] ~IsRed(u, u.child[o][close]) /\ IsRed(u, u.child[s][close])
                       -> d5(u, close, u.child[s][close])
                  [] OTHER -> d4(u, close)
  IN  CASE p = WtNull -> t
        [] p # WtNull /\ IsRed(t, sib) -> d3
        [] p # WtNull /\ ~IsRed(t, sib) /\ IsRed(t, distant) -> d6(t, sib, distant)
        [] p # WtNull /\ ~IsRed(t, sib) /\ ~IsRed(t, distant) /\ IsRed(t, close) -> d5(t, sib, close)
        [] OTHER -> IF p \in t.red THEN d4(t, sib)
                    ELSE LET u == [t EXCEPT !.red = @ \cup {sib}] IN
                           IF t.parent[p] = WtNull THEN u ELSE Rebalance(u, t.parent[p], SideOf(t, p))

(* The nodes k and m with their keys exchanged: everything that named one of  *)
(* them names the other.                                                      *)
KeysSwapped(t, k, m) ==
  LET as(n) == IF n = k THEN m ELSE IF n = m THEN k ELSE n
  IN  [t EXCEPT !.root = as(@),
                !.child = [s \in Sides |-> [n \in WtKeys |-> as(@[s][as(n)])]],
                !.parent = [n \in WtKeys |-> as(@[as(n)])],
                !.red = {as(n) : n \in @}]

RECURSIVE Leftmost(_, _)
Leftmost(t, n) == IF t.child["left"][n] = WtNull THEN n ELSE Leftmost(t, t.child["left"][n])

(* rb_remove_node of a node with at most one child, which then is red; and of *)
(* any node, which takes the key of its successor and leaves in its place.    *)
Spliced(t, n) ==
  LET p == t.parent[n]
      c == IF t.child["left"][n] # WtNull THEN t.child["left"][n] ELSE t.child["right"][n]
      hung == IF p = WtNull THEN [t EXCEPT !.root = c] ELSE [t EXCEPT !.child[SideOf(t, n)][p] = c]
      up == IF c = WtNull THEN hung ELSE [hung EXCEPT !.parent[c] = p, !.red = @ \ {c}]
      freed(u) == [u EXCEPT !.child = [s \in Sides |-> [@[s] EXCEPT ![n] = WtNull]],
                            !.parent[n] = WtNull, !.red = @ \ {n}]
  IN  IF c = WtNull /\ n \notin t.red /\ p # WtNull
      THEN freed(Rebalance(up, p, SideOf(t, n)))
      ELSE freed(up)
rb_remove_node(t, n) ==
  IF t.child["left"][n] # WtNull /\ t.child["right"][n] # WtNull
  THEN Spliced(KeysSwapped(t, n, Leftmost(t, t.child["right"][n])), n)
  ELSE Spliced(t, n)

(* wmem_tree_lookup32_le and _ge: where the search ends, or an ancestor.      *)
RECURSIVE Ancestor(_, _, _)
Ancestor(t, n, fit) == IF n = WtNull \/ n \in fit THEN n ELSE Ancestor(t, t.parent[n], fit)
Nearest(t, key, s) ==
  LET fit == {k \in WtKeys : IF s = "left" THEN k < key ELSE k > key}
      n == Descend(t, t.root, key)
  IN  CASE t.root = WtNull -> WtNull
        [] t.root # WtNull /\ (n = key \/ n \in fit) -> n
        [] t.root # WtNull /\ n # key /\ n \notin fit /\ t.parent[n] = WtNull -> WtNull
        [] OTHER -> IF SideOf(t, n) = s THEN Ancestor(t, n, fit) ELSE t.parent[n]
wmem_tree_lookup32_le_node(t, key) == Nearest(t, key, "left")
wmem_tree_lookup32_ge_node(t, key) == Nearest(t, key, "right")

(* wmem_itree_find_intervals                                                  *)
RECURSIVE wmem_itree_find_intervals_in_subtree(_, _, _, _)
wmem_itree_find_intervals_in_subtree(t, n, low, high) ==
  IF n = WtNull \/ low > t.max_edge[n] THEN {}
  ELSE (IF n <= high /\ low <= t.high[n] THEN {n} ELSE {})
         \cup UNION {wmem_itree_find_intervals_in_subtree(t, t.child[s][n], low, high) : s \in Sides}

RECURSIVE wmem_tree_foreach_nodes(_, _)
wmem_tree_foreach_nodes(t, n) ==
  IF n = WtNull THEN <<>>
  ELSE wmem_tree_foreach_nodes(t, t.child["left"][n])
         \o (IF n \in t.removed THEN <<>> ELSE <<n>>)
         \o wmem_tree_foreach_nodes(t, t.child["right"][n])

wmem_tree_insert32(k) ==
  /\ wtKind = "int32"
  /\ wt' = wmem_tree_insert_node(wt, k)
  /\ wtDict' = wtDict \cup {k}
  /\ UNCHANGED wtKind

wmem_tree_remove32(k) ==
  /\ wtKind = "int32"
  /\ wt' = IF k \in InTree(wt) THEN rb_remove_node(wt, k) ELSE wt
  /\ wtDict' = wtDict \ {k}
  /\ UNCHANGED wtKind

wmem_tree_insert_string(k) ==
  /\ wtKind = "string"
  /\ wt' = wmem_tree_insert_node(wt, k)
  /\ wtDict' = wtDict \cup {k}
  /\ UNCHANGED wtKind

(* A string is not taken out: its data becomes NULL, and that marks the node. *)
wmem_tree_remove_string(k) ==
  /\ wtKind = "string"
  /\ wt' = IF k \in InTree(wt) \ wt.removed
           THEN [wmem_tree_insert_node(wt, k) EXCEPT !.removed = @ \cup {k}] ELSE wt
  /\ wtDict' = wtDict \ {k}
  /\ UNCHANGED wtKind

(* A new interval: a node without an edge is linked in, and the edges follow. *)
(* A client does not insert a second interval with the same low edge.         *)
wmem_itree_insert(low, high) ==
  /\ wtKind = "interval" /\ low \notin wtDict /\ low <= high
  /\ wt' = update_max_edge(wmem_tree_insert_node([wt EXCEPT !.high[low] = high], low), low)
  /\ wtDict' = wtDict \cup {low}
  /\ UNCHANGED wtKind

(* wmem_tree_destroy, or the callback when the memory of the nodes is freed.  *)
wmem_tree_destroy ==
  /\ wt' = EmptyTree /\ wtDict' = {}
  /\ UNCHANGED wtKind

WtNext ==
  \/ \E k \in WtKeys32 : wmem_tree_insert32(k) \/ wmem_tree_remove32(k)
  \/ \E k \in WtStrings : wmem_tree_insert_string(k) \/ wmem_tree_remove_string(k)
  \/ \E k \in WtLows : \E h \in {k} \cup WtWide : wmem_itree_insert(k, h)
  \/ wmem_tree_destroy

WtSpec == WtInit /\ [][WtNext]_wtVars

------------------------------------------------------------------------------
RECURSIVE BlackHeights(_, _)
BlackHeights(t, n) ==
  IF n = WtNull THEN {0}
  ELSE {h + (IF n \in t.red THEN 0 ELSE 1) :
          h \in UNION {BlackHeights(t, t.child[s][n]) : s \in Sides}}

(* After every call the tree is a red-black tree: the root is black, no red   *)
(* node has a red parent, every path has the same number of black nodes, and  *)
(* children and parents agree (rb_insert_case1, rb_remove_doubleblack).       *)
WtBalanced ==
  /\ ~IsRed(wt, wt.root)
  /\ \A n \in InTree(wt) : n \in wt.red => wt.parent[n] \notin wt.red
  /\ Cardinality(BlackHeights(wt, wt.root)) = 1
  /\ \A n \in InTree(wt), s \in Sides : wt.child[s][n] # WtNull => wt.parent[wt.child[s][n]] = n

(* wmem_tree_foreach visits exactly what was inserted and not removed, in     *)
(* ascending order, and a search from the root finds each of them.            *)
WtOrdered ==
  LET seq == wmem_tree_foreach_nodes(wt, wt.root) IN
    /\ {seq[i] : i \in DOMAIN seq} = wtDict
    /\ \A i \in 2..Len(seq) : seq[i - 1] < seq[i]
    /\ \A k \in wtDict : Descend(wt, wt.root, k) = k

(* The lookups of the nearest key answer the largest key not above, and the   *)
(* smallest one not below, the one asked for (wmem_tree_lookup32_le, _ge).    *)
WtNearest ==
  wtKind = "int32" => \A q \in 0..(Max(WtKeys) + 1) :
    LET below == {k \in wtDict : k <= q}
        above == {k \in wtDict : k >= q}
    IN  /\ wmem_tree_lookup32_le_node(wt, q) = IF below = {} THEN WtNull ELSE Max(below)
        /\ wmem_tree_lookup32_ge_node(wt, q) = IF above = {} THEN WtNull ELSE Min(above)

(* The trees stay balanced and ordered, and are searched correctly, through   *)
(* any sequence of insertions and removals.                                   *)
WtSound == WtBalanced /\ WtOrdered /\ WtNearest

(* wmem_itree_find_intervals answers exactly the intervals that overlap the   *)
(* one asked for: the max_edge of a node covers everything below it, also     *)
(* after rotations.                                                           *)
WtIntervals ==
  wtKind = "interval" => \A low \in 1..Max(WtWide) : \A high \in low..Max(WtWide) :
    wmem_itree_find_intervals_in_subtree(wt, wt.root, low, high)
      = {k \in wtDict : k <= high /\ low <= wt.high[k]}
==============================================================================

------------------------------ MODULE TabTree ------------------------------
(* The tree of splits of one tab and what a resize, a drag of a divider    *)
(* and a removal do to it (mux/src/tab.rs, bintree/src/lib.rs).  A node    *)
(* divides its area along a dimension and keeps the sizes of its two       *)
(* children, one cell being the divider.  A place in the tree is the path  *)
(* of "left" and "right" that leads to it.                                 *)
EXTENDS Integers, Sequences, FiniteSets, SequencesExt

Dims == {"cols", "rows"}

Empty == [kind |-> "empty"]
Leaf(p) == [kind |-> "leaf", pane |-> p]
Node(along, first, second, left, right) ==
    [kind |-> "node", along |-> along, first |-> first, second |-> second,
     left |-> left, right |-> right]

(* A subtree in which a loop of the code would never end.                  *)
Stuck == [kind |-> "stuck"]

IsNode(t) == t.kind = "node"
Larger(a, b) == IF a > b THEN a ELSE b
Smaller(a, b) == IF a < b THEN a ELSE b
Minus(a, b) == Larger(0, a - b)

(* The area a node was given (SplitDirectionAndSize::width and height).    *)
Extent(n) == [d \in Dims |->
    IF d = n.along THEN n.first[d] + n.second[d] + 1 ELSE n.first[d]]

Slot(n, side) == IF side = "left" THEN n.first ELSE n.second

RECURSIVE At(_, _)
At(t, path) == IF path = <<>> THEN t ELSE At(t[Head(path)], Tail(path))

RECURSIVE Put(_, _, _)
Put(t, path, u) ==
    IF path = <<>> THEN u ELSE [t EXCEPT ![Head(path)] = Put(@, Tail(path), u)]

(* The places of t in preorder. *)
RECURSIVE Places(_)
Places(t) ==
    LET below(side) == LET sub == Places(t[side]) IN [i \in DOMAIN sub |-> <<side>> \o sub[i]]
    IN IF IsNode(t) THEN <<<<>>>> \o below("left") \o below("right") ELSE <<<<>>>>

LeafPlaces(t) == SelectSeq(Places(t), LAMBDA path : At(t, path).kind = "leaf")
SplitPlaces(t) == SelectSeq(Places(t), LAMBDA path : IsNode(At(t, path)))

(* The panes in the order of iter_panes_ignoring_zoom. *)
RECURSIVE Leaves(_)
Leaves(t) ==
    IF IsNode(t) THEN Leaves(t.left) \o Leaves(t.right)
    ELSE IF t.kind = "leaf" THEN <<t.pane>> ELSE <<>>

PlaceOf(t, p) ==
    LET leaves == Leaves(t) IN LeafPlaces(t)[CHOOSE i \in DOMAIN leaves : leaves[i] = p]

RECURSIVE IsStuck(_)
IsStuck(t) == t = Stuck \/ (IsNode(t) /\ (IsStuck(t.left) \/ IsStuck(t.right)))

SlotAt(t, size, path) == IF path = <<>> THEN size ELSE Slot(At(t, Front(path)), Last(path))

(* Mutant: the second child comes first. *)
NextPlaceReversed(t, path) ==
    LET lefts == {i \in DOMAIN path : path[i] = "left"}
        turn  == CHOOSE i \in lefts : \A j \in lefts : j <= i
    IN IF IsNode(At(t, path)) THEN Append(path, "right")
       ELSE IF lefts = {} THEN path
       ELSE Append(SubSeq(path, 1, turn - 1), "right")

(* The place after path, or path itself at the end (Cursor::preorder_next). *)
NextPlace(t, path) ==
    LET lefts == {i \in DOMAIN path : path[i] = "left"}
        turn  == CHOOSE i \in lefts : \A j \in lefts : j <= i
    IN IF IsNode(At(t, path)) THEN Append(path, "left")
       ELSE IF lefts = {} THEN path
       ELSE Append(SubSeq(path, 1, turn - 1), "right")

(* compute_min_size. *)
RECURSIVE MinSize(_)
MinSize(t) ==
    LET a == MinSize(t.left)
        b == MinSize(t.right)
    IN IF IsNode(t)
       THEN [d \in Dims |-> IF d = t.along THEN a[d] + b[d] + 1 ELSE Larger(a[d], b[d])]
       ELSE [d \in Dims |-> 1]

(* adjust_x_size and adjust_y_size: the area of t changes by n along d.    *)
(* Across its split a node passes the change on to both children; along it *)
(* the children take turns, a cell each.  Two children of one cell each    *)
(* cannot shrink and the loop never ends.                                  *)
RECURSIVE Adjusted(_, _, _)
Adjusted(t, d, n) ==
    LET across == Larger(t.first[d] + n, MinSize(t)[d])
        unit   == IF n > 0 THEN 1 ELSE -1
        one(u) == IF n > 0 \/ u.first[d] > 1
                  THEN [u EXCEPT !.left = Adjusted(@, d, unit), !.first[d] = @ + unit] ELSE u
        other(u, k) == IF k # 0 /\ (n > 0 \/ u.second[d] > 1)
                       THEN [u EXCEPT !.right = Adjusted(@, d, unit), !.second[d] = @ + unit] ELSE u
        u1 == one(t)
        n1 == IF u1 = t THEN n ELSE n - unit
        u2 == other(u1, n1)
        n2 == IF u2 = u1 THEN n1 ELSE n1 - unit
    IN IF n = 0 \/ ~IsNode(t) THEN t
       ELSE IF d # t.along THEN
            IF across = t.first[d] THEN t
            ELSE [t EXCEPT !.left = Adjusted(@, d, across - t.first[d]),
                           !.right = Adjusted(@, d, across - t.first[d]),
                           !.first[d] = across, !.second[d] = across]
       ELSE IF n2 = n THEN Stuck ELSE Adjusted(u2, d, n2)

(* Mutant: the second child keeps its size along the split too.            *)
FittedAcross(n, size) ==
    [n EXCEPT
        !.first = [d \in Dims |-> IF d = n.along THEN @[d] ELSE size[d]],
        !.second = [d \in Dims |-> IF d = n.along THEN @[d] ELSE size[d]]]

(* apply_pane_size: the first child keeps its size along the split, the    *)
(* second takes what is left of it.                                        *)
Fitted(n, size) ==
    [n EXCEPT
        !.first = [d \in Dims |-> IF d = n.along THEN @[d] ELSE size[d]],
        !.second = [d \in Dims |-> IF d = n.along THEN Minus(size[d], 1 + n.first[d]) ELSE size[d]]]

RECURSIVE Laid(_, _)
Laid(t, size) ==
    LET n == Fitted(t, size)
    IN IF IsNode(t) THEN [n EXCEPT !.left = Laid(@, n.first), !.right = Laid(@, n.second)] ELSE t

(* cascade_size_from_cursor: from the node at path on, in preorder to the  *)
(* end of the tree, every node is fitted into its parent.                  *)
RECURSIVE LaidFrom(_, _)
LaidFrom(t, path) ==
    LET side == Head(path)
    IN IF path = <<>>
       THEN [t EXCEPT !.left = Laid(@, t.first), !.right = Laid(@, t.second)]
       ELSE IF side = "left"
       THEN [t EXCEPT !.left = LaidFrom(@, Tail(path)), !.right = Laid(@, t.second)]
       ELSE [t EXCEPT !.right = LaidFrom(@, Tail(path))]

(* adjust_node_at_cursor: the divider moves by delta and stays inside.     *)
Moved(n, delta) ==
    LET d    == n.along
        area == Extent(n)[d]
        cut  == Smaller(Larger(n.first[d] + delta, 1), area - 2)
    IN [n EXCEPT !.first[d] = cut, !.second[d] = Minus(area, cut + 1)]
=============================================================================

------------------------------ MODULE TabPanes ------------------------------
(* The panes of one tab (TabInner of mux/src/tab.rs): splits, which wait   *)
(* for their pane to be spawned, zoom, resizes, drags of the dividers,     *)
(* rotation and swaps, and panes that end, one or several at a time, and   *)
(* are pruned.                                                             *)
EXTENDS TabTree, TLC

CONSTANTS
    Panes,      \* bound: panes ever spawned for the tab
    None,       \* no pane
    First,      \* the pane the tab starts with
    Sizes,      \* sizes the window gives the tab, Start among them
    Start,
    Deltas,     \* how far a divider is dragged
    MaxMoves    \* bound: what the user does to the tab, a split counting for two

ASSUME TabAssumption ==
    /\ First \in Panes /\ None \notin Panes /\ MaxMoves \in Nat
    /\ Start \in Sizes /\ Sizes \subseteq [Dims -> Nat \ {0}] /\ Deltas \subseteq Int

Requests == [along : Dims, second : BOOLEAN, top : BOOLEAN]

VARIABLES
    tab,        \* the TabInner, and the sizes of the ptys of its panes
    splits,     \* splits whose pane is being spawned
    fresh,      \* panes not spawned yet
    dead,       \* panes of the tab whose program has ended, or which the mux has let go
    moves

vars == <<tab, splits, fresh, dead, moves>>

Init ==
    /\ tab = [tree |-> Leaf(First), size |-> Start, before |-> Start, active |-> 0,
              zoomed |-> None, pty |-> (First :> Start)]
    /\ splits = {}
    /\ fresh = Panes \ {First}
    /\ dead = {}
    /\ moves = 0

InTab(r) == Range(Leaves(r.tree))

(* get_active_pane. *)
ActivePane(r) ==
    IF r.zoomed # None THEN r.zoomed
    ELSE IF r.active < Len(Leaves(r.tree)) THEN Leaves(r.tree)[r.active + 1]
    ELSE None

IndexOf(r, p) == LET ps == Leaves(r.tree) IN (CHOOSE i \in DOMAIN ps : ps[i] = p) - 1

SlotOf(r, p) == SlotAt(r.tree, r.size, PlaceOf(r.tree, p))

(* The ptys of the panes in those are given the sizes of their slots.      *)
Told(r, those) ==
    [r EXCEPT !.pty = [p \in InTab(r) |-> IF p \in those THEN SlotOf(r, p) ELSE @[p]]]

Hangs(r) == IsStuck(r.tree)

(* resize, down to the least size the panes need. *)
Resized(r, size) ==
    LET min  == MinSize(r.tree)
        new  == [d \in Dims |-> Larger(size[d], min[d])]
        wide == Adjusted(r.tree, "cols", new["cols"] - r.size["cols"])
        tall == Adjusted(wide, "rows", new["rows"] - r.size["rows"])
    IN IF r.zoomed # None THEN [r EXCEPT !.size = size, !.pty[r.zoomed] = size]
       ELSE IF IsStuck(tall) THEN [r EXCEPT !.tree = Stuck]
       ELSE Told([r EXCEPT !.tree = tall, !.size = new], InTab(r))

(* toggle_zoom; the size before the zoom matters only while it lasts.      *)
ZoomToggled(r) ==
    LET p == ActivePane(r)
    IN IF r.zoomed # None
       THEN Resized([r EXCEPT !.zoomed = None, !.size = r.before, !.before = Start], r.size)
       ELSE IF p = None THEN r
       ELSE [r EXCEPT !.before = r.size, !.zoomed = p, !.pty[p] = r.size]

(* set_zoomed(false). *)
Unzoomed(r) == IF r.zoomed # None THEN ZoomToggled(r) ELSE r

(* split_dimension, for half of the area. *)
Halves(n, second) ==
    LET target == Larger(n \div 2, 1)
        remain == Minus(n, target + 1)
    IN IF second THEN <<remain, target>> ELSE <<target, remain>>

(* compute_split_size, of an area split as req asks. *)
Division(area, req) ==
    LET cut == Halves(area[req.along], req.second)
    IN [first |-> [area EXCEPT ![req.along] = cut[1]],
        second |-> [area EXCEPT ![req.along] = cut[2]]]

AreaOf(r, p, req) == IF req.top THEN r.size ELSE SlotOf(r, p)

(* Both halves hold something, and the second ends inside the tab.         *)
HasRoom(r, cut, along) ==
    \A d \in Dims :
        /\ cut.first[d] > 0 /\ cut.second[d] > 0
        /\ (IF d = along THEN cut.first[d] + 1 ELSE 0) + cut.second[d] <= r.size[d]

(* split_and_insert: the new pane, whose pty has the given size, beside    *)
(* the pane with the number idx or beside all that the tab holds.          *)
Inserted(r, idx, req, new, size) ==
    LET p    == Leaves(r.tree)[idx + 1]
        cut  == Division(AreaOf(r, p, req), req)
        root == req.top /\ IsNode(r.tree)
        q    == IF root THEN Resized(r, IF req.second THEN cut.first ELSE cut.second) ELSE r
        pair(old) == IF req.second THEN Node(req.along, cut.first, cut.second, old, Leaf(new))
                     ELSE Node(req.along, cut.first, cut.second, Leaf(new), old)
        beside == [r EXCEPT !.tree = Put(r.tree, PlaceOf(r.tree, p), pair(Leaf(p))),
                            !.pty = @ @@ (new :> size),
                            !.active = IF req.second THEN idx + 1 ELSE @]
    IN IF ~HasRoom(r, cut, req.along) THEN r
       ELSE IF ~root THEN Told(beside, {p, new})
       ELSE IF Hangs(q) THEN q
       ELSE [q EXCEPT !.tree = pair(q.tree),
                      !.pty = @ @@ (new :> size),
                      !.active = IF req.second THEN Len(Leaves(q.tree)) ELSE 0]

(* The zoom ends with its pane. *)
WithoutZoom(r, p) == IF r.zoomed = p THEN [r EXCEPT !.zoomed = None, !.before = Start] ELSE r

(* One leaf or node of the walk of remove_pane_if, w.at being where the    *)
(* cursor is and w.index the number it believes the leaf has.              *)
RECURSIVE Walked(_, _)
Walked(w, bad) ==
    LET r     == w.tab
        here  == At(r.tree, w.at)
        slot  == SlotAt(r.tree, r.size, w.at)
        up    == Front(w.at)
        above == At(r.tree, up)
        twin  == IF Last(w.at) = "left" THEN above.right ELSE above.left
        area  == Extent(above)
        gone  == WithoutZoom(r, here.pane)
        cut   == [w EXCEPT
                    !.tab = [gone EXCEPT
                        !.tree = Put(@, up, IF IsNode(twin) THEN Fitted(twin, area) ELSE twin),
                        !.pty = IF IsNode(twin) THEN @ ELSE [@ EXCEPT ![twin.pane] = area]],
                    !.at = up,
                    !.index = @ + 1,
                    !.removed = Append(@, w.index),
                    !.gone = @ \cup {here.pane}]
        leaf  == [w EXCEPT !.index = @ + 1,
                           !.tab.pty[here.pane] = IF w.gone = {} THEN @ ELSE slot]
        node  == [w EXCEPT !.tab.tree = IF w.gone = {} THEN @ ELSE Put(@, w.at, Fitted(here, slot))]
        x     == IF IsNode(here) THEN node ELSE IF here.pane \in bad THEN cut ELSE leaf
        next  == NextPlace(x.tab.tree, x.at)
    IN IF here.kind = "empty" THEN w
       ELSE IF here.kind = "leaf" /\ w.at = <<>> /\ here.pane \in bad
       THEN [w EXCEPT !.tab = [gone EXCEPT !.tree = Empty], !.gone = @ \cup {here.pane},
                      !.removed = Append(@, w.index)]
       ELSE IF next = x.at THEN x
       ELSE Walked([x EXCEPT !.at = next], bad)

Started(r) == [tab |-> r, at |-> <<>>, index |-> 0, removed |-> <<>>, gone |-> {}]

(* Mutant: the active index also follows the panes after it.               *)
RemovalShiftingAll(r, bad) ==
    LET w == Walked(Started(r), bad)
    IN [w.tab EXCEPT !.active = Minus(@, Len(w.removed)), !.pty = Restrict(@, InTab(w.tab))]

(* remove_pane_if: the panes in bad leave the tab, one of two that share a *)
(* split, and the active index follows the numbers the walk gave them.     *)
Removal(r, bad) ==
    LET w == Walked(Started(r), bad)
        below == Len(SelectSeq(w.removed, LAMBDA i : i <= r.active))
    IN [w.tab EXCEPT !.active = Minus(@, below), !.pty = Restrict(@, InTab(w.tab))]
-----------------------------------------------------------------------------
Open == tab.tree # Empty /\ ~Hangs(tab)

(* The bound on what the user does. *)
Effort(n) == Open /\ moves + n <= MaxMoves /\ moves' = moves + n

(* domain.split_pane up to the spawn of the new pane. *)
StartSplit(p, req) ==
    LET r == IF req.top THEN tab ELSE Unzoomed(tab)
    IN /\ Effort(2)
       /\ p \in InTab(tab)
       /\ tab' = r
       /\ \E new \in fresh :
            /\ fresh' = fresh \ {new}
            /\ splits' = IF Hangs(r) THEN splits
                         ELSE splits \cup {[of |-> p, index |-> IndexOf(r, p), req |-> req, new |-> new,
                                             size |-> Division(AreaOf(r, p, req), req).second]}
       /\ UNCHANGED dead

(* The number of the pane to split by the time the new one is spawned.     *)
FinalIndex(r, s) == IndexOf(r, s.of)

(* The new pane is spawned.  It finds its place unless the pane it was to  *)
(* be beside has gone, the tab is zoomed or there is no room.              *)
FinishSplit(s) ==
    /\ Open
    /\ splits' = splits \ {s}
    /\ tab' = IF s.of \notin InTab(tab) \/ tab.zoomed # None \/ FinalIndex(tab, s) >= Len(Leaves(tab.tree))
              THEN tab ELSE Inserted(tab, FinalIndex(tab, s), s.req, s.new, s.size)
    /\ UNCHANGED <<fresh, dead, moves>>

ToggleZoom ==
    /\ Effort(1)
    /\ tab' = ZoomToggled(tab)
    /\ UNCHANGED <<splits, fresh, dead>>

(* The window changes size. *)
Resize(size) ==
    /\ Effort(1)
    /\ tab' = Resized(tab, size)
    /\ UNCHANGED <<splits, fresh, dead>>

(* Mutant: the walk after a drag starts at the second child.               *)
FromPlaceRight(t, path) ==
    {p \in Range(Leaves(t)) :
        LET leaf == PlaceOf(t, p)
        IN \A i \in 1 .. Len(path) + 1 : i <= Len(leaf) /\ SubSeq(leaf, 1, i - 1) = SubSeq(path, 1, i - 1)
            => leaf[i] = "right" \/ (i <= Len(path) /\ path[i] = "left")}

(* The panes of t at or after the node at path, in preorder. *)
FromPlace(t, path) ==
    {p \in Range(Leaves(t)) :
        LET leaf == PlaceOf(t, p)
        IN \A i \in DOMAIN path : i <= Len(leaf) /\ SubSeq(leaf, 1, i - 1) = SubSeq(path, 1, i - 1)
            => leaf[i] = "right" \/ path[i] = "left"}

(* The divider of the node at path moves, and what follows is laid out.    *)
Dragged(r, path, delta) ==
    LET t == LaidFrom(Put(r.tree, path, Moved(At(r.tree, path), delta)), path)
    IN Told([r EXCEPT !.tree = t], FromPlace(t, path))

(* resize_split_by. *)
DragSplit(path, delta) ==
    /\ Effort(1)
    /\ tab.zoomed = None
    /\ tab' = Dragged(tab, path, delta)
    /\ UNCHANGED <<splits, fresh, dead>>

(* adjust_pane_size: the divider is that of the nearest split along d      *)
(* around the active pane.                                                 *)
AdjustPane(d, delta) ==
    LET place  == PlaceOf(tab.tree, ActivePane(tab))
        around == {i \in 0 .. Len(place) - 1 : At(tab.tree, SubSeq(place, 1, i)).along = d}
        i      == CHOOSE j \in around : \A k \in around : k <= j
    IN /\ Effort(1)
       /\ tab.zoomed = None
       /\ ActivePane(tab) # None
       /\ around # {}
       /\ tab' = Dragged(tab, SubSeq(place, 1, i), delta)
       /\ UNCHANGED <<splits, fresh, dead>>

(* set_active_pane, and the same for a neighbour (activate_pane_direction), *)
(* with unzoom_on_switch_pane.                                             *)
Activate(p) ==
    LET r == Unzoomed(tab)
    IN /\ Effort(1)
       /\ p \in InTab(tab) \ {ActivePane(tab)}
       /\ tab' = IF Hangs(r) THEN r ELSE [r EXCEPT !.active = IndexOf(r, p)]
       /\ UNCHANGED <<splits, fresh, dead>>

(* set_active_idx on an index that iter_panes shows, which in a zoomed tab *)
(* is 0, whatever the pane.                                                *)
ActivateFirst ==
    /\ Effort(1)
    /\ tab' = [tab EXCEPT !.active = 0]
    /\ UNCHANGED <<splits, fresh, dead>>

(* The panes of the tab become those of ps, in order. *)
Relabelled(r, ps) ==
    LET place == LeafPlaces(r.tree)
        t == FoldLeft(LAMBDA u, i : Put(u, place[i], Leaf(ps[i])), r.tree, [i \in DOMAIN place |-> i])
    IN Told([r EXCEPT !.tree = t], InTab(r))

(* rotate_clockwise and rotate_counter_clockwise. *)
Rotate(clockwise) ==
    LET ps == Leaves(tab.tree)
        n  == Len(ps)
    IN /\ Effort(1)
       /\ n > 1
       /\ tab' = Relabelled(tab, IF clockwise THEN <<ps[n]>> \o Front(ps) ELSE Append(Tail(ps), ps[1]))
       /\ UNCHANGED <<splits, fresh, dead>>

(* swap_active_with_index, with the tab unzoomed (PaneSelector).           *)
Swap(i, keep) ==
    LET ps == Leaves(tab.tree)
        a  == tab.active + 1
    IN /\ Effort(1)
       /\ tab.zoomed = None
       /\ a \in DOMAIN ps
       /\ i \in DOMAIN ps \ {a}
       /\ tab' = [Relabelled(tab, [ps EXCEPT ![i] = ps[a], ![a] = ps[i]])
                    EXCEPT !.active = IF keep THEN i - 1 ELSE @]
       /\ UNCHANGED <<splits, fresh, dead>>

(* A pane's program exits or its pty ends, and the tab is to be pruned.    *)
Ends(p) ==
    /\ Open
    /\ p \in InTab(tab) \ dead
    /\ dead' = dead \cup {p}
    /\ UNCHANGED <<tab, splits, fresh, moves>>

Take(bad) ==
    /\ Open
    /\ bad \cap InTab(tab) # {}
    /\ tab' = Removal(tab, bad)
    /\ dead' = dead \cap InTab(tab')
    /\ UNCHANGED <<splits, fresh, moves>>

(* kill_pane and remove_pane. *)
Close(p) == Take({p})

(* prune_dead_panes. *)
Prune == Take(dead)

Next ==
    \/ \E p \in Panes, req \in Requests : StartSplit(p, req)
    \/ \E s \in splits : FinishSplit(s)
    \/ ToggleZoom
    \/ \E size \in Sizes : Resize(size)
    \/ \E path \in Range(SplitPlaces(tab.tree)), delta \in Deltas : DragSplit(path, delta)
    \/ \E d \in Dims, delta \in Deltas : AdjustPane(d, delta)
    \/ \E p \in Panes : Activate(p)
    \/ ActivateFirst
    \/ \E clockwise \in BOOLEAN : Rotate(clockwise)
    \/ \E i \in 1 .. Cardinality(Panes), keep \in BOOLEAN : Swap(i, keep)
    \/ \E p \in Panes : Ends(p) \/ Close(p)
    \/ Prune

Spec == Init /\ [][Next]_vars
-----------------------------------------------------------------------------
RECURSIVE Tiles(_, _)
Tiles(t, size) ==
    IsNode(t) => /\ Extent(t) = size
                 /\ \A d \in Dims \ {t.along} : t.second[d] = t.first[d]
                 /\ Tiles(t.left, t.first) /\ Tiles(t.right, t.second)

(* The area the tree was last laid out for. *)
Frame(r) == IF r.zoomed # None THEN r.before ELSE r.size

Tidy(r) == Tiles(r.tree, Frame(r))

(* Some part of the tab is smaller than the least its panes need. *)
Cramped(r) ==
    \E path \in Range(Places(r.tree)), d \in Dims :
        SlotAt(r.tree, Frame(r), path)[d] < MinSize(At(r.tree, path))[d]

Fit(r) ==
    \A p \in InTab(r) :
        r.pty[p] = IF p = r.zoomed THEN r.size ELSE SlotAt(r.tree, Frame(r), PlaceOf(r.tree, p))

Gone == InTab(tab) \ InTab(tab')

Split(s) == s \in splits \ splits' /\ s.new \in InTab(tab')

TopSplit == \E s \in splits : Split(s) /\ s.req.top /\ IsNode(tab.tree)

Rotated == \E clockwise \in BOOLEAN : Rotate(clockwise)

InRange(r) == r.active < Len(Leaves(r.tree))

(* A split inside another along the same dimension. *)
NestedAlong(r) ==
    \E outer, inner \in Range(SplitPlaces(r.tree)) :
        /\ outer # inner /\ IsPrefix(outer, inner)
        /\ At(r.tree, outer).along = At(r.tree, inner).along

(* The panes and dividers go on covering the tab exactly, whatever is      *)
(* resized, dragged, split, closed or zoomed, unless a part of it becomes  *)
(* smaller than its panes need.  A split across the whole tab leaves its   *)
(* size at that of the old part, and a zoomed pane that ends leaves the    *)
(* tree laid out for the size before the zoom.  A resize ends, except that *)
(* a split whose panes have one cell each may be asked for a cell when the *)
(* split around it, along the same dimension, still has some.              *)
TilingSurvives ==
    [][Tidy(tab) =>
        \/ IF Hangs(tab') THEN NestedAlong(tab) ELSE Tidy(tab') \/ Cramped(tab')
        \/ TopSplit
        \/ tab.zoomed \in Gone /\ tab.size # tab.before]_vars

(* The pty of every pane has the size the pane is drawn with.  A pane      *)
(* added across the whole tab is not told the size of its slot, and a      *)
(* zoomed pane is told of its slot when the panes rotate or its sibling    *)
(* goes, though it fills the tab.                                          *)
PtysFollowSlots ==
    [][Fit(tab) /\ Tidy(tab) /\ Tidy(tab') =>
        \/ Fit(tab')
        \/ TopSplit
        \/ tab.zoomed # None /\ (Gone # {} \/ Rotated)]_vars

RemovalKeepsActive ==
    InRange(tab) /\ Open' /\ Cardinality(Gone) <= 1 =>
        /\ InRange(tab')
        /\ Cardinality(Gone) = 1 /\ ActivePane(tab) \notin Gone
             => ActivePane(tab') = ActivePane(tab)

NewIsBeside ==
    \A s \in splits : Split(s) =>
        LET i == IndexOf(tab', s.new)
        IN /\ i = IF s.req.top /\ IsNode(tab.tree)
                  THEN IF s.req.second THEN Len(Leaves(tab.tree)) ELSE 0
                  ELSE IndexOf(tab', s.of) + (IF s.req.second THEN 1 ELSE -1)
           /\ \/ ActivePane(tab') \in {s.new, ActivePane(tab)}
              \/ ~s.req.second /\ IndexOf(tab, s.of) < tab.active

(* When one pane goes the user stays in the active one, or, if that is the *)
(* one that went, comes to one that is in the tab; only several that go at *)
(* once, which the walk numbers wrongly, can leave the tab without an      *)
(* active pane.  A new pane is beside the one it was to split, on the side *)
(* asked for, although panes came, went and moved while it was spawned, and*)
(* the user is in it or stays where he was, unless the split was before the*)
(* active pane, whose number is not adjusted.                              *)
ActiveStays == [][RemovalKeepsActive /\ NewIsBeside]_vars

(* A prune takes every dead pane but the right one of two dead panes that  *)
(* share a split, which moves to the place of the left one unseen.         *)
PruneMissesOnlyTwins ==
    [][Prune => \A p \in dead' :
        LET place == PlaceOf(tab.tree, p)
            twin  == At(tab.tree, Append(Front(place), "left"))
        IN Len(place) > 0 /\ Last(place) = "right" /\ twin.kind = "leaf" /\ twin.pane \in dead]_vars
=============================================================================

-------------------------- MODULE WorkspaceConfigs --------------------------
(* The settings of the workspaces of the sidebar                           *)
(* (termwindow/workspace_config.rs): their order, the groups they belong   *)
(* to and whether they are marked with a name, a colour or an emoji.       *)
(* Workspaces and groups are numbers, in the order of their names.         *)
EXTENDS Integers, Sequences, FiniteSets, SequencesExt

CONSTANTS MaxName, MaxGroup    \* bounds: names and ids

ASSUME ConfigsAssumption == {MaxName, MaxGroup} \subseteq Nat

Names == 1 .. MaxName
Groups == 1 .. MaxGroup

Nobody == 0     \* no group

(* An entry without a group and a mark is no entry. *)
NoConfigs ==
    [order |-> <<>>, group |-> [n \in Names |-> Nobody],
     marked |-> {}, groups |-> {}]

(* Those of a sequence that are among some, in their order. *)
Among(s, some) ==
    LET upto[i \in 0 .. Len(s)] ==
            IF i = 0 THEN <<>>
            ELSE IF s[i] \in some THEN Append(upto[i - 1], s[i]) ELSE upto[i - 1]
    IN upto[Len(s)]

Sorted(names) == Among([i \in Names |-> i], names)

(* apply_order. *)
Ordered(c, all) == Among(c.order, all) \o Sorted(all \ Range(c.order))

(* group_id. *)
GroupOf(c, n) == IF c.group[n] \in c.groups THEN c.group[n] ELSE Nobody

(* The rows of the sidebar: a group with its members where its first       *)
(* member falls, or a workspace by itself.                                 *)
Layout(c, all) ==
    LET ordered == Ordered(c, all)
        Members(id) == Among(ordered, {n \in all : GroupOf(c, n) = id})
        heads == Among(ordered, {n \in all :
                    GroupOf(c, n) # Nobody => n = Members(GroupOf(c, n))[1]})
    IN [i \in DOMAIN heads |->
          LET id == GroupOf(c, heads[i])
          IN [id |-> id, names |-> IF id = Nobody THEN <<heads[i]>> ELSE Members(id)]]

Flat(slots) == FlattenSeq([i \in DOMAIN slots |-> slots[i].names])

(* display_order. *)
Display(c, all) == Flat(Layout(c, all))

Place(s, n) == CHOOSE i \in DOMAIN s : s[i] = n

Clamp(i, low, high) == IF i < low THEN low ELSE IF i > high THEN high ELSE i

(* shift. *)
Shifted(s, from, to) == InsertAt(RemoveAt(s, from), Clamp(to, 1, Len(s)), s[from])

Target(to, pos, len) ==
    CASE to = "up" -> pos - 1 [] to = "down" -> pos + 1
      [] to = "top" -> 1 [] to = "bottom" -> len

(* move_workspace: within its group if it has one, or among the rows. *)
Moved(c, n, all, to) ==
    LET slots == Layout(c, all)
        id == GroupOf(c, n)
        At(s) == {i \in DOMAIN s : s[i] = n}
        Within(s) == IF At(s) = {} THEN s
                     ELSE Shifted(s, Place(s, n), Target(to, Place(s, n), Len(s)))
        row == {i \in DOMAIN slots : slots[i].id = Nobody /\ slots[i].names = <<n>>}
    IN [c EXCEPT !.order = Flat(
          IF id # Nobody
          THEN [i \in DOMAIN slots |-> IF slots[i].id = id
                                       THEN [slots[i] EXCEPT !.names = Within(@)] ELSE slots[i]]
          ELSE IF row = {} THEN slots
          ELSE LET pos == CHOOSE i \in row : TRUE
               IN Shifted(slots, pos, Target(to, pos, Len(slots))))]

(* move_to_bottom; a workspace about to be spawned is not there yet. *)
MovedToBottom(c, n, all) == Moved(c, n, all \cup {n}, "bottom")

(* move_group. *)
GroupMoved(c, id, all, to) ==
    LET slots == Layout(c, all)
        row == {i \in DOMAIN slots : slots[i].id = id}
    IN [c EXCEPT !.order = Flat(
          IF row = {} THEN slots
          ELSE LET pos == CHOOSE i \in row : TRUE
               IN Shifted(slots, pos, Target(to, pos, Len(slots))))]

(* Mutant: a group without a member stays. *)
UsedKept(c) == c

(* prune_empty_groups. *)
Used(c) == [c EXCEPT !.groups = {id \in @ : \E n \in Names : c.group[n] = id}]

(* Mutant: the workspace stays where it is. *)
GroupedInPlace(c, n, id, asked) ==
    IF GroupOf(c, n) = id THEN c
    ELSE Used([c EXCEPT !.group[n] = id, !.order = Display(c, asked \cup {n})])

(* set_workspace_group: the last member of the group, or just below the    *)
(* group it leaves.                                                        *)
Grouped(c, n, id, asked) ==
    LET all == asked \cup {n}
        was == GroupOf(c, n)
        group == IF id \in c.groups THEN id ELSE Nobody
        order == Among(Display(c, all), Names \ {n})
        anchor == IF group # Nobody THEN group ELSE was
        below == {i \in DOMAIN order : anchor # Nobody /\ GroupOf(c, order[i]) = anchor}
        pos == IF below # {} THEN (CHOOSE i \in below : \A j \in below : j <= i) + 1
               ELSE Clamp(Place(Display(c, all), n), 1, Len(order) + 1)
        put == [c EXCEPT !.group[n] = group, !.order = InsertAt(order, pos, n)]
    IN IF was = group THEN c ELSE Used([put EXCEPT !.order = Display(put, all)])

(* create_group: the first id that is not in use. *)
FreeIds(c) == Groups \ c.groups
NewId(c) == CHOOSE id \in FreeIds(c) : \A other \in FreeIds(c) : id <= other

GroupAdded(c) == [c EXCEPT !.groups = @ \cup {NewId(c)}]

Ungrouped(c, id) ==
    [c EXCEPT !.groups = @ \ {id},
              !.group = [n \in Names |-> IF @[n] = id THEN Nobody ELSE @[n]]]

(* set_display_name, set_accent_color and set_emoji. *)
Marked(c, n, on) == [c EXCEPT !.marked = IF on THEN @ \cup {n} ELSE @ \ {n}]

(* remove_workspace. *)
Removed(c, n) ==
    Used([c EXCEPT !.order = Among(@, Names \ {n}),
                   !.group[n] = Nobody, !.marked = @ \ {n}])
=============================================================================

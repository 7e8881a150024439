----------------------------- MODULE WindowOps -----------------------------
(* The value of one mux Window (mux/src/window.rs) and its methods as      *)
(* operators on that value: the window's tabs in display order, the        *)
(* position of the active tab and the saved id of the previously active    *)
(* one.  Positions are the code's, counted from 0.                         *)
EXTENDS Integers, Sequences, SequencesExt

CONSTANT NoTab      \* absence of a tab: Option::None

EmptyWindow == [tabs |-> <<>>, active |-> 0, last_active |-> NoTab]

GetByIdx(w, idx) == IF idx < Len(w.tabs) THEN w.tabs[idx + 1] ELSE NoTab

GetActive(w) == GetByIdx(w, w.active)

HasTab(w, tab) == \E i \in DOMAIN w.tabs : w.tabs[i] = tab

(* idx_by_id: the position of a tab the window holds; a tab is at most     *)
(* once in the list (see AddTab).                                          *)
IdxById(w, tab) == (CHOOSE i \in DOMAIN w.tabs : w.tabs[i] = tab) - 1

(* set_active_without_saving; its assert, idx < len, is a precondition.    *)
SetActive(w, idx) == [w EXCEPT !.active = idx]

SaveAndThenSetActive(w, idx) ==
    IF idx = w.active THEN w
    ELSE [w EXCEPT !.last_active = GetActive(w), !.active = idx]

PushTab(w, tab) == [w EXCEPT !.tabs = Append(@, tab)]

InsertTab(w, idx, tab) == [w EXCEPT !.tabs = InsertAt(@, idx + 1, tab)]

(* Mutant: the position may stay one past the end.                         *)
FixupActiveOffByOne(w, tab) ==
    IF tab # NoTab /\ HasTab(w, tab) THEN SetActive(w, IdxById(w, tab))
    ELSE IF w.active > Len(w.tabs) THEN SetActive(w, Len(w.tabs) - 1) ELSE w

(* Mutant: only the range is repaired, the active tab is not followed.     *)
FixupActiveRangeOnly(w, tab) ==
    IF Len(w.tabs) > 0 /\ w.active >= Len(w.tabs)
    THEN SetActive(w, Len(w.tabs) - 1) ELSE w

(* fixup_active_tab_after_removal: follow the tab that was active before   *)
(* the removal if it is still there, else pull the position back in range. *)
FixupActive(w, tab) ==
    IF tab # NoTab /\ HasTab(w, tab) THEN SetActive(w, IdxById(w, tab))
    ELSE IF Len(w.tabs) > 0 /\ w.active >= Len(w.tabs)
         THEN SetActive(w, Len(w.tabs) - 1)
         ELSE w

(* With the option switch_to_last_active_tab_when_closing_tab set, the     *)
(* position is moved to the last active tab before the removal.            *)
SwitchBeforeRemoval(w, idx, switch) ==
    IF /\ switch
       /\ GetActive(w) # NoTab
       /\ GetActive(w) = GetByIdx(w, idx)
       /\ HasTab(w, w.last_active)
    THEN SetActive(w, IdxById(w, w.last_active))
    ELSE w

(* do_remove_idx, the common tail of remove_by_idx and remove_by_id.       *)
DoRemoveIdx(w, idx, switch) ==
    LET switched == SwitchBeforeRemoval(w, idx, switch)
        removed  == [switched EXCEPT !.tabs = RemoveAt(@, idx + 1)]
    IN FixupActive(removed, GetActive(w))

RemoveById(w, tab, switch) ==
    IF HasTab(w, tab) THEN DoRemoveIdx(w, IdxById(w, tab), switch) ELSE w

(* TermWindow::move_tab: take the active tab out and put it back at idx.   *)
MoveActiveTab(w, idx, switch) ==
    SetActive(InsertTab(DoRemoveIdx(w, w.active, switch), idx, GetActive(w)), idx)
=============================================================================

----------------------------- MODULE WindowTabs -----------------------------
(* The life of one mux window: tabs are pushed, activated, moved and       *)
(* closed one at a time, from the main thread, in any order.               *)
EXTENDS WindowOps

CONSTANT TabIds

ASSUME TabIdsAssumption == NoTab \notin TabIds

VARIABLES
    window,
    switch_to_last  \* config switch_to_last_active_tab_when_closing_tab

vars == <<window, switch_to_last>>

Init ==
    /\ window = EmptyWindow
    /\ switch_to_last \in BOOLEAN

(* The configuration is read anew by every removal: it can be reloaded.    *)
ReloadConfig ==
    /\ switch_to_last' = ~switch_to_last
    /\ UNCHANGED window

(* add_tab_to_window: its assertion refuses a tab the window holds.        *)
AddTab(tab) ==
    /\ ~HasTab(window, tab)
    /\ window' = PushTab(window, tab)
    /\ UNCHANGED switch_to_last

(* TermWindow::activate_tab, the cli and lua activations.                  *)
ActivateTab(idx) ==
    /\ idx < Len(window.tabs)
    /\ window' = SaveAndThenSetActive(window, idx)
    /\ UNCHANGED switch_to_last

MoveTab(idx) ==
    /\ idx < Len(window.tabs)
    /\ window' = MoveActiveTab(window, idx, switch_to_last)
    /\ UNCHANGED switch_to_last

(* A tab is closed, or dies and is pruned.                                 *)
CloseTab(tab) ==
    /\ HasTab(window, tab)
    /\ window' = RemoveById(window, tab, switch_to_last)
    /\ UNCHANGED switch_to_last

(* consolidate_workspace_windows empties a window from its last tab.       *)
TakeLastTab ==
    /\ Len(window.tabs) > 0
    /\ window' = DoRemoveIdx(window, Len(window.tabs) - 1, switch_to_last)
    /\ UNCHANGED switch_to_last

Next ==
    \/ ReloadConfig
    \/ \E tab \in TabIds : AddTab(tab)
    \/ \E idx \in 0 .. (Len(window.tabs) - 1) : ActivateTab(idx)
    \/ \E idx \in 0 .. (Len(window.tabs) - 1) : MoveTab(idx)
    \/ \E tab \in TabIds : CloseTab(tab)
    \/ TakeLastTab

Spec == Init /\ [][Next]_vars

-----------------------------------------------------------------------------
(* The window's fields have their types: tabs of the mux in the list, a    *)
(* position, and a saved tab id or none.                                   *)
TypeOK ==
    /\ window.tabs \in Seq(TabIds)
    /\ window.active \in Nat
    /\ window.last_active \in TabIds \cup {NoTab}
    /\ switch_to_last \in BOOLEAN

(* Every sequence of pushes, activations, moves and removals leaves the    *)
(* active position on a tab: get_active, which panes, titles and spawning  *)
(* depend on, answers None only for a window without tabs, and the         *)
(* assertion of set_active_without_saving never fires.                     *)
ActiveInRange ==
    \/ window.active < Len(window.tabs)
    \/ window.active = 0 /\ Len(window.tabs) = 0

(* Closing a tab the user is not looking at never changes which tab the    *)
(* user is looking at, whatever shifts in the list and whatever the        *)
(* configuration says; closing the active one gives the focus, with the    *)
(* default configuration, to a neighbour of the closed tab and never to a  *)
(* tab elsewhere in the list.                                              *)
CloseKeepsActiveOrNeighbour ==
    [][ \A tab \in TabIds :
          HasTab(window, tab) /\ ~HasTab(window', tab) /\ window'.tabs # <<>> =>
            IF GetActive(window) # tab
            THEN GetActive(window') = GetActive(window)
            ELSE LET at == IdxById(window, tab)
                 IN \/ switch_to_last
                    \/ GetActive(window') = GetByIdx(window, at + 1)
                    \/ at > 0 /\ GetActive(window') = GetByIdx(window, at - 1) ]_vars
=============================================================================

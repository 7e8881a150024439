---------------------------- MODULE UnreadLedger ----------------------------
(* What the notification store promises the sidebar, without its list of   *)
(* records: a ledger of unread notifications per pane and workspace, the   *)
(* two tables of counts it displays, and a capacity no count goes beyond   *)
(* (mux/src/notification.rs).                                              *)
EXTENDS Integers

CONSTANTS Panes, Workspaces, Capacity

VARIABLES
    unread,             \* unread notifications of a pane filed under a workspace
    pane_count,         \* what has_unread reads
    workspace_count     \* what unread_count reads

vars == <<unread, pane_count, workspace_count>>

Keys == Panes \X Workspaces

Init ==
    /\ unread = [k \in Keys |-> 0]
    /\ pane_count = [p \in Panes |-> 0]
    /\ workspace_count = [w \in Workspaces |-> 0]

AtMostOne(S) == S = {} \/ \E k \in Keys : S = {k}

(* One more for what is gained and one less for what is forgotten.         *)
Changed(n, gained, forgotten) ==
    n + (IF gained THEN 1 ELSE 0) - (IF forgotten THEN 1 ELSE 0)

(* A notification arrives, unread or not; when the store is full one old   *)
(* unread notification may be forgotten to make room.  The tables follow.  *)
Arrive ==
    \E gained, forgotten \in SUBSET Keys :
        /\ AtMostOne(gained) /\ AtMostOne(forgotten)
        /\ \A k \in forgotten : unread[k] > 0
        /\ unread' = [k \in Keys |-> Changed(unread[k], k \in gained, k \in forgotten)]
        /\ pane_count' = [p \in Panes |->
                Changed(pane_count[p], \E k \in gained : k[1] = p, \E k \in forgotten : k[1] = p)]
        /\ workspace_count' = [w \in Workspaces |->
                Changed(workspace_count[w], \E k \in gained : k[2] = w, \E k \in forgotten : k[2] = w)]
        /\ \A p \in Panes : pane_count'[p] <= Capacity
        /\ \A w \in Workspaces : workspace_count'[w] <= Capacity

(* The user looks at a pane: it is read, and each workspace has as many    *)
(* fewer as were filed under it.                                           *)
ReadPane(p) ==
    /\ unread' = [k \in Keys |-> IF k[1] = p THEN 0 ELSE unread[k]]
    /\ pane_count' = [q \in Panes |-> IF q = p THEN 0 ELSE pane_count[q]]
    /\ workspace_count' = [w \in Workspaces |-> workspace_count[w] - unread[<<p, w>>]]

Next == Arrive \/ \E p \in Panes : ReadPane(p)

Spec == Init /\ [][Next]_vars
=============================================================================

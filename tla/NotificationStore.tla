-------------------------- MODULE NotificationStore --------------------------
(* The notification store of the mux (mux/src/notification.rs): the capped *)
(* list of notification records, newest first, and the two tables of       *)
(* unread counts it keeps beside the list.  A record's title and body are  *)
(* one value, its text.  A table entry that the code removes is a 0 here:  *)
(* every reader of the tables treats an absent entry as 0.                 *)
EXTENDS Integers, Sequences, FiniteSets

CONSTANTS
    Panes,
    Workspaces,
    Texts,
    MaxNotifications    \* MAX_NOTIFICATIONS, 1000 in the code

ASSUME MaxNotificationsAssumption == MaxNotifications \in Nat \ {0}

Notifications ==
    [pane : Panes, workspace : Workspaces, text : Texts, unread : BOOLEAN]

EmptyStore ==
    [notifications       |-> <<>>,
     unread_by_pane      |-> [p \in Panes |-> 0],
     unread_by_workspace |-> [w \in Workspaces |-> 0]]

-----------------------------------------------------------------------------
(* The records a count is about.                                           *)
UnreadOfPane(log, p) ==
    {i \in DOMAIN log : log[i].unread /\ log[i].pane = p}

UnreadOfWorkspace(log, w) ==
    {i \in DOMAIN log : log[i].unread /\ log[i].workspace = w}

UnreadOf(log, p, w) ==
    {i \in DOMAIN log : log[i].unread /\ log[i].pane = p /\ log[i].workspace = w}

(* adjust_count with a negative delta: saturating, and nothing for a key   *)
(* the table does not hold.                                                *)
SaturatingSub(a, b) == IF a > b THEN a - b ELSE 0

(* The queries of the sidebar.                                             *)
HasUnread(s, p) == s.unread_by_pane[p] > 0

UnreadCount(s, w) == s.unread_by_workspace[w]

IsMostRecentUnread(s, p) ==
    \E i \in DOMAIN s.notifications :
        /\ s.notifications[i].unread
        /\ s.notifications[i].pane = p
        /\ \A j \in 1 .. (i - 1) : ~s.notifications[j].unread

(* The newest record of the pane has the same text.                        *)
IsDuplicate(log, p, text) ==
    \E i \in DOMAIN log :
        /\ log[i].pane = p
        /\ log[i].text = text
        /\ \A j \in 1 .. (i - 1) : log[j].pane # p

(* push_front and the counts of an unread record.                          *)
PushFront(s, n) ==
    [notifications       |-> <<n>> \o s.notifications,
     unread_by_pane      |-> [s.unread_by_pane EXCEPT
                                ![n.pane] = IF n.unread THEN @ + 1 ELSE @],
     unread_by_workspace |-> [s.unread_by_workspace EXCEPT
                                ![n.workspace] = IF n.unread THEN @ + 1 ELSE @]]

(* Mutant: the evicted record's pane is forgotten in the counts.           *)
PopBackHalfAdjusted(s) ==
    LET evicted == s.notifications[Len(s.notifications)]
    IN [s EXCEPT !.notifications = SubSeq(@, 1, Len(@) - 1),
                 !.unread_by_workspace[evicted.workspace] =
                    IF evicted.unread THEN SaturatingSub(@, 1) ELSE @]

(* One turn of the eviction loop: the oldest record leaves, and the counts *)
(* with it if it was unread.                                               *)
PopBack(s) ==
    LET evicted == s.notifications[Len(s.notifications)]
        less    == IF evicted.unread THEN 1 ELSE 0
    IN [notifications       |-> SubSeq(s.notifications, 1, Len(s.notifications) - 1),
        unread_by_pane      |-> [s.unread_by_pane EXCEPT
                                   ![evicted.pane] = SaturatingSub(@, less)],
        unread_by_workspace |-> [s.unread_by_workspace EXCEPT
                                   ![evicted.workspace] = SaturatingSub(@, less)]]

(* The eviction loop turns at most once: only one record was added.        *)
Evict(s) == IF Len(s.notifications) > MaxNotifications THEN PopBack(s) ELSE s

AddNotification(s, p, w, text, unread) ==
    IF IsDuplicate(s.notifications, p, text) THEN s
    ELSE Evict(PushFront(s, [pane |-> p, workspace |-> w, text |-> text, unread |-> unread]))

(* Mutant: only the newest unread record of the pane is marked.            *)
MarkNewestRead(log, p) ==
    [i \in DOMAIN log |->
        IF log[i].pane = p /\ \A j \in 1 .. (i - 1) : log[j].pane # p
        THEN [log[i] EXCEPT !.unread = FALSE] ELSE log[i]]

MarkRead(log, p) ==
    [i \in DOMAIN log |->
        IF log[i].pane = p THEN [log[i] EXCEPT !.unread = FALSE] ELSE log[i]]

(* Mutant: the counts are adjusted once, in the workspace of the newest    *)
(* unread record.                                                          *)
MarkPaneReadOneWorkspace(s, p) ==
    [s EXCEPT
        !.notifications = MarkRead(@, p),
        !.unread_by_pane[p] = 0,
        !.unread_by_workspace = [w \in Workspaces |->
            SaturatingSub(@[w],
                IF \E i \in UnreadOf(s.notifications, p, w) :
                      \A j \in UnreadOfPane(s.notifications, p) : i <= j
                THEN Cardinality(UnreadOfPane(s.notifications, p)) ELSE 0)]]

(* Every unread record of the pane is marked, and the counts adjusted once *)
(* for each of them, in the workspace the record was filed under.          *)
MarkPaneRead(s, p) ==
    [notifications       |-> MarkRead(s.notifications, p),
     unread_by_pane      |-> [s.unread_by_pane EXCEPT
        ![p] = SaturatingSub(@, Cardinality(UnreadOfPane(s.notifications, p)))],
     unread_by_workspace |-> [w \in Workspaces |->
        SaturatingSub(s.unread_by_workspace[w],
                      Cardinality(UnreadOf(s.notifications, p, w)))]]

-----------------------------------------------------------------------------
VARIABLE store

vars == <<store>>

Init == store = EmptyStore

(* The workspace is an argument: a pane's window may change workspace      *)
(* between two of its notifications.                                       *)
Add(p, w, text, unread) == store' = AddNotification(store, p, w, text, unread)

Read(p) == store' = MarkPaneRead(store, p)

Next ==
    \/ \E p \in Panes, w \in Workspaces, text \in Texts, unread \in BOOLEAN :
          Add(p, w, text, unread)
    \/ \E p \in Panes : Read(p)

Spec == Init /\ [][Next]_vars

-----------------------------------------------------------------------------
(* The list holds at most MAX_NOTIFICATIONS records and the tables counts. *)
TypeOK ==
    /\ store.notifications \in Seq(Notifications)
    /\ Len(store.notifications) <= MaxNotifications
    /\ store.unread_by_pane \in [Panes -> Nat]
    /\ store.unread_by_workspace \in [Workspaces -> Nat]

(* The tables the sidebar reads always say what the list holds: through    *)
(* deduplication, eviction and marking, in whatever workspaces the records *)
(* of one pane were filed, no count drifts from the number of unread       *)
(* records (saturating_sub and the missing-key return would hide a drift). *)
CountsMatchRecords ==
    /\ \A p \in Panes :
          store.unread_by_pane[p] = Cardinality(UnreadOfPane(store.notifications, p))
    /\ \A w \in Workspaces :
          store.unread_by_workspace[w] = Cardinality(UnreadOfWorkspace(store.notifications, w))

(* What the sidebar can show as unread it can also jump to: a badge on     *)
(* some workspace and a target for "jump to unread" exist together, and    *)
(* the target pane itself counts as unread.                                *)
BadgeIffJumpTarget ==
    /\ (\E w \in Workspaces : UnreadCount(store, w) > 0)
          <=> (\E p \in Panes : IsMostRecentUnread(store, p))
    /\ \A p \in Panes : IsMostRecentUnread(store, p) => HasUnread(store, p)

(* Two successive records of one pane never carry the same text, however   *)
(* many records of other panes arrive between them and whatever was        *)
(* evicted or read: the deduplication compares with the newest record.     *)
SuccessiveRecordsDiffer ==
    LET log == store.notifications
    IN \A i, j \in DOMAIN log :
          ( /\ i < j
            /\ log[i].pane = log[j].pane
            /\ \A k \in (i + 1) .. (j - 1) : log[k].pane # log[i].pane )
             => log[i].text # log[j].text

-----------------------------------------------------------------------------
(* The ledger the sidebar believes in: how many unread notifications each  *)
(* pane has in each workspace.                                             *)
Ledger ==
    INSTANCE UnreadLedger WITH
        unread          <- [k \in Panes \X Workspaces |->
                               Cardinality(UnreadOf(store.notifications, k[1], k[2]))],
        pane_count      <- store.unread_by_pane,
        workspace_count <- store.unread_by_workspace,
        Capacity        <- MaxNotifications

(* The store implements the ledger: an arrival adds one unread to one pane *)
(* and workspace and displaces at most one other, reading a pane clears    *)
(* that pane everywhere and no other pane, and both tables follow the      *)
(* ledger in every step.                                                   *)
ImplementsLedger == Ledger!Spec
=============================================================================

------------------------- MODULE PaneNotifications -------------------------
(* Notifications across the mux and the GUI: toasts travel from the parser *)
(* threads to the main thread through its task queue, where they race with *)
(* the removal of their pane, with focus changes and with workspace        *)
(* switches.  Every main-thread handler is an operator on the record of    *)
(* the state that thread owns; every action runs one handler or lets       *)
(* another thread queue a task.                                            *)
EXTENDS Integers, Sequences, FiniteSets, SequencesExt

CONSTANTS
    Panes, Tabs, Windows, Workspaces, Texts,
    NoTab, NoPane,
    Leaves,             \* [Tabs -> Seq(Panes)]: the initial split of each tab
    TabList,            \* [Windows -> Seq(Tabs)]
    WorkspaceOf,        \* [Windows -> Workspaces]
    InitialWorkspace,
    Talkers,            \* the panes whose programs write notifications
    MaxNotifications,
    MaxEnded,           \* bound on the panes whose program exits or that are closed
    MaxQueue,           \* bound on the queue beyond which nothing new arrives
    MaxToasts           \* bound on the toasts in it

ASSUME LayoutAssumption ==
    /\ NoTab \notin Tabs /\ NoPane \notin Panes /\ IsFiniteSet(Tabs)
    /\ Leaves \in [Tabs -> Seq(Panes)] /\ \A t \in Tabs : Len(Leaves[t]) \in {1, 2}
    /\ TabList \in [Windows -> Seq(Tabs)]
    /\ WorkspaceOf \in [Windows -> Workspaces] /\ InitialWorkspace \in Workspaces
    /\ \A w, v \in Windows : \A i \in DOMAIN TabList[w], j \in DOMAIN TabList[v] :
          TabList[w][i] = TabList[v][j] => w = v /\ i = j
    /\ \A t, u \in Tabs : \A i \in DOMAIN Leaves[t], j \in DOMAIN Leaves[u] :
          Leaves[t][i] = Leaves[u][j] => t = u /\ i = j
    /\ MaxNotifications \in Nat \ {0} /\ MaxEnded \in Nat
    /\ MaxQueue \in Nat /\ MaxToasts \in Nat

VARIABLES
    m,          \* what the main thread owns: the mux and the frontend's client
    queue,      \* spawn_into_main_thread: tasks in the order they were spawned
    exited,     \* panes whose program has exited: is_dead answers true
    eof,        \* panes whose pty reader has come to its end
    late,       \* history: panes whose toast was handled after their removal
    parity      \* history: of the number of tasks handled

vars == <<m, queue, exited, eof, late, parity>>

Win == INSTANCE WindowOps
Notes == INSTANCE NotificationStore WITH store <- m.store

(* Tasks of the main thread. *)
ToastTask(p, text) == [kind |-> "toast", panes |-> {p}, text |-> text]
FocusTask(p)       == [kind |-> "focus", panes |-> {p}, text |-> NoPane]
RemoveTask(ps)     == [kind |-> "remove", panes |-> ps, text |-> NoPane]
PruneTask          == [kind |-> "prune", panes |-> {}, text |-> NoPane]
ReconcileTask      == [kind |-> "reconcile", panes |-> {}, text |-> NoPane]

Init ==
    /\ m = [panes   |-> Panes,
            tree    |-> Leaves,
            active  |-> [t \in Tabs |-> 0],
            windows |-> [w \in Windows |-> [Win!EmptyWindow EXCEPT !.tabs = TabList[w]]],
            current |-> InitialWorkspace,
            focused |-> NoPane,
            store   |-> Notes!EmptyStore,
            spawned |-> <<>>]
    /\ queue = <<>>
    /\ exited = {}
    /\ eof = {}
    /\ late = {}
    /\ parity = 0

-----------------------------------------------------------------------------
(* Queries.  A window whose tabs are gone is a window that was removed.    *)
ActivePane(s, t) ==
    IF s.active[t] < Len(s.tree[t]) THEN s.tree[t][s.active[t] + 1] ELSE NoPane

InTab(s, p, t) == \E i \in DOMAIN s.tree[t] : s.tree[t][i] = p

OpenWindows(s, ws) ==
    {w \in Windows : WorkspaceOf[w] = ws /\ Len(s.windows[w].tabs) > 0}

ShownIn(s, ws) ==
    {ActivePane(s, Win!GetActive(s.windows[w])) : w \in OpenWindows(s, ws)} \ {NoPane}

Shown(s) == ShownIn(s, s.current)

(* resolve_pane_id: the tab and window that hold the pane, if any.         *)
Places(s, p) ==
    {place \in Windows \X Tabs : Win!HasTab(s.windows[place[1]], place[2]) /\ InTab(s, p, place[2])}

(* workspace_for_pane: a pane the mux cannot place is in the active one.   *)
WorkspaceForPane(s, p) ==
    IF Places(s, p) = {} THEN s.current
    ELSE WorkspaceOf[(CHOOSE place \in Places(s, p) : TRUE)[1]]

Spawn(s, task) == [s EXCEPT !.spawned = Append(@, task)]

(* mark_pane_read for each of some panes. *)
MarkPanesRead(store, ps) ==
    LET log == store.notifications
        Unread(qs, ws) == {i \in DOMAIN log : log[i].unread /\ log[i].pane \in qs /\ log[i].workspace \in ws}
        Less(count, qs, ws) == Notes!SaturatingSub(count, Cardinality(Unread(qs, ws)))
    IN [notifications       |-> [i \in DOMAIN log |->
                                   IF log[i].pane \in ps THEN [log[i] EXCEPT !.unread = FALSE] ELSE log[i]],
        unread_by_pane      |-> [p \in Panes |-> Less(store.unread_by_pane[p], ps \cap {p}, Workspaces)],
        unread_by_workspace |-> [w \in Workspaces |-> Less(store.unread_by_workspace[w], ps, {w})]]

MarkRead(s, ps) == [s EXCEPT !.store = MarkPanesRead(@, ps)]

-----------------------------------------------------------------------------
(* Mutant: a toast is unread unless the client last focused its pane.      *)
HandleToastOnScreenUnread(s, p, text) ==
    [s EXCEPT !.store =
        Notes!AddNotification(@, p, WorkspaceForPane(s, p), text, s.focused # p)]

HandleToast(s, p, text) ==
    [s EXCEPT !.store =
        Notes!AddNotification(@, p, WorkspaceForPane(s, p), text,
                              s.focused # p /\ p \notin Shown(s))]

(* Mutant: selecting the pane that is already active is notified, too.     *)
SetActivePaneAgain(s, t, p) ==
    IF ~InTab(s, p, t) THEN s
    ELSE Spawn(MarkRead([s EXCEPT !.active[t] =
                            (CHOOSE i \in DOMAIN s.tree[t] : s.tree[t][i] = p) - 1], {p}),
               FocusTask(p))

(* Tab::set_active_pane: a change of the active pane is notified, which    *)
(* marks the pane read and queues the frontend's reconciliation.           *)
SetActivePane(s, t, p) ==
    IF ActivePane(s, t) = p \/ ~InTab(s, p, t) THEN s
    ELSE Spawn(MarkRead([s EXCEPT !.active[t] =
                            (CHOOSE i \in DOMAIN s.tree[t] : s.tree[t][i] = p) - 1], {p}),
               FocusTask(p))

(* focus_pane_and_containing_tab, for a pane that is still placed.         *)
FocusPane(s, p) ==
    IF p \notin s.panes \/ Places(s, p) = {} THEN s
    ELSE LET place == CHOOSE place \in Places(s, p) : TRUE
             w == place[1]
             t == place[2]
         IN SetActivePane(
                [s EXCEPT !.windows[w] = Win!SetActive(@, Win!IdxById(@, t))], t, p)

(* Mutant: PaneRemoved does not reach the store.                           *)
DropPanesSilently(s, ps) == [s EXCEPT !.panes = @ \ ps]

(* remove_pane_internal: PaneRemoved marks the pane read.                  *)
DropPanes(s, ps) == MarkRead([s EXCEPT !.panes = @ \ ps], ps \cap s.panes)

(* The first leaf of a tab that is dead or unknown to the mux: the walk of *)
(* prune_dead_panes does not visit the leaf that takes its split's place,  *)
(* so of two such leaves only the first goes.                              *)
Prunable(s, t, dead) ==
    {i \in DOMAIN s.tree[t] :
        /\ s.tree[t][i] \in dead \/ s.tree[t][i] \notin s.panes
        /\ \A j \in 1 .. (i - 1) : s.tree[t][j] \notin dead /\ s.tree[t][j] \in s.panes}

Pruned(s, t, dead) == CHOOSE i \in Prunable(s, t, dead) : TRUE

(* The active position when the leaf at i goes: down by one for a leaf at  *)
(* or before it, not below 0.                                              *)
ShiftActive(idx, i) == IF i <= idx + 1 /\ idx > 0 THEN idx - 1 ELSE idx

(* Tab::prune_dead_panes on every tab; a task of its own removes the pane  *)
(* from the mux.                                                           *)
PruneTabs(s, dead) ==
    [s EXCEPT
        !.tree = [t \in Tabs |-> IF Prunable(s, t, dead) = {} THEN @[t] ELSE RemoveAt(@[t], Pruned(s, t, dead))],
        !.active = [t \in Tabs |-> IF Prunable(s, t, dead) = {} THEN @[t] ELSE ShiftActive(@[t], Pruned(s, t, dead))],
        !.spawned = @ \o SetToSeq(UNION {{RemoveTask({s.tree[t][i]}) : i \in Prunable(s, t, dead)}
                                            : t \in Tabs})]

DeadTabs(s, dead) == {t \in Tabs : \A i \in DOMAIN s.tree[t] : s.tree[t][i] \in dead}

(* prune_dead_tabs of a window, in the order of its tabs. *)
WithoutTabs(win, dying) ==
    LET left[i \in 0 .. Len(win.tabs)] ==
            IF i = 0 THEN win
            ELSE IF win.tabs[i] \in dying THEN Win!RemoveById(left[i - 1], win.tabs[i], FALSE) ELSE left[i - 1]
    IN left[Len(win.tabs)]

(* The dead tabs leave their windows, and the panes they still have the    *)
(* mux; the frontend hears of a window that is removed with its last tab.  *)
RemoveDeadTabs(s, dead) ==
    LET dying == DeadTabs(s, dead)
        left == [w \in Windows |-> WithoutTabs(s.windows[w], dying)]
        emptied == {w \in Windows : s.windows[w].tabs # <<>> /\ left[w].tabs = <<>>}
    IN DropPanes([s EXCEPT
                    !.windows = left,
                    !.spawned = IF emptied = {} THEN @ ELSE Append(@, ReconcileTask)],
                 UNION {Range(s.tree[t]) : t \in dying})

PruneDeadWindows(s, dead) == RemoveDeadTabs(PruneTabs(s, dead), dead)

(* Mux::remove_pane. *)
RemovePane(s, p, dead) == PruneDeadWindows(DropPanes(s, {p}), dead)

(* reconcile_workspace, as far as the client's workspace goes: when the    *)
(* active one has no panes, another one that has is made active; nothing   *)
(* is marked read.                                                         *)
Reconcile(s) ==
    LET others == {ws \in Workspaces : OpenWindows(s, ws) # {}}
    IN IF OpenWindows(s, s.current) # {} \/ others = {} THEN s
       ELSE Spawn([s EXCEPT !.current = CHOOSE ws \in others : TRUE], ReconcileTask)

(* Mutant: every pane of the workspace is marked, in front or not.         *)
SwitchWorkspaceMarksAll(s, ws) ==
    Reconcile(MarkRead(Spawn([s EXCEPT !.current = ws], ReconcileTask),
                       {p \in Panes : WorkspaceForPane(s, p) = ws}))

(* GuiFrontEnd::switch_workspace. *)
SwitchWorkspace(s, ws) ==
    Reconcile(MarkRead(Spawn([s EXCEPT !.current = ws], ReconcileTask), ShownIn(s, ws)))

-----------------------------------------------------------------------------
(* The main thread runs a handler and queues what it spawned after the     *)
(* tasks that wait.                                                        *)
Run(result, waiting) ==
    /\ m' = [result EXCEPT !.spawned = <<>>]
    /\ queue' = waiting \o result.spawned

Room == Len(queue) < MaxQueue

Ended == exited \cup eof \cup (Panes \ m.panes)

MayEnd(p) == p \in Ended \/ Cardinality(Ended) < MaxEnded

(* A parser thread reads an OSC 9; it holds the pane while it is removed.  *)
QueueToast(p, text) ==
    /\ p \in m.panes \cap Talkers /\ Room
    /\ Cardinality({i \in DOMAIN queue : queue[i].kind = "toast"}) < MaxToasts
    /\ queue' = Append(queue, ToastTask(p, text))
    /\ UNCHANGED <<m, exited, eof, late, parity>>

(* The thread that waits for the pane's program.                           *)
ChildExits(p) ==
    /\ p \in m.panes \ exited /\ MayEnd(p) /\ Room
    /\ exited' = exited \cup {p}
    /\ queue' = Append(queue, PruneTask)
    /\ UNCHANGED <<m, eof, late, parity>>

(* The pty reader at its end, with exit_behavior = "Close".                *)
PtyEof(p) ==
    /\ p \in m.panes \ eof /\ MayEnd(p) /\ Room
    /\ eof' = eof \cup {p}
    /\ queue' = Append(queue, RemoveTask({p}))
    /\ UNCHANGED <<m, exited, late, parity>>

Handle(task) ==
    CASE task.kind = "toast"     -> LET p == CHOOSE p \in task.panes : TRUE
                                    IN HandleToast(m, p, task.text)
      [] task.kind = "focus"     -> LET p == CHOOSE p \in task.panes : TRUE
                                    IN FocusPane(m, p)
      [] task.kind = "remove"    -> LET p == CHOOSE p \in task.panes : TRUE
                                    IN RemovePane(m, p, exited)
      [] task.kind = "prune"     -> PruneDeadWindows(m, exited)
      [] task.kind = "reconcile" -> Reconcile(m)

Dispatch ==
    /\ queue # <<>>
    /\ Run(Handle(Head(queue)), Tail(queue))
    /\ late' = IF Head(queue).kind = "toast" THEN late \cup (Head(queue).panes \ m.panes)
               ELSE late
    /\ parity' = 1 - parity
    /\ UNCHANGED <<exited, eof>>

(* The user, between two tasks. *)
SelectPane(p) ==
    /\ Room
    /\ \E w \in OpenWindows(m, m.current) :
          LET t == Win!GetActive(m.windows[w])
          IN /\ InTab(m, p, t) /\ ActivePane(m, t) # p
             /\ Run(SetActivePane(m, t, p), queue)
    /\ UNCHANGED <<exited, eof, late, parity>>

ActivateTab(w, idx) ==
    /\ w \in OpenWindows(m, m.current)
    /\ Run([m EXCEPT !.windows[w] = Win!SetActive(@, idx)], queue)
    /\ UNCHANGED <<exited, eof, late, parity>>

ChooseWorkspace(ws) ==
    /\ Room /\ ws # m.current /\ OpenWindows(m, ws) # {}
    /\ Run(SwitchWorkspace(m, ws), queue)
    /\ UNCHANGED <<exited, eof, late, parity>>

JumpToUnread(p) ==
    /\ Room /\ Notes!IsMostRecentUnread(m.store, p) /\ Places(m, p) # {}
    /\ LET ws == WorkspaceForPane(m, p)
       IN Run(SwitchWorkspace(Spawn([m EXCEPT !.current = ws], ReconcileTask), ws), queue)
    /\ UNCHANGED <<exited, eof, late, parity>>

ClosePane(p) ==
    /\ Room /\ p \in Shown(m) /\ MayEnd(p)
    /\ Run(RemovePane(m, p, exited), queue)
    /\ UNCHANGED <<exited, eof, late, parity>>

(* A focused window paints: the client's focused pane follows the screen.  *)
Paint(p) ==
    /\ p \in Shown(m) /\ m.focused # p
    /\ Run([m EXCEPT !.focused = p], queue)
    /\ UNCHANGED <<exited, eof, late, parity>>

Next ==
    \/ Dispatch
    \/ \E p \in Panes :
          \/ \E text \in Texts : QueueToast(p, text)
          \/ ChildExits(p) \/ PtyEof(p)
          \/ SelectPane(p) \/ JumpToUnread(p) \/ ClosePane(p) \/ Paint(p)
    \/ \E w \in Windows : \E idx \in 0 .. (Len(m.windows[w].tabs) - 1) : ActivateTab(w, idx)
    \/ \E ws \in Workspaces : ChooseWorkspace(ws)

(* The main loop runs its queue; nobody has to do anything else.  Dispatch *)
(* is enabled iff a task waits and is what changes the parity: its weak    *)
(* fairness is that of Serve, which TLC finds enabled without running a    *)
(* handler.                                                                *)
Serve == queue # <<>> /\ parity' = 1 - parity

Spec == Init /\ [][Next]_vars /\ WF_parity(Serve)

-----------------------------------------------------------------------------
(* A pane that stays in front of the user never becomes unread, whatever   *)
(* else is queued, closed or switched around it.                           *)
WatchedStaysRead ==
    [][ \A p \in Panes :
          ~Notes!HasUnread(m.store, p) /\ Notes!HasUnread(m.store, p)'
             => p \notin Shown(m) \cap Shown(m)' ]_vars

(* The task of a change of focus that another has overtaken runs after the *)
(* user has left the workspace.                                            *)
LateFocus(p) ==
    /\ Dispatch /\ Head(queue).kind = "focus" /\ Head(queue).panes = {p}
    /\ \E t \in Tabs : InTab(m, p, t) /\ ActivePane(m, t) # p
    /\ WorkspaceForPane(m, p) # m.current

(* An unread notification of a pane that lives on is marked read only when *)
(* the pane is in front of the user: no removal, switch, prune or focus    *)
(* task clears the badge of a pane that nobody sees, but for an overtaken  *)
(* focus task in a workspace that is not shown any more.                   *)
ReadOnlyWhenSeen ==
    [][ \A i \in DOMAIN m.store.notifications :
          LET log == m.store.notifications
              p == log[i].pane
          IN ( /\ log[i].unread /\ p \in m'.panes
               /\ Len(m'.store.notifications) = Len(log)
               /\ m'.store.notifications[i] = [log[i] EXCEPT !.unread = FALSE] )
               => p \in Shown(m)' \/ LateFocus(p) ]_vars

(* A badge is on the card of the workspace its pane is in, not the one     *)
(* that was active when its toast was handled; and a pane that is gone     *)
(* leaves none behind, through every path by which panes are removed,      *)
(* unless one of its toasts was still on its way.                          *)
BadgesInPlace ==
    \A i \in DOMAIN m.store.notifications :
        LET n == m.store.notifications[i]
        IN n.unread =>
             /\ n.pane \in m.panes \cup late
             /\ Places(m, n.pane) # {} => n.workspace = WorkspaceForPane(m, n.pane)

FocusTasks == {i \in DOMAIN queue : queue[i].kind = "focus"}

(* A change of the active pane comes to rest, unless another is made       *)
(* before its task runs: the task that reconciles it does not go on        *)
(* queueing others.                                                        *)
FocusSettles == (FocusTasks # {}) ~> (Cardinality(FocusTasks) # 1)

=============================================================================

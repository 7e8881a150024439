# Verification of wezmux

wezmux is a fork of the wezterm terminal multiplexer for people who run several
coding agents at once: a sidebar lists the workspaces, shows what each agent
does and badges the panes that want attention. This directory holds TLA+ models
of the parts of it where order, concurrency and failure matter, TLC runs that
check them on small instances, and proofs of the most important facts for every
size. Paths below are relative to `src/`.

- [1. The system](#1-the-system)
- [2. Modules and how they correspond to the code](#2-modules-and-how-they-correspond-to-the-code)
- [3. Runs: what each checks and shows](#3-runs-what-each-checks-and-shows)
- [4. Bounds and fairness](#4-bounds-and-fairness)
- [5. What is proved](#5-what-is-proved)
- [6. Flaws and disagreements seen](#6-flaws-and-disagreements-seen)
- [7. What is not modelled](#7-what-is-not-modelled)

To check a run: `tlc -config AgentHooks.cfg MCAgentHooks` (the table in section 3
gives module and configuration). To check proofs: `tlapm NotificationStore_proofs.tla`.

## 1. The system

### Components, their state and their operations

| component | state | operations | source |
|---|---|---|---|
| mux registry | windows, tabs, panes, activities in flight | spawn a tab or window, remove a pane, tab or window, prune what is dead, consolidate a workspace's windows | `mux/src/lib.rs`, `mux/src/activity.rs`, `mux/src/domain.rs` |
| window | list of tabs, active position, last active tab | push, insert, remove, activate, move | `mux/src/window.rs` |
| tab | binary tree of panes with their sizes, active index, zoomed pane | split, close, prune, zoom, resize, drag a divider, rotate, swap, activate | `mux/src/tab.rs`, `bintree` |
| notification store | capped list of records, unread counts by pane and workspace | add (with deduplication and eviction), mark a pane read, queries | `mux/src/notification.rs` |
| agent status store | one entry per agent's pane, a generation | update status, message or field, clear, remove | `mux/src/agent_status.rs` |
| notification path | tasks queued on the main thread, the focused pane of each client | alert, toast, focus, removal, reconciliation | `mux/src/lib.rs`, `mux/src/localpane.rs`, `wezterm-gui/src/frontend.rs` |
| agent hook scripts | none of their own, but for the subagent counter | write status events to the pane's tty | `bin/claude`, `bin/hooks/` |
| subagent counter | a count in a file, a lock directory | increment, decrement, break a stale lock | `bin/hooks/on-subagent-*.sh` |
| sidebar | cached cards, deadline of the next refresh, the refresh in flight, known agents | rebuild when the generation moved, refresh on a thread, reap departed agents, jump to the unread pane | `wezterm-gui/src/termwindow/sidebar.rs` |
| workspace settings | order, groups and marks, in a file and in each window's copy | move, group, ungroup, mark, remove, load, save | `wezterm-gui/src/termwindow/workspace_config.rs` |
| session | `session.json`, a scrollback file per pane, the banner for the next pane | save, restore | `mux/src/session.rs` |
| GUI frontend | the active workspace, the flag of a switch under way, which GUI window shows which mux window | reconcile, switch workspace, quit when empty | `wezterm-gui/src/frontend.rs` |
| promises | the state of each future, the main thread's queue | spawn, wake, poll | `promise/src/`, `window/src/spawn.rs` |
| client and server | what a session last sent of each pane; the client's cache of lines, its fetches and polls | push changes, answer requests, apply, fetch, reconnect | `wezterm-mux-server-impl`, `wezterm-client`, `codec` |

The rest of the repository (terminal emulation, fonts, rendering, window
toolkits, ssh, tmux, Lua, vendored libraries) is listed in `PROJECT.json` with
the reason it is left out.

### How they interact

The mux belongs to the **main thread**, which runs tasks one after the other.
Everything else talks to it by queueing tasks: a reader thread per pty queues an
alert for every notification or status event it parses and a removal when the
pty ends, a waiting thread per program queues a prune when it exits, domains
answer spawns with futures polled on the main thread. A task may notify the
mux's **subscribers**, and the GUI's subscriber answers some notifications by
queueing yet another task (`frontend.rs`). Nothing acknowledges or cancels a
queued task: when it runs, the pane, tab, window or workspace it was about may
be gone or changed. That is the main difficulty of this system.

Agents are other processes. Their hook scripts run concurrently and each writes
its escape sequences to the same tty, so the store sees an interleaving. The
subagent hooks share a file and a lock made with `mkdir`, and may be killed.

A spawn holds an `Activity` while its domain works, which keeps
`prune_dead_windows` from doing anything: the window that waits for its first
tab must not be pruned. The last `Activity` to be dropped queues the prune that
was held off. When the mux has no panes left it says so, and the GUI quits
unless an `Activity` is held at that time.

The sidebar draws from a cache. A paint starts a thread that looks at processes
and git; its result is applied a while later, on a main thread that has moved
on. A window has its own copy of the workspace settings; the frontend, which
notices that a workspace is gone, changes the file.

A mux server's terminal is changed by the parser thread while the main thread
reads it, one lock after the other, to push what changed; on the client, pushes,
answers to fetches and repaints meet in one cache of lines.

### What makes each part correct

- A window's active position is always that of a tab; closing another tab never
  changes what the user looks at.
- A tab's panes and dividers cover it exactly and every pty has its pane's size;
  a new pane is beside the one that was split; the active pane stays active.
- The unread counts are the numbers of unread records, a badge always has a pane
  to jump to, and a repeated text is recorded once.
- The generation of the agent store moves exactly when a card would look
  different; an open dialog shows as "needs input" whatever order the hooks ran
  in; a stopped agent's card shows what the agent said last.
- The subagent count is that of the running subagents, and no hook hangs.
- A pane in front of the user does not become unread, one nobody saw does not
  become read, and a removed pane leaves no badge.
- A live pane stays in the mux and in a window, a dead one leaves, an empty
  window is filled or removed, the GUI quits when nothing is left and not before.
- The sidebar's cards are those of the stores, and only departed agents are
  reaped.
- A new workspace's program opens in it; the settings agree with the workspaces
  there are, and one change moves one thing.
- What was open at a quit comes back whole, each pane with its own scrollback,
  and a session is not lost before it is restored.
- A client does not take old lines for current, and ends up showing the server's.

`PROJECT.json` lists the hazards against these, each at its line, with the
properties that would catch it.

## 2. Modules and how they correspond to the code

Every definition that stands for code is mapped to its lines in `PROJECT.json`.

| module | models | uses |
|---|---|---|
| `WindowOps` | `Window`'s methods as operators on a record `[tabs, active, last_active]` | |
| `WindowTabs` | one window under the mux and the user, an action per operation | `WindowOps` |
| `TabTree` | the tree of splits with sizes: least sizes, growing and shrinking by turns, walks | |
| `TabPanes` | one tab under the user, spawns that finish late and programs that end | `TabTree` |
| `UnreadLedger` | abstract: an unread counter per pane and workspace, an arrival may displace one older record | |
| `NotificationStore` | the store with its deduplication, cap and two count tables; implements `UnreadLedger` | `UnreadLedger` (instance) |
| `AgentStatusOps` | the mutators of the agent store as operators | |
| `AgentStatusStore` | the store under any sequence of events, with history variables for what a turn should show | `AgentStatusOps` |
| `AgentHooks` | a Claude Code session whose hook processes write to that store | `AgentStatusOps` |
| `SubagentCount` | the subagent hooks as processes around the lock and the file, one action per system call that matters, slow, terminated or killed anywhere | |
| `PaneNotifications` | parser threads, main-thread queue, tabs, windows, focus, workspaces and the store | `WindowOps`, `NotificationStore` (instances) |
| `MuxRegistry` | spawns, activities, pruning, consolidation, closing, quitting | |
| `Session` | the steps of a save and of a restore on windows, tabs and splits, crashes and failures between them | |
| `SpawnedThread` | `spawn_into_new_thread`: thread, channel, waker and poll | |
| `Sidebar` | cards, cache and refreshes of one window over the stores and an agent's life | `SpawnedThread` |
| `WorkspaceConfigs` | order, groups and marks as operators | |
| `Workspaces` | the frontend's queue, the window's copy, the file and the disk it is on, and the user | `WorkspaceConfigs` |
| `RemotePane` | the server's terminal and session handler, the wire, and the client's cache of lines | |
| `MCAgentHooks`, `MCPaneNotifications`, `MCTabPanes` | the small instances that need sequences, functions or symmetry | |
| `*_proofs` | theorems (section 5) | the module of their component (`Agents_proofs`, `Views_proofs`: of several) |

Conventions that hold in all of them:

- **One task is one step.** A handler runs on the main thread to its end, so an
  action is the whole of it, nested calls and notifications included. The tasks
  it queues are appended to a queue. Code that awaits is cut in two at the
  await (`StartSpawn` and `SpawnDone`, `StartSplit` and `FinishSplit`). Where the
  main thread reads what another thread changes, each lock taken is a step
  (`ReadDimensions` to `SendDelta`).
- **The queue is a FIFO**, as in `window/src/spawn.rs` for one priority.
- **Threads** are the actions that do nothing but queue: `QueueToast`,
  `ChildExits`, `PtyEof`.
- **Texts, titles, tools and counts are model values** or small numbers, compared
  only for equality. Time is the age of an entry in seconds up to the sticky
  window, and the seconds a hook has waited.
- **Integers keep their width where it matters**: the generation wraps at
  `GenerationSpan`, standing for 2^64; `saturating_sub` and `checked_sub` are
  modelled as such.
- **Indices**: positions in a window and in a tab stay 0-based as in the code;
  sequences are 1-based.
- Operators whose comment begins with "Mutant" are plausible mistakes in the
  definition they precede. No specification uses them; each shows that a
  property would notice the mistake.

Details a reader of the code may look for:

- `NotificationStore`: a table entry that the code removes at zero is 0 here,
  since every reader takes an absent entry as 0.
- `AgentStatusOps!Visible` and `Preview` are what `build_agent_info` of the
  sidebar puts on a card, which is what the generation has to track.
- `PaneNotifications`: a tab is a flat sequence of panes (the tree is in
  `TabPanes`). `late` is history: panes that were already removed when one of
  their toasts was handled. `Paint` sets the client's focused pane, as painting
  a focused window does.
- `MuxRegistry`: a spawn, the window it opens, its tab and its pane share a
  number, which loses nothing as each spawn makes one of each; 0 is what the
  program started with. Pruning during a consolidation is modelled window by window,
  because the code walks a list of windows taken before the first of them is
  killed.
- `TabPanes`: sizes are real cells of small tabs, since the arithmetic of
  shrinking by turns is where the errors are. A tree is a record of its nodes;
  `IndexOf` is the number the code gives a pane, which shifts as panes come and
  go. A resize that would not end puts the tab in a state of its own, which
  `TilingSurvives` excludes but for the case section 6 tells.
- `Session`: a tab is a function from the places of its leaves to their texts,
  which are numbers, as outputs are told apart only by when they came; a pane's
  number is how many panes the walk of the whole session meets before it. The
  directory is a function from the numbers that have a file.
  `mixed` is history: a save has gone over the files of a session that was still
  to be restored. A file being written is torn, and so is one whose write failed
  while the save went on. `cleanup_session_dir` takes the directory away in one
  step: a crash inside it, which leaves some of the files without or with
  `session.json`, is not modelled.
- `Sidebar`: the notes that tell a window of a change are a set, handled in any
  order, which allows more than the code does. An agent's life is numbered so
  that facts about an earlier one can be told from the present.
- `Workspaces`: `crossed` is history: the user, or the tail of an earlier
  reconcile, came between a switch and its spawn. So is `unsaved`: the last save
  of the window's copy failed, or the file has spoiled since. A file that does
  not load is one with the defaults in it, since that is what every reader makes
  of it and what the next reconcile writes.
- `AgentHooks`: seconds pass anywhere, also between two events of one hook.
  `lapsed` is history: since the last `needs_input` an idle was the first event
  in as long as the sticky window.
- `SubagentCount`: the seconds a process has run count from its first attempt at
  the lock, what it does before that being taken as no time; a second passes for
  all together. A hook past its timeout is terminated (`Terminate`): the signal
  reaches the shell only, whose EXIT trap then runs (`ExitTrap` from "giveup"),
  and a `mkdir` it was in may finish later (`OrphanMkdir`); that the shell does
  not wait for it is what bash does with a signal that has no trap. A `rmdir` is
  one step. `robbed` and `strayed` are history: a lock was removed with another
  hook in the section; the lock that is there was made by such a `mkdir`.
- `MuxRegistry`: the tail of `reconcile_workspace` waits for GUI windows and
  closes the mux window of one that could not be created
  (`wezterm-gui/src/frontend.rs:483`). What that does to the mux, at a time nobody
  can tell, is `Mux::kill_window`, the same as when the user closes the window,
  and `KillWindow` stands for both.
- `RemotePane`: a line is a text and the sequence number of its last change, and
  each batch of output is a new number and a queued push. Pushes arrive in order;
  answers to fetches are applied in any order, since they may wait for images,
  and one push at a time may wait likewise. The instant by which a fetch is known
  is a number no other pending fetch has. `Reconnect` loses a suffix of the
  pushes, fails what was not answered, and begins a session that knows nothing
  of what was sent. `past` is history, for the cases the properties leave open.

## 3. Runs: what each checks and shows

| run | module, configuration | distinct states |
|---|---|---|
| `window_tabs` | `WindowTabs`, `WindowTabs.cfg` | 2.0 k |
| `tab_panes` | `MCTabPanes`, `TabPanes.cfg` | 133 k |
| `notification_store` | `NotificationStore`, `NotificationStore.cfg` | 2.0 k |
| `agent_status_store` | `AgentStatusStore`, `AgentStatusStore.cfg` | 28 k |
| `agent_hooks` | `MCAgentHooks`, `AgentHooks.cfg` | 36 k |
| `subagent_count` | `SubagentCount`, `SubagentCount.cfg` | 376 k |
| `pane_notifications` | `MCPaneNotifications`, `PaneNotifications.cfg` | 780 k |
| `mux_registry` | `MuxRegistry`, `MuxRegistry.cfg` | 403 k |
| `sidebar` | `Sidebar`, `Sidebar.cfg` | 374 k |
| `workspaces` | `Workspaces`, `Workspaces.cfg` | 2.0 M |
| `session` | `Session`, `Session.cfg` | 3.0 M |
| `remote_pane` | `RemotePane`, `RemotePane.cfg` | 1.3 M |

All of them hold. Where the code has a flaw, the property names the case in
which it shows and holds everywhere else; section 6 lists these cases.

**window_tabs.** `ActiveInRange`: no sequence of pushes, activations, moves and
closes leaves the active position past the end. `CloseKeepsActiveOrNeighbour`:
closing a tab the user does not look at changes nothing he looks at; closing the
active one, without the last-active option, shows the tab that took its place,
or the last.

**tab_panes.** `TilingSurvives`: panes and dividers cover the tab exactly after
every operation, unless a part gets smaller than its panes need; and a resize
ends. `PtysFollowSlots`: every pty has the size its pane is drawn with.
`ActiveStays`: when a pane goes, the user stays in the active one or comes to
one that is there; a new pane is beside the one it was to split, although the
numbers of the panes changed while it was spawned. `PruneMissesOnlyTwins`: a
prune of several dead panes misses only the right one of two that share a split.

**notification_store.** `CountsMatchRecords`: the tables count the unread
records, so saturation hides no drift. `BadgeIffJumpTarget`: some workspace has
a badge exactly when "jump to unread" finds a pane, and that pane counts as
unread. `ImplementsLedger`: the store refines `UnreadLedger`: an arrival
adds one to one counter and takes at most one from another, reading clears one
pane in all workspaces, nothing else changes.

**agent_status_store.** `GenerationTracksCards`: the generation changes if and
only if something visible on a card does, for every operation.
`CardShowsTurnOutput`: after a turn the card shows the last message sent while
working, else the first one sent afterwards.

**agent_hooks.** The same store written by the real scripts in every
interleaving, with seconds passing anywhere. `DialogShowsNeedsInput`: with the
hooks done, an open permission or question dialog shows as "needs input", also
when the `idle` of a Stop hook comes after the Notification hook's
`needs_input`, unless that `idle` was the first thing heard in three seconds
(`lapsed`). `QuietTurnShowsOutput`: a stopped agent shows its turn's output unless
a notification spoke up during the turn. `WorkingEnds`: a turn interrupted with
Esc, for which no Stop hook runs, does not show as working for ever; the idle
notification repairs it.

**subagent_count.** Hooks may be slow anywhere, run into their timeout and be
killed. `CountIsExact`: the count never exceeds the number of subagents. As long
as no lock was removed under a hook in the section, the file is the one counter
of all starts and stops written and the pane shows it, but while its last writer
has still to report; and when every hook launched has counted, it is the number
of subagents started and not stopped. `LockIsNotOrphaned`: when all hooks have
ended the lock is gone, also after hooks that were terminated at their timeout,
unless one was killed or a `mkdir` outlived its shell.
`EveryHookEnds`: also behind the lock a killed hook left, every hook that was
launched ends by itself.

**pane_notifications.** `WatchedStaysRead`, `ReadOnlyWhenSeen`: a pane that
stays in front of the user never becomes unread, and a record is marked read
only if its pane is in front of him after the step, although focus tasks and toasts act
on state older than themselves; the one exception is a focus task that another
change has overtaken, of a pane in a workspace that is not shown any more
(`LateFocus`). `BadgesInPlace`: an unread record is of a pane that is there,
filed under the workspace it is in, except for a toast handled after the
removal. `FocusSettles`: the task that reconciles a focus change, which may
notify another focus change, comes to rest when no other change is made before
it runs.

**mux_registry.** `TabsListedOnce`: between tasks a tab is in one window at most
and windows list known tabs only. `LivePanesStay`: a running pane leaves only
with its window, closed by the user or for want of a GUI window. `OnlyLateTabsStray`: a tab ends up in no window
only in the two ways section 6 describes. `QuitLosesNoOldPane`: the GUI does
not quit on a spawn under way, nor on a live pane other than one that has just
arrived. `LeftoversLeave`, `EmptyMuxQuits`: empty windows, dead panes and an
empty mux are dealt with, although an `Activity` may have held off the prune
that was asked for.

**sidebar.** `CardsAreCurrent`: on a screen that is up to date the cards are
those a rebuild would give, whatever path they came by (cache, note, refresh).
`ReapsOnlyDeparted`: no status of a running agent is removed, except that of one
which started after the thread had looked. `RefreshStarts`: a refresh that is
due starts, even under output that never ends. `DepartedIsReaped`: the
status of an agent that has gone is removed in the end.

**workspaces.** `SettingsAgree`: groups and members agree in the file and in the
window's copy, and these two differ only by workspaces that came to an end,
unless the last save of the copy failed or the file has spoiled since.
`SpawnOpensAtHome`: the program of a new workspace opens in it.
`QuietIsSettled`: with the queue empty no switch is under way and the active
workspace exists. `EditMovesOneThing`: over any sequence of moves, joins,
departures and deletions of groups, one change moves one workspace or one group;
who joins a group becomes its last member, who leaves comes below it.
The disk may fill and drain and the file may spoil at any moment: a failed save
leaves the file whole, and the next one of the window puts it right.

**session.** `RestoredWhole`: the session leaves the disk only when all its
windows, tabs and splits are open again, through crashes and failing spawns.
`OwnScrollback`: a restored pane shows its own text or nothing, also where the
write of its file failed or was cut short, and no new pane
starts with the text of another, unless a split failed. `ActiveTabComesBack`:
the tab that was active is active again.

**remote_pane.** `RestingViewIsCurrent`: with nothing under way, no line that
the client holds for up to date differs from the server's and no row waits for a
download, whatever crossed, failed or was lost with a connection.
`ViewCatchesUp`: the window comes to show the server's rows and goes on doing so.

## 4. Bounds and fairness

**Bounds.** Each is a constant or is named in a guard.

- `window_tabs`: four tabs, so that an active tab can have neighbours on both
  sides and a last active tab that is adjacent or not. Tabs are closed and
  pushed again without limit.
- `tab_panes`: four panes make a split in a split in a split, and two pairs of
  twins; `MaxMoves = 6`, a split counting for two, leaves three moves on a tab of
  two panes more. The sizes are those at which halves of halves have room, a
  shrink meets the least size and rows divide unevenly. Panes but the first are
  symmetric: no property tells them apart.
- `notification_store`: cap of 3 for 2 panes in 2 workspaces with 2 texts:
  eviction of own and foreign records, repeats next to and apart from each
  other, one pane filed in both workspaces. The proofs lift the cap.
- `agent_status_store`: one pane, since entries share nothing but the
  generation (the proofs are for any number); messages are a turn's
  output, an older one and a label; `StickySeconds = 3` distinguishes inside,
  edge and outside; `GenerationSpan = 2` makes the generation wrap constantly.
- `agent_hooks`: two turns (`MaxTurns`), as an older output needs a first and a
  second; two notifications in a turn (`MaxNotices`). The hooks' own timeouts are
  not modelled, a hook may take for ever: Stop's 5 s (`bin/claude:44`) are more
  than the sticky window anyway.
- `subagent_count`: two subagents are four hooks, so that two contend while one
  holds and one waits behind another that waits; two kills (`MaxKills`): a holder
  and a breaker. `Patience = 1` and
  `HookTimeout = 2` stand for the scripts' 2 s and 5 s: what matters is that
  patience runs out before the timeout, so that the lock of a live holder is
  broken, and that a waiter may be terminated too. The proofs are for any of these.
- `pane_notifications`: a split tab, a tab beside it, a tab in another
  workspace; one pane of the split and the remote pane write toasts (`Talkers`),
  one pane ends (`MaxEnded`), three tasks queue up beyond those a handler adds
  (`MaxQueue`), one of them a toast (`MaxToasts`), so that two changes of focus can
  be queued before a toast, two records (`MaxNotifications`). The proofs are for
  any of these.
- `mux_registry`: two spawns beside the initial pane give three windows, the
  least for a consolidation that loses its first window with another still to be
  moved; the user and the threads add to a queue of at most `MaxQueue = 2`.
- `sidebar`: one pane, with one agent that comes and goes (`MaxAgents`), one
  look-up that fails or thread that panics (`MaxFailures`), one change of focus
  or visibility (`MaxMoves`). The proofs are for any of these.
- `workspaces`: three names, two groups, three changes (`MaxChanges`), each of
  the settings or of the workspaces, one failing spawn, and two faults
  (`MaxFaults`): a name is used again, a group's number too, an edit can fall
  between a switch and its spawn, and a save can fail before or after the file
  spoils. The proofs are for any of these.
- `session`: three panes in any arrangement, three starts (saved, restored, saved
  again), one failure, two texts: own and foreign.
- `remote_pane`: a screen of two rows that may scroll once, so that there are
  rows in view, above it, and shared by both screens; two batches of output after
  the first; one image to wait for, connection lost or scroll (`MaxEvents`); one
  fetch under way when a window is painted (`MaxRequests`; pushes may add
  theirs); one push under way when the server turns to the pane (`MaxPushes`).
  A poll behind a push or another poll would find nothing new and is left out.
  The proof lifts all the bounds.

**Fairness.** Safety is checked without it where the specification allows. For
liveness:

- The main loop serves its queue: weak fairness of the dispatch action. In
  `PaneNotifications` and `MuxRegistry` it is written over a variable only that
  action changes, with the guard of the action: equivalent, and TLC need not run
  a handler to see whether it is enabled.
- A domain answers a spawn, with a pane or an error (`Answer`), as a local pty
  does at once and a connection by its timeout. A domain that never answered
  would hold off pruning for good.
- A started hook process runs to its end unless terminated or killed, time
  passes while processes wait, and Claude Code sends its idle notification after
  a silence (`AgentHooks!Fairness`). `EveryHookEnds` does not count on the
  timeout: `Terminate` has no fairness.
- The sidebar handles its notes, its thread works, its time passes and a window
  that was invalidated is painted (`SidebarFairness`).
- In `RemotePane` both main threads serve their queues, windows are painted and
  painting polls. The connection need not be made again: losing it at all is
  optional, and what was lost must be made good by the session after it.
- No fairness is assumed of users, agents, programs, exits, kills or crashes.

`CHECK_DEADLOCK FALSE` is set where the system may come to rest: the mux after
it quit, hooks that are all done, a session at its prompt with its bounds used
up, a tab without panes, an idle main loop. `RemotePane`, which polls, has none.

## 5. What is proved

| theorem | module | states | assumptions |
|---|---|---|---|
| `CountsNeverDrift` | `NotificationStore_proofs` | `CountsMatchRecords` | cap positive |
| `BadgesLeadSomewhere` | `NotificationStore_proofs` | `BadgeIffJumpTarget` | cap positive |
| `RepeatsAreDropped` | `NotificationStore_proofs` | successive records of a pane differ | cap positive |
| `StoreTypeCorrect` | `NotificationStore_proofs` | `TypeOK` | cap positive |
| `StoreImplementsLedger` | `NotificationStore_proofs` | `ImplementsLedger` | cap positive |
| `GenerationIsExact` | `Agents_proofs` | `GenerationTracksCards` | span at least 2 |
| `WorkingNeverAwaits` | `Agents_proofs` | no output is awaited while working | span at least 2 |
| `AgentStoreTypeCorrect` | `Agents_proofs` | `TypeOK` | span at least 2 |
| `CardsShowTheTurn` | `Agents_proofs` | `CardShowsTurnOutput` | span at least 2 |
| `OpenDialogShows` | `Agents_proofs` | `DialogShowsNeedsInput` | span at least 2 |
| `StoppedCardShowsOutput` | `Agents_proofs` | `QuietTurnShowsOutput` | span at least 2 |
| `ActiveAlwaysInRange` | `WindowTabs_proofs` | `ActiveInRange` | `NoTab` is no tab |
| `WindowTypeCorrect` | `WindowTabs_proofs` | `TypeOK` | `NoTab` is no tab |
| `ClosingKeepsOrMovesToNeighbour` | `WindowTabs_proofs` | `CloseKeepsActiveOrNeighbour` | `NoTab` is no tab |
| `LockIsReleased` | `Agents_proofs` | `LockIsNotOrphaned` | patience within the timeout |
| `CountStaysExact` | `Agents_proofs` | `CountIsExact` | patience within the timeout |
| `CardsStayCurrent` | `Views_proofs` | `CardsAreCurrent` | |
| `ReapingIsSafe` | `Views_proofs` | `ReapsOnlyDeparted` | |
| `ViewIsTold` | `Views_proofs` | the invariant below | screen of a row or more |
| `ViewRestsCurrent` | `Views_proofs` | `RestingViewIsCurrent` | screen of a row or more |
| `FrontEndSettles` | `Workspaces_proofs` | `QuietIsSettled` | |
| `SpawnsOpenAtHome` | `Workspaces_proofs` | `SpawnOpensAtHome` | |
| `SettingsStayAgreed` | `Workspaces_proofs` | `SettingsAgree` | |
| `OrderKeepsGroupsTogether` | `Workspaces_proofs` | the order saved keeps groups together | |
| `EditsMoveOneThing` | `Workspaces_proofs` | `EditMovesOneThing` | |
| `RegistryTyped` | `MuxRegistry_proofs` | `TypeOK` | |
| `TabsStayListedOnce` | `MuxRegistry_proofs` | `TabsListedOnce` | |
| `LivePanesAreKept` | `MuxRegistry_proofs` | `LivePanesStay` | |
| `OnlyLateTabsAreLost` | `MuxRegistry_proofs` | `OnlyLateTabsStray` | |
| `QuittingIsSafe` | `MuxRegistry_proofs` | `QuitLosesNoOldPane` | |
| `MainThreadInvariant` | `PaneNotifications_proofs` | the invariant below | layout as given |
| `BadgesStayInPlace` | `PaneNotifications_proofs` | `BadgesInPlace` | layout as given |
| `WatchedPanesStayRead` | `PaneNotifications_proofs` | `WatchedStaysRead` | layout as given |
| `BadgesAreReadWhenSeen` | `PaneNotifications_proofs` | `ReadOnlyWhenSeen` | layout as given |
| `SessionInvariant` | `Session_proofs` | the invariant below | texts are no tokens |
| `SessionTyped` | `Session_proofs` | `TypeOK` | texts are no tokens |
| `OwnScrollbackComesBack` | `Session_proofs` | `OwnScrollback` | texts are no tokens |
| `SessionComesBackWhole` | `Session_proofs` | `RestoredWhole` | texts are no tokens |
| `SavedTabIsActiveAgain` | `Session_proofs` | `ActiveTabComesBack` | texts are no tokens |

All are for any panes, workspaces, texts, tabs, subagents and bounds.
"Layout as given" is `LayoutAssumption`: finitely many tabs, each of one or two
panes; a tab is at one place of one window, a pane at one place of one tab; the
store holds at least one record. "Texts are no tokens" is `SessionAssumption`:
the marks for an empty pane and a torn file are not texts. `Agents_proofs` is
about `AgentStatusStore` and `AgentHooks`, which share the variable `store` of
`AgentStatusOps`, and about `SubagentCount`, whose `Init`, `Next` and `Spec` are
called `CounterInit`, `CounterNext` and `CounterSpec` for that reason.
`Views_proofs` is about `RemotePane` and, for what it shows of the agents, about
`Sidebar`, whose `Init`, `Next` and `Spec` are `SidebarInit`, `SidebarNext` and
`SidebarSpec`.

- **NotificationStore.** The inductive invariant `IInv` is `Counted` with the
  types and the cap. `Counted` is proved for each helper on its own:
  `PushFrontCounted` by a bijection that moves every index up by one,
  `PopBackCounted` by removing one index, `MarkPaneReadCounted` by a set
  difference; in each the saturating subtraction turns out exact because the set
  it takes away is a subset of the one counted. `BadgesLeadSomewhere` follows
  from `IInv` without a step of its own: a positive count is a non-empty set of
  indices, and such a set has a least one (`LeastOf`, from the well-foundedness
  of the order of the natural numbers).
  `RepeatsAreDropped` has an invariant of its own, preserved by pushing a
  non-duplicate, popping the oldest and marking. For the refinement, every count
  of the ledger is the cardinality of the indices whose record lies in some set
  of records, so one lemma for a push and one for a pop serve panes, workspaces
  and pairs alike; the ledger is stated by what each step adds and takes, with
  no sum over its counters.
- **AgentStatusStore.** `Safe(old, new)` says of one step that the generation
  moved iff a card changed and that the entry invariant is kept; there is a
  lemma per mutator, and the passing of seconds changes no card. The invariant
  that makes it inductive is that an entry that waits for output is not working.
  A span of 1 would make the generation constant, hence the assumption.
  `CardsShowTheTurn` has an invariant that makes entry and history of a turn
  agree: while it runs its message is the output; after it, output is awaited
  exactly if there has been none, and else kept.
- **AgentHooks.** Two processes write to one entry, so the invariant is about
  what they have still to write. `QueueInv`: a message is followed only by
  counts, the notification hook never says "working", the turn's hook says it
  only while the turn runs with no dialog open, and speaks only the turn's
  output. `DialogInv`: unless the window has lapsed, the `needs_input` of an open
  dialog is still to come, or is shown, and then with an age no greater than the
  time since the last event if an idle may still come: so that one is dropped,
  or it is the first event in as long as the window.
  `OutputInv`: after a turn without labels, output is awaited until it is
  spoken, and then kept. One lemma says what is left of a queue whose head is
  written, one for each kind of event what the store makes of it, and there is a
  lemma per step.
- **WindowTabs.** The active position is below the number of tabs or 0, and a
  tab is listed at most once. `fixup_active_tab_after_removal` needs the position
  to be in range before the removal, which the invariant gives; lemmas say which
  elements stand where after `RemoveAt` and `InsertAt`.
- **SubagentCount.** Locks are broken and stolen here, so the invariants say what
  holds until then and what holds all the same. `Exclusive`: as long as no lock
  was removed under a hook in the section, one is in it at most, and the lock is
  there. `LockOwned`: a lock that no orphaned `mkdir` made is that of a hook in the
  section or about to run its trap, unless one was killed; a termination leads to
  the trap, hence `LockIsReleased`. `Atomic` follows from `Exclusive`: the file
  is the one counter and the hook in the section carries what it will be.
  `Bounded` holds without any lock: no number is above that of the start hooks
  that have read. `Regular` adds, while no hook ended early, that the counter is
  the number of subagents whose start has written and whose stop has not, and
  that a 0 in the file is about to be removed.
- **Sidebar.** The invariant relates what the thread found to the agents that
  started since; cards that are not marked stale to a rebuild; the agents known
  to the facts; and every change to a pending note or repaint.
- **Workspaces.** The front end: a switch that was announced has a task waiting
  that ends it; an active workspace that is not there has a reconcile waiting,
  which no switch under way can swallow for good; a spawn nobody crossed finds
  its workspace active (`IInv`). The settings (`SInv`): the copy is `Tidy`
  (every name ordered once at most, groups and members match), so is the file,
  and unless a save failed or the file spoiled since, the file is
  the copy `Without` the workspaces forgotten since it was saved. The faults of
  the disk touch nothing of the front end (`FaultDoes`). `Tidy` needs a
  lemma per operation; those that move something rest on `LayoutRows` (the rows
  of the sidebar show everybody who is there, once), `ShiftedRows` (a row or a
  member shifted is a rearrangement) and `FlatLists` (rows put behind each other
  list everybody once). That a reconcile keeps file and copy together is
  `WithoutOneMore`: to remove one more from the file is to leave one more out of
  the copy, as a filter of a filter is the filter of both (`AmongBoth`). What is
  left must be activated and be a workspace, so `NextOfThere` shows that a listed
  live workspace is found above or below. That an edit moves one thing
  (`EditMovesOneThing`) compares the rows shown before and after for everybody
  else. Of two in one group the order puts one first (`Prec`), of two in
  different rows the order of the first members of the rows (`DisplayOrder`);
  rows or members shifted keep both for the rest (`ShiftedShows`), and so does
  writing the order that is shown. It needs one thing more of the saved order,
  `Gathered`: nobody stands between two of a group that he is not in. Without it
  the order shown is not the order saved (`GatheredDisplay`), as the rows of a
  group are put together when shown: one that stands in the middle would jump
  when the group is deleted. It holds because a group is moved as a block, a
  member is put behind the last of its group and one that leaves right below
  it, and it survives whatever is forgotten in between (`GInv`).
- **MuxRegistry.** A handler runs nested handlers to its end, so the invariant
  holds between two tasks (`Calm`): nothing spawned waits to be put behind the
  queue; the tabs are shared out among the windows, each in one at most and
  once; what the mux knows has been spawned; the spawns queued are those asked
  for, once each, and a removal queued is of a pane that ended or has left
  (`WorkOK`); and where the mux was reported empty it still is, but for panes
  that have ended, or a prune is queued behind the report (`EmptiesOK`). Each
  operator on the registry has a lemma that says what it leaves fine (`Fine`),
  what it may only take away (`Thins`) and what it must not touch (`Keeps`);
  each task has one that puts these together; and a queue and what is put behind
  it are joined by `WorkConcat`. The action properties follow from the same
  invariant, step by step. `LivePanesStay` is the hard one: a prune empties
  windows, which removes tabs, which removes panes, and none of it may reach a
  pane whose program runs.

- **PaneNotifications.** Between two tasks (`IInv`) every tab a window holds is
  one it was given, and every pane of a tab one it was given (`Placed`: hence a
  pane has one place and one workspace, however `resolve_pane_id` looks for it),
  no record repeats the one before it, and each unread record is of a pane that
  is there or was late, filed under the workspace of whatever place the pane has
  (`Badges`). Every operator of the main thread but the handling of a toast is
  shown to be `Calm`: it takes places away and adds none, marks records read and
  adds none, and leaves no unread record of a pane it drops; it marks only panes
  of a set that is stated with it. `Badges` survives any such step
  (`CalmIsGood`). What a toast adds, evicts and marks is `Toasted`, with the
  lemmas of `NotificationStore_proofs` about the list. For `ReadOnlyWhenSeen`
  the set of panes marked has to be in front when the task ends (`Stepped`). A
  focus task that waited while the user went on either does nothing, its pane
  being the active one of its tab still, or makes it active, and then marks it
  before the user if its workspace is shown (`FocusPaneDoes`); what is left is
  the `LateFocus` that the property exempts, as section 6 tells.

- **Session.** The invariant has two halves. On disk (`DiskInv`): the session is
  the one made of the windows last saved, and every file is torn or holds what
  the pane with its number showed, which a save keeps up because no two panes
  share a number (`OwnNumber`, from the walk being a total order of finitely
  many panes). In a restore (`RestoreInv`): a window has as many tabs as saved
  tabs with panes were tried, each of them is part of the saved one (every
  leaf stands for a part of the saved tree, and every saved leaf for one of it,
  `PartOf`), shows its own text or nothing, and the leaves still to be split are
  exactly those that wait in `todo`, once each (`Pending`). Without the last part
  the step that ends a restore could not be shown to leave the saved splits, and
  `RestoredWhole` would not follow; with nothing pending the leaves are those
  saved (`SamePlaces`). A split tree is a finite set of paths of which none lies
  inside another (`Apart`) and where both sides of a split have leaves (`Full`);
  that splitting a leaf and closing a pane, which lifts its sibling, give such
  sets again is proved once (`SplitPlace`, `CloseInIs`), and that every part of a
  tree has a unique first leaf rests on the paths of a finite set having a
  longest one (`FirstLeafIs`).

- **RemotePane.** The property speaks of a system at rest; the invariant says
  where, at any other moment, the news is that will put the client right
  (`ViewIsTold`). It has two halves. `Base` holds always: a row that waits for a
  download is in a request that is queued or in an answer on its way (`AwaitOK`);
  what the turn under way has read is in order (its number is between the one
  sent last and the terminal's, its lines are from after it or will be dirty
  again: `TurnOK`, `BonusOK`); rows that did not exist when the turn began are
  nowhere in the client (`UnmadeOK`); and a turn that saw an old top is followed
  by another (`MovedOK`). `InOrder` holds until a push overtakes one that waits
  for images: a text that the client holds, or that an answer would put there,
  is the server's, or the row is still to be told (`Pending`: newer than the
  number sent last, or among what the turn has read), or a push or the one that
  waits mentions it (`HeldOK`); the same for the text a push brings, with only
  the pushes behind it (`PushesOK`); and the last change on its way carries the
  top, and the number unless there is evidence that another will follow
  (`TopOK`, `SeqnoOK`). All of this is needed because `compute_changes` takes the
  terminal's lock anew for each thing it reads: a row written between two of its reads may be sent
  with a number older than itself, and then it is only true that it is sent
  again. The proof has a lemma per action; `Pending` is followed through the
  reads one by one, and what a push or an answer makes of an entry of the cache
  is stated once each (`EntryMove`, `FetchIs`). At rest no push, answer or task
  is left and the numbers agree, so nothing is pending and what is held is the
  server's. The invariant does not need fairness; that the system comes to rest,
  and `ViewCatchesUp`, do.

Where an operator goes over a sequence step by step, it is a recursive function
over the numbers up to its length. `Recursion` shows that such a function exists
and `UpTo` is induction over those numbers, both from `LeastOf` and both about
sets and not predicates, as a theorem with an operator parameter cannot be
instantiated with these provers; `Among`, `FlattenSeq`, `Keeping` and the handlers of the
registry that run through panes and windows are reasoned about with them. Out of
reach are operators declared `RECURSIVE` (the tree of `TabPanes`) and those of
the libraries that take an operator (`SelectSeq`, the folds), which is why the
modules proved about do without them.

Only model-checked: liveness and what else needs `ENABLED`, that is
`LeftoversLeave` and `EmptyMuxQuits` of `MuxRegistry` and the liveness of the
other modules; and `TabPanes`, whose tree is recursive.

## 6. Flaws and disagreements seen

What follows was met while modelling and is in the code as it stands. Each was
seen in a counterexample of an earlier form of a property; the property now names
the case and holds otherwise, or leaves it out as the text says.

**Windows and tabs**

- With `switch_to_last_active_tab_when_closing_tab`, closing the active tab when
  the last active one is to its right activates another tab: its index is taken
  before the removal and used after it (`mux/src/window.rs:160`).
  `CloseKeepsActiveOrNeighbour` speaks of the default configuration.
- A resize need not end (`mux/src/tab.rs:385`): the size of the whole tab is held
  to the least its panes need, but the cells are taken from both children of a
  split in turn, and a nested split whose two panes have one cell each is asked
  for cells it does not have (`Stuck`, `NestedAlong`).
- A split across the whole tab leaves the tab's own size at that of the old part
  (`tab.rs:2000`), and the new pane's pty at a size computed before (`TopSplit`).
- Zoom, resize of the window, end of the zoomed pane: the tree is left laid out
  for the size before the zoom. Rotating or closing a sibling while zoomed
  shrinks the pty of the zoomed pane to its slot.
- A prune skips the right one of two dead panes that share a split, and numbers
  the leaves after a removal wrongly (`tab.rs:1647`).
- A split before the active pane does not move the active index with it;
  `ActivatePaneByIndex` of the first pane while zoomed changes the active index
  unseen; a split that finds no place leaves its spawned pane in the mux
  in no tab; a removal that changes the active pane notifies nobody.

**Notifications and focus**

- A toast handled after its pane's removal stays unread for ever under the
  workspace active at that time, and "jump to unread" then does nothing (`late`).
- Two changes of the active pane within one turn of the main loop queue two
  reconciliations that undo each other for ever (`wezterm-gui/src/frontend.rs:80`);
  `FocusSettles` is about a change with no other queued beside it.
- Going to a pane by activating its tab does not mark its notifications read,
  against `docs/notifications.md:22` (`wezterm-gui/src/termwindow/mod.rs:2327`).
- A queued focus task undoes a tab switch the user made since. Where the user
  goes to a pane, back to the one beside it and to another workspace before the
  first focus task runs, the task makes the first pane active again and marks
  read a toast that came in between, which nobody has seen
  (`mux/src/lib.rs:550`). `ReadOnlyWhenSeen` exempts that task (`LateFocus`).

**Agents**

- A notification label written during a turn is kept as that turn's output, and
  the output the Stop hook sends is not shown (`mux/src/agent_status.rs:112`,
  against the comment at line 24); `QuietTurnShowsOutput` is about turns without.
- `docs/osc7777.md` describes the sticky window from the needs_input; the code
  measures it from the last update of the entry of any kind. An idle that comes
  as the first event in three seconds hides an open dialog
  (`mux/src/agent_status.rs:100`), and a Stop hook may be that slow; a dialog so
  hidden is left out of `DialogShowsNeedsInput` (`lapsed`).
- A waiter breaks the lock of a subagent hook that is still in the section, since
  it waits 2 s and a hook may take 5 (`bin/hooks/on-subagent-start.sh:30`, against
  the comment at line 24: "a live holder would have finished by then"). It does so by `rmdir` and then
  `mkdir`: two waiters may both do it and both enter. And the EXIT trap of a hook
  that never got the lock, terminated while waiting or giving up, removes the
  lock of whoever has it (line 26). From then on the count may be wrong for good
  (`robbed` in `CountIsExact`), though never above the number of subagents.
- A hook terminated during its `mkdir` runs its trap first and leaves the lock,
  which the next hook waits 2 s for (line 28, against the comment at line 23: "a
  SIGTERM mid-acquire can't orphan the lock"; `strayed` in `LockIsNotOrphaned`).

**Mux**

- `consolidate_workspace_windows` prunes after every window it empties: if the
  first window's panes have all ended, it goes in the middle, and the tabs of
  the windows still to be moved are left in no window. A window consolidated or closed
  while its spawn is under way loses the new tab likewise (both in
  `OnlyLateTabsStray`).
- The decision to quit, a task after the mux was found empty, looks at the
  activities and not at the panes again, and may kill a pane that just arrived
  (`QuitLosesNoOldPane` names exactly that case).

**Sidebar**

- `poll` of a spawned thread looks into the channel and then stores its waker;
  a thread that sends and looks for the waker in between wakes nobody
  (`promise/src/spawn.rs:101`; the comment at lines 80 to 83 considers the other
  order), and one that panics wakes nobody either. The window's refresh is then
  in flight for ever (`Lost` in `RefreshStarts`).
- A refresh that fails schedules no other (`sidebar.rs:1343`). The deadline of
  200 ms is only looked at when something paints the window (comment at
  `sidebar.rs:405`: "no later than").
- Facts older than an agent can reap it (`sidebar.rs:809`); `ReapsOnlyDeparted`
  allows it for an agent that started after the thread had looked. An agent
  whose process was not found stays ("unresolved").

**Workspaces**

- The tail of an earlier reconcile takes back the flag that a later switch has
  set (`frontend.rs:493`): the new workspace's shell opens elsewhere and its
  entry is removed from the file (`TailOfOne`, `crossed`).
- A move stores the order of what is live (`workspace_config.rs:433`), so that a
  workspace whose spawn is pending, or that comes back, loses its place.
- A reconcile removes an ended workspace's entry from the file only; the next
  save of the window's copy brings it back, and a workspace that gets the
  name inherits the settings (`SettingsAgree` says how far the two may differ).
- A save that fails is only logged (`sidebar.rs:916`, `frontend.rs:419`): the
  window goes on with settings that are not in the file (`unsaved`). A file that
  does not load counts as the defaults, and a reconcile that leaves a workspace
  then saves these over it (`frontend.rs:386`).
- `rename_workspace` renames neither the settings nor the notification records.
  The number of a deleted group is used again, though called stable, which a
  rename prompt still open would notice (`workspace_config.rs:315`).

**Sessions**

- A split that fails leaves the banner set, and every later pane of the run
  starts with that scrollback (`session.rs:444`; `failed` in `OwnScrollback`).
- A save does not clear the scrollback directory, so a pane without scrollback
  may get an older session's file (`mixed`).
- What could not be restored is gone at the next quit. A tab that has lost its
  panes and is not pruned yet shifts the position of the active tab
  (`session.rs:326`). Windows are saved in the order of a hash map.

**Remote panes**

- `dirty_top_phys_rows` marks the rows of the primary screen also when the
  alternate one has just been entered (`term/src/terminalstate/mod.rs:219`; the
  comment above it says the switch has to invalidate the client's rows). Mode
  1049 hides this by erasing; after mode 47 or 1047 a client goes on showing
  primary rows as up to date (`unsaid`).
- Rows of the primary screen at or below the viewport's height that changed just
  before the alternate screen took over are never reported (`unsaid`).
- Rows asked of a screen that has been switched meanwhile are answered with the
  rows the range is clamped to (`term/src/screen.rs:493`); the client drops these
  and the rows asked for stay marked as "Currently being downloaded from the
  server" (`wezterm-client/src/pane/renderable.rs:34`) for ever (`astray`).
- A push that waits for images may be applied after a newer one, and then puts
  its older lines and number over the newer (`overtaken`).
- A fetch that fails makes the line it was to replace count as up to date; the
  full push of the next session repairs it.

## 7. What is not modelled

Of the components in `PROJECT.json`, five are modelled in full, nine in part, and
ten are left out. By lines most of the repository is tables (Unicode names,
emoji, Nerd Fonts), drawing and font code, window back ends for each operating
system, escape-sequence data types, and vendored libraries: the state machines
modelled here are a small share of it.

Left out of components that are modelled in part:

- *Mux registry and tabs*: GUI windows, but for the mux window that is closed when
  its own cannot be created; moves of panes between tabs and windows, domains that
  attach and detach, trees received from a remote mux, which pane lies in a
  direction (any may), pixel sizes, titles.
- *Notification path*: the push of the same notifications to clients, OS toasts.
- *Sidebar*: branches, ports and pull requests of a card, the process
  snapshot's time to live, menus, and the latest notification on a card.
- *Workspaces*: which GUI window shows which mux window (consolidation leaves one
  to a workspace), files changed by other programs but for one that is spoiled,
  names and colours of groups.
- *Sessions*: sizes, titles and directories; two processes sharing the
  directory; a session of another version.
- *Promises*: the low-priority half of the main thread's queue and what wakes the
  message loop.
- *Client and server*: the local echo prediction, the tree of panes and its
  resync, resizes, the scrollback limit, input and spawns over the wire, other
  requests and the encoding of messages.

Hazards no property covers: a prune that finds the windows locked gives up and
queues nothing (`mux/src/lib.rs:1136`); the main thread waits seconds for agents
to exit at a quit while their last output queues up behind it
(`mux/src/quit_hooks.rs:226`); a rename of a workspace and its records
(`mux/src/lib.rs:681`).

Left out for good: terminal emulation beyond the switch of screens, byte-level
parsing, rendering, fonts, window toolkits, Lua and configuration loading, signal
handling and process tables of the quit hooks, ssh and tmux, and the hook scripts
of other agents than Claude Code (`AgentStatusStore` takes their events in any
order). They are data-heavy, mostly input and output, or inherited unchanged from
wezterm.

---------------------------- MODULE MuxRegistry ----------------------------
(* The mux's registry of windows, tabs and panes while spawns are under    *)
(* way: a spawn opens an empty window or picks one, waits for its domain   *)
(* and then registers a tab, while dead panes are pruned, the windows of   *)
(* the workspace are consolidated into one, the user closes windows and    *)
(* the GUI quits when the mux is empty.  There is one workspace, a tab has *)
(* one pane, and a spawn, its tab, its pane and the window it opens share  *)
(* a number; 0 is what the program started with.                           *)
EXTENDS Integers, Sequences, FiniteSets, SequencesExt

CONSTANTS
    Spawns,     \* bound: the spawns are 1 .. Spawns
    MaxQueue    \* bound: nothing new arrives while the queue is longer

ASSUME RegistryAssumption == Spawns \in Nat /\ MaxQueue \in Nat

Ids == 0 .. Spawns
Spawners == 1 .. Spawns

VARIABLES
    m,          \* windows in the mux, their tabs, mux.tabs and mux.panes
    phase,      \* of each spawn; it holds an Activity while "waiting"
    target,     \* the window each spawn is to add its tab to
    dead,       \* panes whose program has exited
    eof,        \* panes whose pty has ended
    queue,      \* tasks of the main thread
    quit,
    parity      \* history: of the number of tasks handled

vars == <<m, phase, target, dead, eof, queue, quit, parity>>

Task(kind, id) == [kind |-> kind, id |-> id]

Init ==
    /\ m = [open |-> {0}, list |-> [w \in Ids |-> IF w = 0 THEN <<0>> ELSE <<>>],
            tabs |-> {0}, panes |-> {0}, spawned |-> <<>>]
    /\ phase = [s \in Spawners |-> "none"]
    /\ target = [s \in Spawners |-> s]
    /\ dead = {}
    /\ eof = {}
    /\ queue = <<>>
    /\ quit = FALSE
    /\ parity = 0

Listed(r) == UNION {Range(r.list[w]) : w \in r.open}

Waiting == {s \in Spawners : phase[s] = "waiting"}

Push(r, kind) == [r EXCEPT !.spawned = Append(@, Task(kind, 0))]

(* Windows leave the mux with their tabs and the panes of these, and the   *)
(* frontend hears of each (remove_window_internal).                        *)
RemoveWindows(r, ws) ==
    LET gone == UNION {Range(r.list[w]) : w \in ws}
    IN [r EXCEPT !.open = @ \ ws,
                 !.list = [w \in Ids |-> IF w \in ws THEN <<>> ELSE @[w]],
                 !.tabs = @ \ gone,
                 !.panes = @ \ gone,
                 !.spawned = @ \o [i \in 1 .. Cardinality(ws) |-> Task("reconcile", 0)]]

(* Those of a window's tabs that stay, in their order. *)
Retained(tabs, left) ==
    LET upto[i \in 0 .. Len(tabs)] ==
            IF i = 0 THEN <<>>
            ELSE IF tabs[i] \in left THEN Append(upto[i - 1], tabs[i]) ELSE upto[i - 1]
    IN upto[Len(tabs)]

(* Activity::count() > 0. *)
HeldOff(holding) == holding # {}

(* Mutant: the mux counts as empty when it has no windows.                 *)
IsEmptyOfWindows(r) == r.open = {}

IsEmpty(r) == r.panes = {}

(* prune_dead_windows: a tab goes whose pane has exited or left the mux;   *)
(* a task of its own removes an exited pane.  A window left without tabs   *)
(* goes.  A mux without panes is told to the frontend.                     *)
Pruned(r, gone) ==
    LET doomed  == {t \in Listed(r) : t \in gone \/ t \notin r.panes}
        unknown == Listed(r) \ r.tabs
        strays  == {t \in r.tabs \ Listed(r) : t \in gone}
        trimmed == [r EXCEPT
            !.list = [w \in Ids |-> Retained(@[w], Ids \ (doomed \cup unknown))],
            !.tabs = @ \ (doomed \cup strays),
            !.panes = @ \ strays,
            !.spawned = @ \o SetToSeq({Task("remove", t) : t \in doomed})]
    IN RemoveWindows(trimmed, {w \in r.open : Len(trimmed.list[w]) = 0})

(* Mutant: the mux is told empty only by a prune that closed a window.     *)
PruneOnEdge(r, gone, holding) ==
    LET x == Pruned(r, gone)
    IN IF HeldOff(holding) THEN r
       ELSE IF IsEmpty(x) /\ x.open # r.open THEN Push(x, "empty") ELSE x

(* Mutant: the dead tabs leave mux.tabs and not their windows.             *)
PruneTabsOnly(r, gone, holding) ==
    LET x == Pruned(r, gone)
    IN IF HeldOff(holding) THEN r
       ELSE Push([r EXCEPT !.tabs = x.tabs, !.panes = x.panes, !.spawned = x.spawned],
                 IF IsEmpty(x) THEN "empty" ELSE "prune")

Prune(r, gone, holding) ==
    LET x == Pruned(r, gone)
    IN IF HeldOff(holding) THEN r
       ELSE IF IsEmpty(x) THEN Push(x, "empty") ELSE x

(* Mux::remove_pane. *)
RemovePane(r, p, gone, holding) == Prune([r EXCEPT !.panes = @ \ {p}], gone, holding)

KillWindowIn(r, w, gone, holding) == Prune(RemoveWindows(r, {w} \cap r.open), gone, holding)

(* Mutant: the tabs are copied into the first window.                      *)
MoveTabsByCopy(r, first, w) == [r EXCEPT !.list[first] = @ \o r.list[w]]

(* Mutant: only the first tab of a window finds a place.                   *)
MoveTabsLosing(r, first, w) == [r EXCEPT !.list[w] = <<>>]

(* The tabs of window w at the end of those of the first window, or in no  *)
(* window at all should that one have left the mux.                        *)
MoveTabs(r, first, w) ==
    [r EXCEPT !.list[first] = IF first \in r.open THEN @ \o r.list[w] ELSE @,
              !.list[w] = <<>>]

Primary(r) == CHOOSE w \in r.open : \A x \in r.open : w <= x

(* consolidate_workspace_windows: the tabs of every other window move to   *)
(* the first, in order, and the emptied window is killed; that prunes, and *)
(* the first window goes at that moment if all its panes have ended.       *)
Consolidate(r, gone, holding) ==
    LET first == Primary(r)
        upto[w \in Ids] ==
            LET x == IF w = 0 THEN r ELSE upto[w - 1]
            IN IF w \in r.open \ {first} THEN KillWindowIn(MoveTabs(x, first, w), w, gone, holding)
               ELSE x
    IN IF Cardinality(r.open) <= 1 THEN r ELSE upto[Spawns]
-----------------------------------------------------------------------------
(* The main thread leaves the registry as r, with the tasks r spawned and  *)
(* then more at the end of the queue rest.                                 *)
Leave(r, rest, more) ==
    /\ m' = [r EXCEPT !.spawned = <<>>]
    /\ queue' = rest \o r.spawned \o more

Arrives == ~quit /\ Len(queue) <= MaxQueue

(* The user asks for a tab in window w, or for a new window, w = s.        *)
RequestSpawn(s, w) ==
    /\ Arrives
    /\ phase[s] = "none"
    /\ phase' = [phase EXCEPT ![s] = "asked"]
    /\ w = s \/ w \in m.open
    /\ target' = [target EXCEPT ![s] = w]
    /\ queue' = Append(queue, Task("spawn", s))
    /\ UNCHANGED <<m, dead, eof, quit, parity>>

Started(p) == p = 0 \/ (p \in Spawners /\ phase[p] \in {"done", "lost"})

(* The thread that waits for a child wakes the mux.                        *)
ChildExits(p) ==
    /\ Arrives
    /\ p \notin dead /\ Started(p)
    /\ dead' = dead \cup {p}
    /\ queue' = Append(queue, Task("prune", 0))
    /\ UNCHANGED <<m, phase, target, eof, quit, parity>>

(* The reader of a pane's pty reaches its end, with exit_behavior Close.   *)
PtyEof(p) ==
    /\ Arrives
    /\ p \notin eof /\ Started(p)
    /\ eof' = eof \cup {p}
    /\ queue' = Append(queue, Task("remove", p))
    /\ UNCHANGED <<m, phase, target, dead, quit, parity>>

(* The user closes a window, or the tail of reconcile_workspace, which     *)
(* waits for the GUI's window of w, gets none and closes w.                *)
KillWindow(w) ==
    /\ Arrives
    /\ w \in m.open
    /\ Leave(KillWindowIn(m, w, dead, Waiting), queue, <<>>)
    /\ UNCHANGED <<phase, target, dead, eof, quit, parity>>

OpenWindow(r, s) == [r EXCEPT !.open = @ \cup {s}]

(* spawn_tab_or_window up to its await: without a window with a tab to add *)
(* to, it fails and lets go of its Activity.                               *)
StartSpawn(s, rest) ==
    LET fits == target[s] = s \/ (target[s] \in m.open /\ Len(m.list[target[s]]) > 0)
    IN /\ phase' = [phase EXCEPT ![s] = IF fits THEN "waiting" ELSE "failed"]
       /\ Leave(IF target[s] = s THEN OpenWindow(m, s) ELSE m, rest,
                IF fits THEN <<>> ELSE <<Task("prune", 0)>>)
       /\ UNCHANGED quit

(* Mutant: an Activity ends without a prune.                               *)
ReleasedQuietly(s) == IF target[s] = s THEN <<Task("reconcile", 0)>> ELSE <<>>

(* A spawn that ends tells of its new window and drops its Activities.     *)
Released(s) ==
    IF target[s] = s
    THEN <<Task("reconcile", 0), Task("prune", 0), Task("prune", 0)>>
    ELSE <<Task("prune", 0)>>

(* The domain has spawned the pane, and the mux knows it and its tab,      *)
(* whether or not their window is still there.                             *)
SpawnDone(s) ==
    LET known == [m EXCEPT !.tabs = @ \cup {s}, !.panes = @ \cup {s}]
        found == target[s] \in m.open
    IN /\ ~quit
       /\ phase[s] = "waiting"
       /\ phase' = [phase EXCEPT ![s] = IF found THEN "done" ELSE "lost"]
       /\ Leave(IF found THEN [known EXCEPT !.list[target[s]] = Append(@, s)] ELSE known,
                queue, Released(s))
       /\ UNCHANGED <<target, dead, eof, quit, parity>>

(* The domain has failed to spawn. *)
SpawnFails(s) ==
    /\ ~quit
    /\ phase[s] = "waiting"
    /\ phase' = [phase EXCEPT ![s] = "failed"]
    /\ Leave(m, queue, Released(s))
    /\ UNCHANGED <<target, dead, eof, quit, parity>>

(* The frontend's answer to MuxNotification::Empty. *)
CheckQuit(rest) ==
    /\ quit' = (Waiting = {})
    /\ Leave(m, rest, <<>>)
    /\ UNCHANGED phase

MuxTask(task, rest) ==
    /\ CASE task.kind = "prune"     -> Leave(Prune(m, dead, Waiting), rest, <<>>)
         [] task.kind = "remove"    -> Leave(RemovePane(m, task.id, dead, Waiting), rest, <<>>)
         [] task.kind = "reconcile" -> Leave(Consolidate(m, dead, Waiting), rest, <<>>)
    /\ UNCHANGED <<phase, quit>>

Dispatch ==
    /\ ~quit
    /\ Len(queue) > 0
    /\ LET task == Head(queue)
       IN CASE task.kind = "spawn" -> StartSpawn(task.id, Tail(queue))
            [] task.kind = "empty" -> CheckQuit(Tail(queue))
            [] OTHER               -> MuxTask(task, Tail(queue))
    /\ parity' = 1 - parity
    /\ UNCHANGED <<target, dead, eof>>

Next ==
    \/ \E s \in Spawners, w \in Ids : RequestSpawn(s, w)
    \/ \E s \in Spawners : SpawnDone(s) \/ SpawnFails(s)
    \/ \E p \in Ids : ChildExits(p) \/ PtyEof(p)
    \/ \E w \in Ids : KillWindow(w)
    \/ Dispatch

(* The main loop serves its queue; only Dispatch changes parity.           *)
Serve == ~quit /\ Len(queue) > 0 /\ parity' = 1 - parity

(* A domain answers; only its answers end "waiting".                       *)
Answer(s) ==
    /\ ~quit
    /\ phase[s] = "waiting"
    /\ \E end \in {"done", "lost", "failed"} : phase' = [phase EXCEPT ![s] = end]

Spec == Init /\ [][Next]_vars

FairSpec == Spec /\ WF_parity(Serve) /\ \A s \in Spawners : WF_phase(Answer(s))
-----------------------------------------------------------------------------
TypeOK ==
    /\ m.open \subseteq Ids /\ m.tabs \subseteq Ids /\ m.panes \subseteq Ids
    /\ m.list \in [Ids -> Seq(Ids)] /\ m.spawned = <<>>
    /\ phase \in [Spawners -> {"none", "asked", "waiting", "done", "lost", "failed"}]
    /\ target \in [Spawners -> Ids]
    /\ dead \subseteq Ids /\ eof \subseteq Ids
    /\ quit \in BOOLEAN /\ parity \in 0 .. 1

(* Between two tasks a tab the mux knows is in one window at most and once, *)
(* and windows hold no tab the mux does not know (add_tab_to_window,       *)
(* remove_tab_internal and consolidate_workspace_windows agree).           *)
TabsListedOnce ==
    /\ TypeOK
    /\ Listed(m) \subseteq m.tabs
    /\ \A w \in m.open : IsInjective(m.list[w])
    /\ \A v, w \in m.open : v # w => Range(m.list[v]) \cap Range(m.list[w]) = {}

(* A pane whose program runs leaves the mux only when its window is closed,*)
(* by the user or because the GUI can open none for it: neither            *)
(* prune_dead_windows nor a consolidation takes it.                        *)
LivePanesStay ==
    [][\A p \in m.panes \ (dead \cup eof) :
        \/ p \in m'.panes
        \/ \E w \in m.open \ m'.open : KillWindow(w) /\ p \in Range(m.list[w])]_vars

(* A tab the mux knows is left in no window only when the window was gone  *)
(* by the time its domain had spawned the pane (add_tab_to_window), or the *)
(* consolidation under way has pruned the window it moves the tabs to.     *)
OnlyLateTabsStray ==
    [][\A t \in (m'.tabs \ Listed(m')) \ (m.tabs \ Listed(m)) :
        \/ t \notin m.tabs /\ target[t] \notin m.open
        \/ /\ m.open # {} /\ Primary(m) \notin m'.open
           /\ Len(queue) > 0 /\ Head(queue).kind = "reconcile"]_vars

(* The GUI does not quit on a spawn under way, nor on a live pane other    *)
(* than one whose spawn has only just ended, its prune still queued.       *)
QuitLosesNoOldPane ==
    [][quit' /\ ~quit =>
        /\ Waiting = {}
        /\ m.panes \subseteq dead \/ \E i \in DOMAIN queue' : queue'[i].kind = "prune"]_vars

(* A window left empty gets a tab or leaves the mux, however its spawn     *)
(* ends, and a pane whose program has ended leaves the mux, also when a    *)
(* spawn under way held off the prune that its end asked for (the prune    *)
(* that follows every Activity).                                           *)
LeftoversLeave ==
    \A i \in Ids :
        /\ (i \in m.open /\ Len(m.list[i]) = 0)
             ~> (i \notin m.open \/ Len(m.list[i]) > 0 \/ quit)
        /\ (i \in dead \cap m.panes) ~> (i \notin m.panes \/ quit)

(* A mux without panes is refilled by a spawn or the GUI quits.            *)
EmptyMuxQuits == (m.panes = {}) ~> (m.panes # {} \/ quit)
=============================================================================

------------------------------ MODULE Session ------------------------------
(* The session a quit saves and the next start restores                    *)
(* (mux/src/session.rs): scrollback files named after the number of a pane *)
(* and session.json, which is put in place last; crashes between any two   *)
(* steps; spawns and splits that fail half-way; starts that do not         *)
(* restore; and the banner that hands a restored pane its scrollback.      *)
(* An output is known by its number.                                       *)
(* A tab is a function from the places of its panes (paths of "left" and   *)
(* "right") to what they show, Blank being nothing, or to their numbers.   *)
EXTENDS Integers, Sequences, FiniteSets, SequencesExt

CONSTANTS
    Blank,          \* a pane without output; no banner
    Torn,           \* a file whose writing was cut short
    MaxPanes,       \* bound: panes open at a time
    MaxMoves,       \* bound: what the user does in all
    MaxStarts,      \* bound: starts of the program
    MaxFailures,    \* bound: spawns and splits that fail
    MaxOutputs      \* bound: outputs of panes

ASSUME SessionAssumption ==
    /\ {MaxPanes, MaxMoves, MaxStarts, MaxFailures, MaxOutputs} \subseteq Nat
    /\ Blank \notin Nat /\ Torn \notin Nat \cup {Blank}

VARIABLES
    phase,      \* "off", "restoring", "running" or "saving"
    windows,    \* the windows of the mux: their tabs and active positions
    banner,     \* Mux::banner
    at,         \* what the restore has done: window, tab, and nodes of the tab left to split
    number,     \* the number of the next pane to save
    files,      \* the scrollback files there are
    json,       \* session.json
    saved,      \* history: the windows json was made from
    mixed,      \* history: a save has begun over the files of another session
    failed,     \* history: the last spawn or split of a restore failed
    spent       \* moves, starts, failures and outputs so far

disk == <<files, json, saved, mixed>>
vars == <<phase, windows, banner, at, number, files, json, saved, mixed, failed, spent>>

Texts == 1 .. MaxOutputs

NoFiles == <<>>
NoSession == [there |-> FALSE, windows |-> <<>>]
Nowhere == [window |-> 0, tab |-> 0, todo |-> <<>>, whole |-> TRUE]

Init ==
    /\ phase = "off" /\ windows = <<>> /\ banner = Blank /\ at = Nowhere /\ number = 0
    /\ files = NoFiles /\ json = NoSession /\ saved = <<>> /\ mixed = FALSE
    /\ failed = FALSE
    /\ spent = [moves |-> 0, starts |-> 0, failures |-> 0, texts |-> 0]
-----------------------------------------------------------------------------
Single(x) == [q \in {<<>>} |-> x]
EmptyTab == [q \in {} |-> Blank]

Under(tab, place) == {q \in DOMAIN tab : IsPrefix(place, q)}

IsSplit(tab, place) == place \notin DOMAIN tab /\ Under(tab, place) # {}

(* first_leaf: the place of the first pane under place. *)
FirstLeaf(tab, place) ==
    CHOOSE q \in Under(tab, place) : \A i \in Len(place) + 1 .. Len(q) : q[i] = "left"

Other(side) == IF side = "left" THEN "right" ELSE "left"

(* The pane at place makes room for a new one on the given side. *)
SplitTab(tab, place, side, x) ==
    LET old == Append(place, Other(side))
        new == Append(place, side)
    IN [q \in (DOMAIN tab \ {place}) \cup {old, new} |->
            IF q = new THEN x ELSE IF q = old THEN tab[place] ELSE tab[q]]

(* The pane at place goes and its sibling takes its parent's place. *)
CloseIn(tab, place) ==
    LET n     == Len(place)
        moved == Under(tab, Append(Front(place), Other(place[n])))
        rest  == DOMAIN tab \ (moved \cup {place})
    IN IF place = <<>> THEN EmptyTab
       ELSE [q \in rest \cup {RemoveAt(p, n) : p \in moved} |->
                IF q \in rest THEN tab[q] ELSE tab[InsertAt(q, n, Other(place[n]))]]

(* The panes of some windows: window, tab and place. *)
Panes(ws) ==
    UNION {UNION {{<<w, t, q>> : q \in DOMAIN ws[w].tabs[t]} : t \in DOMAIN ws[w].tabs} : w \in DOMAIN ws}

(* p comes before q in walk_pane_node_leaves_mut. *)
Before(p, q) ==
    \E i \in DOMAIN p \cap DOMAIN q : p[i] = "left" /\ q[i] = "right" /\ SubSeq(p, 1, i - 1) = SubSeq(q, 1, i - 1)

(* The panes in the order in which a save walks them. *)
Earlier(x, y) ==
    \/ x[1] < y[1]
    \/ x[1] = y[1] /\ x[2] < y[2]
    \/ x[1] = y[1] /\ x[2] = y[2] /\ Before(x[3], y[3])

NumberOf(ws, x) == Cardinality({y \in Panes(ws) : Earlier(y, x)})

TextAt(ws, x) == ws[x[1]].tabs[x[2]][x[3]]

(* The windows with the numbers of the panes in place of the panes. *)
Numbered(ws) ==
    [w \in DOMAIN ws |-> [ws[w] EXCEPT !.tabs = [t \in DOMAIN @ |-> [q \in DOMAIN @[t] |-> NumberOf(ws, <<w, t, q>>)]]]]

CountPanes(ws) == Cardinality(Panes(ws))
-----------------------------------------------------------------------------
(* Starts. *)

OneTab(text) == [tabs |-> <<Single(text)>>, active |-> 0]

Start ==
    /\ phase = "off"
    /\ spent.starts < MaxStarts
    /\ spent' = [spent EXCEPT !.starts = @ + 1]
    /\ banner' = Blank
    /\ at' = Nowhere
    /\ failed' = FALSE
    /\ UNCHANGED <<number, disk>>

(* A start with a command or a domain, or without a session. *)
StartFresh ==
    /\ Start
    /\ phase' = "running"
    /\ windows' = <<OneTab(Blank)>>

StartRestore ==
    /\ Start
    /\ json # NoSession
    /\ phase' = "restoring"
    /\ windows' = <<>>

(* Mutant: a pane without a file keeps the banner of the one before.       *)
BannerForKept(n) == IF n \notin DOMAIN files \/ files[n] = Torn THEN banner ELSE files[n]

(* set_scrollback_banner. *)
BannerFor(n) == IF n \notin DOMAIN files \/ files[n] = Torn THEN Blank ELSE files[n]

(* set_banner(None). *)
BannerAfter(text) == Blank

SavedTab == json.windows[at.window].tabs[at.tab]

(* Mutant: the last tab stays active.                                      *)
ActivatedLast(ws) ==
    [ws EXCEPT ![at.window].active = Len(ws[at.window].tabs) - 1]

(* The active tab is set when all tabs of a window are there. *)
Activated(ws) ==
    LET last == Len(ws[at.window].tabs) - 1
        idx  == json.windows[at.window].active
    IN IF at.window = 0 \/ last < 0 THEN ws
       ELSE [ws EXCEPT ![at.window].active = IF idx < last THEN idx ELSE last]

TabsDone == at.window > 0 => at.tab = Len(json.windows[at.window].tabs)

Restoring == phase = "restoring" /\ UNCHANGED <<number>>

RestoreWindow ==
    /\ Restoring
    /\ at.todo = <<>> /\ TabsDone /\ at.window < Len(json.windows)
    /\ windows' = Append(Activated(windows), [tabs |-> <<>>, active |-> 0])
    /\ at' = [at EXCEPT !.window = @ + 1, !.tab = 0]
    /\ UNCHANGED <<phase, banner, disk, failed, spent>>

(* The next tab is opened with the first of its panes; a tab without panes *)
(* is passed over.                                                         *)
RestoreTab ==
    LET tab  == json.windows[at.window].tabs[at.tab + 1]
        text == BannerFor(tab[FirstLeaf(tab, <<>>)])
    IN /\ Restoring
       /\ at.todo = <<>> /\ ~TabsDone
       /\ at' = [at EXCEPT !.tab = @ + 1, !.todo = IF IsSplit(tab, <<>>) THEN <<<<>>>> ELSE <<>>]
       /\ IF DOMAIN tab = {} THEN UNCHANGED <<windows, banner, failed>>
          ELSE /\ windows' = [windows EXCEPT ![at.window].tabs = Append(@, Single(text))]
               /\ banner' = BannerAfter(text)
               /\ failed' = FALSE
       /\ UNCHANGED <<phase, disk, spent>>

Fail == spent.failures < MaxFailures /\ spent' = [spent EXCEPT !.failures = @ + 1] /\ failed' = TRUE

(* The spawn fails, and the normal start goes on: it opens a window of its *)
(* own unless there are panes already.                                     *)
RestoreTabFails ==
    LET tab  == json.windows[at.window].tabs[at.tab + 1]
        text == BannerFor(tab[FirstLeaf(tab, <<>>)])
    IN /\ Restoring
       /\ at.todo = <<>> /\ ~TabsDone /\ DOMAIN tab # {}
       /\ Fail
       /\ phase' = "running"
       /\ banner' = text
       /\ windows' = IF CountPanes(windows) > 0 THEN windows ELSE Append(windows, OneTab(text))
       /\ at' = Nowhere
       /\ UNCHANGED disk

(* The place, if it is that of a split. *)
IfSplit(tab, place) == IF IsSplit(tab, place) THEN <<place>> ELSE <<>>

(* Mutant: only the left part is split further. *)
ToSplitLeft(tab, todo) == IfSplit(tab, Append(Head(todo), "left")) \o Tail(todo)

(* The node split next, the one to the left first, and those still to come. *)
ToSplit(tab, todo) ==
    IfSplit(tab, Append(Head(todo), "left")) \o IfSplit(tab, Append(Head(todo), "right")) \o Tail(todo)

RestoreSplit ==
    LET node == Head(at.todo)
        text == BannerFor(SavedTab[FirstLeaf(SavedTab, Append(node, "right"))])
        t    == Len(windows[at.window].tabs)
    IN /\ Restoring
       /\ at.todo # <<>>
       /\ windows' = [windows EXCEPT ![at.window].tabs[t] = SplitTab(@, node, "right", text)]
       /\ banner' = BannerAfter(text)
       /\ failed' = FALSE
       /\ at' = [at EXCEPT !.todo = ToSplit(SavedTab, @)]
       /\ UNCHANGED <<phase, disk, spent>>

(* A split fails, to spawn its pane or for want of room, and the rest of   *)
(* the tab is given up.                                                    *)
RestoreSplitFails ==
    /\ Restoring
    /\ at.todo # <<>>
    /\ Fail
    /\ banner' = BannerFor(SavedTab[FirstLeaf(SavedTab, Append(Head(at.todo), "right"))])
    /\ at' = [at EXCEPT !.todo = <<>>, !.whole = FALSE]
    /\ UNCHANGED <<phase, windows, disk>>

(* Everything is there, and cleanup_session_dir removes the session.       *)
FinishRestore ==
    /\ Restoring
    /\ at.todo = <<>> /\ TabsDone /\ at.window = Len(json.windows)
    /\ windows' = Activated(windows)
    /\ phase' = "running"
    /\ json' = NoSession
    /\ files' = NoFiles
    /\ mixed' = FALSE
    /\ UNCHANGED <<banner, at, saved, failed, spent>>
-----------------------------------------------------------------------------
(* What the user does with the windows; a new pane starts with the banner. *)

Move ==
    /\ phase = "running"
    /\ spent.moves < MaxMoves
    /\ spent' = [spent EXCEPT !.moves = @ + 1]
    /\ UNCHANGED <<phase, banner, at, number, disk, failed>>

NewWindow ==
    /\ Move
    /\ CountPanes(windows) < MaxPanes
    /\ windows' = Append(windows, OneTab(banner))

NewTab(w) ==
    /\ Move
    /\ CountPanes(windows) < MaxPanes
    /\ windows' = [windows EXCEPT ![w] =
                    [tabs |-> Append(@.tabs, Single(banner)), active |-> Len(@.tabs)]]

SplitPane(w, t, place, side) ==
    /\ Move
    /\ CountPanes(windows) < MaxPanes
    /\ windows' = [windows EXCEPT ![w].tabs[t] = SplitTab(@, place, side, banner)]

Activate(w, t) ==
    /\ Move
    /\ windows[w].active # t - 1
    /\ windows' = [windows EXCEPT ![w].active = t - 1]

(* The last pane of a tab leaves it empty until the prune. *)
ClosePane(w, t, place) ==
    /\ Move
    /\ windows' = [windows EXCEPT ![w].tabs[t] = CloseIn(@, place)]

Output(w, t, place) ==
    /\ phase = "running"
    /\ spent.texts < MaxOutputs
    /\ spent' = [spent EXCEPT !.texts = @ + 1]
    /\ windows' = [windows EXCEPT ![w].tabs[t][place] = spent.texts + 1]
    /\ UNCHANGED <<phase, banner, at, number, disk, failed>>

(* The places of a sequence that are in kept, up to its n-th. *)
Keeping(list, kept) ==
    LET k[n \in 0 .. Len(list)] ==
            IF n = 0 THEN <<>> ELSE IF n \in kept THEN Append(k[n - 1], list[n]) ELSE k[n - 1]
    IN k

Kept(list, kept) == Keeping(list, kept)[Len(list)]

(* The tabs of a window that have panes. *)
WithPanes(win) == {t \in DOMAIN win.tabs : DOMAIN win.tabs[t] # {}}
Filled(win) == Kept(win.tabs, WithPanes(win))

(* Tabs without panes go, and windows without tabs (prune_dead_windows).   *)
Pruned(ws) ==
    LET keep(win) ==
            LET left  == Len(Filled(win))
                ahead == Cardinality({t \in WithPanes(win) : t <= win.active})
            IN [tabs |-> Filled(win), active |-> IF ahead < left THEN ahead ELSE left - 1]
    IN Kept([w \in DOMAIN ws |-> keep(ws[w])], {w \in DOMAIN ws : WithPanes(ws[w]) # {}})

Prune ==
    /\ phase = "running"
    /\ windows' = Pruned(windows)
    /\ windows' # windows /\ windows' # <<>>
    /\ UNCHANGED <<phase, banner, at, number, disk, failed, spent>>
-----------------------------------------------------------------------------
(* save_session, from the quit on. *)

Quit ==
    /\ phase = "running"
    /\ phase' = "saving"
    /\ number' = 0
    /\ mixed' = (mixed \/ json # NoSession \/ files # NoFiles)
    /\ UNCHANGED <<windows, banner, at, files, json, saved, failed, spent>>

(* The directory with the file of the next pane. *)
Written(text) == [n \in DOMAIN files \cup {number} |-> IF n = number THEN text ELSE files[n]]

Saving == phase = "saving" /\ UNCHANGED <<windows, banner, at, mixed, failed, spent>>

(* The scrollback of the next pane is written over the file of its number. *)
(* Nothing is written for a pane without output, or when it takes too long;*)
(* a write that fails leaves a torn file, and the save goes on.            *)
SavePane ==
    /\ Saving
    /\ \E x \in Panes(windows) :
          /\ NumberOf(windows, x) = number
          /\ \/ UNCHANGED files
             \/ /\ TextAt(windows, x) # Blank
                /\ \E text \in {Torn, TextAt(windows, x)} : files' = Written(text)
    /\ number' = number + 1
    /\ UNCHANGED <<phase, json, saved>>

Off ==
    /\ phase' = "off"
    /\ windows' = <<>>
    /\ banner' = Blank
    /\ at' = Nowhere
    /\ number' = 0
    /\ failed' = FALSE

(* session.json is written beside the old one and renamed over it. *)
SaveJson ==
    /\ phase = "saving"
    /\ number = CountPanes(windows)
    /\ json' = [there |-> TRUE, windows |-> Numbered(windows)]
    /\ saved' = windows
    /\ Off
    /\ UNCHANGED <<files, mixed, spent>>

(* A crash, or the failure to write session.json.  A file that is being    *)
(* written stays cut short.                                                *)
Crash ==
    /\ phase # "off"
    /\ files' \in {files} \cup
        (IF phase = "saving" /\ number < CountPanes(windows) THEN {Written(Torn)} ELSE {})
    /\ Off
    /\ UNCHANGED <<json, saved, mixed, spent>>

Next ==
    \/ StartFresh \/ StartRestore
    \/ RestoreWindow \/ RestoreTab \/ RestoreTabFails
    \/ RestoreSplit \/ RestoreSplitFails \/ FinishRestore
    \/ NewWindow \/ Prune \/ Quit \/ SavePane \/ SaveJson \/ Crash
    \/ \E w \in DOMAIN windows :
        \/ NewTab(w)
        \/ \E t \in DOMAIN windows[w].tabs :
            \/ Activate(w, t)
            \/ \E place \in DOMAIN windows[w].tabs[t] :
                \/ ClosePane(w, t, place)
                \/ Output(w, t, place)
                \/ \E side \in {"left", "right"} : SplitPane(w, t, place, side)

Spec == Init /\ [][Next]_vars
-----------------------------------------------------------------------------
Shape(tabs) == [t \in DOMAIN tabs |-> DOMAIN tabs[t]]

(* No place of a tab lies inside another, and a window with tabs has an    *)
(* active one.                                                             *)
TypeOK ==
    /\ phase \in {"off", "restoring", "running", "saving"}
    /\ \A n \in DOMAIN files : files[n] \in Texts \cup {Torn}
    /\ banner \in Texts \cup {Blank}
    /\ \A w \in DOMAIN windows :
        /\ windows[w].active < Len(windows[w].tabs) \/ windows[w].tabs = <<>>
        /\ \A t \in DOMAIN windows[w].tabs :
            \A p, q \in DOMAIN windows[w].tabs[t] : IsPrefix(p, q) => p = q

(* The session leaves the disk only when all of it is open again: every    *)
(* window with its tabs that have panes, split as they were when it was    *)
(* saved, whatever crashed in between.  A split that fails costs the panes *)
(* of its tab only.                                                        *)
RestoredWhole ==
    [][json # NoSession /\ json' = NoSession =>
        /\ Len(windows') = Len(saved)
        /\ \A w \in DOMAIN saved :
            /\ Len(windows'[w].tabs) = Len(Filled(saved[w]))
            /\ at.whole => Shape(windows'[w].tabs) = Shape(Filled(saved[w]))]_vars

(* The tab that was active at the quit is active again, unless tabs before *)
(* it, or it, had lost their last pane and were not pruned yet.            *)
ActiveTabComesBack ==
    [][json # NoSession /\ json' = NoSession =>
        \A w \in DOMAIN saved :
            (\A t \in DOMAIN saved[w].tabs : t <= saved[w].active + 1 => DOMAIN saved[w].tabs[t] # {})
                => windows'[w].active = saved[w].active]_vars

(* A restored pane shows what the pane at its place showed at the quit, or *)
(* nothing, unless a save has gone over the files of another session.  Nor *)
(* do new panes start with the scrollback of another one: a banner is left *)
(* behind only when the last spawn or split of a restore failed, and then  *)
(* every pane of the run gets it.                                          *)
OwnScrollback ==
    /\ banner # Blank => failed
    /\ phase = "restoring" /\ ~mixed =>
        \A w \in DOMAIN windows : \A t \in DOMAIN windows[w].tabs :
            LET tab == Filled(saved[w])[t]
            IN \A q \in DOMAIN windows[w].tabs[t] :
                windows[w].tabs[t][q] \in {Blank, tab[FirstLeaf(tab, q)]}
=============================================================================

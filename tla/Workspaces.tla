----------------------------- MODULE Workspaces -----------------------------
(* The workspaces of the program as the user handles them: the sidebar's   *)
(* copy of their settings and the file it is saved to, and the front end,  *)
(* which switches between workspaces, starts new ones and leaves the ones  *)
(* that have come to an end (frontend.rs).  All of it runs on the main     *)
(* thread, in the order of its queue, with the user's actions in between.  *)
EXTENDS WorkspaceConfigs

CONSTANTS
    MaxEdits,       \* bound: settings the user changes
    MaxMoves,       \* bound: workspaces started, closed, left and renamed
    MaxChanges,     \* bound: edits and moves together
    MaxFailures,    \* bound: spawns that fail
    MaxFaults       \* bound: disks that fill and files that spoil

ASSUME WorkspacesAssumption == {MaxEdits, MaxMoves, MaxChanges, MaxFailures, MaxFaults} \subseteq Nat

VARIABLES
    copy,       \* workspace_configs of the window
    front,      \* the mux, the front end, its queue, the file and whether it
                \* can be written; as history the workspaces forgotten since
                \* the copy was saved, and whether the copy is not in the file
    crossed,    \* has something come between a new workspace and its spawn
    spent       \* edits, moves, failures and faults so far

vars == <<copy, front, crossed, spent>>

(* What the main thread has to do: "reconcile", the "tail" of one, "spawn" *)
(* a new workspace, "respawn" one of a given name, "drop" a switcher.      *)
Task(do, n) == [do |-> do, name |-> n]
Reconcile == Task("reconcile", 0)
TailOfOne == Task("tail", 0)
Spawns == {"spawn", "respawn"}

Init ==
    /\ copy = NoConfigs
    /\ \E i \in Names :
         front = [live |-> 1 .. i, active |-> 1, file |-> NoConfigs,
                  switching |-> FALSE, queue |-> <<>>, full |-> FALSE,
                  forgotten |-> {}, unsaved |-> FALSE]
    /\ crossed = FALSE
    /\ spent = [edits |-> 0, moves |-> 0, failures |-> 0, faults |-> 0]
-----------------------------------------------------------------------------
(* The front end. *)

Queued(f, task) == [f EXCEPT !.queue = Append(@, task)]

(* set_active_workspace_for_client. *)
Activated(f, n) == Queued([f EXCEPT !.active = n], Reconcile)

(* The next workspace in the order, or the one before. *)
NextOf(order, n, live) ==
    LET at == Place(order, n)
        on == Among(SubSeq(order, at + 1, Len(order)), live)
        back == Among(SubSeq(order, 1, at - 1), live)
    IN IF on # <<>> THEN on[1] ELSE back[Len(back)]

(* Mutant: the file is written in place, and torn by a save that fails.    *)
ForgottenInPlace(f, n) ==
    IF f.full THEN [f EXCEPT !.file = NoConfigs]
    ELSE [f EXCEPT !.file = Removed(@, n), !.forgotten = @ \cup {n}]

(* The settings of a workspace leave the file, which is written whole or   *)
(* not at all; that a save fails is only logged.                           *)
Forgotten(f, n) ==
    IF f.full THEN f ELSE [f EXCEPT !.file = Removed(@, n), !.forgotten = @ \cup {n}]

(* reconcile_workspace: a workspace that is empty is left and forgotten,   *)
(* unless a switch is under way; its tail runs later.                      *)
Reconciled(f) ==
    LET order == Display(f.file, f.live \cup {f.active})
        left == IF f.live = {} THEN f ELSE Activated(f, NextOf(order, f.active, f.live))
    IN IF f.active \in f.live THEN Queued(f, TailOfOne)
       ELSE IF f.switching THEN f
       ELSE Queued(Forgotten(left, f.active), TailOfOne)

(* Mutant: a switch goes on under the flag of another. *)
SwitchedStill(f, n) == Reconciled(Activated(f, n))

(* switch_workspace. *)
Switched(f, n) == Reconciled([Activated(f, n) EXCEPT !.switching = FALSE])

(* Mutant: the switch is not announced. *)
SwitchingUnannounced(f, n) == Activated(f, n)

(* WorkspaceSwitcher::new and set_active_workspace. *)
Switching(f, n) == Activated([f EXCEPT !.switching = TRUE], n)

Pending(f) == \E i \in DOMAIN f.queue : f.queue[i].do \in Spawns

(* The window spawned for a workspace opens in the one that is active.     *)
Opened(f) == Queued([f EXCEPT !.live = @ \cup {f.active}], Reconcile)

Ran(f, task) ==
    CASE task.do = "reconcile" -> IF f.switching THEN f ELSE Reconciled(f)
      [] task.do = "tail" -> [f EXCEPT !.switching = FALSE]
      [] task.do = "drop" -> Switched(f, task.name)
      [] task.do \in Spawns -> Switched(Opened(f), task.name)

Popped == [front EXCEPT !.queue = Tail(@)]

Crossed(f) == crossed' = (Pending(f) /\ (crossed \/ Pending(front)))

Run ==
    /\ front.queue # <<>>
    /\ LET task == Head(front.queue)
       IN /\ front' = Ran(Popped, task)
          /\ crossed' = (Pending(front') /\ (crossed \/ task.do # "reconcile"))
    /\ UNCHANGED <<copy, spent>>

SpawnFails ==
    /\ front.queue # <<>> /\ Head(front.queue).do \in Spawns
    /\ spent.failures < MaxFailures
    /\ spent' = [spent EXCEPT !.failures = @ + 1]
    /\ front' = Switched(Popped, Head(front.queue).name)
    /\ crossed' = Pending(front')
    /\ UNCHANGED copy
-----------------------------------------------------------------------------
(* The user changes the settings. *)

MayChange == spent.edits + spent.moves < MaxChanges

(* save_workspace_configs: when the save fails the copy keeps the change   *)
(* and the file stays as it is.                                            *)
Saved(f, c) ==
    IF f.full THEN [f EXCEPT !.unsaved = TRUE]
    ELSE [f EXCEPT !.file = c, !.forgotten = {}, !.unsaved = FALSE]

Edit(c) ==
    /\ spent.edits < MaxEdits /\ MayChange
    /\ spent' = [spent EXCEPT !.edits = @ + 1]
    /\ copy' = c
    /\ front' = Saved(front, c)
    /\ UNCHANGED crossed

Move(n, to) ==
    Edit(IF to = "bottom" THEN MovedToBottom(copy, n, front.live) ELSE Moved(copy, n, front.live, to))

MoveGroup(id, to) == id \in copy.groups /\ Edit(GroupMoved(copy, id, front.live, to))

JoinGroup(n, id) == id \in copy.groups /\ Edit(Grouped(copy, n, id, front.live))

LeaveGroup(n) == GroupOf(copy, n) # Nobody /\ Edit(Grouped(copy, n, Nobody, front.live))

NewGroup(n) ==
    /\ FreeIds(copy) # {}
    /\ Edit(Grouped(GroupAdded(copy), n, NewId(copy), front.live))

Ungroup(id) == id \in copy.groups /\ Edit(Ungrouped(copy, id))

Mark(n) == Edit(Marked(copy, n, n \notin copy.marked))
-----------------------------------------------------------------------------
(* Workspaces come and go. *)

Step == spent.moves < MaxMoves /\ MayChange /\ spent' = [spent EXCEPT !.moves = @ + 1]

(* generate_workspace_name. *)
Unused == Names \ front.live
NewName == CHOOSE n \in Unused : \A m \in Unused : n <= m

Spawning(f, n, do) == Queued(Switching(f, n), Task(do, n))

(* The settings of a workspace under a name that may have been used.       *)
Plain(c, n) == Removed(c, n)

(* show_new_workspace_prompt, or spawn_workspace_in_group. *)
NewWorkspace ==
    /\ Step /\ Unused # {}
    /\ \E id \in {Nobody} \cup {GroupOf(copy, n) : n \in front.live} :
         copy' = IF id = Nobody THEN MovedToBottom(Plain(copy, NewName), NewName, front.live)
                 ELSE Grouped(Plain(copy, NewName), NewName, id, front.live)
    /\ front' = Spawning(Saved(front, copy'), NewName, "spawn")
    /\ Crossed(front')

(* SwitchToWorkspace, with a name or without. *)
SwitchToWorkspace(n) ==
    /\ Step
    /\ front' = IF n \in front.live THEN Switched(Switching(front, n), n) ELSE Spawning(front, n, "respawn")
    /\ Crossed(front')
    /\ UNCHANGED copy

(* ActivateWorkspaceRelative, ActivateWorkspaceByIndex or a click. *)
Activate(n) ==
    /\ Step /\ n \in front.live
    /\ front' = Switched(front, n)
    /\ Crossed(front')
    /\ UNCHANGED copy

(* close_workspace_by_name; the only workspace is not closed. *)
Close(n) ==
    LET order == Display(copy, front.live)
        gone(f) == Queued([f EXCEPT !.live = @ \ {n}], Reconcile)
    IN /\ Step /\ n \in front.live
       /\ IF n = front.active /\ front.live = {n}
          THEN front' \in {front, Saved(front, copy)} /\ UNCHANGED copy
          ELSE /\ copy' = Removed(copy, n)
               /\ front' = Saved(gone(IF n = front.active
                                      THEN Switched(front, NextOf(order, n, front.live)) ELSE front), copy')
       /\ Crossed(front')

(* The last pane of a workspace ends. *)
Ends(n) ==
    /\ Step /\ n \in front.live
    /\ front' = Queued([front EXCEPT !.live = @ \ {n}], Reconcile)
    /\ UNCHANGED <<copy, crossed>>

(* rename_workspace; the settings keep the old name. *)
Rename(n, m) ==
    LET active == front.active \in {n, m}
        told == IF active THEN Queued([front EXCEPT !.switching = TRUE], Task("drop", m)) ELSE front
        moved == Queued([told EXCEPT !.live = (@ \ {n}) \cup {m}], Reconcile)
    IN /\ Step /\ n \in front.live /\ n # m
       /\ front' = IF front.active = n THEN Activated(moved, m) ELSE moved
       /\ Crossed(front')
       /\ UNCHANGED copy

(* The disk takes no writes for a while. *)
DiskFills ==
    /\ ~front.full /\ spent.faults < MaxFaults
    /\ spent' = [spent EXCEPT !.faults = @ + 1]
    /\ front' = [front EXCEPT !.full = TRUE]
    /\ UNCHANGED <<copy, crossed>>

DiskDrains ==
    /\ front.full
    /\ front' = [front EXCEPT !.full = FALSE]
    /\ UNCHANGED <<copy, crossed, spent>>

(* The file cannot be read or parsed: it loads as the defaults, which the  *)
(* next reconcile saves.                                                   *)
FileSpoils ==
    /\ front.file # NoConfigs /\ spent.faults < MaxFaults
    /\ spent' = [spent EXCEPT !.faults = @ + 1]
    /\ front' = [front EXCEPT !.file = NoConfigs, !.unsaved = TRUE]
    /\ UNCHANGED <<copy, crossed>>

Next ==
    \/ Run \/ SpawnFails \/ NewWorkspace
    \/ DiskFills \/ DiskDrains \/ FileSpoils
    \/ \E n \in Names :
         \/ SwitchToWorkspace(n) \/ Activate(n) \/ Close(n) \/ Ends(n)
         \/ \E m \in Names : Rename(n, m)
    \/ \E n \in front.live :
         \/ NewGroup(n) \/ LeaveGroup(n) \/ Mark(n)
         \/ \E to \in {"up", "down", "top", "bottom"} : Move(n, to)
         \/ \E id \in Groups : JoinGroup(n, id)
    \/ \E id \in Groups : Ungroup(id) \/ MoveGroup(id, "up") \/ MoveGroup(id, "down")

Spec == Init /\ [][Next]_vars
-----------------------------------------------------------------------------
Others(s, ns) == Among(s, Names \ ns)

ConfigsOK(c) ==
    /\ Range(c.order) \subseteq Names /\ IsInjective(c.order)
    /\ c.group \in [Names -> Groups \cup {Nobody}]
    /\ c.marked \subseteq Names /\ c.groups \subseteq Groups

TypeOK ==
    /\ ConfigsOK(copy) /\ ConfigsOK(front.file)
    /\ front.live \subseteq Names /\ front.active \in Names

(* Every group has a member and every member's group is there; and the     *)
(* file is the window's copy without the workspaces that have come to an   *)
(* end since, which the copy keeps, unless the last save of the copy       *)
(* failed or the file has spoiled since.                                   *)
SettingsAgree ==
    /\ TypeOK
    /\ \A c \in {copy, front.file} :
           \A id \in Groups : id \in c.groups <=> \E n \in Names : c.group[n] = id
    /\ LET gone == front.forgotten
       IN front.unsaved \/ front.file = Used([copy EXCEPT !.order = Others(@, gone), !.marked = @ \ gone,
                                                          !.group = [n \in Names |-> IF n \in gone THEN Nobody ELSE @[n]]])

(* The window of a new workspace opens there, unless the user or the tail  *)
(* of an earlier reconcile comes between.                                  *)
SpawnOpensAtHome ==
    front.queue # <<>> /\ Head(front.queue).do \in Spawns /\ ~crossed
        => front.active = Head(front.queue).name

(* What moves is one workspace or one group; the others keep their order.  *)
OthersKeepTheirOrder(before, after) ==
    LET moved == {{n} : n \in front.live} \cup {{n \in front.live : copy.group[n] = id} : id \in copy.groups}
    IN before # after => \E ns \in moved : Others(after, ns) = Others(before, ns)

(* A workspace joins a group as its last member, and leaves it below. *)
JoinsLastLeavesBelow(after) ==
    copy'.groups = copy.groups /\ copy'.group # copy.group =>
        LET n == CHOOSE k \in front.live : copy'.group[k] # copy.group[k]
            id == IF copy'.group[n] # Nobody THEN copy'.group[n] ELSE copy.group[n]
        IN \A m \in front.live \ {n} :
              copy'.group[m] = id => Place(after, m) < Place(after, n)

(* A group is deleted and its members stay where they are, unless one had  *)
(* no place of its own in the order.                                       *)
UngroupMovesNothing(before, after) ==
    copy'.groups # copy.groups /\ copy'.order = copy.order
        /\ {n \in front.live : copy.group[n] # Nobody} \subseteq Range(copy.order)
          => after = before

(* However moves, joins and departures follow each other, a change of the  *)
(* settings moves in the sidebar what it is about and nothing else.        *)
EditMovesOneThing ==
    [][spent'.edits # spent.edits /\ <<copy'.order, copy'.group>> # <<copy.order, copy.group>> =>
         \A before \in {Display(copy, front.live)}, after \in {Display(copy', front.live)} :
             /\ OthersKeepTheirOrder(before, after)
             /\ JoinsLastLeavesBelow(after)
             /\ UngroupMovesNothing(before, after)]_vars

(* When the queue has run empty no switch is under way, and the active     *)
(* workspace is there if any is.                                           *)
QuietIsSettled ==
    front.queue = <<>> => /\ ~front.switching
                          /\ front.active \in front.live \/ front.live = {}
=============================================================================

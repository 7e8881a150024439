------------------------------ MODULE Sidebar ------------------------------
(* The cards of the sidebar of one GUI window (termwindow/sidebar.rs).  A  *)
(* paint reuses the cached cards or rebuilds them, and starts a refresh    *)
(* when one is due; a thread then looks at the processes of the panes; its *)
(* result is applied on the main thread and the statuses of agents that    *)
(* have gone are removed.  The panes are those of workspaces other than    *)
(* the window's own, each the active pane of one; in the window's own the  *)
(* user runs a shell.                                                      *)
EXTENDS Integers, FiniteSets, SpawnedThread

CONSTANTS
    Panes,
    MaxAgents,      \* bound: agents ever started; 0 is the shell
    MaxFailures,    \* bound: look-ups that fail and threads that panic
    MaxMoves        \* bound: changes of focus and visibility, and panes gone

ASSUME SidebarAssumption == {MaxAgents, MaxFailures, MaxMoves} \subseteq Nat

(* SIDEBAR_METADATA_COALESCE_DELAY is the unit of time.                    *)
Delay == 1
Never == Delay + 1

Agents == 0 .. MaxAgents
NoFacts == "absent"

VARIABLES
    alive,      \* panes of the mux
    agent,      \* the agent that runs in each pane, or 0
    status,     \* the agent status store
    notes,      \* notifications on their way to the window, in any order
    side,       \* SidebarState
    screen,     \* is the window visible to the user, and to be painted
    task,       \* the refresh
    spent       \* agents, failures and moves so far

sidebarVars == <<alive, agent, status, notes, side, screen, task, spent>>
mux == <<alive, agent, status>>

SidebarInit ==
    /\ alive = Panes
    /\ agent = [p \in Panes |-> 0]
    /\ status = [p \in Panes |-> "none"]
    /\ notes = {}
    /\ side = [visible |-> TRUE,
               facts |-> [p \in Panes |-> NoFacts],
               known |-> {},            \* last_known_agents
               request |-> Nothing,     \* metadata_request: the leader of each pane
               cards |-> Nothing,       \* cached_entries
               stale |-> TRUE,          \* has a generation or count they show moved
               deadline |-> Never,      \* next_metadata_refresh, from now
               in_flight |-> FALSE]
    /\ screen = [focused |-> TRUE, invalid |-> TRUE]
    /\ task = NoTask
    /\ spent = [agents |-> 0, failures |-> 0, moves |-> 0]

Smaller(a, b) == IF a < b THEN a ELSE b

(* Mutant: the last request counts. *)
ScheduledLast(s, delay) == [s EXCEPT !.deadline = delay]

(* schedule_metadata_refresh. *)
Scheduled(s, delay) == [s EXCEPT !.deadline = Smaller(@, delay)]

OutOfDate(s) == [s EXCEPT !.stale = TRUE]

(* What the card of a pane shows of its agent (build_agent_info). *)
Card(s, p) ==
    IF s.facts[p] = "agent" \/ p \in s.known \/ status[p] # "none"
    THEN IF status[p] # "none" THEN status[p] ELSE "unknown"
    ELSE "none"

Built(s) == [p \in alive |-> Card(s, p)]

(* The main thread is between the two halves of a poll. *)
Polling == task.poll = "empty"
-----------------------------------------------------------------------------
(* The panes and what runs in them. *)

Move == ~Polling /\ spent.moves < MaxMoves /\ spent' = [spent EXCEPT !.moves = @ + 1]

AgentStarts(p) ==
    /\ p \in alive /\ agent[p] = 0 /\ spent.agents < MaxAgents
    /\ spent' = [spent EXCEPT !.agents = @ + 1]
    /\ agent' = [agent EXCEPT ![p] = spent.agents + 1]
    /\ notes' = notes \cup {"output"}
    /\ UNCHANGED <<alive, status, side, screen, task>>

AgentReports(p, s) ==
    /\ p \in alive /\ agent[p] # 0 /\ status[p] # s /\ ~Polling
    /\ status' = [status EXCEPT ![p] = s]
    /\ side' = OutOfDate(side)
    /\ notes' = notes \cup {"status"}
    /\ UNCHANGED <<alive, agent, screen, task, spent>>

(* An agent goes without a word, and the shell prints its prompt. *)
AgentExits(p) ==
    /\ agent[p] # 0
    /\ agent' = [agent EXCEPT ![p] = 0]
    /\ notes' = notes \cup {"output"}
    /\ UNCHANGED <<alive, status, side, screen, task, spent>>

PaneOutput ==
    /\ notes' = notes \cup {"output"}
    /\ UNCHANGED <<mux, side, screen, task, spent>>

PaneGoes(p) ==
    /\ Move /\ p \in alive
    /\ alive' = alive \ {p}
    /\ agent' = [agent EXCEPT ![p] = 0]
    /\ status' = [status EXCEPT ![p] = "none"]
    /\ side' = OutOfDate(side)
    /\ notes' = notes \cup {p}
    /\ UNCHANGED <<screen, task>>
-----------------------------------------------------------------------------
(* The window. *)

Invalidated == [screen EXCEPT !.invalid = TRUE]

Handle ==
    \E n \in notes :
        /\ ~Polling
        /\ notes' = notes \ {n}
        /\ side' = IF n = "status" THEN side
                   ELSE IF n = "output" THEN Scheduled(side, Delay)
                   ELSE Scheduled([side EXCEPT !.known = @ \ {n}], Delay)
        /\ screen' = Invalidated
        /\ UNCHANGED <<mux, task, spent>>

Tick ==
    /\ side.deadline \in 1 .. Delay
    /\ side' = [side EXCEPT !.deadline = @ - 1]
    /\ UNCHANGED <<mux, notes, screen, task, spent>>

ToggleSidebar ==
    /\ Move
    /\ side' = LET s == [side EXCEPT !.visible = ~@]
               IN IF s.visible THEN Scheduled(s, 0) ELSE s
    /\ screen' = Invalidated
    /\ UNCHANGED <<mux, notes, task>>

ToggleFocus ==
    /\ Move
    /\ screen' = [focused |-> ~screen.focused, invalid |-> TRUE]
    /\ UNCHANGED <<mux, notes, side, task>>

(* The foreground process of each pane. *)
Leaders == [p \in alive |-> agent[p]]

(* What a paint makes of the sidebar, short of the refresh it may start:   *)
(* nothing new, or the cards and the request for the next refresh.         *)
Fresh(s) == s.cards # Nothing /\ ~s.stale

(* A workspace gets its metadata together with the facts of its pane. *)
Missing(s) == \E p \in alive : s.facts[p] = NoFacts

Rebuilt(s) ==
    LET delay == IF Missing(s) THEN 0 ELSE IF s.request # Leaders THEN Delay ELSE Never
    IN [Scheduled(s, delay) EXCEPT !.request = Leaders, !.cards = Built(s), !.stale = FALSE]

Seen(s) == IF Fresh(s) THEN s ELSE Rebuilt(s)

(* A card of an agent at work is animated, in a window with the focus. *)
Animated ==
    /\ side.visible /\ screen.focused /\ side.cards # Nothing
    /\ \E p \in DOMAIN side.cards : side.cards[p] = "working"

(* Mutant: only cards that are rebuilt start a refresh. *)
StartsRebuilt(s) == ~s.in_flight /\ s.deadline = 0 /\ ~Fresh(side)

(* maybe_refresh_sidebar_metadata: is the refresh started. *)
Starts(s) == ~s.in_flight /\ s.deadline = 0

(* paint_sidebar and sidebar_entries. *)
PaintSidebar ==
    LET s == Seen(side)
    IN /\ ~Polling
       /\ screen.invalid \/ Animated
       /\ screen' = [screen EXCEPT !.invalid =
            side.visible /\ ~Fresh(side) /\ (Missing(side) \/ side.request # Leaders)]
       /\ IF ~side.visible THEN UNCHANGED <<side, task>>
          ELSE IF Starts(s)
          THEN side' = [s EXCEPT !.in_flight = TRUE, !.deadline = Never] /\ task' = NewTask(s.request)
          ELSE side' = s /\ UNCHANGED task
       /\ UNCHANGED <<mux, notes, spent>>
-----------------------------------------------------------------------------
(* The refresh. *)

(* with_root_pid_cached on the leader of a pane, its cache left aside: the *)
(* tree below the shell holds its agent, and an agent that has gone is not *)
(* found.                                                                  *)
LookUp(p, leader) ==
    IF leader = 0 THEN IF agent[p] = 0 THEN "other" ELSE "agent"
    ELSE IF agent[p] = leader THEN "agent" ELSE "unresolved"

Fail == spent.failures < MaxFailures /\ spent' = [spent EXCEPT !.failures = @ + 1]

(* resolve_pane_process_facts, a look-up of which may fail for a moment,   *)
(* and the sending of what it found.                                       *)
Collect ==
    LET request == task.request
        facts == [p \in Panes |-> IF p \in DOMAIN request THEN LookUp(p, request[p]) ELSE NoFacts]
    IN /\ task.thread = "new"
       /\ \/ task' = Sent(task, [facts |-> facts, agents |-> spent.agents])
             /\ UNCHANGED spent
          \/ \E p \in DOMAIN request :
                /\ task' = Sent(task, [facts |-> [facts EXCEPT ![p] = "unresolved"],
                                       agents |-> spent.agents])
                /\ Fail
       /\ UNCHANGED <<mux, notes, side, screen>>

Panic ==
    /\ task.thread = "new"
    /\ task' = Dropped(task)
    /\ Fail
    /\ UNCHANGED <<mux, notes, side, screen>>

Wake ==
    /\ task.thread = "sent"
    /\ task' = Woken(task)
    /\ UNCHANGED <<mux, notes, side, screen, spent>>

PollRefresh ==
    /\ \/ task.poll = "queued" /\ task' = Polled(task)
       \/ task.poll = "empty" /\ task' = Parked(task)
    /\ UNCHANGED <<mux, notes, side, screen, spent>>

(* Mutant: a process that was not found counts as gone. *)
DepartedUnresolved(facts) == {p \in Panes : facts[p] \in {"other", "unresolved"}}

(* The panes whose process was seen and is not an agent. *)
Departed(facts) == {p \in Panes : facts[p] = "other"}

(* Mutant: the cards stay valid when the facts change. *)
FactsAppliedQuietly(s, facts) == [s EXCEPT !.facts = facts]

FactsApplied(s, facts) ==
    IF facts = s.facts THEN s ELSE OutOfDate([s EXCEPT !.facts = facts])

(* finish_sidebar_metadata_refresh and reap_departed_agents. *)
Finish ==
    LET facts == task.result.facts
        gone  == {p \in Departed(facts) : status[p] # "none"}
        seen  == FactsApplied(side, facts)
        told  == IF gone = {} THEN seen ELSE OutOfDate(seen)
    IN /\ task.poll = "ok"
       /\ side' = [told EXCEPT
                    !.known = (@ \cup {p \in Panes : facts[p] = "agent"}) \ Departed(facts),
                    !.in_flight = FALSE]
       /\ status' = [p \in Panes |-> IF p \in gone THEN "none" ELSE status[p]]
       /\ screen' = Invalidated
       /\ task' = NoTask
       /\ UNCHANGED <<alive, agent, notes, spent>>

RefreshFailed(s) == [s EXCEPT !.in_flight = FALSE]

FinishError ==
    /\ task.poll = "error"
    /\ side' = RefreshFailed(side)
    /\ task' = NoTask
    /\ UNCHANGED <<mux, notes, screen, spent>>

Land == Finish \/ FinishError

SidebarNext ==
    \/ Handle \/ Tick \/ PaintSidebar \/ PaneOutput \/ ToggleSidebar \/ ToggleFocus
    \/ Collect \/ Panic \/ Wake \/ PollRefresh \/ Land
    \/ \E p \in Panes : \/ AgentStarts(p) \/ AgentExits(p) \/ PaneGoes(p)
                        \/ AgentReports(p, "idle") \/ AgentReports(p, "working")

(* The main thread takes its turns, threads run on and time passes.        *)
SidebarFairness ==
    /\ WF_sidebarVars(Handle) /\ WF_sidebarVars(PaintSidebar) /\ WF_sidebarVars(Tick)
    /\ WF_sidebarVars(Collect \/ Wake) /\ WF_sidebarVars(PollRefresh \/ Land)

SidebarSpec == SidebarInit /\ [][SidebarNext]_sidebarVars /\ SidebarFairness
-----------------------------------------------------------------------------
(* Nothing will paint the window again. *)
Resting == ~screen.invalid /\ ~Animated

SidebarTypeOK ==
    /\ side.deadline \in 0 .. Never
    /\ side.in_flight <=> task # NoTask
    /\ side.facts \in [Panes -> {NoFacts, "agent", "other", "unresolved"}]
    /\ \A p \in alive : agent[p] \in 0 .. spent.agents

(* The cards on a screen that is up to date are those a rebuild would give. *)
CardsAreCurrent ==
    side.visible /\ ~screen.invalid /\ notes = {} => side.cards = Built(side)

(* Only the status of an agent that is no longer there is removed, or that *)
(* of one which started after the thread looked at the processes.          *)
ReapsOnlyDeparted ==
    [][\A p \in alive' : status[p] # "none" /\ status'[p] = "none"
        => agent[p] = 0 \/ agent[p] > task.result.agents]_sidebarVars

(* A refresh that is due is not put off by output that never ends; it      *)
(* starts with a paint, unless nothing paints the window any more.         *)
RefreshStarts ==
    [](side.visible /\ side.deadline # Never
        => \/ <>(side.deadline = Never \/ ~side.visible \/ Lost(task))
           \/ <>[]Resting)

(* The status of an agent that has gone is removed while its window is     *)
(* painted, unless a look-up failed or did not find its process.           *)
DepartedIsReaped ==
    \A p \in Panes :
        [](status[p] # "none" /\ agent[p] = 0
            => \/ <>(status[p] = "none" \/ agent[p] # 0)
               \/ <>(~side.visible \/ Lost(task))
               \/ <>(spent.failures > 0 \/ side.facts[p] = "unresolved")
               \/ <>[]Resting)
=============================================================================

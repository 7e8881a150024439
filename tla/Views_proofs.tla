---------------------------- MODULE Views_proofs ----------------------------
(* Proofs about what a window shows of state that lies elsewhere, while    *)
(* news of it is under way: about Sidebar, its cards, for any panes and any*)
(* number of agents, failures and moves; and about RemotePane, the rows    *)
(* that a client keeps of a server's pane, for any height, scrollback,     *)
(* outputs, pushes, fetches, connections lost and scrolls.                 *)
EXTENDS RemotePane, Sidebar, FiniteSetTheorems, SequenceTheorems, WellFoundedInduction, TLAPS

(* The cards of the sidebar.                                               *)

Facts == {NoFacts, "agent", "other", "unresolved"}
Statuses == {"none", "idle", "working"}
Labels == Statuses \cup {"unknown"}

LeaderMaps == {Nothing} \cup UNION {[S -> Nat] : S \in SUBSET Panes}
CardSets == {Nothing} \cup UNION {[S -> Labels] : S \in SUBSET Panes}
Results == [facts : [Panes -> Facts], agents : Nat]

Threads == {"none", "new", "sent", "ended", "dropped"}
Polls == {"idle", "queued", "empty", "parked", "ok", "error"}

MuxTypes ==
    /\ alive \subseteq Panes
    /\ agent \in [Panes -> Nat]
    /\ status \in [Panes -> Statuses]
    /\ spent \in [agents : Nat, failures : Nat, moves : Nat]

Sides ==
    [visible : BOOLEAN, facts : [Panes -> Facts], known : SUBSET Panes,
     request : LeaderMaps, cards : CardSets, stale : BOOLEAN,
     deadline : 0 .. Never, in_flight : BOOLEAN]

SideType == side \in Sides

TaskType ==
    /\ screen \in [focused : BOOLEAN, invalid : BOOLEAN]
    /\ task \in [thread : Threads, poll : Polls, request : LeaderMaps, result : {Nothing} \cup Results]

SidebarTypes == MuxTypes /\ SideType /\ TaskType

(* What a thread has sent, or main has taken, was true when it was looked  *)
(* up: a pane found without an agent has none, or one started since.       *)
ResultOK ==
    /\ \A p \in Panes : agent[p] <= spent.agents
    /\ task.poll = "ok" => task.thread \in {"sent", "ended"}
    /\ task.thread \in {"sent", "ended"} =>
         /\ task.result \in Results
         /\ task.result.agents <= spent.agents
         /\ \A p \in alive : task.result.facts[p] = "other" =>
                agent[p] = 0 \/ agent[p] > task.result.agents

(* The cards kept are those a rebuild would give, or known not to be; and  *)
(* a window that shows such cards is to be painted, or about to hear.      *)
CardsOK ==
    /\ ~side.stale => side.cards = Built(side)
    /\ side.stale /\ side.visible => screen.invalid \/ notes # {}

(* The agents known agree with the facts, and a note that a pane has gone  *)
(* is about one that has: neither takes an agent off a card that is shown. *)
KnownOK ==
    /\ \A p \in alive : /\ side.facts[p] = "agent" => p \in side.known
                        /\ side.facts[p] = "other" => p \notin side.known
    /\ \A n \in notes : n \in {"output", "status"} \/ n \notin alive

SidebarInv == SidebarTypes /\ ResultOK /\ CardsOK /\ KnownOK
-----------------------------------------------------------------------------
(* What the definitions of the initial state and the records say.          *)

LEMMA SidebarInitInv == SidebarInit => SidebarInv
<1> SUFFICES ASSUME SidebarInit PROVE SidebarInv
  OBVIOUS
<1>1. MuxTypes
  BY DEF SidebarInit, MuxTypes, Statuses
<1>2. SideType
  BY DEF SidebarInit, SideType, Sides, Facts, LeaderMaps, CardSets, Never, Delay
<1>3. TaskType
  BY DEF SidebarInit, TaskType, NoTask, LeaderMaps, Threads, Polls
<1>4. ResultOK
  BY DEF SidebarInit, ResultOK, NoTask
<1>5. CardsOK /\ KnownOK
  BY DEF SidebarInit, CardsOK, KnownOK, NoFacts
<1> QED  BY <1>1, <1>2, <1>3, <1>4, <1>5 DEF SidebarInv, SidebarTypes

LEMMA BuiltTyped == ASSUME SidebarTypes PROVE Built(side) \in CardSets
<1>1. Built(side) \in [alive -> Labels]
  BY DEF SidebarTypes, MuxTypes, Built, Card, Labels, Statuses
<1> QED  BY <1>1 DEF SidebarTypes, MuxTypes, CardSets

LEMMA LeadersTyped == ASSUME SidebarTypes PROVE Leaders \in LeaderMaps
<1>1. Leaders \in [alive -> Nat]
  BY DEF SidebarTypes, MuxTypes, Leaders
<1> QED  BY <1>1 DEF SidebarTypes, MuxTypes, LeaderMaps

(* A rebuild gives the same cards when neither the panes, nor the statuses,*)
(* nor what is known of a pane have changed.                               *)
LEMMA BuiltSame ==
    ASSUME alive' = alive, status' = status, side'.facts = side.facts,
           \A p \in alive : p \in side'.known <=> p \in side.known
    PROVE  Built(side)' = Built(side)
  BY DEF Built, Card

(* The task and what it looks at are left alone. *)
LEMMA ResultKept ==
    ASSUME ResultOK, UNCHANGED <<alive, agent, task>>, spent'.agents = spent.agents
    PROVE  ResultOK'
  BY DEF ResultOK

(* The cards and what they are made of are left alone, and so is the       *)
(* screen, or it is to be painted.                                         *)
LEMMA CardsKept ==
    ASSUME CardsOK, UNCHANGED <<alive, status, side>>,
           notes \subseteq notes', screen' = screen \/ screen'.invalid
    PROVE  CardsOK'
<1>1. Built(side)' = Built(side)
  BY BuiltSame
<1> QED  BY <1>1 DEF CardsOK

LEMMA KnownKept ==
    ASSUME KnownOK, UNCHANGED <<alive, side>>, notes' \subseteq notes \cup {"output", "status"}
    PROVE  KnownOK'
  BY DEF KnownOK
-----------------------------------------------------------------------------
(* The panes. *)

LEMMA AgentStartsIInv ==
    ASSUME SidebarInv, NEW p \in Panes, AgentStarts(p)
    PROVE  SidebarInv'
<1>1. /\ UNCHANGED <<alive, status, side, screen, task>>
      /\ notes' = notes \cup {"output"}
      /\ agent' = [agent EXCEPT ![p] = spent.agents + 1]
  BY DEF AgentStarts
<1>2. spent' \in [agents : Nat, failures : Nat, moves : Nat] /\ spent'.agents = spent.agents + 1
  BY DEF AgentStarts, SidebarInv, SidebarTypes, MuxTypes
<1>3. SidebarTypes'
  BY <1>1, <1>2 DEF SidebarInv, SidebarTypes, MuxTypes, SideType, TaskType
<1>4. ResultOK'
  BY <1>1, <1>2 DEF SidebarInv, SidebarTypes, MuxTypes, ResultOK, Results
<1>5. CardsOK' /\ KnownOK'
  BY <1>1, CardsKept, KnownKept DEF SidebarInv
<1> QED  BY <1>3, <1>4, <1>5 DEF SidebarInv

LEMMA AgentReportsIInv ==
    ASSUME SidebarInv, NEW p \in Panes, NEW s \in {"idle", "working"}, AgentReports(p, s)
    PROVE  SidebarInv'
<1>1. /\ UNCHANGED <<alive, agent, screen, task, spent>>
      /\ notes' = notes \cup {"status"}
      /\ status' = [status EXCEPT ![p] = s]
      /\ side' = [side EXCEPT !.stale = TRUE]
  BY DEF AgentReports, OutOfDate
<1>2. SidebarTypes'
  BY <1>1 DEF SidebarInv, SidebarTypes, MuxTypes, SideType, Sides, TaskType, Statuses
<1>3. ResultOK'
  BY <1>1, ResultKept DEF SidebarInv
<1>4. CardsOK' /\ KnownOK'
  BY <1>1 DEF SidebarInv, SidebarTypes, SideType, Sides, CardsOK, KnownOK
<1> QED  BY <1>2, <1>3, <1>4 DEF SidebarInv

LEMMA AgentExitsIInv ==
    ASSUME SidebarInv, NEW p \in Panes, AgentExits(p)
    PROVE  SidebarInv'
<1>1. /\ UNCHANGED <<alive, status, side, screen, task, spent>>
      /\ notes' = notes \cup {"output"}
      /\ agent' = [agent EXCEPT ![p] = 0]
  BY DEF AgentExits
<1>2. SidebarTypes'
  BY <1>1 DEF SidebarInv, SidebarTypes, MuxTypes, SideType, TaskType
<1>3. ResultOK'
  BY <1>1 DEF SidebarInv, SidebarTypes, MuxTypes, ResultOK
<1>4. CardsOK' /\ KnownOK'
  BY <1>1, CardsKept, KnownKept DEF SidebarInv
<1> QED  BY <1>2, <1>3, <1>4 DEF SidebarInv

LEMMA PaneGoesIInv ==
    ASSUME SidebarInv, NEW p \in Panes, PaneGoes(p)
    PROVE  SidebarInv'
<1>1. /\ UNCHANGED <<screen, task>>
      /\ alive' = alive \ {p}
      /\ agent' = [agent EXCEPT ![p] = 0]
      /\ status' = [status EXCEPT ![p] = "none"]
      /\ side' = [side EXCEPT !.stale = TRUE]
      /\ notes' = notes \cup {p}
  BY DEF PaneGoes, OutOfDate
<1>2. spent' \in [agents : Nat, failures : Nat, moves : Nat] /\ spent'.agents = spent.agents
  BY DEF PaneGoes, Move, SidebarInv, SidebarTypes, MuxTypes
<1>3. SidebarTypes'
  BY <1>1, <1>2 DEF SidebarInv, SidebarTypes, MuxTypes, SideType, Sides, TaskType, Statuses
<1>4. ResultOK'
  BY <1>1, <1>2 DEF SidebarInv, SidebarTypes, MuxTypes, ResultOK
<1>5. CardsOK' /\ KnownOK'
  BY <1>1 DEF SidebarInv, SidebarTypes, SideType, Sides, CardsOK, KnownOK
<1> QED  BY <1>3, <1>4, <1>5 DEF SidebarInv
-----------------------------------------------------------------------------
(* The window. *)

LEMMA ScheduledKeeps ==
    ASSUME NEW s \in Sides, NEW d \in {0, Delay, Never}
    PROVE  /\ Scheduled(s, d) \in Sides
           /\ Scheduled(s, d).visible = s.visible /\ Scheduled(s, d).facts = s.facts
           /\ Scheduled(s, d).known = s.known /\ Scheduled(s, d).cards = s.cards
           /\ Scheduled(s, d).stale = s.stale /\ Scheduled(s, d).request = s.request
<1>1. Smaller(s.deadline, d) \in 0 .. Never
  BY DEF Sides, Smaller, Never, Delay
<1> QED  BY <1>1 DEF Sides, Scheduled

LEMMA HandleIInv == ASSUME SidebarInv, Handle PROVE SidebarInv'
<1> PICK n \in notes :
        /\ UNCHANGED <<alive, agent, status, task, spent>>
        /\ notes' = notes \ {n}
        /\ side' = IF n = "status" THEN side
                   ELSE IF n = "output" THEN Scheduled(side, Delay)
                   ELSE Scheduled([side EXCEPT !.known = @ \ {n}], Delay)
        /\ screen' = [screen EXCEPT !.invalid = TRUE]
  BY DEF Handle, Invalidated, mux
<1>1. /\ side' \in Sides
      /\ side'.facts = side.facts /\ side'.cards = side.cards /\ side'.stale = side.stale
      /\ \/ side'.known = side.known
         \/ side'.known = side.known \ {n} /\ n \notin {"output", "status"}
  <2>1. side \in Sides
    BY DEF SidebarInv, SidebarTypes, SideType
  <2>2. CASE n = "status"
    BY <2>1, <2>2
  <2>3. CASE n = "output"
    BY <2>1, <2>3, ScheduledKeeps
  <2>4. CASE n \notin {"output", "status"}
    <3> DEFINE t == [side EXCEPT !.known = @ \ {n}]
    <3>1. /\ t \in Sides /\ t.known = side.known \ {n}
          /\ t.facts = side.facts /\ t.cards = side.cards /\ t.stale = side.stale
      BY <2>1 DEF Sides
    <3>2. side' = Scheduled(t, Delay)
      BY <2>4
    <3> HIDE DEF t
    <3> QED  BY <2>4, <3>1, <3>2, ScheduledKeeps, ZenonT(60)
  <2> QED  BY <2>2, <2>3, <2>4
<1>2. SidebarTypes'
  BY <1>1 DEF SidebarInv, SidebarTypes, MuxTypes, SideType, TaskType
<1>3. ResultOK'
  BY ResultKept DEF SidebarInv
<1>4. \A p \in alive : p \in side'.known <=> p \in side.known
  BY <1>1 DEF SidebarInv, KnownOK
<1>5. Built(side)' = Built(side)
  BY <1>1, <1>4, BuiltSame
<1>6. CardsOK'
  BY <1>1, <1>5 DEF SidebarInv, SidebarTypes, TaskType, CardsOK
<1>7. KnownOK'
  BY <1>1, <1>4 DEF SidebarInv, KnownOK
<1> QED  BY <1>2, <1>3, <1>6, <1>7 DEF SidebarInv

(* Steps that change the clock, the visibility or the refresh in flight of *)
(* the sidebar only, and do not lose a repaint that is needed.             *)
LEMMA SideOnlyIInv ==
    ASSUME SidebarInv, UNCHANGED <<alive, agent, status, notes>>,
           spent' \in [agents : Nat, failures : Nat, moves : Nat], spent'.agents = spent.agents,
           SideType', TaskType', ResultOK',
           side'.facts = side.facts, side'.known = side.known,
           side'.cards = side.cards, side'.stale = side.stale,
           side'.stale /\ side'.visible => screen'.invalid \/ notes # {}
    PROVE  SidebarInv'
<1>1. SidebarTypes'
  BY DEF SidebarInv, SidebarTypes, MuxTypes
<1>2. Built(side)' = Built(side)
  BY BuiltSame
<1>3. CardsOK'
  BY <1>2 DEF SidebarInv, CardsOK
<1>4. KnownOK'
  BY DEF SidebarInv, KnownOK
<1> QED  BY <1>1, <1>3, <1>4 DEF SidebarInv

LEMMA TickIInv == ASSUME SidebarInv, Tick PROVE SidebarInv'
<1>1. /\ UNCHANGED <<alive, agent, status, notes, screen, task, spent>>
      /\ side.deadline \in 1 .. Delay
      /\ side' = [side EXCEPT !.deadline = side.deadline - 1]
  BY DEF Tick, mux
<1>2. /\ SideType' /\ side'.visible = side.visible
      /\ side'.facts = side.facts /\ side'.known = side.known
      /\ side'.cards = side.cards /\ side'.stale = side.stale
  BY <1>1 DEF SidebarInv, SidebarTypes, SideType, Sides, Never, Delay
<1> QED  BY <1>1, <1>2, ResultKept, SideOnlyIInv DEF SidebarInv, SidebarTypes, MuxTypes, TaskType, CardsOK

LEMMA ToggleSidebarIInv == ASSUME SidebarInv, ToggleSidebar PROVE SidebarInv'
<1> DEFINE s == [side EXCEPT !.visible = ~@]
<1>1. /\ UNCHANGED <<alive, agent, status, notes, task>>
      /\ side' = IF s.visible THEN Scheduled(s, 0) ELSE s
      /\ screen' = [screen EXCEPT !.invalid = TRUE]
  BY DEF ToggleSidebar, Invalidated, mux
<1>2. spent' \in [agents : Nat, failures : Nat, moves : Nat] /\ spent'.agents = spent.agents
  BY DEF ToggleSidebar, Move, SidebarInv, SidebarTypes, MuxTypes
<1>3. /\ s \in Sides
      /\ s.facts = side.facts /\ s.known = side.known
      /\ s.cards = side.cards /\ s.stale = side.stale
  BY DEF SidebarInv, SidebarTypes, SideType, Sides
<1> HIDE DEF s
<1>4. /\ SideType'
      /\ side'.facts = side.facts /\ side'.known = side.known
      /\ side'.cards = side.cards /\ side'.stale = side.stale
  BY <1>1, <1>3, ScheduledKeeps DEF SideType
<1>5. TaskType' /\ screen'.invalid
  BY <1>1 DEF SidebarInv, SidebarTypes, TaskType
<1> QED  BY <1>1, <1>2, <1>4, <1>5, ResultKept, SideOnlyIInv DEF SidebarInv, TaskType

LEMMA ToggleFocusIInv == ASSUME SidebarInv, ToggleFocus PROVE SidebarInv'
<1>1. /\ UNCHANGED <<alive, agent, status, notes, task, side>>
      /\ screen' = [focused |-> ~screen.focused, invalid |-> TRUE]
  BY DEF ToggleFocus, mux
<1>2. spent' \in [agents : Nat, failures : Nat, moves : Nat] /\ spent'.agents = spent.agents
  BY DEF ToggleFocus, Move, SidebarInv, SidebarTypes, MuxTypes
<1>3. TaskType' /\ screen'.invalid
  BY <1>1 DEF SidebarInv, SidebarTypes, TaskType
<1> QED  BY <1>1, <1>2, <1>3, ResultKept, SideOnlyIInv DEF SidebarInv, SidebarTypes, TaskType, SideType

LEMMA PaneOutputIInv == ASSUME SidebarInv, PaneOutput PROVE SidebarInv'
<1>1. /\ UNCHANGED <<alive, agent, status, side, screen, task, spent>>
      /\ notes' = notes \cup {"output"}
  BY DEF PaneOutput, mux
<1>2. SidebarTypes'
  BY <1>1 DEF SidebarInv, SidebarTypes, MuxTypes, SideType, TaskType
<1> QED  BY <1>1, <1>2, ResultKept, CardsKept, KnownKept DEF SidebarInv

(* What a paint shows is current, whether it was kept or rebuilt. *)
LEMMA SeenIsCurrent ==
    ASSUME SidebarInv
    PROVE  /\ Seen(side) \in Sides
           /\ Seen(side).visible = side.visible
           /\ Seen(side).facts = side.facts /\ Seen(side).known = side.known
           /\ Seen(side).cards = Built(side) /\ ~Seen(side).stale
<1>1. side \in Sides
  BY DEF SidebarInv, SidebarTypes, SideType
<1>2. CASE Fresh(side)
  BY <1>1, <1>2 DEF Seen, Fresh, SidebarInv, CardsOK
<1>3. CASE ~Fresh(side)
  <2> DEFINE delay == IF Missing(side) THEN 0 ELSE IF side.request # Leaders THEN Delay ELSE Never
             t == Scheduled(side, delay)
  <2>1. Seen(side) = [t EXCEPT !.request = Leaders, !.cards = Built(side), !.stale = FALSE]
    BY <1>3 DEF Seen, Rebuilt
  <2>2. t \in Sides /\ t.visible = side.visible /\ t.facts = side.facts /\ t.known = side.known
    <3>1. delay \in {0, Delay, Never}
      OBVIOUS
    <3> HIDE DEF delay
    <3> QED  BY <1>1, <3>1, ScheduledKeeps
  <2>3. Built(side) \in CardSets /\ Leaders \in LeaderMaps
    BY BuiltTyped, LeadersTyped DEF SidebarInv
  <2> HIDE DEF t
  <2> QED  BY <2>1, <2>2, <2>3 DEF Sides
<1> QED  BY <1>2, <1>3

LEMMA StartedKeeps ==
    ASSUME NEW s \in Sides
    PROVE  LET t == [s EXCEPT !.in_flight = TRUE, !.deadline = Never]
           IN /\ t \in Sides /\ t.visible = s.visible /\ t.facts = s.facts
              /\ t.known = s.known /\ t.cards = s.cards /\ t.stale = s.stale
<1>1. Never \in 0 .. Never
  BY DEF Never, Delay
<1> QED  BY <1>1 DEF Sides

LEMMA PaintSidebarIInv == ASSUME SidebarInv, PaintSidebar PROVE SidebarInv'
<1> DEFINE s == Seen(side)
           t == [s EXCEPT !.in_flight = TRUE, !.deadline = Never]
<1>1. /\ UNCHANGED <<alive, agent, status, notes, spent>>
      /\ IF ~side.visible THEN UNCHANGED <<side, task>>
         ELSE IF Starts(s) THEN side' = t /\ task' = NewTask(s.request)
         ELSE side' = s /\ UNCHANGED task
  BY DEF PaintSidebar, mux
<1>2. screen' \in [focused : BOOLEAN, invalid : BOOLEAN]
  <2>1. PICK b \in BOOLEAN : screen' = [screen EXCEPT !.invalid = b]
    BY DEF PaintSidebar
  <2> QED  BY <2>1 DEF SidebarInv, SidebarTypes, TaskType
<1>3. /\ s \in Sides
      /\ s.visible = side.visible /\ s.facts = side.facts /\ s.known = side.known
      /\ s.cards = Built(side) /\ ~s.stale
  BY SeenIsCurrent
<1> HIDE DEF s
<1>4. /\ t \in Sides
      /\ t.visible = side.visible /\ t.facts = side.facts /\ t.known = side.known
      /\ t.cards = Built(side) /\ ~t.stale
  BY <1>3, StartedKeeps
<1> HIDE DEF t
<1>5. SidebarTypes' /\ ResultOK'
  <2>1. CASE UNCHANGED task
    <3>1. SidebarTypes'
      BY <1>1, <1>2, <1>3, <1>4, <2>1 DEF SidebarInv, SidebarTypes, MuxTypes, SideType, TaskType
    <3> QED  BY <1>1, <2>1, <3>1, ResultKept DEF SidebarInv
  <2>2. CASE side' = t /\ task' = NewTask(s.request)
    <3>1. s.request \in LeaderMaps
      BY <1>3 DEF Sides
    <3>2. TaskType'
      BY <1>2, <2>2, <3>1 DEF TaskType, NewTask, Threads, Polls
    <3>3. SidebarTypes'
      BY <1>1, <1>4, <2>2, <3>2 DEF SidebarInv, SidebarTypes, MuxTypes, SideType
    <3>4. ResultOK'
      BY <1>1, <2>2 DEF SidebarInv, ResultOK, NewTask
    <3> QED  BY <3>3, <3>4
  <2> QED  BY <1>1, <2>1, <2>2
<1>6. side'.facts = side.facts /\ side'.known = side.known
  BY <1>1, <1>3, <1>4
<1>7. Built(side)' = Built(side)
  BY <1>1, <1>6, BuiltSame
<1>8. CardsOK'
  BY <1>1, <1>3, <1>4, <1>7 DEF SidebarInv, CardsOK
<1>9. KnownOK'
  BY <1>1, <1>6 DEF SidebarInv, KnownOK
<1> QED  BY <1>5, <1>8, <1>9 DEF SidebarInv
-----------------------------------------------------------------------------
(* The refresh. *)

(* Steps of the thread and of the poll.                                    *)
LEMMA TaskOnlyIInv ==
    ASSUME SidebarInv, UNCHANGED <<alive, agent, status, notes, side, screen>>,
           spent' \in [agents : Nat, failures : Nat, moves : Nat], spent'.agents = spent.agents,
           TaskType', ResultOK'
    PROVE  SidebarInv'
<1>1. SidebarTypes'
  BY DEF SidebarInv, SidebarTypes, MuxTypes, SideType
<1>2. CardsOK' /\ KnownOK'
  BY CardsKept, KnownKept DEF SidebarInv
<1> QED  BY <1>1, <1>2 DEF SidebarInv

LEMMA PanicIInv == ASSUME SidebarInv, Panic PROVE SidebarInv'
<1>1. /\ UNCHANGED <<alive, agent, status, notes, side, screen>>
      /\ task.thread = "new" /\ task' = [task EXCEPT !.thread = "dropped"]
  BY DEF Panic, mux, Dropped
<1>2. spent' \in [agents : Nat, failures : Nat, moves : Nat] /\ spent'.agents = spent.agents
  BY DEF Panic, Fail, SidebarInv, SidebarTypes, MuxTypes
<1>3. TaskType'
  BY <1>1 DEF SidebarInv, SidebarTypes, TaskType, Threads
<1>4. ResultOK'
  BY <1>1, <1>2 DEF SidebarInv, SidebarTypes, TaskType, ResultOK
<1> QED  BY <1>1, <1>2, <1>3, <1>4, TaskOnlyIInv

LEMMA WakeIInv == ASSUME SidebarInv, Wake PROVE SidebarInv'
<1>1. /\ UNCHANGED <<alive, agent, status, notes, side, screen, spent>>
      /\ task.thread = "sent"
      /\ task' = [task EXCEPT !.thread = "ended",
                              !.poll = IF task.poll = "parked" THEN "queued" ELSE task.poll]
  BY DEF Wake, mux, Woken
<1>2. TaskType'
  BY <1>1 DEF SidebarInv, SidebarTypes, TaskType, Threads, Polls
<1>3. ResultOK'
  BY <1>1 DEF SidebarInv, SidebarTypes, TaskType, ResultOK
<1> QED  BY <1>1, <1>2, <1>3, TaskOnlyIInv DEF SidebarInv, SidebarTypes, MuxTypes

LEMMA PollRefreshIInv == ASSUME SidebarInv, PollRefresh PROVE SidebarInv'
<1>1. PICK r \in Polls :
        /\ task' = [task EXCEPT !.poll = r]
        /\ r = "ok" => task.thread \in {"sent", "ended"}
  BY DEF PollRefresh, Polled, Parked, Polls
<1>2. UNCHANGED <<alive, agent, status, notes, side, screen, spent>>
  BY DEF PollRefresh, mux
<1>3. TaskType'
  BY <1>1, <1>2 DEF SidebarInv, SidebarTypes, TaskType
<1>4. ResultOK'
  BY <1>1, <1>2 DEF SidebarInv, SidebarTypes, TaskType, ResultOK
<1> QED  BY <1>2, <1>3, <1>4, TaskOnlyIInv DEF SidebarInv, SidebarTypes, MuxTypes

LEMMA CollectIInv == ASSUME SidebarInv, Collect PROVE SidebarInv'
<1> DEFINE found == [p \in Panes |-> IF p \in DOMAIN task.request
                                     THEN LookUp(p, task.request[p]) ELSE NoFacts]
<1>1. PICK f \in [Panes -> Facts] :
        /\ task' = Sent(task, [facts |-> f, agents |-> spent.agents])
        /\ \A p \in Panes : f[p] = "other" => agent[p] = 0
  <2>1. found \in [Panes -> Facts]
    BY DEF LookUp, Facts, NoFacts
  <2>2. \A p \in Panes : found[p] = "other" => agent[p] = 0
    BY DEF LookUp, NoFacts
  <2>3. CASE task' = Sent(task, [facts |-> found, agents |-> spent.agents])
    BY <2>1, <2>2, <2>3
  <2>4. ASSUME NEW p, task' = Sent(task, [facts |-> [found EXCEPT ![p] = "unresolved"],
                                         agents |-> spent.agents])
        PROVE  \E f \in [Panes -> Facts] :
                    /\ task' = Sent(task, [facts |-> f, agents |-> spent.agents])
                    /\ \A q \in Panes : f[q] = "other" => agent[q] = 0
    <3> DEFINE f == [found EXCEPT ![p] = "unresolved"]
    <3> HIDE DEF found
    <3>1. f \in [Panes -> Facts]
      BY <2>1 DEF Facts
    <3>2. \A q \in Panes : f[q] = "other" => agent[q] = 0
      BY <2>1, <2>2
    <3> HIDE DEF f
    <3>3. task' = Sent(task, [facts |-> f, agents |-> spent.agents])
      BY <2>4 DEF f
    <3> QED  BY <3>1, <3>2, <3>3
  <2>5. \/ task' = Sent(task, [facts |-> found, agents |-> spent.agents])
        \/ \E p : task' = Sent(task, [facts |-> [found EXCEPT ![p] = "unresolved"],
                                       agents |-> spent.agents])
    BY DEF Collect
  <2> HIDE DEF found
  <2> QED  BY <2>3, <2>4, <2>5
<1>2. UNCHANGED <<alive, agent, status, notes, side, screen>> /\ task.thread = "new"
  BY DEF Collect, mux
<1>3. spent' \in [agents : Nat, failures : Nat, moves : Nat] /\ spent'.agents = spent.agents
  <2>1. UNCHANGED spent \/ Fail
    BY DEF Collect
  <2> QED  BY <2>1 DEF Fail, SidebarInv, SidebarTypes, MuxTypes
<1>4. [facts |-> f, agents |-> spent.agents] \in Results
  BY DEF SidebarInv, SidebarTypes, MuxTypes, Results
<1> DEFINE x == [facts |-> f, agents |-> spent.agents]
<1>5. x.facts = f /\ x.agents = spent.agents
  OBVIOUS
<1> HIDE DEF x
<1>6. task' = [task EXCEPT !.thread = "sent", !.result = x]
  BY <1>1 DEF Sent, x
<1>7. TaskType'
  BY <1>2, <1>4, <1>6 DEF SidebarInv, SidebarTypes, TaskType, Threads, x
<1>8. task'.thread = "sent" /\ task'.poll = task.poll /\ task'.result = x
  BY <1>6 DEF SidebarInv, SidebarTypes, TaskType
<1>9. ResultOK'
  BY <1>1, <1>2, <1>3, <1>4, <1>5, <1>8 DEF SidebarInv, SidebarTypes, MuxTypes, ResultOK, x
<1> QED  BY <1>2, <1>3, <1>7, <1>9, TaskOnlyIInv

(* What the result of a refresh makes of the sidebar.                      *)
LEMMA FinishEffect ==
    ASSUME SidebarInv, Finish
    PROVE  /\ UNCHANGED <<alive, agent, notes, spent>> /\ screen'.invalid
           /\ TaskType' /\ ResultOK'
           /\ task.result \in Results
           /\ side' \in Sides /\ side'.facts = task.result.facts
           /\ side'.known = (side.known \cup {p \in Panes : task.result.facts[p] = "agent"})
                               \ Departed(task.result.facts)
           /\ side'.cards = side.cards
           /\ \/ side'.stale
              \/ side'.stale = side.stale /\ status' = status /\ side'.facts = side.facts
<1> DEFINE facts == task.result.facts
           gone  == {p \in Departed(facts) : status[p] # "none"}
           seen  == FactsApplied(side, facts)
           told  == IF gone = {} THEN seen ELSE OutOfDate(seen)
           known == (side.known \cup {p \in Panes : facts[p] = "agent"}) \ Departed(facts)
<1>1. /\ UNCHANGED <<alive, agent, notes, spent>>
      /\ task.poll = "ok" /\ task' = NoTask
      /\ screen' = [screen EXCEPT !.invalid = TRUE]
      /\ side' = [told EXCEPT !.known = (told.known \cup {p \in Panes : facts[p] = "agent"}) \ Departed(facts),
                              !.in_flight = FALSE]
      /\ status' = [p \in Panes |-> IF p \in gone THEN "none" ELSE status[p]]
  BY DEF Finish, Invalidated
<1>2. task.result \in Results /\ facts \in [Panes -> Facts]
  BY <1>1 DEF SidebarInv, ResultOK, Results
<1>3. side \in Sides /\ status \in [Panes -> Statuses]
  BY DEF SidebarInv, SidebarTypes, SideType, MuxTypes
<1> HIDE DEF facts
<1>4. /\ seen \in Sides /\ seen.facts = facts /\ seen.known = side.known /\ seen.cards = side.cards
      /\ seen.stale \/ (seen.stale = side.stale /\ facts = side.facts)
  BY <1>2, <1>3 DEF FactsApplied, OutOfDate, Sides
<1> HIDE DEF seen
<1>5. /\ told \in Sides /\ told.facts = facts /\ told.known = side.known /\ told.cards = side.cards
      /\ told.stale \/ (told.stale = side.stale /\ facts = side.facts /\ gone = {})
  BY <1>4 DEF OutOfDate, Sides
<1> HIDE DEF told
<1>6. known \in SUBSET Panes
  BY <1>3 DEF Sides
<1>7. /\ side' \in Sides /\ side'.facts = facts /\ side'.known = known
      /\ side'.cards = side.cards /\ side'.stale = told.stale
  <2>1. side' = [told EXCEPT !.known = known, !.in_flight = FALSE]
    BY <1>1, <1>5
  <2> HIDE DEF known
  <2> QED  BY <1>5, <1>6, <2>1 DEF Sides
<1>8. gone = {} => status' = status
  BY <1>1, <1>3
<1>9. TaskType' /\ ResultOK' /\ screen'.invalid
  BY <1>1 DEF SidebarInv, SidebarTypes, TaskType, ResultOK, NoTask, Threads, Polls, LeaderMaps
<1> QED  BY <1>1, <1>2, <1>5, <1>7, <1>8, <1>9 DEF facts

LEMMA FinishIInv == ASSUME SidebarInv, Finish PROVE SidebarInv'
<1> DEFINE facts == task.result.facts
<1>1. /\ UNCHANGED <<alive, agent, notes, spent>> /\ screen'.invalid
      /\ TaskType' /\ ResultOK'
      /\ task.result \in Results
      /\ side' \in Sides /\ side'.facts = facts
      /\ side'.known = (side.known \cup {p \in Panes : facts[p] = "agent"}) \ Departed(facts)
      /\ side'.cards = side.cards
      /\ \/ side'.stale
         \/ side'.stale = side.stale /\ status' = status /\ side'.facts = side.facts
  BY FinishEffect
<1>2. status' \in [Panes -> Statuses]
  BY DEF Finish, Statuses, SidebarInv, SidebarTypes, MuxTypes
<1>3. SidebarTypes'
  BY <1>1, <1>2 DEF SidebarInv, SidebarTypes, MuxTypes, SideType
<1>4. KnownOK'
  BY <1>1 DEF SidebarInv, SidebarTypes, MuxTypes, KnownOK, Departed
<1>5. ASSUME ~side'.stale PROVE Built(side)' = Built(side) /\ ~side.stale
  <2>1. status' = status /\ side'.facts = side.facts /\ ~side.stale
    BY <1>1, <1>5
  <2>2. \A p \in alive : p \in side'.known <=> p \in side.known
    BY <1>1, <2>1 DEF SidebarInv, SidebarTypes, MuxTypes, KnownOK, Departed
  <2> QED  BY <1>1, <2>1, <2>2, BuiltSame
<1>6. CardsOK'
  BY <1>1, <1>5 DEF SidebarInv, CardsOK
<1> QED  BY <1>1, <1>3, <1>4, <1>6 DEF SidebarInv

LEMMA FinishErrorIInv == ASSUME SidebarInv, FinishError PROVE SidebarInv'
<1>1. /\ UNCHANGED <<alive, agent, status, notes, screen, spent>>
      /\ side' = [side EXCEPT !.in_flight = FALSE]
      /\ task' = NoTask
  BY DEF FinishError, RefreshFailed, mux
<1>2. /\ SideType' /\ side'.visible = side.visible
      /\ side'.facts = side.facts /\ side'.known = side.known
      /\ side'.cards = side.cards /\ side'.stale = side.stale
  BY <1>1 DEF SidebarInv, SidebarTypes, SideType, Sides
<1>3. TaskType' /\ ResultOK'
  BY <1>1 DEF SidebarInv, SidebarTypes, TaskType, ResultOK, NoTask, Threads, Polls, LeaderMaps
<1> QED  BY <1>1, <1>2, <1>3, SideOnlyIInv DEF SidebarInv, SidebarTypes, MuxTypes, CardsOK
-----------------------------------------------------------------------------
LEMMA SidebarNextInv == SidebarInv /\ [SidebarNext]_sidebarVars => SidebarInv'
<1> SUFFICES ASSUME SidebarInv, [SidebarNext]_sidebarVars PROVE SidebarInv'
  OBVIOUS
<1>1. ASSUME NEW p \in Panes,
             AgentStarts(p) \/ AgentExits(p) \/ PaneGoes(p)
             \/ AgentReports(p, "idle") \/ AgentReports(p, "working")
      PROVE  SidebarInv'
  BY <1>1, AgentStartsIInv, AgentExitsIInv, PaneGoesIInv, AgentReportsIInv
<1>2. CASE UNCHANGED sidebarVars
  <2>1. UNCHANGED <<alive, agent, status, notes, side, screen, task, spent>>
    BY <1>2 DEF sidebarVars
  <2> QED  BY <2>1, TaskOnlyIInv, ResultKept DEF SidebarInv, SidebarTypes, MuxTypes, TaskType
<1>3. CASE Handle \/ Tick \/ PaintSidebar \/ PaneOutput \/ ToggleSidebar \/ ToggleFocus
  BY <1>3, HandleIInv, TickIInv, PaintSidebarIInv, PaneOutputIInv, ToggleSidebarIInv, ToggleFocusIInv
<1>4. CASE Collect \/ Panic \/ Wake \/ PollRefresh \/ Finish \/ FinishError
  BY <1>4, CollectIInv, PanicIInv, WakeIInv, PollRefreshIInv, FinishIInv, FinishErrorIInv
<1> QED  BY <1>1, <1>2, <1>3, <1>4 DEF SidebarNext, Land

(* Between two steps the cards, the facts, the agents known and the refresh*)
(* under way agree as far as SidebarInv says.                              *)
THEOREM SidebarInvariant == SidebarSpec => []SidebarInv
  BY SidebarInitInv, SidebarNextInv, PTL DEF SidebarSpec

(* A window that is shown, is not to be painted and has nothing to hear    *)
(* shows the cards a rebuild would give (sidebar_entries).                 *)
THEOREM CardsStayCurrent == SidebarSpec => []CardsAreCurrent
<1>1. SidebarInv => CardsAreCurrent
  BY DEF SidebarInv, CardsOK, CardsAreCurrent
<1> QED  BY <1>1, SidebarInvariant, PTL

(* reap_departed_agents, and the removal of a pane, take away no status of *)
(* an agent that was there when the thread looked at its processes.        *)
THEOREM ReapingIsSafe == SidebarSpec => ReapsOnlyDeparted
<1> DEFINE Reap == \A p \in alive' : status[p] # "none" /\ status'[p] = "none"
                        => agent[p] = 0 \/ agent[p] > task.result.agents
<1>1. SidebarInv /\ [SidebarNext]_sidebarVars => [Reap]_sidebarVars
  <2> SUFFICES ASSUME SidebarInv, SidebarNext, NEW p \in alive', status[p] # "none", status'[p] = "none"
               PROVE  agent[p] = 0 \/ agent[p] > task.result.agents
    OBVIOUS
  <2>1. CASE UNCHANGED status
    BY <2>1
  <2>2. CASE Finish
    <3>1. p \in alive /\ p \in Departed(task.result.facts)
      BY <2>2 DEF Finish, SidebarInv, SidebarTypes, MuxTypes
    <3> QED  BY <2>2, <3>1 DEF Finish, Departed, SidebarInv, ResultOK
  <2>3. ASSUME NEW q \in Panes, PaneGoes(q) PROVE FALSE
    BY <2>3 DEF PaneGoes, SidebarInv, SidebarTypes, MuxTypes
  <2>4. ASSUME NEW q \in Panes, NEW s \in {"idle", "working"}, AgentReports(q, s) PROVE FALSE
    BY <2>4 DEF AgentReports, SidebarInv, SidebarTypes, MuxTypes
  <2>5. CASE Handle \/ Tick \/ PaintSidebar \/ PaneOutput \/ ToggleSidebar \/ ToggleFocus
    BY <2>1, <2>5 DEF Handle, Tick, PaintSidebar, PaneOutput, ToggleSidebar, ToggleFocus, mux
  <2>6. CASE Collect \/ Panic \/ Wake \/ PollRefresh \/ FinishError
    BY <2>1, <2>6 DEF Collect, Panic, Wake, PollRefresh, FinishError, mux
  <2>7. ASSUME NEW q \in Panes, AgentStarts(q) \/ AgentExits(q) PROVE UNCHANGED status
    BY <2>7 DEF AgentStarts, AgentExits
  <2> QED  BY <2>1, <2>2, <2>3, <2>4, <2>5, <2>6, <2>7 DEF SidebarNext, Land
<1>2. SidebarSpec => [][SidebarNext]_sidebarVars
  BY PTL DEF SidebarSpec
<1>3. [][Reap]_sidebarVars => ReapsOnlyDeparted
  BY PTL DEF ReapsOnlyDeparted
<1> HIDE DEF Reap
<1> QED  BY <1>1, <1>2, <1>3, SidebarInvariant, PTL
-----------------------------------------------------------------------------
(* A server's pane as a client shows it.                                   *)

MainRows == Cardinality(DOMAIN term.main)
MainTop == MainRows - Height

(* The row as the program last left it: of the screen that is active, or,  *)
(* beyond the alternate one, of the primary screen behind it.              *)
Cur(r) == IF term.alt /\ r < Height THEN term.other[r] ELSE term.main[r]

Steps == {"idle", "cursor", "seqno", "dirty", "lines", "send"}
LineMaps == UNION {[S -> Lines] : S \in SUBSET Rows}
Deltas == [kind : {"changes"}, top : 0 .. MaxTop, cursor : Rows, seqno : Nat,
           dirty : SUBSET Rows, bonus : LineMaps]
Asks == [kind : {"lines"}, rows : SUBSET Rows, at : Nat \ {0}]
Turns == [kind : {"push", "poll"}]
Texts == 0 .. MaxOutputs + 1
Entries == [kind : {"none", "line", "fetching", "both", "stale"},
            text : Texts, seq : Nat, at : Nat]
Mains == UNION {[0 .. t + Height - 1 -> Lines] : t \in 0 .. MaxTop}

TermType ==
    /\ term \in [main : Mains, other : [0 .. Height - 1 -> Lines], alt : BOOLEAN,
                 cursor : 0 .. Height - 1, saved : 0 .. Height - 1, seqno : 1 .. MaxOutputs + 1]
    /\ MainTop \in 0 .. MaxTop /\ term.main \in [0 .. MainTop + Height - 1 -> Lines]

SentType == [seqno : Nat, top : 0 .. MaxTop, cursor : Rows, palette : BOOLEAN]

Readings ==
    [step : Steps, top : 0 .. MaxTop, alt : BOOLEAN, cursor : Rows, seqno : Nat,
     dirty : SUBSET Rows, bonus : LineMaps]

ServerType ==
    /\ per \in SentType
    /\ tasks \in Seq(Turns \cup Asks)
    /\ reading \in Readings

Answers == [ok : BOOLEAN, rows : SUBSET Rows, at : Nat \ {0}, lines : LineMaps]

WireType ==
    /\ pushes \in Seq(Deltas \cup {Palette})
    /\ replies \subseteq Answers /\ IsFiniteSet(replies)
    /\ hydrating = <<>> \/ \E d \in Deltas : hydrating = <<d>>

ClientType ==
    /\ pane \in [cache : [Rows -> Entries], top : 0 .. MaxTop, cursor : Rows, seqno : Nat,
                 view : -1 .. MaxTop - 1]
    /\ \A r \in Rows : pane.cache[r].at # 0 <=> pane.cache[r].kind \in {"fetching", "both"}
    /\ past \in [overtaken : BOOLEAN, unsaid : SUBSET Rows, astray : SUBSET Rows, events : Nat]

Types == TermType /\ ServerType /\ WireType /\ ClientType

(* The main thread's turn, and the numbers read in it.                     *)
TurnOK ==
    /\ reading.step # "idle" => AtWork
    /\ per.seqno <= term.seqno
    /\ reading.step \in {"dirty", "lines", "send"} =>
         per.seqno <= reading.seqno /\ reading.seqno <= term.seqno /\ 1 <= reading.seqno
    /\ reading.step # "idle" =>
         reading.top + Height <= MainRows /\ (reading.alt => reading.top = 0)
    /\ reading.step = "lines" /\ per.seqno = 0 => reading.dirty # {}
    /\ DOMAIN reading.bonus \subseteq DOMAIN term.main
    /\ reading.step # "send" => reading.bonus = <<>>

(* Rows behind the alternate screen have been said, or count as unsaid.    *)
HiddenOK ==
    term.alt => \A r \in DOMAIN term.main \ past.unsaid : r >= Height => Cur(r).seq <= per.seqno

(* Every row that waits for a download is in a request or its answer.      *)
Awaited(r, at) ==
    \/ \E i \in DOMAIN tasks : tasks[i].kind = "lines" /\ tasks[i].at = at /\ r \in tasks[i].rows
    \/ \E reply \in replies :
          reply.at = at /\ r \in reply.rows /\ (reply.ok => r \in DOMAIN reply.lines)

AwaitOK ==
    \A r \in Rows \ past.astray : pane.cache[r].at # 0 => Awaited(r, pane.cache[r].at)

(* The server has told, or is about to tell, that the row is not what it   *)
(* was: what the reading under way makes of it.                            *)
Pending(r) ==
    CASE reading.step \in {"idle", "cursor", "seqno"} -> Cur(r).seq > per.seqno
      [] reading.step = "dirty" ->
           Cur(r).seq > per.seqno /\ (r < reading.top + Height \/ Cur(r).seq > reading.seqno)
      [] reading.step = "lines" -> Cur(r).seq > reading.seqno \/ r \in reading.dirty
      [] reading.step = "send" -> \/ Cur(r).seq > reading.seqno \/ r \in reading.dirty
                                  \/ r \in DOMAIN reading.bonus

Cleared(r, text) == r \in past.unsaid \/ text = Cur(r).text \/ Pending(r)

BonusOK ==
    \A r \in DOMAIN reading.bonus :
        r \in past.unsaid \/ reading.bonus[r].text = Cur(r).text \/ Cur(r).seq > reading.seqno

Mentions(d, r) == d.kind = "changes" /\ r \in d.dirty \cup DOMAIN d.bonus

(* Rows that the server had not made when its turn began.                  *)
Made == IF reading.step # "idle" /\ ~reading.alt THEN reading.top + Height ELSE MainRows

UnmadeOK ==
    \A r \in Rows : r >= Made =>
        /\ pane.cache[r].kind \in {"none", "fetching"}
        /\ \A reply \in replies : r \notin DOMAIN reply.lines
        /\ \A i \in DOMAIN pushes : pushes[i].kind = "changes" => r \notin DOMAIN pushes[i].bonus
        /\ hydrating # <<>> => r \notin DOMAIN hydrating[1].bonus

(* The text that the client shows for a row, or will when an answer that   *)
(* is on its way is applied.                                               *)
Held(r, text) ==
    \/ pane.cache[r].kind = "line" /\ pane.cache[r].text = text
    \/ \E reply \in replies :
          /\ reply.at = pane.cache[r].at
          /\ IF reply.ok THEN r \in DOMAIN reply.lines /\ reply.lines[r].text = text
             ELSE r \in reply.rows /\ pane.cache[r].kind = "both" /\ pane.cache[r].text = text

Pushed(r) == \E i \in DOMAIN pushes : Mentions(pushes[i], r)

HeldOK ==
    \A r \in DOMAIN term.main : \A text \in Texts :
        Held(r, text) => \/ Cleared(r, text) \/ Pushed(r)
                         \/ hydrating # <<>> /\ Mentions(hydrating[1], r)

(* The text that a push brings for a row. *)
Bears(d, r, text) == d.kind = "changes" /\ r \in DOMAIN d.bonus /\ d.bonus[r].text = text

HydratingOK ==
    hydrating # <<>> =>
        \A r \in Rows : \A text \in Texts :
            Bears(hydrating[1], r, text) => Cleared(r, text) \/ Pushed(r)

PushesOK ==
    \A i \in DOMAIN pushes : \A r \in Rows : \A text \in Texts :
        Bears(pushes[i], r, text) => \/ Cleared(r, text)
                                    \/ \E j \in DOMAIN pushes : j > i /\ Mentions(pushes[j], r)

(* The last change that was sent, or the client has.                       *)
Newest(i) ==
    pushes[i].kind = "changes" /\ \A j \in DOMAIN pushes : j > i => pushes[j].kind # "changes"

NoChanges == \A i \in DOMAIN pushes : pushes[i].kind # "changes"

TopTold(top) ==
    /\ \A i \in DOMAIN pushes : Newest(i) => pushes[i].top = top
    /\ NoChanges => (IF hydrating = <<>> THEN pane.top ELSE hydrating[1].top) = top

SeqnoTold(seqno) ==
    /\ \A i \in DOMAIN pushes : Newest(i) => pushes[i].seqno = seqno
    /\ NoChanges => (IF hydrating = <<>> THEN pane.seqno ELSE hydrating[1].seqno) = seqno

TopOK == per.seqno # 0 => TopTold(per.top)

(* A turn to come sees a top that the last one did not.                    *)
TurnTo(i) == tasks[i].kind \in {"push", "poll"}

MovedOK ==
    /\ reading.step = "idle" /\ per.seqno # 0 =>
         per.top = Top \/ \E i \in DOMAIN tasks : TurnTo(i)
    /\ reading.step # "idle" =>
         reading.top = Top \/ \E i \in DOMAIN tasks : i > 1 /\ TurnTo(i)

(* What shows that there is something that the client has not been told.   *)
Evidence ==
    \/ past.unsaid # {} \/ per.seqno = 0 \/ per.top # Top
    \/ reading.step \in {"dirty", "lines", "send"} /\ reading.top # Top
    \/ \E r \in DOMAIN Screen : Pending(r)

SeqnoOK == SeqnoTold(term.seqno) \/ Evidence

SinceOK ==
    reading.step \in {"dirty", "lines", "send"} /\ reading.seqno < term.seqno =>
        \/ past.unsaid # {} \/ reading.top # Top
        \/ \E r \in DOMAIN Screen : Cur(r).seq > reading.seqno

(* No line is newer than the terminal. *)
SeqBound ==
    /\ \A r \in DOMAIN term.main : term.main[r].seq <= term.seqno
    /\ \A r \in DOMAIN term.other : term.other[r].seq <= term.seqno

InOrder == HeldOK /\ HydratingOK /\ PushesOK /\ TopOK /\ SeqnoOK

Base ==
    /\ Types /\ SeqBound /\ TurnOK /\ HiddenOK /\ AwaitOK /\ BonusOK /\ UnmadeOK
    /\ MovedOK /\ SinceOK

IInv == Base /\ (~past.overtaken => InOrder)
-----------------------------------------------------------------------------
LEMMA Sizes ==
    /\ Height \in Nat /\ Height >= 1 /\ MaxTop \in Nat /\ FirstTop \in 0 .. MaxTop
    /\ MaxOutputs \in Nat /\ MaxEvents \in Nat /\ MaxRequests \in Nat /\ MaxPushes \in Nat
    /\ \A r : r \in Rows <=> r \in Nat /\ r < MaxTop + Height
    /\ IsFiniteSet(Rows) /\ 0 \in Rows
<1>1. IsFiniteSet(0 .. MaxTop + Height - 1)
  BY RemoteAssumption, FS_Interval
<1> QED  BY <1>1, RemoteAssumption DEF Rows

(* A set of numbers that has some has a least. *)
LEMMA LeastOf ==
    ASSUME NEW S \in SUBSET Nat, S # {}
    PROVE  Min(S) \in S
<1> DEFINE R == OpToRel(<, Nat)
<1>1. \A x, y \in Nat : x < y => <<x, y>> \in R
  BY DEF OpToRel
<1>2. IsWellFoundedOn(R, Nat)
  BY NatLessThanWellFounded
<1> HIDE DEF R
<1>3. PICK m \in S : \A y \in S : <<y, m>> \notin R
  BY <1>2, WFMin
<1>4. m \in Nat /\ \A k \in S : k \in Nat /\ ~(k < m)
  BY <1>1, <1>3
<1>5. \A k \in S : m <= k
  BY <1>4
<1> QED  BY <1>5 DEF Min

(* What a function makes of a finite set is no larger than the set. *)
LEMMA ImageOf ==
    ASSUME NEW S, IsFiniteSet(S), NEW f, DOMAIN f = S, f = [x \in S |-> f[x]]
    PROVE  IsFiniteSet({f[x] : x \in S}) /\ Cardinality({f[x] : x \in S}) <= Cardinality(S)
<1> DEFINE T == {f[x] : x \in S}
<1>1. f \in Surjection(S, T)
  BY DEF Surjection
<1> QED  BY <1>1, FS_Surjection

LEMMA UnionOf ==
    ASSUME NEW S, NEW T, NEW m \in Nat, NEW n \in Nat,
           IsFiniteSet(S), IsFiniteSet(T), Cardinality(S) <= m, Cardinality(T) <= n
    PROVE  IsFiniteSet(S \cup T) /\ Cardinality(S \cup T) <= m + n
<1>1. /\ IsFiniteSet(S \cup T)
      /\ Cardinality(S \cup T) = Cardinality(S) + Cardinality(T) - Cardinality(S \cap T)
  BY FS_Union
<1>2. IsFiniteSet(S \cap T)
  BY FS_Subset
<1>3. Cardinality(S) \in Nat /\ Cardinality(T) \in Nat /\ Cardinality(S \cap T) \in Nat
  BY <1>2, FS_CardinalityType
<1> QED  BY <1>1, <1>3

(* A number that a request takes is not taken. *)
LEMMA NowIsFree ==
    ASSUME Types
    PROVE  /\ Now \in Nat \ {0}
           /\ \A r \in Rows : pane.cache[r].at # Now
           /\ \A i \in DOMAIN tasks : tasks[i].kind = "lines" => tasks[i].at # Now
           /\ \A reply \in replies : reply.at # Now
<1> DEFINE taken == {pane.cache[r].at : r \in Rows}
           asked == {tasks[i].at : i \in DOMAIN tasks}
           told  == {reply.at : reply \in replies}
           used  == (taken \cup asked) \cup told
           n     == Cardinality(Rows) + Len(tasks) + Cardinality(replies) + 1
           free  == {k \in 1 .. n :
                       /\ \A r \in Rows : pane.cache[r].at # k
                       /\ \A i \in DOMAIN tasks : tasks[i].kind = "lines" => tasks[i].at # k
                       /\ \A reply \in replies : reply.at # k}
<1>1. IsFiniteSet(taken) /\ Cardinality(taken) <= Cardinality(Rows)
  <2> DEFINE f == [r \in Rows |-> pane.cache[r].at]
  <2>1. DOMAIN f = Rows /\ f = [r \in Rows |-> f[r]] /\ taken = {f[r] : r \in Rows}
    OBVIOUS
  <2> HIDE DEF f, taken
  <2> QED  BY <2>1, Sizes, ImageOf
<1>2. IsFiniteSet(asked) /\ Cardinality(asked) <= Len(tasks) /\ Len(tasks) \in Nat
  <2> DEFINE f == [i \in DOMAIN tasks |-> tasks[i].at]
  <2>1. DOMAIN tasks = 1 .. Len(tasks) /\ Len(tasks) \in Nat
    BY DEF Types, ServerType
  <2>2. IsFiniteSet(DOMAIN tasks) /\ Cardinality(DOMAIN tasks) = Len(tasks)
    <3> DEFINE m == Len(tasks)
    <3>1. IsFiniteSet(1 .. m) /\ Cardinality(1 .. m) = IF 1 > m THEN 0 ELSE m - 1 + 1
      BY <2>1, FS_Interval
    <3> QED  BY <2>1, <3>1
  <2>3. DOMAIN f = DOMAIN tasks /\ f = [i \in DOMAIN tasks |-> f[i]] /\ asked = {f[i] : i \in DOMAIN tasks}
    OBVIOUS
  <2> HIDE DEF f, asked
  <2> QED  BY <2>1, <2>2, <2>3, ImageOf
<1>3. IsFiniteSet(told) /\ Cardinality(told) <= Cardinality(replies)
  <2> DEFINE f == [reply \in replies |-> reply.at]
  <2>1. DOMAIN f = replies /\ f = [reply \in replies |-> f[reply]] /\ told = {f[reply] : reply \in replies}
    OBVIOUS
  <2>2. IsFiniteSet(replies)
    BY DEF Types, WireType
  <2> HIDE DEF f, told
  <2> QED  BY <2>1, <2>2, ImageOf
<1>4. Cardinality(Rows) \in Nat /\ Cardinality(replies) \in Nat
  BY Sizes, FS_CardinalityType DEF Types, WireType
<1> HIDE DEF taken, asked, told
<1>5. IsFiniteSet(used) /\ Cardinality(used) <= Cardinality(Rows) + Len(tasks) + Cardinality(replies)
  <2>1. /\ IsFiniteSet(taken \cup asked)
        /\ Cardinality(taken \cup asked) <= Cardinality(Rows) + Len(tasks)
    BY <1>1, <1>2, <1>4, UnionOf
  <2>2. Cardinality(Rows) + Len(tasks) \in Nat
    BY <1>2, <1>4
  <2> QED  BY <1>3, <1>4, <2>1, <2>2, UnionOf
<1>6. PICK k \in 1 .. n : k \notin used
  <2> SUFFICES ASSUME 1 .. n \subseteq used PROVE FALSE
    OBVIOUS
  <2>1. n \in Nat /\ n >= 1
    BY <1>2, <1>4
  <2>2. IsFiniteSet(1 .. n) /\ Cardinality(1 .. n) = n
    BY <2>1, FS_Interval
  <2>3. Cardinality(1 .. n) <= Cardinality(used)
    BY <1>5, FS_Subset
  <2>4. Cardinality(used) \in Nat
    BY <1>5, FS_CardinalityType
  <2> QED  BY <1>2, <1>4, <1>5, <2>1, <2>2, <2>3, <2>4
<1>7. k \in free
  BY <1>6 DEF taken, asked, told
<1>8. free \in SUBSET Nat /\ \A x \in free : x # 0
  OBVIOUS
<1>9. Now = Min(free)
  BY DEF Now
<1>10. Min(free) \in free
  <2> HIDE DEF free
  <2> QED  BY <1>7, <1>8, LeastOf
<1> QED  BY <1>8, <1>9, <1>10
-----------------------------------------------------------------------------
(* The terminal. *)
LEMMA Shape ==
    ASSUME TermType
    PROVE  /\ MainTop \in 0 .. MaxTop /\ MainRows = MainTop + Height
           /\ DOMAIN term.main = 0 .. MainTop + Height - 1
           /\ DOMAIN term.other = 0 .. Height - 1
           /\ Top = (IF term.alt THEN 0 ELSE MainTop) /\ Top \in 0 .. MaxTop
           /\ DOMAIN Screen = 0 .. Top + Height - 1
           /\ Cardinality(DOMAIN Screen) = Top + Height
           /\ term.alt \in BOOLEAN
<1>1. /\ MainTop \in 0 .. MaxTop /\ DOMAIN term.main = 0 .. MainTop + Height - 1
      /\ DOMAIN term.other = 0 .. Height - 1 /\ term.alt \in BOOLEAN
  BY DEF TermType
<1>2. MainRows = MainTop + Height
  <2>1. IsFiniteSet(DOMAIN term.main)
    BY <1>1, Sizes, FS_Interval
  <2>2. MainRows \in Nat
    BY <2>1, FS_CardinalityType DEF MainRows
  <2> QED  BY <1>1, <2>2, Sizes DEF MainTop
<1>3. Cardinality(0 .. Height - 1) = Height
  <2>1. Cardinality(0 .. Height - 1) = IF 0 > Height - 1 THEN 0 ELSE Height - 1 - 0 + 1
    BY Sizes, FS_Interval
  <2> QED  BY <2>1, Sizes
<1>4. CASE term.alt
  <2>1. Screen = term.other
    BY <1>4 DEF Screen
  <2>2. Top = 0
    BY <1>1, <1>3, <2>1, Sizes DEF Top
  <2> QED  BY <1>1, <1>2, <1>3, <1>4, <2>1, <2>2, Sizes
<1>5. CASE ~term.alt
  <2>1. Screen = term.main
    BY <1>5 DEF Screen
  <2>2. Top = MainTop
    BY <2>1 DEF Top, MainTop, MainRows
  <2>3. Cardinality(DOMAIN Screen) = MainRows
    BY <2>1 DEF MainRows
  <2> QED  BY <1>1, <1>2, <1>5, <2>1, <2>2, <2>3, Sizes
<1> QED  BY <1>4, <1>5

(* The rows that are shown are rows of the pane, each as it was written.   *)
LEMMA ShownRows ==
    ASSUME TermType
    PROVE  /\ DOMAIN Screen \subseteq DOMAIN term.main /\ DOMAIN term.main \subseteq Rows
           /\ \A r \in DOMAIN Screen : Screen[r] = Cur(r)
           /\ \A r \in DOMAIN term.main : Cur(r) \in Lines
           /\ \A r \in DOMAIN term.main : r \notin DOMAIN Screen => term.alt /\ r >= Height
           /\ Cursor \in DOMAIN Screen /\ 0 \in DOMAIN Screen
<1>1. /\ MainTop \in 0 .. MaxTop /\ DOMAIN term.main = 0 .. MainTop + Height - 1
      /\ DOMAIN term.other = 0 .. Height - 1
      /\ Top = (IF term.alt THEN 0 ELSE MainTop) /\ Top \in 0 .. MaxTop
      /\ DOMAIN Screen = 0 .. Top + Height - 1
  BY Shape
<1>2. DOMAIN Screen \subseteq DOMAIN term.main /\ DOMAIN term.main \subseteq Rows
  BY <1>1, Sizes
<1>3. term.main \in [0 .. MainTop + Height - 1 -> Lines] /\ term.other \in [0 .. Height - 1 -> Lines]
      /\ term.cursor \in 0 .. Height - 1
  BY DEF TermType
<1>4. ASSUME NEW r \in DOMAIN Screen PROVE Screen[r] = Cur(r)
  BY <1>1, Sizes DEF Screen, Cur
<1>5. ASSUME NEW r \in DOMAIN term.main PROVE Cur(r) \in Lines
  BY <1>1, <1>3, Sizes DEF Cur
<1>6. Cursor \in DOMAIN Screen /\ 0 \in DOMAIN Screen
  BY <1>1, <1>3, Sizes DEF Cursor
<1> QED  BY <1>1, <1>2, <1>4, <1>5, <1>6, Sizes

Shapes ==
    /\ MainTop \in 0 .. MaxTop /\ MainRows = MainTop + Height
    /\ DOMAIN term.main = 0 .. MainTop + Height - 1
    /\ DOMAIN term.other = 0 .. Height - 1
    /\ Top = (IF term.alt THEN 0 ELSE MainTop) /\ Top \in 0 .. MaxTop
    /\ DOMAIN Screen = 0 .. Top + Height - 1
    /\ term.alt \in BOOLEAN
    /\ DOMAIN Screen \subseteq DOMAIN term.main /\ DOMAIN term.main \subseteq Rows
    /\ \A r \in DOMAIN Screen : Screen[r] = Cur(r)
    /\ \A r \in DOMAIN term.main : Cur(r) \in Lines
    /\ \A r \in DOMAIN term.main : r \notin DOMAIN Screen => term.alt /\ r >= Height
    /\ Cursor \in DOMAIN Screen /\ 0 \in DOMAIN Screen

LEMMA ShapesHold == TermType => Shapes
  BY Shape, ShownRows DEF Shapes

LEMMA ShapesNext == TermType' => Shapes'
  BY ShapesHold, PTL

(* What is read of a range of rows is there, and all of it that is there.  *)
LEMMA RangeIs ==
    ASSUME TermType, NEW first \in Nat, NEW last \in Nat
    PROVE  /\ StableRange(first, last) \subseteq DOMAIN Screen
           /\ first \in DOMAIN Screen => first \in StableRange(first, last) \/ last < first
           /\ first = 0 => \A r \in DOMAIN Screen : r <= last => r \in StableRange(first, last)
<1> DEFINE n == Top + Height
<1>1. DOMAIN Screen = 0 .. n - 1 /\ Cardinality(DOMAIN Screen) = n /\ n \in Nat
  BY Shape, Sizes
<1> HIDE DEF n
<1>2. StableRange(first, last) =
        CASE first \notin 0 .. n - 1 -> {r \in 0 .. n - 1 : r < last - first + 1}
          [] first \in 0 .. n - 1 /\ last \notin 0 .. n - 1 ->
               {r \in 0 .. n - 1 : r >= n - 1 - (last - first + 1)}
          [] OTHER -> first .. last
  BY <1>1 DEF StableRange
<1>3. CASE first \notin 0 .. n - 1
  BY <1>1, <1>2, <1>3
<1>4. CASE first \in 0 .. n - 1 /\ last \notin 0 .. n - 1
  <2>1. StableRange(first, last) = {r \in 0 .. n - 1 : r >= n - 1 - (last - first + 1)}
    BY <1>2, <1>4
  <2> QED  BY <1>1, <1>4, <2>1
<1>5. CASE first \in 0 .. n - 1 /\ last \in 0 .. n - 1
  <2>1. StableRange(first, last) = first .. last
    BY <1>2, <1>5
  <2> QED  BY <1>1, <1>5, <2>1
<1> QED  BY <1>3, <1>4, <1>5

(* The row read for the cursor is one row that is there.                   *)
LEMMA CursorRow ==
    ASSUME TermType, NEW c \in Rows
    PROVE  LET row == Min(DOMAIN GetLines(c, c))
           IN row \in DOMAIN GetLines(c, c) /\ row \in DOMAIN Screen
<1> DEFINE S == StableRange(c, c)
<1>1. c \in Nat /\ S \subseteq DOMAIN Screen /\ (c \in DOMAIN Screen => c \in S)
  BY RangeIs, Sizes
<1>2. S # {}
  <2>1. DOMAIN Screen = 0 .. Top + Height - 1 /\ Top \in Nat
    BY Shape, Sizes
  <2>2. CASE c \in DOMAIN Screen
    BY <1>1, <2>2
  <2>3. CASE c \notin DOMAIN Screen
    <3>1. S = {r \in DOMAIN Screen : r < c - c + 1}
      BY <2>3 DEF StableRange
    <3>2. 0 \in S
      BY <1>1, <2>1, <3>1, Sizes
    <3> QED  BY <3>2
  <2> QED  BY <2>2, <2>3
<1>3. DOMAIN GetLines(c, c) = S
  BY DEF GetLines
<1>4. S \in SUBSET Nat
  BY <1>1, ShownRows, Sizes
<1> HIDE DEF S
<1> QED  BY <1>1, <1>2, <1>3, <1>4, LeastOf
-----------------------------------------------------------------------------
(* What a batch of output does, whatever the program does.                 *)
ProgramDoes ==
    /\ TermType' /\ SeqBound' /\ HiddenOK'
    /\ term'.seqno = term.seqno + 1
    /\ DOMAIN term.main \subseteq DOMAIN term'.main
    /\ past' \in [overtaken : {past.overtaken}, unsaid : SUBSET Rows,
                  astray : {past.astray}, events : {past.events}]
    /\ \A r \in DOMAIN term.main :
          \/ Cur(r)' = Cur(r) /\ (r \in past.unsaid => r \in past'.unsaid)
          \/ Cur(r)'.seq = term.seqno + 1
          \/ r \in past'.unsaid
    /\ past'.unsaid # {} \/ \E r \in DOMAIN Screen' : Cur(r)'.seq = term.seqno + 1
    /\ tasks' = Append(tasks, [kind |-> "push"])
    /\ UNCHANGED <<per, reading, pushes, replies, hydrating, pane>>

LEMMA PastIs ==
    ASSUME ClientType, NEW f, f \in SUBSET Rows
    PROVE  [past EXCEPT !.unsaid = f] \in [overtaken : {past.overtaken}, unsaid : SUBSET Rows,
                  astray : {past.astray}, events : {past.events}]
  BY DEF ClientType

LEMMA WrittenIs ==
    ASSUME TermType, term.seqno <= MaxOutputs
    PROVE  /\ Written \in Lines /\ Written.seq = term.seqno + 1
           /\ term.seqno \in Nat /\ term.seqno + 1 \in 1 .. MaxOutputs + 1
<1>1. term.seqno \in 1 .. MaxOutputs + 1
  BY DEF TermType
<1>2. term.seqno \in Nat /\ term.seqno + 1 \in 1 .. MaxOutputs + 1
  BY <1>1, Sizes
<1> QED  BY <1>2 DEF Written, Lines

LEMMA SeqIs ==
    ASSUME TermType, SeqBound
    PROVE  /\ term.seqno \in Nat
           /\ \A r \in DOMAIN term.main : term.main[r] \in Lines /\ term.main[r].seq \in Nat
                                          /\ term.main[r].seq <= term.seqno
           /\ \A r \in 0 .. Height - 1 : term.other[r] \in Lines /\ term.other[r].seq \in Nat
                                          /\ term.other[r].seq <= term.seqno
<1>1. \A l \in Lines : l.seq \in Nat
  BY Sizes DEF Lines
<1>2. /\ term.seqno \in 1 .. MaxOutputs + 1
      /\ term.main \in [0 .. MainTop + Height - 1 -> Lines]
      /\ term.other \in [0 .. Height - 1 -> Lines]
  BY DEF TermType
<1>3. term.seqno \in Nat
  BY <1>2, Sizes
<1>4. ASSUME NEW r \in DOMAIN term.main
      PROVE  term.main[r] \in Lines /\ term.main[r].seq \in Nat /\ term.main[r].seq <= term.seqno
  <2>1. term.main[r] \in Lines
    BY <1>2
  <2> QED  BY <1>1, <2>1 DEF SeqBound
<1>5. ASSUME NEW r \in 0 .. Height - 1
      PROVE  term.other[r] \in Lines /\ term.other[r].seq \in Nat /\ term.other[r].seq <= term.seqno
  <2>1. term.other[r] \in Lines /\ r \in DOMAIN term.other
    BY <1>2
  <2> QED  BY <1>1, <2>1 DEF SeqBound
<1> QED  BY <1>3, <1>4, <1>5

(* The parts of the terminal when the domains stay. *)
LEMMA TermKept ==
    ASSUME TermType, NEW m \in [DOMAIN term.main -> Lines], NEW o \in [0 .. Height - 1 -> Lines],
           NEW a \in BOOLEAN, NEW c \in 0 .. Height - 1, NEW s \in 0 .. Height - 1,
           term.seqno <= MaxOutputs,
           term' = [main |-> m, other |-> o, alt |-> a, cursor |-> c, saved |-> s,
                    seqno |-> term.seqno + 1]
    PROVE  TermType' /\ DOMAIN term'.main = DOMAIN term.main /\ MainTop' = MainTop
<1>1. term'.main = m /\ DOMAIN m = DOMAIN term.main
  OBVIOUS
<1>2. MainTop' = MainTop
  BY <1>1 DEF MainTop, MainRows
<1>3. m \in [0 .. MainTop + Height - 1 -> Lines] /\ MainTop \in 0 .. MaxTop
  BY Shape
<1>4. m \in Mains
  BY <1>3 DEF Mains
<1>5. term.seqno + 1 \in 1 .. MaxOutputs + 1
  BY WrittenIs
<1> QED  BY <1>1, <1>2, <1>3, <1>4, <1>5 DEF TermType

LEMMA WriteRowDoes ==
    ASSUME Types, SeqBound, HiddenOK, NEW row \in 0 .. Height - 1, WriteRow(row)
    PROVE  ProgramDoes
<1>k. PICK k : k = Top + row
  OBVIOUS
<1> DEFINE n == term.seqno + 1
           m == IF term.alt THEN term.main ELSE [term.main EXCEPT ![k] = Written]
           o == IF term.alt THEN [term.other EXCEPT ![row] = Written] ELSE term.other
<1>1. TermType /\ ClientType
  BY DEF Types
<1>2. /\ MainTop \in 0 .. MaxTop /\ DOMAIN term.main = 0 .. MainTop + Height - 1
      /\ DOMAIN term.other = 0 .. Height - 1
      /\ Top = (IF term.alt THEN 0 ELSE MainTop) /\ Top \in 0 .. MaxTop
      /\ DOMAIN Screen = 0 .. Top + Height - 1 /\ term.alt \in BOOLEAN
  BY <1>1, Shape
<1>3. /\ k \in DOMAIN term.main /\ k \in DOMAIN Screen
      /\ term.alt => k = row
  BY <1>k, <1>2, Sizes
<1>4. term.seqno <= MaxOutputs
  BY DEF WriteRow, Output
<1>5. Written \in Lines /\ Written.seq = n /\ term.seqno \in Nat
  BY <1>1, <1>4, WrittenIs
<1>6. term' = [main |-> m, other |-> o, alt |-> term.alt, cursor |-> row, saved |-> term.saved,
               seqno |-> n]
  <2>1. term \in [main : Mains, other : [0 .. Height - 1 -> Lines], alt : BOOLEAN,
                 cursor : 0 .. Height - 1, saved : 0 .. Height - 1, seqno : 1 .. MaxOutputs + 1]
    BY <1>1 DEF TermType
  <2>2. CASE term.alt
    <3>1. term' = [[term EXCEPT !.other[row] = Written, !.cursor = row] EXCEPT !.seqno = @ + 1]
      BY <2>2 DEF WriteRow, Output
    <3> QED  BY <2>1, <2>2, <3>1
  <2>3. CASE ~term.alt
    <3>1. term' = [[term EXCEPT !.main[k] = Written, !.cursor = row] EXCEPT !.seqno = @ + 1]
      BY <1>k, <2>3 DEF WriteRow, Output
    <3> QED  BY <2>1, <2>3, <3>1
  <2> QED  BY <1>2, <2>2, <2>3
<1>7. m \in [DOMAIN term.main -> Lines] /\ o \in [0 .. Height - 1 -> Lines] /\ term.saved \in 0 .. Height - 1
  <2>1. term.main \in [DOMAIN term.main -> Lines] /\ term.other \in [0 .. Height - 1 -> Lines]
        /\ term.saved \in 0 .. Height - 1
    BY <1>1, <1>2 DEF TermType
  <2> QED  BY <1>5, <2>1
<1>8. /\ \A r \in DOMAIN term.main : m[r] = IF ~term.alt /\ r = k THEN Written ELSE term.main[r]
      /\ \A r \in 0 .. Height - 1 : o[r] = IF term.alt /\ r = k THEN Written ELSE term.other[r]
  BY <1>2, <1>3
<1>9. past' = [past EXCEPT !.unsaid = past.unsaid \ {k}]
  BY <1>k DEF WriteRow
<1> HIDE DEF m, o
<1>10. TermType' /\ DOMAIN term'.main = DOMAIN term.main
  BY <1>1, <1>2, <1>4, <1>6, <1>7, TermKept
<1>11. ASSUME NEW r \in DOMAIN term.main PROVE Cur(r)' = IF r = k THEN Written ELSE Cur(r)
  <2>1. Cur(r)' = IF term.alt /\ r < Height THEN o[r] ELSE m[r]
    BY <1>6 DEF Cur
  <2>2. Cur(r) = IF term.alt /\ r < Height THEN term.other[r] ELSE term.main[r]
    BY DEF Cur
  <2>3. r \in Nat /\ (r < Height => r \in 0 .. Height - 1) /\ (term.alt => k < Height)
    BY <1>2, <1>3, Sizes
  <2> QED  BY <1>8, <2>1, <2>2, <2>3
<1>12. SeqBound'
  <2>1. \A r \in DOMAIN term.main : m[r].seq <= n
    BY <1>1, <1>5, <1>8, SeqIs
  <2>2. \A r \in 0 .. Height - 1 : o[r].seq <= n
    BY <1>1, <1>5, <1>8, SeqIs
  <2> QED  BY <1>2, <1>6, <1>7, <1>10, <2>1, <2>2 DEF SeqBound
<1>13. past' \in [overtaken : {past.overtaken}, unsaid : SUBSET Rows,
                  astray : {past.astray}, events : {past.events}]
       /\ past'.unsaid = past.unsaid \ {k}
  <2>1. past.unsaid \in SUBSET Rows
    BY <1>1 DEF ClientType
  <2>2. past.unsaid \ {k} \in SUBSET Rows
    BY <2>1
  <2> QED  BY <1>1, <1>9, <2>2, PastIs DEF ClientType
<1>14. HiddenOK'
  <2>1. per' = per /\ term'.alt = term.alt
    BY <1>6 DEF WriteRow, Output
  <2> SUFFICES ASSUME term.alt, NEW r \in DOMAIN term.main, r \notin past'.unsaid, r >= Height
               PROVE  Cur(r)'.seq <= per.seqno
    BY <1>10, <2>1 DEF HiddenOK
  <2>2. r # k
    BY <1>3, <1>2, Sizes
  <2> QED  BY <1>11, <1>13, <2>2 DEF HiddenOK
<1>15. DOMAIN Screen' = DOMAIN Screen
  <2>1. term'.alt = term.alt /\ MainTop' = MainTop
    BY <1>6, <1>10 DEF MainTop, MainRows
  <2>2. DOMAIN Screen' = 0 .. (IF term'.alt THEN 0 ELSE MainTop') + Height - 1
    BY <1>10, ShapesNext DEF Shapes
  <2> QED  BY <1>2, <2>1, <2>2
<1>16. /\ tasks' = Append(tasks, [kind |-> "push"])
       /\ UNCHANGED <<per, reading, pushes, replies, hydrating, pane>>
  BY DEF WriteRow, Output
<1>17. Cur(k)'.seq = n /\ k \in DOMAIN Screen'
  BY <1>3, <1>5, <1>11, <1>15
<1>18. \A r \in DOMAIN term.main :
          \/ Cur(r)' = Cur(r) /\ (r \in past.unsaid => r \in past'.unsaid)
          \/ Cur(r)'.seq = n
          \/ r \in past'.unsaid
  BY <1>5, <1>11, <1>13
<1>19. term'.seqno = n
  BY <1>6
<1> QED  BY <1>10, <1>12, <1>13, <1>14, <1>16, <1>17, <1>18, <1>19 DEF ProgramDoes

LEMMA ScrollUpDoes ==
    ASSUME Types, SeqBound, HiddenOK, ScrollUp
    PROVE  ProgramDoes
<1> DEFINE n == term.seqno + 1
           new == MainTop + Height
           m == [r \in 0 .. new |-> IF r \in DOMAIN term.main THEN term.main[r] ELSE Written]
<1>1. TermType /\ ClientType
  BY DEF Types
<1>2. ~term.alt /\ Top < MaxTop /\ term.seqno <= MaxOutputs
  BY DEF ScrollUp, Output
<1>3. /\ MainTop \in 0 .. MaxTop /\ DOMAIN term.main = 0 .. new - 1
      /\ DOMAIN term.other = 0 .. Height - 1 /\ Top = MainTop /\ new \in Nat
      /\ DOMAIN Screen = 0 .. new - 1
  BY <1>1, <1>2, Shape, Sizes
<1>5. Written \in Lines /\ Written.seq = n /\ term.seqno \in Nat /\ n \in 1 .. MaxOutputs + 1
  BY <1>1, <1>2, WrittenIs
<1>6. term' = [main |-> m, other |-> term.other, alt |-> term.alt, cursor |-> Height - 1,
               saved |-> term.saved, seqno |-> n]
  <2>1. term \in [main : Mains, other : [0 .. Height - 1 -> Lines], alt : BOOLEAN,
                 cursor : 0 .. Height - 1, saved : 0 .. Height - 1, seqno : 1 .. MaxOutputs + 1]
    BY <1>1 DEF TermType
  <2>2. term' = [[term EXCEPT !.cursor = Height - 1,
                   !.main = [r \in 0 .. Top + Height |->
                               IF r \in DOMAIN term.main THEN term.main[r] ELSE Written]]
                 EXCEPT !.seqno = term.seqno + 1]
    BY DEF ScrollUp, Output
  <2>3. term' = [[term EXCEPT !.cursor = Height - 1, !.main = m] EXCEPT !.seqno = n]
    BY <1>3, <2>2
  <2> HIDE DEF m, n
  <2> QED  BY <2>1, <2>3
<1>7. term.other \in [0 .. Height - 1 -> Lines] /\ term.saved \in 0 .. Height - 1
      /\ Height - 1 \in 0 .. Height - 1 /\ term.main \in [DOMAIN term.main -> Lines]
  <2>1. /\ term.other \in [0 .. Height - 1 -> Lines] /\ term.saved \in 0 .. Height - 1
        /\ term.main \in [0 .. MainTop + Height - 1 -> Lines]
    BY <1>1 DEF TermType
  <2> QED  BY <1>3, <2>1, Sizes
<1>8. /\ DOMAIN m = 0 .. new /\ m \in [0 .. new -> Lines]
      /\ \A r \in DOMAIN term.main : r \in 0 .. new /\ m[r] = term.main[r]
      /\ \A r \in 0 .. new : r \notin DOMAIN term.main => r = new
      /\ m[new] = Written /\ new \in 0 .. new
  BY <1>3, <1>5, <1>7
<1> HIDE DEF m
<1>9. term'.main = m /\ term'.other = term.other /\ term'.alt = term.alt /\ term'.seqno = n
  BY <1>6
<1>10. MainTop' = MainTop + 1
  <2>1. Cardinality(0 .. new) = new + 1
    <3>1. new \in Nat /\ 0 \in Int
      BY <1>3
    <3>2. \A b \in Int : Cardinality(0 .. b) = IF 0 > b THEN 0 ELSE b - 0 + 1
      BY FS_Interval
    <3> QED  BY ONLY <3>1, <3>2
  <2>2. MainTop' = Cardinality(0 .. new) - Height
    BY <1>8, <1>9 DEF MainTop, MainRows
  <2>3. MainTop' = (new + 1) - Height
    BY <2>1, <2>2
  <2>4. MainTop \in Nat /\ new = MainTop + Height
    BY <1>3, Sizes
  <2> HIDE DEF new
  <2> QED  BY <2>3, <2>4, Sizes
<1>11. TermType'
  <2>1. MainTop' \in 0 .. MaxTop /\ MainTop' + Height - 1 = new
    BY <1>2, <1>3, <1>10, Sizes
  <2>2. m \in [0 .. MainTop' + Height - 1 -> Lines]
    BY <1>8, <2>1
  <2>3. m \in Mains
    BY <2>1, <2>2 DEF Mains
  <2>4. term' \in [main : Mains, other : [0 .. Height - 1 -> Lines], alt : BOOLEAN,
                 cursor : 0 .. Height - 1, saved : 0 .. Height - 1, seqno : 1 .. MaxOutputs + 1]
    BY <1>1, <1>5, <1>6, <1>7, <2>3, Shape
  <2> HIDE DEF new
  <2> QED  BY <1>9, <2>1, <2>2, <2>4 DEF TermType
<1>12. \A r \in DOMAIN term.main : Cur(r)' = Cur(r)
  BY <1>2, <1>8, <1>9 DEF Cur
<1>14. SeqBound'
  <2>1. \A r \in 0 .. new : m[r].seq <= n
    BY <1>1, <1>5, <1>8, SeqIs
  <2>2. \A r \in 0 .. Height - 1 : term.other[r].seq <= n
    BY <1>1, <1>5, SeqIs
  <2> QED  BY <1>3, <1>8, <1>9, <2>1, <2>2 DEF SeqBound
<1>15. past' = past /\ past \in [overtaken : {past.overtaken}, unsaid : SUBSET Rows,
                  astray : {past.astray}, events : {past.events}]
  BY <1>1 DEF ScrollUp, ClientType
<1>16. HiddenOK'
  BY <1>2, <1>9 DEF HiddenOK
<1>17. new \in DOMAIN Screen'
  <2>1. DOMAIN Screen' = 0 .. MainTop' + Height - 1
    BY <1>2, <1>9, <1>11, ShapesNext DEF Shapes
  <2> QED  BY <1>3, <1>10, <2>1, Sizes
<1>18. /\ tasks' = Append(tasks, [kind |-> "push"])
       /\ UNCHANGED <<per, reading, pushes, replies, hydrating, pane>>
  BY DEF ScrollUp, Output
<1>19. \E r \in DOMAIN Screen' : Cur(r)'.seq = n
  <2>1. PICK k : k = new
    OBVIOUS
  <2>2. Cur(k)' = m[k]
    BY <1>2, <1>9 DEF Cur
  <2>3. k \in DOMAIN Screen' /\ m[k].seq = n
    BY <1>5, <1>8, <1>17, <2>1
  <2> QED  BY <2>2, <2>3
<1>20. DOMAIN term.main \subseteq DOMAIN term'.main
  BY <1>8, <1>9
<1> QED  BY <1>9, <1>11, <1>12, <1>14, <1>15, <1>16, <1>18, <1>19, <1>20 DEF ProgramDoes

(* What dirty_top_phys_rows leaves, and what is erased. *)
LEMMA DirtyIs ==
    ASSUME TermType, term.seqno <= MaxOutputs
    PROVE  /\ DirtyTop(term.main) \in [DOMAIN term.main -> Lines]
           /\ \A r \in DOMAIN term.main :
                 IF r < Height THEN DirtyTop(term.main)[r].seq = term.seqno + 1
                 ELSE DirtyTop(term.main)[r] = term.main[r]
           /\ Erased \in [0 .. Height - 1 -> Lines]
           /\ \A r \in 0 .. Height - 1 : Erased[r].seq = term.seqno + 1
<1>1. \A r \in DOMAIN term.main : term.main[r] \in Lines
  BY Shape DEF TermType
<1>2. term.seqno + 1 \in 1 .. MaxOutputs + 1 /\ Written \in Lines /\ Written.seq = term.seqno + 1
  BY WrittenIs
<1>3. ASSUME NEW l \in Lines
      PROVE  [l EXCEPT !.seq = term.seqno + 1] \in Lines /\ [l EXCEPT !.seq = term.seqno + 1].seq = term.seqno + 1
  BY <1>2 DEF Lines
<1>4. /\ DOMAIN DirtyTop(term.main) = DOMAIN term.main
      /\ \A r \in DOMAIN term.main : DirtyTop(term.main)[r] =
            IF r < Height THEN [term.main[r] EXCEPT !.seq = term.seqno + 1] ELSE term.main[r]
      /\ DirtyTop(term.main) = [r \in DOMAIN term.main |-> DirtyTop(term.main)[r]]
  BY DEF DirtyTop
<1>5. ASSUME NEW r \in DOMAIN term.main
      PROVE  /\ DirtyTop(term.main)[r] \in Lines
             /\ IF r < Height THEN DirtyTop(term.main)[r].seq = term.seqno + 1
                ELSE DirtyTop(term.main)[r] = term.main[r]
  BY <1>1, <1>3, <1>4
<1>6. DirtyTop(term.main) \in [DOMAIN term.main -> Lines]
  BY <1>4, <1>5
<1>7. Erased \in [0 .. Height - 1 -> Lines] /\ \A r \in 0 .. Height - 1 : Erased[r].seq = term.seqno + 1
  BY <1>2 DEF Erased
<1> QED  BY <1>5, <1>6, <1>7

LEMMA EnterAltDoes ==
    ASSUME Types, SeqBound, HiddenOK, NEW mode \in AltModes, EnterAlt(mode)
    PROVE  ProgramDoes
<1> DEFINE n == term.seqno + 1
           m == DirtyTop(term.main)
           o == IF mode = 1049 THEN Erased ELSE term.other
           c == IF mode = 1049 THEN 0 ELSE term.cursor
           s == IF mode = 1049 THEN term.cursor ELSE term.saved
           late == {r \in DOMAIN term.main : r >= Height /\ term.main[r].seq > per.seqno}
           kept == IF mode = 1049 THEN {} ELSE DOMAIN term.other
           all == (past.unsaid \cup late) \cup kept
<1>1. TermType /\ ClientType
  BY DEF Types
<1>2. ~term.alt /\ term.seqno <= MaxOutputs
  BY DEF EnterAlt, Output
<1>3. /\ MainTop \in 0 .. MaxTop /\ DOMAIN term.main = 0 .. MainTop + Height - 1
      /\ DOMAIN term.other = 0 .. Height - 1 /\ DOMAIN term.main \subseteq Rows
  BY <1>1, Shape, ShownRows
<1>4. /\ m \in [DOMAIN term.main -> Lines] /\ o \in [0 .. Height - 1 -> Lines]
      /\ \A r \in DOMAIN term.main :
            IF r < Height THEN m[r].seq = n ELSE m[r] = term.main[r]
      /\ mode = 1049 => \A r \in 0 .. Height - 1 : o[r].seq = n
      /\ mode # 1049 => o = term.other
  <2>1. term.other \in [0 .. Height - 1 -> Lines]
    BY <1>1 DEF TermType
  <2> QED  BY <1>1, <1>2, <2>1, DirtyIs
<1>5. c \in 0 .. Height - 1 /\ s \in 0 .. Height - 1
  <2>1. term.cursor \in 0 .. Height - 1 /\ term.saved \in 0 .. Height - 1
    BY <1>1 DEF TermType
  <2> QED  BY <2>1, Sizes
<1>6. term' = [main |-> m, other |-> o, alt |-> TRUE, cursor |-> c, saved |-> s, seqno |-> n]
  <2>1. term \in [main : Mains, other : [0 .. Height - 1 -> Lines], alt : BOOLEAN,
                 cursor : 0 .. Height - 1, saved : 0 .. Height - 1, seqno : 1 .. MaxOutputs + 1]
    BY <1>1 DEF TermType
  <2>2. term' = [[term EXCEPT !.alt = TRUE, !.main = m, !.saved = s, !.cursor = c, !.other = o]
                 EXCEPT !.seqno = term.seqno + 1]
    BY <2>1 DEF EnterAlt, Output
  <2> HIDE DEF m, o, c, s
  <2> QED  BY <2>1, <2>2
<1>7. past' = [past EXCEPT !.unsaid = all]
  BY DEF EnterAlt
<1>8. all \in SUBSET Rows
  BY <1>1, <1>3, Sizes DEF ClientType
<1>9. \A r \in past.unsaid : r \in all
  OBVIOUS
<1>10. /\ \A r \in DOMAIN term.main : r \notin all /\ r >= Height => ~(term.main[r].seq > per.seqno)
       /\ mode # 1049 => \A r \in 0 .. Height - 1 : r \in all
  BY <1>3
<1> HIDE DEF m, o, c, s, all
<1>11. TermType' /\ DOMAIN term'.main = DOMAIN term.main /\ DOMAIN term'.other = 0 .. Height - 1
  BY <1>1, <1>2, <1>4, <1>5, <1>6, TermKept
<1>12. /\ past' \in [overtaken : {past.overtaken}, unsaid : SUBSET Rows,
                  astray : {past.astray}, events : {past.events}]
       /\ past'.unsaid = all
  BY <1>1, <1>7, <1>8, PastIs DEF ClientType
<1>13. term'.main = m /\ term'.other = o /\ term'.alt = TRUE /\ term'.seqno = n
  BY <1>6
<1>14. SeqBound'
  <2>1. \A r \in DOMAIN term.main : m[r].seq <= n
    <3>1. n \in Nat /\ term.seqno \in Nat /\ term.seqno <= n
      BY <1>1, SeqIs
    <3>2. TAKE r \in DOMAIN term.main
    <3>3. CASE r < Height
      BY <1>4, <3>1, <3>3
    <3>4. CASE ~(r < Height)
      <4>1. m[r] = term.main[r] /\ term.main[r].seq \in Nat /\ term.main[r].seq <= term.seqno
        BY <1>1, <1>4, <3>4, SeqIs
      <4> QED  BY <3>1, <4>1
    <3> QED  BY <3>3, <3>4
  <2>2. ASSUME NEW r \in 0 .. Height - 1 PROVE o[r].seq <= n
    <3>1. term.other[r].seq \in Nat /\ term.other[r].seq <= term.seqno /\ term.seqno \in Nat
      BY <1>1, SeqIs
    <3>2. n \in Nat /\ term.seqno <= n
      BY <3>1
    <3>3. CASE mode = 1049
      <4>1. o[r].seq = n
        BY <1>4, <3>3
      <4> QED  BY <3>2, <4>1
    <3>4. CASE mode # 1049
      <4>1. o[r] = term.other[r]
        BY <1>4, <3>4
      <4> QED  BY <3>1, <4>1
    <3> QED  BY <3>3, <3>4
  <2> QED  BY <1>11, <1>13, <2>1, <2>2 DEF SeqBound
<1>15. ASSUME NEW r \in DOMAIN term.main
       PROVE  Cur(r)' = IF r < Height THEN o[r] ELSE m[r]
  BY <1>13 DEF Cur
<1>16. ASSUME NEW r \in DOMAIN term.main
       PROVE  \/ Cur(r)' = Cur(r) /\ (r \in past.unsaid => r \in past'.unsaid)
              \/ Cur(r)'.seq = n
              \/ r \in past'.unsaid
  <2>1. r \in Nat /\ (r < Height => r \in 0 .. Height - 1)
    BY <1>3, Sizes
  <2>2. CASE r < Height
    BY <1>4, <1>10, <1>12, <1>15, <2>1, <2>2
  <2>3. CASE ~(r < Height)
    BY <1>2, <1>4, <1>9, <1>12, <1>15, <2>3 DEF Cur
  <2> QED  BY <2>2, <2>3
<1>17. HiddenOK'
  <2>1. per' = per
    BY DEF EnterAlt, Output
  <2> SUFFICES ASSUME NEW r \in DOMAIN term.main, r \notin past'.unsaid, r >= Height
               PROVE  Cur(r)'.seq <= per.seqno
    BY <1>11, <2>1 DEF HiddenOK
  <2>2. ~(r < Height)
    BY <1>3, Sizes
  <2>3. Cur(r)' = term.main[r]
    BY <1>4, <1>15, <2>2
  <2>4. term.main[r].seq \in Nat /\ per.seqno \in Nat
    BY <1>1, SeqIs DEF Types, ServerType, SentType
  <2> QED  BY <1>10, <1>12, <2>3, <2>4
<1>18. past'.unsaid # {} \/ \E r \in DOMAIN Screen' : Cur(r)'.seq = n
  <2>1. CASE mode # 1049
    <3>1. 0 \in all
      BY <1>10, <2>1, Sizes
    <3> QED  BY <1>12, <3>1
  <2>2. CASE mode = 1049
    <3>1. 0 \in DOMAIN Screen'
      BY <1>11, ShapesNext DEF Shapes
    <3>2. 0 \in DOMAIN term.main
      BY <1>3, Sizes
    <3>3. Cur(0)'.seq = n
      BY <1>4, <1>15, <2>2, <3>2, Sizes
    <3> QED  BY <3>1, <3>3
  <2> QED  BY <2>1, <2>2
<1>19. /\ tasks' = Append(tasks, [kind |-> "push"])
       /\ UNCHANGED <<per, reading, pushes, replies, hydrating, pane>>
  BY DEF EnterAlt, Output
<1> QED  BY <1>11, <1>12, <1>13, <1>14, <1>16, <1>17, <1>18, <1>19 DEF ProgramDoes

LEMMA LeaveAltDoes ==
    ASSUME Types, SeqBound, HiddenOK, NEW mode \in AltModes, LeaveAlt(mode)
    PROVE  ProgramDoes
<1> DEFINE n == term.seqno + 1
           m == DirtyTop(term.main)
           o == IF mode = 1047 THEN Erased ELSE term.other
           c == IF mode = 1049 THEN term.saved ELSE term.cursor
<1>1. TermType /\ ClientType
  BY DEF Types
<1>2. term.alt /\ term.seqno <= MaxOutputs
  BY DEF LeaveAlt, Output
<1>3. /\ MainTop \in 0 .. MaxTop /\ DOMAIN term.main = 0 .. MainTop + Height - 1
      /\ DOMAIN term.other = 0 .. Height - 1 /\ DOMAIN term.main \subseteq Rows
  BY <1>1, Shape, ShownRows
<1>4. /\ m \in [DOMAIN term.main -> Lines] /\ o \in [0 .. Height - 1 -> Lines]
      /\ \A r \in DOMAIN term.main :
            IF r < Height THEN m[r].seq = n ELSE m[r] = term.main[r]
      /\ \A r \in 0 .. Height - 1 : o[r].seq = n \/ o[r] = term.other[r]
  <2>1. term.other \in [0 .. Height - 1 -> Lines]
    BY <1>1 DEF TermType
  <2> QED  BY <1>1, <1>2, <2>1, DirtyIs
<1>5. c \in 0 .. Height - 1 /\ term.saved \in 0 .. Height - 1
  BY <1>1 DEF TermType
<1>6. term' = [main |-> m, other |-> o, alt |-> FALSE, cursor |-> c, saved |-> term.saved,
               seqno |-> n]
  <2>1. term \in [main : Mains, other : [0 .. Height - 1 -> Lines], alt : BOOLEAN,
                 cursor : 0 .. Height - 1, saved : 0 .. Height - 1, seqno : 1 .. MaxOutputs + 1]
    BY <1>1 DEF TermType
  <2>2. term' = [[term EXCEPT !.alt = FALSE, !.main = m, !.cursor = c, !.other = o]
                 EXCEPT !.seqno = term.seqno + 1]
    BY <2>1 DEF LeaveAlt, Output
  <2> HIDE DEF m, o, c
  <2> QED  BY <2>1, <2>2
<1>7. past' = [past EXCEPT !.unsaid = past.unsaid \ DOMAIN term.other]
  BY DEF LeaveAlt
<1> HIDE DEF m, o, c
<1>8. TermType' /\ DOMAIN term'.main = DOMAIN term.main /\ DOMAIN term'.other = 0 .. Height - 1
  BY <1>1, <1>2, <1>4, <1>5, <1>6, TermKept
<1>9. /\ past' \in [overtaken : {past.overtaken}, unsaid : SUBSET Rows,
                  astray : {past.astray}, events : {past.events}]
      /\ past'.unsaid = past.unsaid \ DOMAIN term.other
  <2>1. past.unsaid \in SUBSET Rows
    BY <1>1 DEF ClientType
  <2>2. past.unsaid \ DOMAIN term.other \in SUBSET Rows
    BY <2>1
  <2> QED  BY <1>1, <1>7, <2>2, PastIs DEF ClientType
<1>10. term'.main = m /\ term'.other = o /\ term'.alt = FALSE /\ term'.seqno = n
  BY <1>6
<1>11. SeqBound'
  <2>0. n \in Nat /\ term.seqno \in Nat /\ term.seqno <= n
    BY <1>1, SeqIs
  <2>1. \A r \in DOMAIN term.main : m[r].seq <= n
    <3>2. TAKE r \in DOMAIN term.main
    <3>3. CASE r < Height
      BY <1>4, <2>0, <3>3
    <3>4. CASE ~(r < Height)
      <4>1. m[r] = term.main[r] /\ term.main[r].seq \in Nat /\ term.main[r].seq <= term.seqno
        BY <1>1, <1>4, <3>4, SeqIs
      <4> QED  BY <2>0, <4>1
    <3> QED  BY <3>3, <3>4
  <2>2. ASSUME NEW r \in 0 .. Height - 1 PROVE o[r].seq <= n
    <3>1. CASE o[r].seq = n
      BY <2>0, <3>1
    <3>2. CASE o[r] = term.other[r]
      <4>1. term.other[r].seq \in Nat /\ term.other[r].seq <= term.seqno
        BY <1>1, SeqIs
      <4> QED  BY <2>0, <3>2, <4>1
    <3> QED  BY <1>4, <3>1, <3>2
  <2> QED  BY <1>8, <1>10, <2>1, <2>2 DEF SeqBound
<1>12. ASSUME NEW r \in DOMAIN term.main
       PROVE  Cur(r)' = m[r]
  BY <1>10 DEF Cur
<1>13. ASSUME NEW r \in DOMAIN term.main
       PROVE  \/ Cur(r)' = Cur(r) /\ (r \in past.unsaid => r \in past'.unsaid)
              \/ Cur(r)'.seq = n
              \/ r \in past'.unsaid
  <2>2. CASE r < Height
    BY <1>4, <1>12, <2>2
  <2>3. CASE ~(r < Height)
    <3>1. Cur(r)' = term.main[r] /\ Cur(r) = term.main[r]
      BY <1>4, <1>12, <2>3 DEF Cur
    <3>2. r \notin DOMAIN term.other
      BY <1>3, <2>3, Sizes
    <3> QED  BY <1>9, <3>1, <3>2
  <2> QED  BY <2>2, <2>3
<1>14. HiddenOK'
  BY <1>10 DEF HiddenOK
<1>15. \E r \in DOMAIN Screen' : Cur(r)'.seq = n
  <2>1. 0 \in DOMAIN Screen'
    BY <1>8, ShapesNext DEF Shapes
  <2>2. 0 \in DOMAIN term.main
    BY <1>3, Sizes
  <2>3. Cur(0)'.seq = n
    BY <1>4, <1>12, <2>2, Sizes
  <2> QED  BY <2>1, <2>3
<1>16. /\ tasks' = Append(tasks, [kind |-> "push"])
       /\ UNCHANGED <<per, reading, pushes, replies, hydrating, pane>>
  BY DEF LeaveAlt, Output
<1> QED  BY <1>8, <1>9, <1>10, <1>11, <1>13, <1>14, <1>15, <1>16 DEF ProgramDoes

LEMMA ProgramIs ==
    ASSUME Types, SeqBound, HiddenOK, Program
    PROVE  ProgramDoes
  BY WriteRowDoes, ScrollUpDoes, EnterAltDoes, LeaveAltDoes DEF Program
-----------------------------------------------------------------------------
(* What is on its way to the client. *)
LEMMA Kinds ==
    /\ \A d \in Deltas : d.kind = "changes" /\ d.top \in 0 .. MaxTop /\ d.cursor \in Rows
                         /\ d.seqno \in Nat /\ d.dirty \in SUBSET Rows
                         /\ DOMAIN d.bonus \subseteq Rows
                         /\ \A r \in DOMAIN d.bonus : d.bonus[r] \in Lines /\ d.bonus[r].text \in Texts
    /\ Palette.kind = "palette" /\ Palette \notin Deltas
    /\ \A a \in Asks : a.kind = "lines" /\ a.rows \in SUBSET Rows /\ a.at \in Nat \ {0}
    /\ \A t \in Turns : t.kind \in {"push", "poll"}
    /\ \A m \in LineMaps : DOMAIN m \subseteq Rows
         /\ \A r \in DOMAIN m : m[r] \in Lines /\ m[r].text \in Texts /\ m[r].seq \in Nat
<1>1. \A m \in LineMaps : DOMAIN m \subseteq Rows /\ \A r \in DOMAIN m : m[r] \in Lines
  BY DEF LineMaps
<1>2. \A l \in Lines : l.text \in Texts /\ l.seq \in Nat
  BY Sizes DEF Lines, Texts
<1>3. \A d \in Deltas : d.kind = "changes" /\ d.top \in 0 .. MaxTop /\ d.cursor \in Rows
                         /\ d.seqno \in Nat /\ d.dirty \in SUBSET Rows /\ d.bonus \in LineMaps
  BY DEF Deltas
<1>4. Palette.kind = "palette"
  BY DEF Palette
<1> QED  BY <1>1, <1>2, <1>3, <1>4 DEF Asks, Turns

LEMMA ConcatIs ==
    ASSUME NEW T, NEW s \in Seq(T), NEW t \in Seq(T)
    PROVE  /\ s \o t \in Seq(T) /\ Len(s \o t) = Len(s) + Len(t)
           /\ \A i \in DOMAIN s : i \in DOMAIN (s \o t) /\ (s \o t)[i] = s[i]
           /\ \A k \in DOMAIN t : Len(s) + k \in DOMAIN (s \o t) /\ (s \o t)[Len(s) + k] = t[k]
           /\ \A i \in DOMAIN (s \o t) : i \in DOMAIN s \/ \E k \in DOMAIN t : i = Len(s) + k
           /\ DOMAIN s = 1 .. Len(s) /\ Len(s) \in Nat /\ DOMAIN t = 1 .. Len(t)
<1> DEFINE r == s \o t
<1>1. /\ DOMAIN s = 1 .. Len(s) /\ Len(s) \in Nat /\ DOMAIN t = 1 .. Len(t) /\ Len(t) \in Nat
      /\ r \in Seq(T) /\ Len(r) = Len(s) + Len(t) /\ DOMAIN r = 1 .. Len(s) + Len(t)
      /\ \A i \in 1 .. Len(s) + Len(t) : r[i] = IF i <= Len(s) THEN s[i] ELSE t[i - Len(s)]
  OBVIOUS
<1> HIDE DEF r
<1>2. \A i \in DOMAIN s : i \in DOMAIN r /\ r[i] = s[i]
  BY <1>1
<1>3. ASSUME NEW k \in DOMAIN t PROVE Len(s) + k \in DOMAIN r /\ r[Len(s) + k] = t[k]
  <2>1. Len(s) + k \in 1 .. Len(s) + Len(t) /\ ~(Len(s) + k <= Len(s)) /\ (Len(s) + k) - Len(s) = k
    BY <1>1
  <2> QED  BY <1>1, <2>1
<1>4. ASSUME NEW i \in DOMAIN r, i \notin DOMAIN s PROVE \E k \in DOMAIN t : i = Len(s) + k
  <2>1. i - Len(s) \in DOMAIN t /\ i = Len(s) + (i - Len(s))
    BY <1>1, <1>4
  <2> QED  BY <2>1
<1> QED  BY <1>1, <1>2, <1>3, <1>4 DEF r

LEMMA MadeIs ==
    ASSUME Types, TurnOK
    PROVE  /\ Made \in Nat /\ Made <= MainRows /\ MainRows \in Nat
           /\ \A r \in Rows : r < Made => r \in DOMAIN term.main
           /\ \A r \in DOMAIN term.main : r \in Rows /\ r < MainRows
<1>1. /\ MainTop \in 0 .. MaxTop /\ MainRows = MainTop + Height
      /\ DOMAIN term.main = 0 .. MainTop + Height - 1
  BY Shape DEF Types
<1>2. reading.top \in 0 .. MaxTop
  BY DEF Types, ServerType, Readings
<1> QED  BY <1>1, <1>2, Sizes DEF Made, TurnOK

(* What the client holds or will hold is of a row that was there.          *)
LEMMA HeldIsMade ==
    ASSUME Types, TurnOK, UnmadeOK, NEW r \in Rows
    PROVE  /\ \A text : Held(r, text) => r < Made
           /\ \A i \in DOMAIN pushes : pushes[i].kind = "changes" /\ r \in DOMAIN pushes[i].bonus => r < Made
           /\ hydrating # <<>> /\ r \in DOMAIN hydrating[1].bonus => r < Made
<1>1. r < Made \/ r >= Made
  BY MadeIs, Sizes
<1>2. ASSUME r >= Made, NEW text PROVE ~Held(r, text)
  BY <1>2 DEF UnmadeOK, Held
<1> QED  BY <1>1, <1>2 DEF UnmadeOK

(* A step of the server clears what it does not send for. *)
ClearsBut(new) ==
    \A r \in Rows : r < Made =>
        \A text \in Texts : Cleared(r, text) =>
            Cleared(r, text)' \/ \E k \in DOMAIN new : Mentions(new[k], r)

LEMMA SendKeeps ==
    ASSUME Types, TurnOK, UnmadeOK, TermType', NEW new \in Seq(Deltas \cup {Palette}),
           pushes' = pushes \o new, UNCHANGED <<replies, hydrating, pane>>, ClearsBut(new),
           \A k \in DOMAIN new : \A r \in Rows : \A text \in Texts :
               Bears(new[k], r, text) => Cleared(r, text)'
    PROVE  /\ HeldOK => HeldOK'
           /\ HydratingOK => HydratingOK'
           /\ PushesOK => PushesOK'
<1> DEFINE n == Len(pushes)
<1>1. pushes \in Seq(Deltas \cup {Palette})
  BY DEF Types, WireType
<1>2. /\ \A i \in DOMAIN pushes : i \in DOMAIN pushes' /\ pushes'[i] = pushes[i]
      /\ \A k \in DOMAIN new : n + k \in DOMAIN pushes' /\ pushes'[n + k] = new[k]
      /\ \A i \in DOMAIN pushes' : i \in DOMAIN pushes \/ \E k \in DOMAIN new : i = n + k
      /\ n \in Nat /\ DOMAIN pushes = 1 .. n /\ DOMAIN new \subseteq Nat \ {0}
  BY <1>1, ConcatIs
<1> HIDE DEF n
<1>3. \A r : Pushed(r) => Pushed(r)'
  BY <1>2 DEF Pushed, Mentions
<1>4. \A r : (\E k \in DOMAIN new : Mentions(new[k], r)) => Pushed(r)'
  BY <1>2 DEF Pushed, Mentions
<1>5. ASSUME NEW r \in Rows, r < Made, NEW text \in Texts, Cleared(r, text)
      PROVE  Cleared(r, text)' \/ Pushed(r)'
  BY <1>4, <1>5 DEF ClearsBut
<1>6. ASSUME HeldOK PROVE HeldOK'
  <2> SUFFICES ASSUME NEW r \in DOMAIN term'.main, NEW text \in Texts, Held(r, text)'
               PROVE  Cleared(r, text)' \/ Pushed(r)' \/ (hydrating # <<>> /\ Mentions(hydrating[1], r))
    BY DEF HeldOK, Mentions
  <2>1. r \in Rows
    BY ShapesNext DEF Shapes
  <2>2. Held(r, text)
    BY DEF Held
  <2>3. r < Made /\ r \in DOMAIN term.main
    BY <2>1, <2>2, HeldIsMade, MadeIs
  <2> QED  BY <1>3, <1>5, <1>6, <2>1, <2>2, <2>3 DEF HeldOK
<1>7. ASSUME HydratingOK PROVE HydratingOK'
  <2> SUFFICES ASSUME hydrating # <<>>, NEW r \in Rows, NEW text \in Texts, Bears(hydrating[1], r, text)
               PROVE  Cleared(r, text)' \/ Pushed(r)'
    BY DEF HydratingOK, Bears
  <2>1. r < Made
    BY HeldIsMade DEF Bears
  <2>2. Cleared(r, text) \/ Pushed(r)
    BY <1>7 DEF HydratingOK
  <2> QED  BY <1>3, <1>5, <2>1, <2>2
<1>8. ASSUME PushesOK PROVE PushesOK'
  <2> SUFFICES ASSUME NEW i \in DOMAIN pushes', NEW r \in Rows, NEW text \in Texts,
                      Bears(pushes'[i], r, text)
               PROVE  Cleared(r, text)' \/ \E j \in DOMAIN pushes' : j > i /\ Mentions(pushes'[j], r)
    BY DEF PushesOK, Mentions, Bears
  <2>1. CASE i \in DOMAIN pushes
    <3>1. pushes[i] = pushes'[i] /\ Bears(pushes[i], r, text)
      BY <1>2, <2>1
    <3>2. r < Made
      BY <2>1, <3>1, HeldIsMade DEF Bears
    <3>3. Cleared(r, text) \/ \E j \in DOMAIN pushes : j > i /\ Mentions(pushes[j], r)
      BY <1>8, <2>1, <3>1 DEF PushesOK
    <3>4. CASE \E j \in DOMAIN pushes : j > i /\ Mentions(pushes[j], r)
      BY <1>2, <3>4
    <3>5. CASE Cleared(r, text)
      <4>1. Cleared(r, text)' \/ \E k \in DOMAIN new : Mentions(new[k], r)
        BY <3>2, <3>5 DEF ClearsBut
      <4>2. ASSUME NEW k \in DOMAIN new, Mentions(new[k], r)
            PROVE  \E j \in DOMAIN pushes' : j > i /\ Mentions(pushes'[j], r)
        <5>1. n + k \in DOMAIN pushes' /\ pushes'[n + k] = new[k] /\ n + k > i
          BY <1>2, <2>1
        <5> QED  BY <4>2, <5>1
      <4> QED  BY <4>1, <4>2
    <3> QED  BY <3>3, <3>4, <3>5
  <2>2. CASE i \notin DOMAIN pushes
    <3>1. PICK k \in DOMAIN new : i = n + k
      BY <1>2, <2>2
    <3>2. pushes'[i] = new[k]
      BY <1>2, <3>1
    <3>3. Cleared(r, text)'
      BY <3>2
    <3> QED  BY <3>3
  <2> QED  BY <2>1, <2>2
<1> QED  BY <1>6, <1>7, <1>8
-----------------------------------------------------------------------------
(* The program. *)
LEMMA SeqnosAre ==
    ASSUME Types, SeqBound
    PROVE  /\ per.seqno \in Nat /\ reading.seqno \in Nat /\ reading.top \in Nat /\ term.seqno \in Nat
           /\ reading.step \in Steps
           /\ \A r \in DOMAIN term.main : Cur(r).seq \in Nat /\ Cur(r).seq <= term.seqno
                                        /\ Cur(r).text \in Texts /\ r \in Rows
<1>1. per \in SentType /\ reading.seqno \in Nat /\ reading.top \in 0 .. MaxTop /\ reading.step \in Steps
  BY DEF Types, ServerType, Readings
<1>2. TermType
  BY DEF Types
<1>3. /\ DOMAIN term.main \subseteq Rows /\ DOMAIN term.main = 0 .. MainTop + Height - 1
      /\ MainTop \in 0 .. MaxTop
  BY <1>2, Shape, ShownRows
<1>4. ASSUME NEW r \in DOMAIN term.main
      PROVE  Cur(r).seq \in Nat /\ Cur(r).seq <= term.seqno
  <2>1. r < Height => r \in 0 .. Height - 1
    BY <1>3, Sizes
  <2> QED  BY <1>2, <2>1, SeqIs DEF Cur
<1>5. ASSUME NEW r \in DOMAIN term.main PROVE Cur(r).text \in Texts
  <2>1. Cur(r) \in Lines
    BY <1>2, ShownRows
  <2> QED  BY <2>1, Sizes DEF Lines, Texts
<1>6. per.seqno \in Nat
  BY <1>1 DEF SentType
<1> QED  BY <1>1, <1>2, <1>3, <1>4, <1>5, <1>6, SeqIs, Sizes

(* A line just written is pending, whatever the server is doing.           *)
LEMMA NewIsPending ==
    ASSUME Types, SeqBound, TurnOK, NEW r, Cur(r)'.seq = term.seqno + 1, UNCHANGED <<per, reading>>
    PROVE  Pending(r)' /\ Cur(r)'.seq > per.seqno /\
           (reading.step \in {"dirty", "lines", "send"} => Cur(r)'.seq > reading.seqno)
<1>1. term.seqno + 1 > per.seqno
  BY SeqnosAre DEF TurnOK
<1>2. reading.step \in {"dirty", "lines", "send"} => term.seqno + 1 > reading.seqno
  BY SeqnosAre DEF TurnOK
<1>3. reading.step \in Steps
  BY SeqnosAre
<1> QED  BY <1>1, <1>2, <1>3 DEF Pending, Steps

LEMMA ProgramClears ==
    ASSUME Types, SeqBound, TurnOK, ProgramDoes
    PROVE  ClearsBut(<<>>)
<1> SUFFICES ASSUME NEW r \in Rows, r < Made, NEW text \in Texts, Cleared(r, text)
             PROVE  Cleared(r, text)'
  BY DEF ClearsBut
<1>1. r \in DOMAIN term.main
  BY MadeIs
<1>2. UNCHANGED <<per, reading>>
  BY DEF ProgramDoes
<1>3. CASE Cur(r)' = Cur(r) /\ (r \in past.unsaid => r \in past'.unsaid)
  BY <1>2, <1>3 DEF Cleared, Pending
<1>4. CASE Cur(r)'.seq = term.seqno + 1
  BY <1>2, <1>4, NewIsPending DEF Cleared
<1>5. CASE r \in past'.unsaid
  BY <1>5 DEF Cleared
<1> QED  BY <1>1, <1>3, <1>4, <1>5 DEF ProgramDoes

LEMMA AppendIs ==
    ASSUME NEW T, NEW s \in Seq(T), NEW t \in T
    PROVE  /\ Append(s, t) \in Seq(T) /\ Len(Append(s, t)) = Len(s) + 1
           /\ \A i \in DOMAIN s : i \in DOMAIN Append(s, t) /\ Append(s, t)[i] = s[i]
           /\ Len(s) + 1 \in DOMAIN Append(s, t) /\ Append(s, t)[Len(s) + 1] = t
           /\ \A i \in DOMAIN Append(s, t) : i \in DOMAIN s \/ i = Len(s) + 1
           /\ s # <<>> => Head(Append(s, t)) = Head(s) /\ Len(s) >= 1
           /\ Append(s, t) # <<>>
           /\ Len(s) \in Nat /\ DOMAIN s = 1 .. Len(s)
<1> DEFINE r == Append(s, t)
<1>1. /\ DOMAIN s = 1 .. Len(s) /\ Len(s) \in Nat
      /\ r \in Seq(T) /\ Len(r) = Len(s) + 1 /\ DOMAIN r = 1 .. Len(s) + 1
      /\ \A i \in 1 .. Len(s) : r[i] = s[i]
      /\ r[Len(s) + 1] = t
  OBVIOUS
<1>2. /\ s # <<>> => Len(s) >= 1 /\ Head(s) = s[1]
      /\ r # <<>> => Head(r) = r[1]
  OBVIOUS
<1> HIDE DEF r
<1>3. r # <<>>
  <2>1. Len(r) # 0
    BY <1>1
  <2> QED  BY <2>1
<1>4. s # <<>> => Head(r) = Head(s)
  BY <1>1, <1>2, <1>3
<1> QED  BY <1>1, <1>2, <1>3, <1>4 DEF r

(* A task behind the queue leaves the turn, and the requests, as they are. *)
LEMMA QueuedIs ==
    ASSUME Types, NEW job \in Turns \cup Asks, tasks' = Append(tasks, job)
    PROVE  /\ tasks' \in Seq(Turns \cup Asks)
           /\ AtWork => AtWork'
           /\ \A r, at : (\E i \in DOMAIN tasks : tasks[i].kind = "lines" /\ tasks[i].at = at /\ r \in tasks[i].rows)
                => \E i \in DOMAIN tasks' : tasks'[i].kind = "lines" /\ tasks'[i].at = at /\ r \in tasks'[i].rows
           /\ \A i \in DOMAIN tasks : i \in DOMAIN tasks' /\ tasks'[i] = tasks[i]
           /\ \E i \in DOMAIN tasks' : tasks'[i] = job /\ (tasks # <<>> => i > 1)
<1>1. tasks \in Seq(Turns \cup Asks)
  BY DEF Types, ServerType
<1>2. /\ Append(tasks, job) \in Seq(Turns \cup Asks)
      /\ \A i \in DOMAIN tasks : i \in DOMAIN Append(tasks, job) /\ Append(tasks, job)[i] = tasks[i]
      /\ Len(tasks) + 1 \in DOMAIN Append(tasks, job) /\ Append(tasks, job)[Len(tasks) + 1] = job
      /\ tasks # <<>> => Head(Append(tasks, job)) = Head(tasks) /\ Len(tasks) >= 1
      /\ Append(tasks, job) # <<>> /\ Len(tasks) \in Nat
  BY <1>1, AppendIs
<1>3. tasks # <<>> => Len(tasks) + 1 > 1
  BY <1>2
<1> QED  BY <1>2, <1>3 DEF AtWork

LEMMA ProgramBase ==
    ASSUME Base, ProgramDoes
    PROVE  Base'
<1>1. Types /\ SeqBound /\ TurnOK /\ HiddenOK /\ AwaitOK /\ BonusOK /\ UnmadeOK /\ MovedOK /\ SinceOK
  BY DEF Base
<1>2. /\ TermType' /\ SeqBound' /\ HiddenOK' /\ term'.seqno = term.seqno + 1
      /\ UNCHANGED <<per, reading, pushes, replies, hydrating, pane>>
      /\ DOMAIN term.main \subseteq DOMAIN term'.main
  BY DEF ProgramDoes
<1>3. [kind |-> "push"] \in Turns \cup Asks
  BY DEF Turns
<1>4. /\ tasks' \in Seq(Turns \cup Asks)
      /\ AtWork => AtWork'
      /\ \A r, at : (\E i \in DOMAIN tasks : tasks[i].kind = "lines" /\ tasks[i].at = at /\ r \in tasks[i].rows)
           => \E i \in DOMAIN tasks' : tasks'[i].kind = "lines" /\ tasks'[i].at = at /\ r \in tasks'[i].rows
      /\ \E i \in DOMAIN tasks' : tasks'[i] = [kind |-> "push"] /\ (tasks # <<>> => i > 1)
  <2>1. tasks' = Append(tasks, [kind |-> "push"])
    BY DEF ProgramDoes
  <2> QED  BY <1>1, <1>3, <2>1, QueuedIs
<1>5. /\ past' \in [overtaken : BOOLEAN, unsaid : SUBSET Rows, astray : SUBSET Rows, events : Nat]
      /\ past'.astray = past.astray
  <2>1. past \in [overtaken : BOOLEAN, unsaid : SUBSET Rows, astray : SUBSET Rows, events : Nat]
    BY <1>1 DEF Types, ClientType
  <2> QED  BY <2>1 DEF ProgramDoes
<1>6. MainRows \in Nat /\ MainRows' \in Nat /\ MainRows <= MainRows'
  <2>1. DOMAIN term.main = 0 .. MainTop + Height - 1 /\ MainTop \in 0 .. MaxTop /\ MainRows = MainTop + Height
    BY <1>1, Shape DEF Types
  <2>2. /\ DOMAIN term'.main = 0 .. MainTop' + Height - 1 /\ MainTop' \in 0 .. MaxTop
        /\ MainRows' = MainTop' + Height
    BY <1>2, ShapesNext DEF Shapes
  <2>3. MainTop + Height - 1 \in DOMAIN term.main
    BY <2>1, Sizes
  <2>4. MainTop + Height - 1 \in DOMAIN term'.main
    BY <1>2, <2>3
  <2>5. MainTop + Height - 1 <= MainTop' + Height - 1
    BY <2>2, <2>4
  <2>6. /\ MainTop \in Nat /\ MainTop' \in Nat /\ Height \in Nat
        /\ MainRows = MainTop + Height /\ MainRows' = MainTop' + Height
    BY <2>1, <2>2, Sizes
  <2>7. \A a, b, h \in Nat : a + h - 1 <= b + h - 1 => a + h \in Nat /\ b + h \in Nat /\ a + h <= b + h
    OBVIOUS
  <2>8. /\ MainTop + Height \in Nat /\ MainTop' + Height \in Nat
        /\ MainTop + Height <= MainTop' + Height
    BY ONLY <2>5, <2>6, <2>7
  <2> QED  BY ONLY <2>6, <2>8
<1>7. Types'
  <2>1. ServerType'
    BY <1>1, <1>2, <1>4 DEF Types, ServerType
  <2>2. WireType'
    BY <1>1, <1>2 DEF Types, WireType
  <2>3. ClientType'
    BY <1>1, <1>2, <1>5 DEF Types, ClientType
  <2> QED  BY <1>2, <2>1, <2>2, <2>3 DEF Types
<1>8. TurnOK'
  <2>1. per.seqno <= term.seqno + 1 /\ (reading.seqno <= term.seqno => reading.seqno <= term.seqno + 1)
    BY <1>1, SeqnosAre DEF TurnOK
  <2>2. reading.top + Height <= MainRows => reading.top + Height <= MainRows'
    BY <1>1, <1>6, SeqnosAre, Sizes
  <2> QED  BY <1>1, <1>2, <1>4, <2>1, <2>2 DEF TurnOK
<1>9. AwaitOK'
  <2> SUFFICES ASSUME NEW r \in Rows, r \notin past.astray, pane.cache[r].at # 0
               PROVE  Awaited(r, pane.cache[r].at)'
    BY <1>2, <1>5 DEF AwaitOK, Awaited
  <2>1. PICK at : at = pane.cache[r].at
    OBVIOUS
  <2>2. Awaited(r, at)
    BY <1>1, <2>1 DEF AwaitOK
  <2>3. Awaited(r, at)'
    <3>1. CASE \E i \in DOMAIN tasks : tasks[i].kind = "lines" /\ tasks[i].at = at /\ r \in tasks[i].rows
      BY <1>4, <3>1 DEF Awaited
    <3>2. CASE \E reply \in replies :
                  reply.at = at /\ r \in reply.rows /\ (reply.ok => r \in DOMAIN reply.lines)
      <4>1. replies' = replies
        BY <1>2
      <4> QED  BY <3>2, <4>1 DEF Awaited
    <3> QED  BY <2>2, <3>1, <3>2 DEF Awaited
  <2> QED  BY <1>2, <2>1, <2>3 DEF Awaited
<1>10. BonusOK'
  <2> SUFFICES ASSUME NEW r \in DOMAIN reading.bonus
               PROVE  r \in past'.unsaid \/ reading.bonus[r].text = Cur(r)'.text \/ Cur(r)'.seq > reading.seqno
    BY <1>2 DEF BonusOK
  <2>1. r \in past.unsaid \/ reading.bonus[r].text = Cur(r).text \/ Cur(r).seq > reading.seqno
    BY <1>1 DEF BonusOK
  <2>2. r \in DOMAIN term.main /\ reading.step = "send"
    BY <1>1 DEF TurnOK
  <2>3. CASE Cur(r)'.seq = term.seqno + 1
    BY <1>1, <1>2, <2>2, <2>3, NewIsPending
  <2> QED  BY <2>1, <2>2, <2>3 DEF ProgramDoes
<1>11. UnmadeOK'
  <2>1. Made' \in Nat /\ Made <= Made'
    BY <1>1, <1>2, <1>6, MadeIs, SeqnosAre, Sizes DEF Made
  <2>2. \A r \in Rows : r >= Made' => r >= Made
    BY <1>1, <2>1, MadeIs, Sizes
  <2> QED  BY <1>1, <1>2, <2>2 DEF UnmadeOK
<1>12. MovedOK'
  <2>1. PICK i \in DOMAIN tasks' : tasks'[i] = [kind |-> "push"] /\ (tasks # <<>> => i > 1)
    BY <1>4
  <2>2. TurnTo(i)'
    BY <2>1 DEF TurnTo
  <2>3. reading.step # "idle" => i > 1
    BY <1>1, <2>1 DEF TurnOK, AtWork
  <2> QED  BY <1>2, <2>1, <2>2, <2>3 DEF MovedOK, TurnTo
<1>13. SinceOK'
  <2> SUFFICES ASSUME reading.step \in {"dirty", "lines", "send"}
               PROVE  past'.unsaid # {} \/ \E r \in DOMAIN Screen' : Cur(r)'.seq > reading.seqno
    BY <1>2 DEF SinceOK
  <2>1. \A r : Cur(r)'.seq = term.seqno + 1 => Cur(r)'.seq > reading.seqno
    BY <1>1, <1>2, NewIsPending
  <2> QED  BY <2>1 DEF ProgramDoes
<1> QED  BY <1>2, <1>7, <1>8, <1>9, <1>10, <1>11, <1>12, <1>13 DEF Base

LEMMA ProgramInOrder ==
    ASSUME Base, ProgramDoes, InOrder
    PROVE  InOrder'
<1>1. Types /\ SeqBound /\ TurnOK /\ UnmadeOK
  BY DEF Base
<1>2. TermType' /\ UNCHANGED <<per, reading, pushes, replies, hydrating, pane>>
  BY DEF ProgramDoes
<1>3. ClearsBut(<<>>)
  BY <1>1, ProgramClears
<1>4. <<>> \in Seq(Deltas \cup {Palette}) /\ pushes' = pushes \o <<>>
      /\ \A k \in DOMAIN <<>> : \A r \in Rows : \A text \in Texts : Bears(<<>>[k], r, text) => Cleared(r, text)'
  <2>1. pushes \in Seq(Deltas \cup {Palette})
    BY <1>1 DEF Types, WireType
  <2> QED  BY <1>2, <2>1
<1>5. HeldOK' /\ HydratingOK' /\ PushesOK'
  BY <1>1, <1>2, <1>3, <1>4, SendKeeps DEF InOrder
<1>6. TopOK'
  BY <1>2 DEF InOrder, TopOK, TopTold, Newest, NoChanges
<1>7. SeqnoOK'
  <2>1. \A r : Cur(r)'.seq = term.seqno + 1 => Pending(r)'
    BY <1>1, <1>2, NewIsPending
  <2>2. past'.unsaid # {} \/ \E r \in DOMAIN Screen' : Pending(r)'
    BY <2>1 DEF ProgramDoes
  <2> QED  BY <2>2 DEF SeqnoOK, Evidence
<1> QED  BY <1>5, <1>6, <1>7 DEF InOrder

LEMMA ProgramIInv ==
    ASSUME IInv, Program
    PROVE  IInv'
<1>1. Base /\ ProgramDoes
  BY ProgramIs DEF IInv, Base
<1>2. past'.overtaken = past.overtaken
  BY <1>1 DEF ProgramDoes
<1> QED  BY <1>1, <1>2, ProgramBase, ProgramInOrder DEF IInv
-----------------------------------------------------------------------------
(* The session handler reads. *)
ReadsOn ==
    /\ UNCHANGED <<term, per, tasks, pushes, replies, hydrating, pane>>
    /\ reading' \in Readings
    /\ past' \in [overtaken : {past.overtaken}, unsaid : SUBSET Rows,
                  astray : {past.astray}, events : {past.events}]
    /\ past.unsaid \subseteq past'.unsaid
    /\ TurnOK' /\ BonusOK' /\ MovedOK' /\ SinceOK' /\ Made <= Made'
    /\ ClearsBut(<<>>)
    /\ Evidence => Evidence'

LEMMA ReadsOnBase ==
    ASSUME Base, ReadsOn
    PROVE  Base'
<1>1. Types /\ SeqBound /\ TurnOK /\ HiddenOK /\ AwaitOK /\ UnmadeOK
  BY DEF Base
<1>2. UNCHANGED <<term, per, tasks, pushes, replies, hydrating, pane>>
  BY DEF ReadsOn
<1>3. /\ past' \in [overtaken : BOOLEAN, unsaid : SUBSET Rows, astray : SUBSET Rows, events : Nat]
      /\ past'.astray = past.astray /\ past.unsaid \subseteq past'.unsaid
  <2>1. past \in [overtaken : BOOLEAN, unsaid : SUBSET Rows, astray : SUBSET Rows, events : Nat]
    BY <1>1 DEF Types, ClientType
  <2> QED  BY <2>1 DEF ReadsOn
<1>4. Types' /\ SeqBound'
  <2>1. TermType' /\ SeqBound'
    BY <1>1, <1>2 DEF Types, TermType, SeqBound, MainTop, MainRows
  <2>2. ServerType'
    BY <1>1, <1>2 DEF Types, ServerType, ReadsOn
  <2>3. WireType'
    BY <1>1, <1>2 DEF Types, WireType
  <2>4. ClientType'
    BY <1>1, <1>2, <1>3 DEF Types, ClientType
  <2> QED  BY <2>1, <2>2, <2>3, <2>4 DEF Types
<1>5. HiddenOK'
  BY <1>1, <1>2, <1>3 DEF HiddenOK, Cur
<1>6. AwaitOK'
  BY <1>1, <1>2, <1>3 DEF AwaitOK, Awaited
<1>7. UnmadeOK'
  <2>1. Made \in Nat /\ Made' \in Nat /\ Made <= Made'
    <3>1. MainRows' = MainRows
      BY <1>2 DEF MainRows
    <3>2. reading'.top \in Nat
      BY DEF ReadsOn, Readings
    <3> QED  BY <1>1, <3>1, <3>2, MadeIs, Sizes DEF Made, ReadsOn
  <2>2. \A r \in Rows : r >= Made' => r >= Made
    BY <2>1, Sizes
  <2> QED  BY <1>1, <1>2, <2>2 DEF UnmadeOK
<1> QED  BY <1>4, <1>5, <1>6, <1>7 DEF Base, ReadsOn

LEMMA ReadsOnIInv ==
    ASSUME IInv, ReadsOn
    PROVE  IInv'
<1>1. Base /\ Base'
  BY ReadsOnBase DEF IInv
<1>2. past'.overtaken = past.overtaken
  BY DEF ReadsOn
<1>3. UNCHANGED <<term, per, tasks, pushes, replies, hydrating, pane>>
  BY DEF ReadsOn
<1>4. ASSUME InOrder PROVE InOrder'
  <2>1. <<>> \in Seq(Deltas \cup {Palette}) /\ pushes' = pushes \o <<>>
        /\ \A k \in DOMAIN <<>> : \A r \in Rows : \A text \in Texts : Bears(<<>>[k], r, text) => Cleared(r, text)'
    <3>1. pushes \in Seq(Deltas \cup {Palette})
      BY <1>1 DEF Base, Types, WireType
    <3> QED  BY <1>3, <3>1
  <2>2. HeldOK' /\ HydratingOK' /\ PushesOK'
    BY <1>1, <1>3, <1>4, <2>1, SendKeeps DEF InOrder, ReadsOn, Base, Types
  <2>3. TopOK'
    BY <1>3, <1>4 DEF InOrder, TopOK, TopTold, Newest, NoChanges
  <2>4. SeqnoOK'
    BY <1>3, <1>4 DEF InOrder, SeqnoOK, SeqnoTold, Newest, NoChanges, ReadsOn
  <2> QED  BY <2>2, <2>3, <2>4 DEF InOrder
<1> QED  BY <1>1, <1>2, <1>4 DEF IInv

LEMMA PastStays ==
    ASSUME Types, past' = past
    PROVE  /\ past' \in [overtaken : {past.overtaken}, unsaid : SUBSET Rows,
                         astray : {past.astray}, events : {past.events}]
           /\ past.unsaid \subseteq past'.unsaid
  BY DEF Types, ClientType

LEMMA ReadDimensionsIInv ==
    ASSUME IInv, ReadDimensions
    PROVE  IInv'
<1>1. Base /\ Types /\ SeqBound /\ TurnOK /\ MovedOK
  BY DEF IInv, Base
<1>2. /\ reading.step = "idle" /\ AtWork
      /\ reading' = [reading EXCEPT !.step = "cursor", !.top = Top, !.alt = term.alt]
      /\ UNCHANGED <<term, per, tasks, pushes, replies, hydrating, pane, past>>
  BY DEF ReadDimensions
<1>3. reading \in Readings
  BY <1>1 DEF Types, ServerType
<1>4. /\ Top \in 0 .. MaxTop /\ Top = (IF term.alt THEN 0 ELSE MainTop) /\ MainTop \in 0 .. MaxTop
      /\ term.alt \in BOOLEAN /\ MainRows = MainTop + Height
  BY <1>1, Shape DEF Types
<1>5. reading' \in Readings /\ reading'.step = "cursor" /\ reading'.top = Top /\ reading'.alt = term.alt
      /\ reading'.bonus = reading.bonus
  BY <1>2, <1>3, <1>4 DEF Readings, Steps
<1>6. MainRows' = MainRows /\ Top' = Top
  BY <1>2 DEF MainRows, Top, Screen
<1>7. TurnOK'
  BY <1>1, <1>2, <1>4, <1>5, <1>6, Sizes DEF TurnOK, AtWork
<1>8. reading'.bonus = <<>>
  BY <1>1, <1>2, <1>5 DEF TurnOK
<1>9. BonusOK'
  BY <1>8 DEF BonusOK
<1>10. MovedOK' /\ SinceOK'
  BY <1>5, <1>6 DEF MovedOK, SinceOK
<1>11. Made <= Made'
  BY <1>2, <1>4, <1>5, <1>6, Sizes DEF Made
<1>12. \A r : Pending(r) <=> Pending(r)'
  BY <1>2, <1>5 DEF Pending, Cur
<1>13. ClearsBut(<<>>)
  BY <1>2, <1>12 DEF ClearsBut, Cleared, Cur
<1>14. Evidence => Evidence'
  <2>1. DOMAIN Screen' = DOMAIN Screen
    BY <1>2 DEF Screen
  <2> QED  BY <1>2, <1>6, <1>12, <2>1 DEF Evidence
<1> QED  BY <1>1, <1>2, <1>5, <1>7, <1>9, <1>10, <1>11, <1>13, <1>14, PastStays, ReadsOnIInv DEF ReadsOn

LEMMA ReadCursorIInv ==
    ASSUME IInv, ReadCursor
    PROVE  IInv'
<1>1. Base /\ Types /\ SeqBound /\ TurnOK /\ MovedOK
  BY DEF IInv, Base
<1>2. /\ reading.step = "cursor"
      /\ reading' = [reading EXCEPT !.step = "seqno", !.cursor = Cursor]
      /\ UNCHANGED <<term, per, tasks, pushes, replies, hydrating, pane, past>>
  BY DEF ReadCursor
<1>3. reading \in Readings
  BY <1>1 DEF Types, ServerType
<1>4. Cursor \in Rows
  BY <1>1, ShownRows DEF Types
<1>5. reading' \in Readings /\ reading'.step = "seqno" /\ reading'.top = reading.top
      /\ reading'.alt = reading.alt /\ reading'.bonus = reading.bonus
  BY <1>2, <1>3, <1>4 DEF Readings, Steps
<1>6. MainRows' = MainRows /\ Top' = Top
  BY <1>2 DEF MainRows, Top, Screen
<1>7. TurnOK'
  BY <1>1, <1>2, <1>5, <1>6 DEF TurnOK, AtWork
<1>8. reading'.bonus = <<>>
  BY <1>1, <1>2, <1>5 DEF TurnOK
<1>9. BonusOK'
  BY <1>8 DEF BonusOK
<1>10. MovedOK' /\ SinceOK'
  BY <1>1, <1>2, <1>5, <1>6 DEF MovedOK, SinceOK, TurnTo
<1>11. Made <= Made'
  <2>1. Made' = Made
    BY <1>2, <1>5, <1>6 DEF Made
  <2> QED  BY <1>1, <2>1, MadeIs
<1>12. \A r : Pending(r) <=> Pending(r)'
  BY <1>2, <1>5 DEF Pending, Cur
<1>13. ClearsBut(<<>>)
  BY <1>2, <1>12 DEF ClearsBut, Cleared, Cur
<1>14. Evidence => Evidence'
  <2>1. DOMAIN Screen' = DOMAIN Screen
    BY <1>2 DEF Screen
  <2> QED  BY <1>2, <1>6, <1>12, <2>1 DEF Evidence
<1> QED  BY <1>1, <1>2, <1>5, <1>7, <1>9, <1>10, <1>11, <1>13, <1>14, PastStays, ReadsOnIInv DEF ReadsOn

LEMMA ReadSeqnoIInv ==
    ASSUME IInv, ReadSeqno
    PROVE  IInv'
<1> DEFINE late == {r \in DOMAIN Screen : /\ reading.alt /\ r >= reading.top + Height
                                          /\ Screen[r].seq > per.seqno}
           all == past.unsaid \cup late
<1>1. Base /\ Types /\ SeqBound /\ TurnOK /\ MovedOK /\ HiddenOK
  BY DEF IInv, Base
<1>2. /\ reading.step = "seqno"
      /\ reading' = [reading EXCEPT !.step = "dirty", !.seqno = term.seqno]
      /\ past' = [past EXCEPT !.unsaid = all]
      /\ UNCHANGED <<term, per, tasks, pushes, replies, hydrating, pane>>
  BY DEF ReadSeqno
<1>3. reading \in Readings /\ TermType /\ ClientType
  BY <1>1 DEF Types, ServerType
<1>4. term.seqno \in Nat /\ 1 <= term.seqno /\ per.seqno \in Nat /\ reading.top \in Nat
  BY <1>1, <1>3, SeqnosAre DEF TermType
<1>5. reading' \in Readings /\ reading'.step = "dirty" /\ reading'.top = reading.top
      /\ reading'.alt = reading.alt /\ reading'.bonus = reading.bonus /\ reading'.seqno = term.seqno
  BY <1>2, <1>3, <1>4 DEF Readings, Steps
<1>6. MainRows' = MainRows /\ Top' = Top /\ DOMAIN Screen' = DOMAIN Screen
  BY <1>2 DEF MainRows, Top, Screen
<1>7. TurnOK'
  BY <1>1, <1>2, <1>4, <1>5, <1>6 DEF TurnOK, AtWork
<1>8. reading'.bonus = <<>>
  BY <1>1, <1>2, <1>5 DEF TurnOK
<1>9. BonusOK'
  BY <1>8 DEF BonusOK
<1>10. MovedOK' /\ SinceOK'
  BY <1>1, <1>2, <1>4, <1>5, <1>6 DEF MovedOK, SinceOK, TurnTo
<1>11. Made <= Made'
  <2>1. Made' = Made
    BY <1>2, <1>5, <1>6 DEF Made
  <2> QED  BY <1>1, <2>1, MadeIs
<1>12. /\ past' \in [overtaken : {past.overtaken}, unsaid : SUBSET Rows,
                     astray : {past.astray}, events : {past.events}]
       /\ past'.unsaid = all
  <2>1. all \in SUBSET Rows
    BY <1>3, ShownRows DEF ClientType
  <2> HIDE DEF all
  <2> QED  BY <1>2, <1>3, <2>1, PastIs DEF ClientType
<1>13. \A r : Cur(r)' = Cur(r)
  BY <1>2 DEF Cur
<1>14. ASSUME NEW r \in DOMAIN term.main, Pending(r) PROVE Pending(r)' \/ r >= reading.top + Height
  <2>1. Cur(r).seq > per.seqno
    BY <1>2, <1>14 DEF Pending
  <2>2. r \in Nat
    BY <1>3, ShownRows, Sizes
  <2> QED  BY <1>2, <1>4, <1>5, <1>13, <2>1, <2>2, Sizes DEF Pending
<1>15. ClearsBut(<<>>)
  <2> SUFFICES ASSUME NEW r \in Rows, r < Made, NEW text \in Texts, Cleared(r, text)
               PROVE  Cleared(r, text)'
    BY DEF ClearsBut
  <2>1. r \in DOMAIN term.main
    BY <1>1, MadeIs
  <2>2. CASE r \in past.unsaid \/ text = Cur(r).text
    BY <1>12, <1>13, <2>2 DEF Cleared
  <2>3. CASE Pending(r) /\ r >= reading.top + Height
    <3>1. reading.alt
      BY <1>1, <1>2, <1>4, <2>3, Sizes DEF Made
    <3>2. Cur(r).seq > per.seqno
      BY <1>2, <2>3 DEF Pending
    <3>3. CASE r \in DOMAIN Screen
      <4>1. r \in late
        BY <1>3, <2>3, <3>1, <3>2, <3>3, ShownRows
      <4> QED  BY <1>12, <4>1 DEF Cleared
    <3>4. CASE r \notin DOMAIN Screen
      <4>1. term.alt /\ r >= Height
        BY <1>3, <2>1, <3>4, ShownRows
      <4>2. Cur(r).seq \in Nat
        BY <1>1, <2>1, SeqnosAre
      <4>3. r \in past.unsaid
        BY <1>1, <1>4, <2>1, <3>2, <4>1, <4>2 DEF HiddenOK
      <4> QED  BY <1>12, <4>3 DEF Cleared
    <3> QED  BY <3>3, <3>4
  <2>4. CASE Pending(r) /\ ~(r >= reading.top + Height)
    BY <1>14, <2>1, <2>4 DEF Cleared
  <2> QED  BY <2>2, <2>3, <2>4 DEF Cleared
<1>16. Evidence => Evidence'
  <2>1. CASE past.unsaid # {} \/ per.seqno = 0 \/ per.top # Top
    BY <1>2, <1>6, <1>12, <2>1 DEF Evidence
  <2>2. ASSUME NEW r \in DOMAIN Screen, Pending(r) PROVE Evidence'
    <3>1. r \in DOMAIN term.main /\ Screen[r] = Cur(r) /\ r \in Nat
      BY <1>3, ShownRows, Sizes
    <3>2. CASE Pending(r)'
      BY <1>6, <3>2 DEF Evidence
    <3>3. CASE r >= reading.top + Height
      <4>1. CASE reading.alt
        <5>1. r \in late
          BY <1>2, <2>2, <3>1, <3>3, <4>1 DEF Pending
        <5> QED  BY <1>12, <5>1 DEF Evidence
      <4>2. CASE ~reading.alt
        <5>1. r < Top + Height /\ Top \in Nat
          BY <1>3, Shape, Sizes
        <5>2. reading.top # Top
          BY <1>4, <3>1, <3>3, <5>1, Sizes
        <5> QED  BY <1>5, <1>6, <5>2 DEF Evidence
      <4> QED  BY <4>1, <4>2
    <3> QED  BY <1>14, <2>2, <3>1, <3>2, <3>3
  <2> QED  BY <1>2, <2>1, <2>2 DEF Evidence
<1> HIDE DEF late
<1> QED  BY <1>1, <1>2, <1>5, <1>7, <1>9, <1>10, <1>11, <1>12, <1>15, <1>16, ReadsOnIInv DEF ReadsOn

LEMMA ReadDirtyIInv ==
    ASSUME IInv, ReadDirty
    PROVE  IInv'
<1> DEFINE found == StableRange(0, reading.top + Height - 1)
           dirty == {r \in found : Screen[r].seq > per.seqno}
<1>1. Base /\ Types /\ SeqBound /\ TurnOK /\ MovedOK /\ HiddenOK /\ SinceOK
  BY DEF IInv, Base
<1>2. /\ reading.step = "dirty"
      /\ reading' = [reading EXCEPT !.step = "lines", !.dirty = dirty]
      /\ UNCHANGED <<term, per, tasks, pushes, replies, hydrating, pane, past>>
  BY DEF ReadDirty
<1>3. reading \in Readings /\ TermType /\ ClientType
  BY <1>1 DEF Types, ServerType
<1>4. per.seqno \in Nat /\ reading.top \in Nat /\ reading.seqno \in Nat
  BY <1>1, SeqnosAre
<1>5. /\ found \subseteq DOMAIN Screen
      /\ \A r \in DOMAIN Screen : r <= reading.top + Height - 1 => r \in found
  <2>1. reading.top + Height - 1 \in Nat /\ 0 \in Nat
    BY <1>4, Sizes
  <2> QED  BY <1>3, <2>1, RangeIs
<1>6. dirty \in SUBSET Rows
  BY <1>3, <1>5, ShownRows
<1>7. ASSUME NEW r \in DOMAIN Screen, r < reading.top + Height, Cur(r).seq > per.seqno PROVE r \in dirty
  <2>1. r \in Nat /\ Screen[r] = Cur(r)
    BY <1>3, ShownRows, Sizes
  <2>2. r <= reading.top + Height - 1
    BY <1>4, <1>7, <2>1, Sizes
  <2> QED  BY <1>5, <1>7, <2>1, <2>2
<1> HIDE DEF dirty, found
<1>8. reading' \in Readings /\ reading'.step = "lines" /\ reading'.top = reading.top
      /\ reading'.alt = reading.alt /\ reading'.bonus = reading.bonus /\ reading'.seqno = reading.seqno
      /\ reading'.dirty = dirty
  BY <1>2, <1>3, <1>6 DEF Readings, Steps
<1>9. MainRows' = MainRows /\ Top' = Top /\ DOMAIN Screen' = DOMAIN Screen /\ \A r : Cur(r)' = Cur(r)
  BY <1>2 DEF MainRows, Top, Screen, Cur
<1>10. TurnOK'
  <2>1. per.seqno = 0 => dirty # {}
    <3>1. 0 \in DOMAIN Screen /\ Cur(0) \in Lines
      BY <1>3, ShownRows
    <3>2. Cur(0).seq > 0
      BY <3>1, Sizes DEF Lines
    <3>3. 0 < reading.top + Height
      BY <1>4, Sizes
    <3> QED  BY <1>7, <3>1, <3>2, <3>3
  <2> QED  BY <1>1, <1>2, <1>8, <1>9, <2>1 DEF TurnOK, AtWork
<1>11. reading'.bonus = <<>>
  BY <1>1, <1>2, <1>8 DEF TurnOK
<1>12. BonusOK'
  BY <1>11 DEF BonusOK
<1>13. MovedOK' /\ SinceOK'
  BY <1>1, <1>2, <1>8, <1>9 DEF MovedOK, SinceOK, TurnTo
<1>14. Made <= Made'
  <2>1. Made' = Made
    BY <1>2, <1>8, <1>9 DEF Made
  <2> QED  BY <1>1, <2>1, MadeIs
<1>15. ASSUME NEW r \in DOMAIN Screen, Pending(r) PROVE Pending(r)'
  <2>1. Cur(r).seq > per.seqno /\ (r < reading.top + Height \/ Cur(r).seq > reading.seqno)
    BY <1>2, <1>15 DEF Pending
  <2>2. r \in dirty \/ Cur(r).seq > reading.seqno
    BY <1>7, <2>1
  <2> QED  BY <1>8, <1>9, <2>2 DEF Pending
<1>16. ClearsBut(<<>>)
  <2> SUFFICES ASSUME NEW r \in Rows, r < Made, NEW text \in Texts, Cleared(r, text)
               PROVE  Cleared(r, text)'
    BY DEF ClearsBut
  <2>1. r \in DOMAIN term.main
    BY <1>1, MadeIs
  <2>2. CASE r \in past.unsaid \/ text = Cur(r).text
    BY <1>2, <1>9, <2>2 DEF Cleared
  <2>3. CASE Pending(r) /\ r \in DOMAIN Screen
    BY <1>15, <2>3 DEF Cleared
  <2>4. CASE Pending(r) /\ r \notin DOMAIN Screen
    <3>1. term.alt /\ r >= Height
      BY <1>3, <2>1, <2>4, ShownRows
    <3>2. Cur(r).seq \in Nat /\ Cur(r).seq > per.seqno
      BY <1>1, <1>2, <2>1, <2>4, SeqnosAre DEF Pending
    <3>3. r \in past.unsaid
      BY <1>1, <1>4, <2>1, <3>1, <3>2 DEF HiddenOK
    <3> QED  BY <1>2, <3>3 DEF Cleared
  <2> QED  BY <2>2, <2>3, <2>4 DEF Cleared
<1>17. Evidence => Evidence'
  BY <1>2, <1>8, <1>9, <1>15 DEF Evidence
<1> QED  BY <1>1, <1>2, <1>8, <1>10, <1>12, <1>13, <1>14, <1>16, <1>17, PastStays, ReadsOnIInv DEF ReadsOn

(* Lines that are read are those that are there. *)
LEMMA LinesAre ==
    ASSUME TermType, NEW first \in Nat, NEW last \in Nat
    PROVE  /\ GetLines(first, last) \in LineMaps
           /\ DOMAIN GetLines(first, last) = StableRange(first, last)
           /\ \A r \in StableRange(first, last) :
                 GetLines(first, last)[r] = Cur(r) /\ r \in DOMAIN Screen
<1> DEFINE s == StableRange(first, last)
           g == GetLines(first, last)
<1>1. s \subseteq DOMAIN Screen
  BY RangeIs
<1>2. /\ DOMAIN Screen \subseteq DOMAIN term.main /\ DOMAIN term.main \subseteq Rows
      /\ \A r \in DOMAIN Screen : Screen[r] = Cur(r)
      /\ \A r \in DOMAIN term.main : Cur(r) \in Lines
  BY ShownRows
<1>3. g = [r \in s |-> Screen[r]]
  BY DEF GetLines
<1> HIDE DEF s, g
<1>4. \A r \in s : g[r] = Cur(r) /\ r \in DOMAIN Screen /\ Cur(r) \in Lines
  BY <1>1, <1>2, <1>3
<1>5. g \in [s -> Lines] /\ s \in SUBSET Rows
  BY <1>1, <1>2, <1>3, <1>4
<1>6. g \in LineMaps
  BY <1>5 DEF LineMaps
<1> QED  BY <1>3, <1>4, <1>6 DEF s, g

LEMMA ReadViewportIInv ==
    ASSUME IInv, ReadViewport
    PROVE  IInv'
<1> DEFINE lines == GetLines(reading.top, reading.top + Height - 1)
           sent == DOMAIN lines \cap reading.dirty
           bonus == [r \in sent |-> lines[r]]
<1>1. Base /\ Types /\ SeqBound /\ TurnOK /\ MovedOK /\ HiddenOK /\ SinceOK
  BY DEF IInv, Base
<1>2. /\ reading.step = "lines"
      /\ reading' = [reading EXCEPT !.step = "send", !.dirty = reading.dirty \ sent, !.bonus = bonus]
      /\ UNCHANGED <<term, per, tasks, pushes, replies, hydrating, pane, past>>
  BY DEF ReadViewport
<1>3. reading \in Readings /\ TermType /\ ClientType
  BY <1>1 DEF Types, ServerType
<1>4. per.seqno \in Nat /\ reading.top \in Nat /\ reading.seqno \in Nat /\ reading.dirty \in SUBSET Rows
  BY <1>1, <1>3, SeqnosAre DEF Readings
<1>5. \A r \in DOMAIN lines : lines[r] = Cur(r) /\ r \in DOMAIN Screen
  <2>1. reading.top + Height - 1 \in Nat
    BY <1>4, Sizes
  <2> QED  BY <1>3, <1>4, <2>1, LinesAre
<1> HIDE DEF lines
<1>6. /\ DOMAIN bonus = sent /\ sent \in SUBSET Rows
      /\ \A r \in sent : bonus[r] = Cur(r) /\ r \in DOMAIN Screen /\ r \in reading.dirty
                         /\ r \in DOMAIN term.main /\ Cur(r) \in Lines
  BY <1>3, <1>4, <1>5, ShownRows
<1>7. bonus \in LineMaps
  <2>1. bonus \in [sent -> Lines]
    BY <1>6
  <2> HIDE DEF bonus, sent
  <2> QED  BY <1>6, <2>1 DEF LineMaps
<1> HIDE DEF bonus, sent
<1>8. reading' \in Readings /\ reading'.step = "send" /\ reading'.top = reading.top
      /\ reading'.alt = reading.alt /\ reading'.bonus = bonus /\ reading'.seqno = reading.seqno
      /\ reading'.dirty = reading.dirty \ sent
  <2>1. reading.dirty \ sent \in SUBSET Rows
    BY <1>4
  <2> QED  BY <1>2, <1>3, <1>7, <2>1 DEF Readings, Steps
<1>9. MainRows' = MainRows /\ Top' = Top /\ DOMAIN Screen' = DOMAIN Screen /\ \A r : Cur(r)' = Cur(r)
  BY <1>2 DEF MainRows, Top, Screen, Cur
<1>10. TurnOK'
  <2>1. DOMAIN bonus \subseteq DOMAIN term.main
    BY <1>6
  <2> QED  BY <1>1, <1>2, <1>8, <1>9, <2>1 DEF TurnOK, AtWork
<1>11. BonusOK'
  BY <1>6, <1>8, <1>9 DEF BonusOK
<1>12. MovedOK' /\ SinceOK'
  BY <1>1, <1>2, <1>8, <1>9 DEF MovedOK, SinceOK, TurnTo
<1>13. Made <= Made'
  <2>1. Made' = Made
    BY <1>2, <1>8, <1>9 DEF Made
  <2> QED  BY <1>1, <2>1, MadeIs
<1>14. ASSUME NEW r, Pending(r) PROVE Pending(r)'
  <2>1. Cur(r).seq > reading.seqno \/ r \in reading.dirty
    BY <1>2, <1>14 DEF Pending
  <2>2. Cur(r).seq > reading.seqno \/ r \in reading.dirty \ sent \/ r \in DOMAIN bonus
    BY <1>6, <2>1
  <2> QED  BY <1>8, <1>9, <2>2 DEF Pending
<1>15. ClearsBut(<<>>)
  BY <1>2, <1>9, <1>14 DEF ClearsBut, Cleared
<1>16. Evidence => Evidence'
  BY <1>2, <1>8, <1>9, <1>14 DEF Evidence
<1> QED  BY <1>1, <1>2, <1>8, <1>10, <1>11, <1>12, <1>13, <1>15, <1>16, PastStays, ReadsOnIInv DEF ReadsOn
-----------------------------------------------------------------------------
(* The session handler sends. *)
LEMMA TailIs ==
    ASSUME NEW T, NEW s \in Seq(T), s # <<>>
    PROVE  /\ Tail(s) \in Seq(T) /\ Head(s) = s[1] /\ Head(s) \in T /\ 1 \in DOMAIN s
           /\ \A i \in DOMAIN Tail(s) : i + 1 \in DOMAIN s /\ Tail(s)[i] = s[i + 1]
           /\ \A i \in DOMAIN s : i > 1 => i - 1 \in DOMAIN Tail(s) /\ Tail(s)[i - 1] = s[i]
           /\ DOMAIN s \subseteq Nat \ {0} /\ DOMAIN Tail(s) \subseteq Nat \ {0}
<1> DEFINE t == Tail(s)
           n == Len(s)
<1>1. /\ n \in Nat /\ n >= 1 /\ DOMAIN s = 1 .. n /\ Head(s) = s[1] /\ \A i \in 1 .. n : s[i] \in T
      /\ t \in Seq(T) /\ Len(t) = n - 1 /\ DOMAIN t = 1 .. n - 1
      /\ \A i \in 1 .. n - 1 : t[i] = s[i + 1]
  OBVIOUS
<1> HIDE DEF t, n
<1>2. \A i \in DOMAIN t : i + 1 \in DOMAIN s /\ t[i] = s[i + 1]
  BY <1>1
<1>3. ASSUME NEW i \in DOMAIN s, i > 1 PROVE i - 1 \in DOMAIN t /\ t[i - 1] = s[i]
  <2>1. i - 1 \in 1 .. n - 1 /\ (i - 1) + 1 = i
    BY <1>1, <1>3
  <2> QED  BY <1>1, <2>1
<1> QED  BY <1>1, <1>2, <1>3 DEF t

LEMMA SentIs ==
    ASSUME NEW changes \in Seq(Deltas), pushes \in Seq(Deltas \cup {Palette}), NEW b \in BOOLEAN
    PROVE  LET new == changes \o (IF b THEN <<Palette>> ELSE <<>>)
           IN /\ new \in Seq(Deltas \cup {Palette})
              /\ pushes \o changes \o (IF b THEN <<Palette>> ELSE <<>>) = pushes \o new
              /\ \A c \in DOMAIN changes : c \in DOMAIN new /\ new[c] = changes[c]
              /\ \A k \in DOMAIN new : \/ k \in DOMAIN changes /\ new[k] = changes[k]
                                      \/ new[k] = Palette
<1> DEFINE T == Deltas \cup {Palette}
           alerts == IF b THEN <<Palette>> ELSE <<>>
           new == changes \o alerts
<1>1. changes \in Seq(T)
  OBVIOUS
<1>2. alerts \in Seq(T) /\ \A k \in DOMAIN alerts : alerts[k] = Palette
  <2>1. CASE b
    <3>1. alerts = <<Palette>> /\ Palette \in T
      BY <2>1
    <3>2. <<Palette>> \in Seq(T) /\ \A k \in DOMAIN <<Palette>> : <<Palette>>[k] = Palette
      BY <3>1
    <3> QED  BY <3>1, <3>2
  <2>2. CASE ~b
    <3>1. alerts = <<>>
      BY <2>2
    <3>2. <<>> \in Seq(T) /\ \A k \in DOMAIN <<>> : <<>>[k] = Palette
      OBVIOUS
    <3> HIDE DEF T, alerts
    <3> QED  BY <3>1, <3>2
  <2> QED  BY <2>1, <2>2
<1> HIDE DEF T, alerts
<1>3. /\ new \in Seq(T)
      /\ \A c \in DOMAIN changes : c \in DOMAIN new /\ new[c] = changes[c]
      /\ \A k \in DOMAIN alerts : new[Len(changes) + k] = alerts[k]
      /\ \A i \in DOMAIN new : i \in DOMAIN changes \/ \E k \in DOMAIN alerts : i = Len(changes) + k
  BY <1>1, <1>2, ConcatIs
<1>4. pushes \o changes \o alerts = pushes \o new
  BY <1>1, <1>2, ConcatAssociative DEF T
<1>5. \A k \in DOMAIN new : \/ k \in DOMAIN changes /\ new[k] = changes[k]
                           \/ new[k] = Palette
  BY <1>2, <1>3
<1> QED  BY <1>3, <1>4, <1>5 DEF T, alerts

(* What the server keeps of a turn, and that it has no more to do for it.  *)
Sends(new) ==
    /\ reading.step \in {"lines", "send"}
    /\ new \in Seq(Deltas \cup {Palette})
    /\ pushes' = pushes \o new
    /\ per' \in SentType /\ per'.seqno = reading.seqno /\ per'.top = reading.top
    /\ tasks' = Tail(tasks) /\ reading' = Idle
    /\ UNCHANGED <<term, replies, hydrating, pane, past>>
    /\ \A k \in DOMAIN new : \A r \in Rows :
          /\ \A text : Bears(new[k], r, text) => r \in past.unsaid \/ text = Cur(r).text
                                                   \/ Cur(r).seq > reading.seqno
          /\ new[k].kind = "changes" /\ r \in DOMAIN new[k].bonus => r \in DOMAIN term.main
    /\ \A r : Pending(r) => Cur(r).seq > reading.seqno \/ \E k \in DOMAIN new : Mentions(new[k], r)

LEMMA SendsBase ==
    ASSUME Base, NEW new, Sends(new)
    PROVE  Base' /\ Made' = MainRows
<1>1. Types /\ SeqBound /\ TurnOK /\ HiddenOK /\ AwaitOK /\ BonusOK /\ UnmadeOK /\ MovedOK /\ SinceOK
  BY DEF Base
<1>2. /\ UNCHANGED <<term, replies, hydrating, pane, past>>
      /\ tasks' = Tail(tasks) /\ reading' = Idle /\ pushes' = pushes \o new
      /\ per' \in SentType /\ per'.seqno = reading.seqno /\ per'.top = reading.top
      /\ new \in Seq(Deltas \cup {Palette}) /\ reading.step \in {"lines", "send"}
  BY DEF Sends
<1>3. /\ pushes \in Seq(Deltas \cup {Palette}) /\ tasks \in Seq(Turns \cup Asks)
      /\ tasks # <<>> /\ Head(tasks).kind \in {"push", "poll"}
  BY <1>1, <1>2 DEF Types, ServerType, WireType, TurnOK, AtWork
<1>4. /\ tasks' \in Seq(Turns \cup Asks)
      /\ \A i \in DOMAIN tasks : i > 1 => i - 1 \in DOMAIN tasks' /\ tasks'[i - 1] = tasks[i]
      /\ \A i \in DOMAIN tasks : tasks[i].kind = "lines" => i > 1
  <2>1. /\ Tail(tasks) \in Seq(Turns \cup Asks) /\ Head(tasks) = tasks[1] /\ 1 \in DOMAIN tasks
        /\ \A i \in DOMAIN tasks : i > 1 => i - 1 \in DOMAIN Tail(tasks) /\ Tail(tasks)[i - 1] = tasks[i]
        /\ DOMAIN tasks \subseteq Nat \ {0}
    BY <1>3, TailIs
  <2>2. tasks[1].kind # "lines"
    BY <1>3, <2>1
  <2>3. \A i \in DOMAIN tasks : i > 1 \/ i = 1
    BY <2>1
  <2> QED  BY <1>2, <2>1, <2>2, <2>3
<1>5. /\ pushes' \in Seq(Deltas \cup {Palette})
      /\ \A i \in DOMAIN pushes' : \/ i \in DOMAIN pushes /\ pushes'[i] = pushes[i]
                                  \/ \E k \in DOMAIN new : pushes'[i] = new[k]
  BY <1>2, <1>3, ConcatIs
<1>6. /\ reading'.step = "idle" /\ reading'.bonus = <<>> /\ reading' \in Readings
  <2>1. /\ 0 \in Rows /\ 0 \in 0 .. MaxTop /\ 0 \in Nat
    BY Sizes
  <2>2. <<>> \in LineMaps
    <3>1. <<>> \in [{} -> Lines] /\ {} \in SUBSET Rows
      OBVIOUS
    <3> QED  BY <3>1 DEF LineMaps
  <2>3. Idle \in Readings
    BY <2>1, <2>2 DEF Idle, Readings, Steps
  <2> QED  BY <1>2, <2>3 DEF Idle
<1>7. Types' /\ SeqBound'
  <2>1. TermType' /\ SeqBound'
    BY <1>1, <1>2 DEF Types, TermType, SeqBound, MainTop, MainRows
  <2>2. ServerType'
    BY <1>2, <1>4, <1>6 DEF ServerType
  <2>3. WireType'
    BY <1>1, <1>2, <1>5 DEF Types, WireType
  <2>4. ClientType'
    BY <1>1, <1>2 DEF Types, ClientType
  <2> QED  BY <2>1, <2>2, <2>3, <2>4 DEF Types
<1>8. MainRows' = MainRows /\ Top' = Top /\ \A r : Cur(r)' = Cur(r)
  BY <1>2 DEF MainRows, Top, Screen, Cur
<1>9. per.seqno <= reading.seqno /\ reading.seqno <= term.seqno
  BY <1>1, <1>2 DEF TurnOK
<1>10. TurnOK'
  BY <1>2, <1>6, <1>9 DEF TurnOK
<1>11. HiddenOK'
  <2> SUFFICES ASSUME term.alt, NEW r \in DOMAIN term.main, r \notin past.unsaid, r >= Height
               PROVE  Cur(r).seq <= reading.seqno
    BY <1>2, <1>8 DEF HiddenOK
  <2>1. Cur(r).seq <= per.seqno
    BY <1>1 DEF HiddenOK
  <2> QED  BY <1>1, <1>9, <2>1, SeqnosAre
<1>12. AwaitOK'
  <2> SUFFICES ASSUME NEW r \in Rows, r \notin past.astray, pane.cache[r].at # 0
               PROVE  Awaited(r, pane.cache[r].at)'
    BY <1>2 DEF AwaitOK, Awaited
  <2>1. PICK at : at = pane.cache[r].at
    OBVIOUS
  <2>2. Awaited(r, at)
    BY <1>1, <2>1 DEF AwaitOK
  <2>3. Awaited(r, at)'
    <3>1. CASE \E i \in DOMAIN tasks : tasks[i].kind = "lines" /\ tasks[i].at = at /\ r \in tasks[i].rows
      BY <1>4, <3>1 DEF Awaited
    <3>2. CASE \E reply \in replies :
                  reply.at = at /\ r \in reply.rows /\ (reply.ok => r \in DOMAIN reply.lines)
      <4>1. replies' = replies
        BY <1>2
      <4> QED  BY <3>2, <4>1 DEF Awaited
    <3> QED  BY <2>2, <3>1, <3>2 DEF Awaited
  <2> QED  BY <1>2, <2>1, <2>3 DEF Awaited
<1>13. BonusOK'
  BY <1>6 DEF BonusOK
<1>14. Made' = MainRows
  BY <1>6, <1>8 DEF Made
<1>15. UnmadeOK'
  <2> SUFFICES ASSUME NEW r \in Rows, r >= MainRows
               PROVE  /\ pane.cache[r].kind \in {"none", "fetching"}
                      /\ \A reply \in replies : r \notin DOMAIN reply.lines
                      /\ \A i \in DOMAIN pushes' : pushes'[i].kind = "changes" => r \notin DOMAIN pushes'[i].bonus
                      /\ hydrating # <<>> => r \notin DOMAIN hydrating[1].bonus
    BY <1>2, <1>14 DEF UnmadeOK
  <2>1. r >= Made
    BY <1>1, MadeIs, Sizes
  <2>2. r \notin DOMAIN term.main
    BY <1>1, MadeIs, Sizes
  <2>3. \A k \in DOMAIN new : new[k].kind = "changes" => r \notin DOMAIN new[k].bonus
    BY <2>2 DEF Sends
  <2>4. \A i \in DOMAIN pushes' : pushes'[i].kind = "changes" => r \notin DOMAIN pushes'[i].bonus
    BY <1>1, <1>5, <2>1, <2>3 DEF UnmadeOK
  <2> QED  BY <1>1, <2>1, <2>4 DEF UnmadeOK
<1>16. MovedOK'
  <2>1. reading.top = Top \/ \E i \in DOMAIN tasks : i > 1 /\ TurnTo(i)
    BY <1>1, <1>2 DEF MovedOK
  <2>2. ASSUME NEW i \in DOMAIN tasks, i > 1, TurnTo(i) PROVE \E j \in DOMAIN tasks' : TurnTo(j)'
    <3>1. PICK j : j = i - 1
      OBVIOUS
    <3> QED  BY <1>4, <2>2, <3>1 DEF TurnTo
  <2> QED  BY <1>2, <1>6, <1>8, <2>1, <2>2 DEF MovedOK
<1>17. SinceOK'
  BY <1>6 DEF SinceOK
<1> QED  BY <1>7, <1>10, <1>11, <1>12, <1>13, <1>14, <1>15, <1>16, <1>17 DEF Base

LEMMA SendsInOrder ==
    ASSUME Base, NEW new, Sends(new), InOrder
    PROVE  HeldOK' /\ HydratingOK' /\ PushesOK'
<1>1. Types /\ SeqBound /\ TurnOK /\ UnmadeOK /\ BonusOK
  BY DEF Base
<1>2. /\ UNCHANGED <<term, replies, hydrating, pane, past>>
      /\ reading' = Idle /\ per'.seqno = reading.seqno
      /\ pushes' = pushes \o new /\ new \in Seq(Deltas \cup {Palette})
  BY DEF Sends
<1>3. \A r : Cur(r)' = Cur(r)
  BY <1>2 DEF Cur
<1>4. \A r : Cur(r).seq > reading.seqno => Pending(r)'
  BY <1>2, <1>3 DEF Pending, Idle
<1>5. ClearsBut(new)
  BY <1>2, <1>3, <1>4 DEF ClearsBut, Cleared, Sends
<1>6. ASSUME NEW k \in DOMAIN new, NEW r \in Rows, NEW text \in Texts, Bears(new[k], r, text)
      PROVE  Cleared(r, text)'
  BY <1>2, <1>3, <1>4, <1>6 DEF Cleared, Sends
<1>7. TermType'
  BY SendsBase DEF Base, Types
<1> QED  BY <1>1, <1>2, <1>5, <1>6, <1>7, SendKeeps DEF InOrder

(* What there is more after the turn shows. *)
LEMMA SinceIsEvident ==
    ASSUME Base, NEW new, Sends(new), reading.seqno # term.seqno
    PROVE  Evidence'
<1>1. Types /\ SeqBound /\ TurnOK /\ SinceOK
  BY DEF Base
<1>2. /\ UNCHANGED <<term, replies, hydrating, pane, past>>
      /\ reading' = Idle /\ per'.seqno = reading.seqno /\ per'.top = reading.top
      /\ reading.step \in {"lines", "send"}
  BY DEF Sends
<1>3. reading.seqno < term.seqno
  BY <1>1, <1>2, SeqnosAre DEF TurnOK
<1>4. Top' = Top /\ DOMAIN Screen' = DOMAIN Screen /\ \A r : Cur(r)' = Cur(r)
  BY <1>2 DEF Top, Screen, Cur
<1>5. \A r : Cur(r).seq > reading.seqno => Pending(r)'
  BY <1>2, <1>4 DEF Pending, Idle
<1> QED  BY <1>1, <1>2, <1>3, <1>4, <1>5 DEF SinceOK, Evidence

(* Alerts tell nothing of the pane's state. *)
LEMMA ToldStays ==
    ASSUME NEW new \in Seq(Deltas \cup {Palette}), pushes \in Seq(Deltas \cup {Palette}),
           pushes' = pushes \o new, UNCHANGED <<hydrating, pane>>,
           \A k \in DOMAIN new : new[k].kind # "changes"
    PROVE  \A n : (TopTold(n) => TopTold(n)') /\ (SeqnoTold(n) => SeqnoTold(n)')
<1>1. /\ \A i \in DOMAIN pushes : i \in DOMAIN pushes' /\ pushes'[i] = pushes[i]
      /\ \A i \in DOMAIN pushes' : i \in DOMAIN pushes \/ \E k \in DOMAIN new : pushes'[i] = new[k]
  BY ConcatIs
<1>2. \A i \in DOMAIN pushes' : pushes'[i].kind = "changes" => i \in DOMAIN pushes /\ pushes'[i] = pushes[i]
  BY <1>1
<1>3. \A i \in DOMAIN pushes' : Newest(i)' => i \in DOMAIN pushes /\ Newest(i) /\ pushes'[i] = pushes[i]
  BY <1>1, <1>2 DEF Newest
<1>4. NoChanges' => NoChanges
  BY <1>1 DEF NoChanges
<1> QED  BY <1>3, <1>4 DEF TopTold, SeqnoTold

(* A push tells the pane's state as it was read. *)
LEMMA ToldNow ==
    ASSUME NEW new \in Seq(Deltas \cup {Palette}), pushes \in Seq(Deltas \cup {Palette}),
           pushes' = pushes \o new, 1 \in DOMAIN new, new[1].kind = "changes",
           \A k \in DOMAIN new : k = 1 \/ new[k].kind # "changes"
    PROVE  \A n : (new[1].top = n => TopTold(n)') /\ (new[1].seqno = n => SeqnoTold(n)')
<1>1. /\ \A i \in DOMAIN pushes : i \in DOMAIN pushes' /\ pushes'[i] = pushes[i] /\ i < Len(pushes) + 1
      /\ Len(pushes) + 1 \in DOMAIN pushes' /\ pushes'[Len(pushes) + 1] = new[1]
      /\ \A i \in DOMAIN pushes' : i \in DOMAIN pushes \/ \E k \in DOMAIN new : i = Len(pushes) + k /\ pushes'[i] = new[k]
  <2>1. /\ DOMAIN pushes = 1 .. Len(pushes) /\ Len(pushes) \in Nat
        /\ \A i \in DOMAIN pushes : i \in DOMAIN pushes' /\ pushes'[i] = pushes[i]
        /\ \A k \in DOMAIN new : Len(pushes) + k \in DOMAIN pushes' /\ pushes'[Len(pushes) + k] = new[k]
        /\ \A i \in DOMAIN pushes' : i \in DOMAIN pushes \/ \E k \in DOMAIN new : i = Len(pushes) + k
    BY ConcatIs
  <2> QED  BY <2>1
<1>2. ASSUME NEW i \in DOMAIN pushes', Newest(i)' PROVE pushes'[i] = new[1]
  <2>1. i \notin DOMAIN pushes
    BY <1>1, <1>2 DEF Newest
  <2> QED  BY <1>1, <1>2, <2>1 DEF Newest
<1>3. ~NoChanges'
  BY <1>1 DEF NoChanges
<1> QED  BY <1>2, <1>3 DEF TopTold, SeqnoTold, Newest

LEMMA SendNothingIInv ==
    ASSUME IInv, SendNothing
    PROVE  IInv'
<1> DEFINE alerts == IF per.palette THEN <<Palette>> ELSE <<>>
<1>1. Base /\ Types /\ TurnOK
  BY DEF IInv, Base
<1>2. /\ reading.step = "lines" /\ reading.top = per.top /\ reading.dirty = {}
      /\ pushes' = pushes \o <<>> \o alerts
      /\ per' = [per EXCEPT !.seqno = reading.seqno, !.palette = FALSE]
      /\ tasks' = Tail(tasks) /\ reading' = Idle
      /\ UNCHANGED <<term, replies, hydrating, pane, past>>
  BY DEF SendNothing, SendChanges, Unchanged
<1>3. pushes \in Seq(Deltas \cup {Palette}) /\ per \in SentType /\ reading.seqno \in Nat
      /\ per.palette \in BOOLEAN
  BY <1>1 DEF Types, WireType, ServerType, SentType, Readings
<1>4. PICK new : /\ new \in Seq(Deltas \cup {Palette}) /\ pushes' = pushes \o new
                 /\ \A k \in DOMAIN new : new[k] = Palette
  <2> DEFINE new == <<>> \o alerts
  <2>1. <<>> \in Seq(Deltas) /\ \A k : k \notin DOMAIN <<>>
    OBVIOUS
  <2>2. /\ new \in Seq(Deltas \cup {Palette})
        /\ pushes \o <<>> \o alerts = pushes \o new
        /\ \A k \in DOMAIN new : k \in DOMAIN <<>> \/ new[k] = Palette
    BY <1>3, <2>1, SentIs
  <2> HIDE DEF new, alerts
  <2> QED  BY <1>2, <2>1, <2>2
<1>5. per' \in SentType /\ per'.seqno = reading.seqno /\ per'.top = per.top
  BY <1>2, <1>3 DEF SentType
<1>6. \A k \in DOMAIN new : new[k].kind # "changes"
  BY <1>4, Kinds
<1>7. \A r : Pending(r) => Cur(r).seq > reading.seqno
  BY <1>2 DEF Pending
<1>8. Sends(new)
  BY <1>2, <1>4, <1>5, <1>6, <1>7 DEF Sends, Bears
<1>9. Base'
  BY <1>1, <1>8, SendsBase
<1>10. per.seqno # 0
  BY <1>1, <1>2 DEF TurnOK
<1>11. ASSUME InOrder PROVE InOrder'
  <2>1. HeldOK' /\ HydratingOK' /\ PushesOK'
    BY <1>1, <1>8, <1>11, SendsInOrder
  <2>2. \A n : (TopTold(n) => TopTold(n)') /\ (SeqnoTold(n) => SeqnoTold(n)')
    BY <1>2, <1>3, <1>4, <1>6, ToldStays
  <2>3. PICK top, last : top = per.top /\ last = term.seqno
    OBVIOUS
  <2>4. TopOK'
    <3>1. TopTold(top)'
      BY <1>10, <1>11, <2>2, <2>3 DEF InOrder, TopOK
    <3> QED  BY <1>5, <2>3, <3>1 DEF TopOK, TopTold
  <2>5. SeqnoOK'
    <3>1. CASE reading.seqno # term.seqno
      BY <1>1, <1>8, <3>1, SinceIsEvident DEF SeqnoOK
    <3>2. CASE SeqnoTold(last)
      <4>1. SeqnoTold(last)'
        BY <2>2, <3>2
      <4> QED  BY <1>2, <2>3, <4>1 DEF SeqnoOK, SeqnoTold
    <3>3. CASE Evidence
      <4>1. Top' = Top /\ DOMAIN Screen' = DOMAIN Screen /\ \A r : Cur(r)' = Cur(r)
        BY <1>2 DEF Top, Screen, Cur
      <4>2. \A r : Pending(r) => Pending(r)'
        BY <1>2, <1>5, <1>7, <4>1 DEF Pending, Idle
      <4> QED  BY <1>2, <1>5, <1>10, <3>3, <4>1, <4>2 DEF Evidence, SeqnoOK
    <3>4. SeqnoTold(last) \/ Evidence
      BY <1>11, <2>3 DEF InOrder, SeqnoOK, SeqnoTold
    <3> QED  BY <3>2, <3>3, <3>4
  <2> QED  BY <2>1, <2>4, <2>5 DEF InOrder
<1> QED  BY <1>2, <1>9, <1>11 DEF IInv

LEMMA SendDeltaIInv ==
    ASSUME IInv, SendDelta
    PROVE  IInv'
<1> DEFINE lines == GetLines(reading.cursor, reading.cursor)
           row   == Min(DOMAIN lines)
           bonus == [r \in DOMAIN reading.bonus \cup {row} |->
                       IF r = row THEN lines[r] ELSE reading.bonus[r]]
           d == [kind |-> "changes", top |-> reading.top, cursor |-> reading.cursor,
                 seqno |-> reading.seqno, dirty |-> reading.dirty, bonus |-> bonus]
           alerts == IF per.palette THEN <<Palette>> ELSE <<>>
<1>1. Base /\ Types /\ TurnOK /\ BonusOK /\ TermType
  BY DEF IInv, Base, Types
<1>2. /\ reading.step = "send"
      /\ pushes' = pushes \o <<d>> \o alerts
      /\ per' = [seqno |-> reading.seqno, top |-> reading.top,
                 cursor |-> reading.cursor, palette |-> FALSE]
      /\ tasks' = Tail(tasks) /\ reading' = Idle
      /\ UNCHANGED <<term, replies, hydrating, pane, past>>
  BY DEF SendDelta, SendChanges
<1>3. /\ pushes \in Seq(Deltas \cup {Palette}) /\ per.palette \in BOOLEAN
      /\ reading.seqno \in Nat /\ reading.top \in 0 .. MaxTop /\ reading.cursor \in Rows
      /\ reading.dirty \in SUBSET Rows /\ reading.bonus \in LineMaps
  BY <1>1 DEF Types, WireType, ServerType, SentType, Readings
<1>4. row \in DOMAIN lines /\ row \in DOMAIN Screen
  BY <1>1, <1>3, CursorRow
<1>5. lines[row] = Cur(row) /\ row \in DOMAIN term.main /\ row \in Rows /\ Cur(row) \in Lines
  <2>1. reading.cursor \in Nat
    BY <1>3, Sizes
  <2>2. \A r \in DOMAIN lines : lines[r] = Cur(r)
    BY <1>1, <2>1, LinesAre
  <2> HIDE DEF lines, row
  <2> QED  BY <1>1, <1>4, <2>2, ShownRows
<1> HIDE DEF lines, row
<1>6. /\ DOMAIN bonus = DOMAIN reading.bonus \cup {row}
      /\ \A r \in DOMAIN bonus : r \in DOMAIN term.main /\ bonus[r] = (IF r = row THEN Cur(r) ELSE reading.bonus[r])
  BY <1>1, <1>5 DEF TurnOK
<1>7. bonus \in LineMaps
  <2>1. DOMAIN reading.bonus \subseteq Rows /\ \A r \in DOMAIN reading.bonus : reading.bonus[r] \in Lines
    BY <1>3, Kinds
  <2>2. bonus \in [DOMAIN bonus -> Lines] /\ DOMAIN bonus \in SUBSET Rows
    BY <1>5, <1>6, <2>1
  <2> HIDE DEF bonus
  <2> QED  BY <2>2 DEF LineMaps
<1>8. \A r \in DOMAIN bonus : r \in past.unsaid \/ bonus[r].text = Cur(r).text \/ Cur(r).seq > reading.seqno
  BY <1>1, <1>6 DEF BonusOK
<1> HIDE DEF bonus
<1>9. d \in Deltas /\ d.kind = "changes" /\ d.top = reading.top /\ d.seqno = reading.seqno
      /\ d.bonus = bonus /\ d.dirty = reading.dirty
  BY <1>3, <1>7 DEF Deltas
<1> HIDE DEF d
<1>10. PICK new : /\ new \in Seq(Deltas \cup {Palette}) /\ pushes' = pushes \o new
                  /\ 1 \in DOMAIN new /\ new[1] = d
                  /\ \A k \in DOMAIN new : k = 1 \/ new[k] = Palette
  <2>1. <<d>> \in Seq(Deltas) /\ DOMAIN <<d>> = {1} /\ <<d>>[1] = d
    BY <1>9
  <2>2. PICK changes \in Seq(Deltas) : changes = <<d>>
    BY <2>1
  <2> DEFINE new == changes \o alerts
  <2>3. /\ new \in Seq(Deltas \cup {Palette})
        /\ pushes \o changes \o alerts = pushes \o new
        /\ \A c \in DOMAIN changes : c \in DOMAIN new /\ new[c] = changes[c]
        /\ \A k \in DOMAIN new : \/ k \in DOMAIN changes /\ new[k] = changes[k]
                                \/ new[k] = Palette
    BY <1>3, SentIs
  <2> HIDE DEF new, alerts
  <2> QED  BY <1>2, <2>1, <2>2, <2>3
<1>11. per' \in SentType /\ per'.seqno = reading.seqno /\ per'.top = reading.top
  BY <1>2, <1>3 DEF SentType
<1>12. \A k \in DOMAIN new : k = 1 \/ new[k].kind # "changes"
  BY <1>10, Kinds
<1>13. \A r : Pending(r) => Cur(r).seq > reading.seqno \/ Mentions(d, r)
  BY <1>2, <1>6, <1>9 DEF Pending, Mentions
<1>14. Sends(new)
  <2>1. \A k \in DOMAIN new : \A r \in Rows :
          /\ \A text : Bears(new[k], r, text) => r \in past.unsaid \/ text = Cur(r).text
                                                   \/ Cur(r).seq > reading.seqno
          /\ new[k].kind = "changes" /\ r \in DOMAIN new[k].bonus => r \in DOMAIN term.main
    BY <1>6, <1>8, <1>9, <1>10, <1>12 DEF Bears
  <2> QED  BY <1>2, <1>10, <1>11, <1>13, <2>1 DEF Sends
<1>15. Base'
  BY <1>1, <1>14, SendsBase
<1>16. ASSUME InOrder PROVE InOrder'
  <2>1. HeldOK' /\ HydratingOK' /\ PushesOK'
    BY <1>1, <1>14, <1>16, SendsInOrder
  <2>2. PICK top, last : top = reading.top /\ last = reading.seqno
    OBVIOUS
  <2>3. TopTold(top)' /\ SeqnoTold(last)'
    BY <1>3, <1>9, <1>10, <1>12, <2>2, ToldNow
  <2>4. TopOK'
    BY <1>11, <2>2, <2>3 DEF TopOK, TopTold
  <2>5. SeqnoOK'
    <3>1. CASE reading.seqno # term.seqno
      BY <1>1, <1>14, <3>1, SinceIsEvident DEF SeqnoOK
    <3>2. CASE reading.seqno = term.seqno
      BY <1>2, <2>2, <2>3, <3>2 DEF SeqnoOK, SeqnoTold
    <3> QED  BY <3>1, <3>2
  <2> QED  BY <2>1, <2>4, <2>5 DEF InOrder
<1> QED  BY <1>2, <1>15, <1>16 DEF IInv
-----------------------------------------------------------------------------
(* A request for lines is answered. *)
LEMMA AnswerIs ==
    ASSUME Types, AnswerLines
    PROVE  \E reply \in Answers :
              /\ replies' = replies \cup {reply}
              /\ reply.ok /\ reply.at = Head(tasks).at /\ reply.rows = Head(tasks).rows
              /\ \A r \in DOMAIN reply.lines : r \in DOMAIN Screen /\ reply.lines[r] = Cur(r)
              /\ past' = [past EXCEPT !.astray = past.astray \cup (reply.rows \ DOMAIN reply.lines)]
<1> DEFINE request == Head(tasks)
           found   == UNION {StableRange(range[1], range[2]) : range \in Ranges(request.rows)}
           lines == [r \in found |-> Screen[r]]
           reply == [ok |-> TRUE, rows |-> request.rows, at |-> request.at, lines |-> lines]
<1>1. tasks \in Seq(Turns \cup Asks) /\ tasks # <<>> /\ request.kind = "lines" /\ TermType
  BY DEF Types, ServerType, AnswerLines
<1>2. request \in Asks
  <2>1. request \in Turns \cup Asks
    BY <1>1, TailIs
  <2> HIDE DEF request
  <2> QED  BY <1>1, <2>1, Kinds
<1>3. request.rows \in SUBSET Rows /\ request.at \in Nat \ {0}
  BY <1>2, Kinds
<1>4. found \subseteq DOMAIN Screen
  <2> SUFFICES ASSUME NEW range \in Ranges(request.rows)
               PROVE  StableRange(range[1], range[2]) \subseteq DOMAIN Screen
    OBVIOUS
  <2>1. range[1] \in Nat /\ range[2] \in Nat
    BY <1>3, Sizes DEF Ranges
  <2> QED  BY <1>1, <2>1, RangeIs
<1>5. replies' = replies \cup {reply} /\ past' = [past EXCEPT !.astray = past.astray \cup (request.rows \ found)]
  BY DEF AnswerLines
<1> HIDE DEF request, found
<1>6. /\ DOMAIN lines = found /\ found \in SUBSET Rows
      /\ \A r \in found : r \in DOMAIN Screen /\ lines[r] = Cur(r) /\ Cur(r) \in Lines
  BY <1>1, <1>4, ShownRows
<1>7. lines \in LineMaps
  <2>1. lines \in [found -> Lines]
    BY <1>6
  <2> HIDE DEF lines
  <2> QED  BY <1>6, <2>1 DEF LineMaps
<1> HIDE DEF lines
<1>8. reply \in Answers
  BY <1>3, <1>7 DEF Answers
<1> QED  BY <1>5, <1>6, <1>8 DEF request

LEMMA AnswerLinesIInv ==
    ASSUME IInv, AnswerLines
    PROVE  IInv'
<1>1. /\ Base /\ Types /\ SeqBound /\ TurnOK /\ HiddenOK /\ AwaitOK /\ BonusOK /\ UnmadeOK
      /\ MovedOK /\ SinceOK
  BY DEF IInv, Base
<1>2. /\ reading.step = "idle" /\ tasks # <<>> /\ Head(tasks).kind = "lines" /\ tasks' = Tail(tasks)
      /\ UNCHANGED <<term, per, reading, pushes, hydrating, pane>>
  BY DEF AnswerLines
<1>3. PICK reply \in Answers :
         /\ replies' = replies \cup {reply}
         /\ reply.ok /\ reply.at = Head(tasks).at /\ reply.rows = Head(tasks).rows
         /\ \A r \in DOMAIN reply.lines : r \in DOMAIN Screen /\ reply.lines[r] = Cur(r)
         /\ past' = [past EXCEPT !.astray = past.astray \cup (reply.rows \ DOMAIN reply.lines)]
  BY <1>1, AnswerIs
<1>4. tasks \in Seq(Turns \cup Asks) /\ TermType /\ ClientType /\ WireType
  BY <1>1 DEF Types, ServerType
<1>5. /\ tasks' \in Seq(Turns \cup Asks) /\ Head(tasks) = tasks[1]
      /\ \A i \in DOMAIN tasks : i > 1 => i - 1 \in DOMAIN tasks' /\ tasks'[i - 1] = tasks[i]
      /\ \A i \in DOMAIN tasks : i = 1 \/ i > 1
  <2>1. /\ Tail(tasks) \in Seq(Turns \cup Asks) /\ Head(tasks) = tasks[1]
        /\ \A i \in DOMAIN tasks : i > 1 => i - 1 \in DOMAIN Tail(tasks) /\ Tail(tasks)[i - 1] = tasks[i]
        /\ DOMAIN tasks \subseteq Nat \ {0}
    BY <1>2, <1>4, TailIs
  <2> QED  BY <1>2, <2>1
<1>6. /\ past' \in [overtaken : BOOLEAN, unsaid : SUBSET Rows, astray : SUBSET Rows, events : Nat]
      /\ past'.unsaid = past.unsaid /\ past'.overtaken = past.overtaken
      /\ past'.astray = past.astray \cup (reply.rows \ DOMAIN reply.lines)
  <2>1. past \in [overtaken : BOOLEAN, unsaid : SUBSET Rows, astray : SUBSET Rows, events : Nat]
    BY <1>4 DEF ClientType
  <2>2. reply.rows \in SUBSET Rows
    BY DEF Answers
  <2> QED  BY <1>3, <2>1, <2>2
<1>7. /\ MainRows' = MainRows /\ Top' = Top /\ DOMAIN Screen' = DOMAIN Screen
      /\ \A r : Cur(r)' = Cur(r) /\ (Pending(r)' <=> Pending(r))
  BY <1>2 DEF MainRows, Top, Screen, Cur, Pending
<1>8. Types' /\ SeqBound'
  <2>1. TermType' /\ SeqBound'
    BY <1>1, <1>2, <1>4 DEF TermType, SeqBound, MainTop, MainRows
  <2>2. ServerType'
    BY <1>1, <1>2, <1>5 DEF Types, ServerType
  <2>3. WireType'
    <3>1. IsFiniteSet(replies \cup {reply})
      BY <1>4, FS_AddElement DEF WireType
    <3> QED  BY <1>2, <1>3, <1>4, <3>1 DEF WireType
  <2>4. ClientType'
    BY <1>2, <1>4, <1>6 DEF ClientType
  <2> QED  BY <2>1, <2>2, <2>3, <2>4 DEF Types
<1>9. TurnOK'
  BY <1>1, <1>2, <1>7 DEF TurnOK
<1>10. HiddenOK' /\ BonusOK'
  BY <1>1, <1>2, <1>6, <1>7 DEF HiddenOK, BonusOK
<1>11. AwaitOK'
  <2> SUFFICES ASSUME NEW r \in Rows, r \notin past'.astray, pane.cache[r].at # 0
               PROVE  Awaited(r, pane.cache[r].at)'
    BY <1>2 DEF AwaitOK, Awaited
  <2>1. PICK at : at = pane.cache[r].at
    OBVIOUS
  <2>2. Awaited(r, at)
    BY <1>1, <1>6, <2>1 DEF AwaitOK
  <2>3. ASSUME NEW i \in DOMAIN tasks, tasks[i].kind = "lines", tasks[i].at = at, r \in tasks[i].rows
        PROVE  Awaited(r, at)'
    <3>1. CASE i = 1
      <4>1. reply.at = at /\ r \in DOMAIN reply.lines /\ r \in reply.rows /\ reply \in replies'
        BY <1>3, <1>5, <1>6, <2>3, <3>1
      <4> QED  BY <1>3, <4>1 DEF Awaited
    <3>2. CASE i > 1
      <4>1. PICK j : j = i - 1
        OBVIOUS
      <4>2. j \in DOMAIN tasks' /\ tasks'[j] = tasks[i]
        BY <1>5, <3>2, <4>1
      <4> QED  BY <2>3, <4>2 DEF Awaited
    <3> QED  BY <1>5, <3>1, <3>2
  <2>4. ASSUME NEW other \in replies, other.at = at, r \in other.rows,
               other.ok => r \in DOMAIN other.lines
        PROVE  Awaited(r, at)'
    <3>1. other \in replies'
      BY <1>3
    <3> QED  BY <2>4, <3>1 DEF Awaited
  <2>5. \/ \E i \in DOMAIN tasks : tasks[i].kind = "lines" /\ tasks[i].at = at /\ r \in tasks[i].rows
        \/ \E other \in replies :
              other.at = at /\ r \in other.rows /\ (other.ok => r \in DOMAIN other.lines)
    BY <2>2 DEF Awaited
  <2>6. Awaited(r, at)'
    BY <2>3, <2>4, <2>5
  <2> QED  BY <1>2, <2>1, <2>6 DEF Awaited
<1>12. UnmadeOK'
  <2>1. Made' = MainRows /\ Made = MainRows
    BY <1>2, <1>7 DEF Made
  <2>2. ASSUME NEW r \in Rows, r >= MainRows PROVE r \notin DOMAIN reply.lines
    <3>1. r \notin DOMAIN term.main
      BY <1>1, <2>2, MadeIs, Sizes
    <3> QED  BY <1>3, <1>4, <3>1, ShownRows
  <2> QED  BY <1>1, <1>2, <1>3, <2>1, <2>2 DEF UnmadeOK
<1>13. MovedOK'
  <2>1. ASSUME NEW i \in DOMAIN tasks, TurnTo(i) PROVE \E j \in DOMAIN tasks' : TurnTo(j)'
    <3>1. i > 1
      BY <1>2, <1>5, <2>1 DEF TurnTo
    <3>2. PICK j : j = i - 1
      OBVIOUS
    <3> QED  BY <1>5, <2>1, <3>1, <3>2 DEF TurnTo
  <2> QED  BY <1>1, <1>2, <1>7, <2>1 DEF MovedOK
<1>14. SinceOK'
  BY <1>2 DEF SinceOK
<1>15. Base'
  BY <1>8, <1>9, <1>10, <1>11, <1>12, <1>13, <1>14 DEF Base
<1>16. ASSUME InOrder PROVE InOrder'
  <2>1. \A r, text : Cleared(r, text)' <=> Cleared(r, text)
    BY <1>6, <1>7 DEF Cleared
  <2>2. HydratingOK' /\ PushesOK'
    BY <1>2, <1>16, <2>1 DEF InOrder, HydratingOK, PushesOK, Pushed, Mentions, Bears
  <2>3. TopOK'
    BY <1>2, <1>16 DEF InOrder, TopOK, TopTold, Newest, NoChanges
  <2>4. Evidence => Evidence'
    BY <1>2, <1>6, <1>7 DEF Evidence
  <2>5. SeqnoOK'
    BY <1>2, <1>16, <2>4 DEF InOrder, SeqnoOK, SeqnoTold, Newest, NoChanges
  <2>6. HeldOK'
    <3> SUFFICES ASSUME NEW r \in DOMAIN term.main, NEW text \in Texts, Held(r, text)'
                 PROVE  Cleared(r, text) \/ Pushed(r) \/ (hydrating # <<>> /\ Mentions(hydrating[1], r))
      BY <1>2, <2>1 DEF HeldOK, Pushed, Mentions
    <3>1. CASE Held(r, text)
      BY <1>16, <3>1 DEF InOrder, HeldOK
    <3>2. CASE r \in DOMAIN reply.lines /\ reply.lines[r].text = text
      BY <1>3, <3>2 DEF Cleared
    <3> QED  BY <1>2, <1>3, <3>1, <3>2 DEF Held
  <2> QED  BY <2>2, <2>3, <2>5, <2>6 DEF InOrder
<1> QED  BY <1>6, <1>15, <1>16 DEF IInv
-----------------------------------------------------------------------------
(* The client's cache. *)
ClientPanes == [cache : [Rows -> Entries], top : 0 .. MaxTop, cursor : Rows, seqno : Nat,
          view : -1 .. MaxTop - 1]

(* An entry stays, or is fetched anew, or has no download to wait for.     *)
EntryMove(e, r, fetched) ==
    \/ e = pane.cache[r]
    \/ r \in fetched /\ e = Refetch(pane.cache[r], Now)
    \/ /\ e \in Entries /\ e.at = 0 /\ e.kind \in {"none", "line", "stale"}
       /\ e.kind = "none" \/ r < Made

LEMMA EntryIs ==
    ASSUME Types, NEW r \in Rows
    PROVE  /\ pane.cache[r] \in Entries
           /\ pane.cache[r].at # 0 <=> pane.cache[r].kind \in {"fetching", "both"}
  BY DEF Types, ClientType

LEMMA AbsentIs ==
    Absent \in Entries /\ Absent.at = 0 /\ Absent.kind = "none"
<1>1. 0 \in Texts
  BY Sizes DEF Texts
<1> QED  BY <1>1 DEF Absent, Entries

LEMMA RefetchIs ==
    ASSUME NEW e \in Entries, NEW now \in Nat \ {0}
    PROVE  /\ Refetch(e, now) \in Entries /\ Refetch(e, now).at = now
           /\ Refetch(e, now).kind \in {"fetching", "both"}
           /\ e.kind \in {"none", "fetching"} => Refetch(e, now).kind = "fetching"
<1>1. CASE e.kind \in {"none", "fetching"}
  <2>1. 0 \in Texts
    BY Sizes DEF Texts
  <2>2. Refetch(e, now) = [kind |-> "fetching", text |-> 0, seq |-> 0, at |-> now]
    BY <1>1 DEF Refetch, Fetching, Absent
  <2> QED  BY <2>1, <2>2 DEF Entries
<1>2. CASE e.kind \notin {"none", "fetching"}
  BY <1>2 DEF Refetch, Entries
<1> QED  BY <1>1, <1>2

LEMMA MakeStaleIs ==
    ASSUME NEW e \in Entries
    PROVE  /\ MakeStale(e) \in Entries /\ MakeStale(e).at = 0 /\ MakeStale(e).kind \in {"none", "stale"}
           /\ e.kind \in {"none", "fetching"} => MakeStale(e).kind = "none"
<1>1. CASE e.kind \in {"none", "fetching"}
  BY <1>1, AbsentIs DEF MakeStale
<1>2. CASE e.kind \notin {"none", "fetching"}
  BY <1>2 DEF MakeStale, Entries
<1> QED  BY <1>1, <1>2

LEMMA LineEntryIs ==
    ASSUME NEW line, line.text \in Texts, line.seq \in Nat
    PROVE  /\ LineEntry(line) \in Entries /\ LineEntry(line).at = 0 /\ LineEntry(line).kind = "line"
           /\ LineEntry(line).text = line.text
  BY DEF LineEntry, Entries

LEMMA EntryMoveIs ==
    ASSUME Types, TurnOK, UnmadeOK, NEW r \in Rows, NEW e, NEW fetched, EntryMove(e, r, fetched)
    PROVE  /\ e \in Entries /\ (e.at # 0 <=> e.kind \in {"fetching", "both"})
           /\ r >= Made => e.kind \in {"none", "fetching"}
           /\ e.at # 0 => e = pane.cache[r] \/ (r \in fetched /\ e.at = Now)
<1>1. CASE e = pane.cache[r]
  BY <1>1, EntryIs DEF UnmadeOK
<1>2. CASE r \in fetched /\ e = Refetch(pane.cache[r], Now)
  <2>1. pane.cache[r] \in Entries /\ Now \in Nat \ {0}
    BY EntryIs, NowIsFree
  <2> QED  BY <1>2, <2>1, RefetchIs DEF UnmadeOK
<1>3. CASE /\ e \in Entries /\ e.at = 0 /\ e.kind \in {"none", "line", "stale"}
           /\ e.kind = "none" \/ r < Made
  <2>1. r >= Made => e.kind = "none"
    <3>1. Made \in Nat /\ r \in Nat
      BY MadeIs, Sizes
    <3> QED  BY <1>3, <3>1
  <2> QED  BY <1>3, <2>1
<1> QED  BY <1>1, <1>2, <1>3 DEF EntryMove

(* What the client does to the cache, and to what waits for it.            *)
Handles(fetched) ==
    /\ UNCHANGED <<term, per, reading>>
    /\ past' \in [overtaken : BOOLEAN, unsaid : {past.unsaid}, astray : {past.astray}, events : Nat]
    /\ pane' \in ClientPanes /\ \A r \in Rows : EntryMove(pane'.cache[r], r, fetched)
    /\ WireType' /\ replies' \subseteq replies
    /\ \A i \in DOMAIN pushes' : pushes'[i].kind = "changes" =>
          \A r \in Rows : r \in DOMAIN pushes'[i].bonus => r < Made
    /\ hydrating' # <<>> => \A r \in Rows : r \in DOMAIN hydrating'[1].bonus => r < Made
    /\ tasks' = tasks \/ \E job \in Turns \cup Asks : tasks' = Append(tasks, job)
    /\ AwaitOK'

LEMMA HandlesBase ==
    ASSUME Base, NEW fetched, Handles(fetched)
    PROVE  /\ Base' /\ (Evidence => Evidence')
           /\ \A r, text : Cleared(r, text)' <=> Cleared(r, text)
<1>1. Types /\ SeqBound /\ TurnOK /\ HiddenOK /\ BonusOK /\ UnmadeOK /\ MovedOK /\ SinceOK
  BY DEF Base
<1>2. /\ UNCHANGED <<term, per, reading>> /\ past'.unsaid = past.unsaid /\ past'.astray = past.astray
      /\ AwaitOK' /\ WireType' /\ replies' \subseteq replies
      /\ pane' \in ClientPanes /\ \A r \in Rows : EntryMove(pane'.cache[r], r, fetched)
  BY DEF Handles
<1>3. /\ MainRows' = MainRows /\ Top' = Top /\ DOMAIN Screen' = DOMAIN Screen /\ Made' = Made
      /\ \A r : Cur(r)' = Cur(r) /\ (Pending(r)' <=> Pending(r))
  BY <1>2 DEF MainRows, Top, Screen, Cur, Pending, Made
<1>4. ASSUME NEW r \in Rows
      PROVE  /\ pane'.cache[r].at # 0 <=> pane'.cache[r].kind \in {"fetching", "both"}
             /\ r >= Made => pane'.cache[r].kind \in {"none", "fetching"}
  BY <1>1, <1>2, EntryMoveIs
<1>5. /\ tasks' \in Seq(Turns \cup Asks) /\ (AtWork => AtWork')
      /\ \A i \in DOMAIN tasks : i \in DOMAIN tasks' /\ tasks'[i] = tasks[i]
  <2>1. CASE tasks' = tasks
    BY <1>1, <2>1 DEF Types, ServerType, AtWork
  <2>2. ASSUME NEW job \in Turns \cup Asks, tasks' = Append(tasks, job)
        PROVE  /\ tasks' \in Seq(Turns \cup Asks) /\ (AtWork => AtWork')
               /\ \A i \in DOMAIN tasks : i \in DOMAIN tasks' /\ tasks'[i] = tasks[i]
    BY <1>1, <2>2, QueuedIs
  <2> QED  BY <2>1, <2>2 DEF Handles
<1>6. Types' /\ SeqBound'
  <2>1. TermType' /\ SeqBound'
    BY <1>1, <1>2 DEF Types, TermType, SeqBound, MainTop, MainRows
  <2>2. ServerType'
    BY <1>1, <1>2, <1>5 DEF Types, ServerType
  <2>3. ClientType'
    <3>1. past' \in [overtaken : BOOLEAN, unsaid : SUBSET Rows, astray : SUBSET Rows, events : Nat]
      <4>1. past.unsaid \in SUBSET Rows /\ past.astray \in SUBSET Rows
        BY <1>1 DEF Types, ClientType
      <4> QED  BY <4>1 DEF Handles
    <3> QED  BY <1>2, <1>4, <3>1 DEF ClientType, ClientPanes
  <2> QED  BY <1>2, <2>1, <2>2, <2>3 DEF Types
<1>7. TurnOK'
  BY <1>1, <1>2, <1>3, <1>5 DEF TurnOK
<1>8. HiddenOK' /\ BonusOK' /\ SinceOK'
  BY <1>1, <1>2, <1>3 DEF HiddenOK, BonusOK, SinceOK
<1>9. MovedOK'
  <2>1. \A i \in DOMAIN tasks : TurnTo(i) => i \in DOMAIN tasks' /\ TurnTo(i)'
    BY <1>5 DEF TurnTo
  <2> QED  BY <1>1, <1>2, <1>3, <2>1 DEF MovedOK
<1>10. UnmadeOK'
  <2> SUFFICES ASSUME NEW r \in Rows, r >= Made
               PROVE  /\ pane'.cache[r].kind \in {"none", "fetching"}
                      /\ \A reply \in replies' : r \notin DOMAIN reply.lines
                      /\ \A i \in DOMAIN pushes' : pushes'[i].kind = "changes" => r \notin DOMAIN pushes'[i].bonus
                      /\ hydrating' # <<>> => r \notin DOMAIN hydrating'[1].bonus
    BY <1>3 DEF UnmadeOK
  <2>1. ~(r < Made)
    BY <1>1, MadeIs, Sizes
  <2> QED  BY <1>1, <1>2, <1>4, <2>1 DEF UnmadeOK, Handles
<1>11. \A r, text : Cleared(r, text)' <=> Cleared(r, text)
  BY <1>2, <1>3 DEF Cleared
<1>12. Evidence => Evidence'
  BY <1>2, <1>3 DEF Evidence
<1> QED  BY <1>2, <1>6, <1>7, <1>8, <1>9, <1>10, <1>11, <1>12 DEF Base

ToldOn == \A n : (TopTold(n) => TopTold(n)') /\ (SeqnoTold(n) => SeqnoTold(n)')

LEMMA HandlesIInv ==
    ASSUME IInv, NEW fetched, Handles(fetched), past.overtaken => past'.overtaken,
           ~past'.overtaken /\ InOrder => HeldOK' /\ HydratingOK' /\ PushesOK' /\ ToldOn
    PROVE  IInv'
<1>1. Base /\ UNCHANGED <<term, per, reading>>
  BY DEF IInv, Handles
<1>2. Base' /\ (Evidence => Evidence')
  BY <1>1, HandlesBase
<1>3. ASSUME ~past'.overtaken PROVE InOrder'
  <2>1. InOrder
    BY <1>3 DEF IInv
  <2>2. HeldOK' /\ HydratingOK' /\ PushesOK' /\ ToldOn
    BY <1>3, <2>1
  <2>3. PICK top, last : top = per.top /\ last = term.seqno
    OBVIOUS
  <2>4. TopOK'
    <3>1. per.seqno # 0 => TopTold(top)'
      BY <2>1, <2>2, <2>3 DEF InOrder, TopOK, ToldOn
    <3> QED  BY <1>1, <2>3, <3>1 DEF TopOK, TopTold
  <2>5. SeqnoOK'
    <3>1. SeqnoTold(last) \/ Evidence
      BY <2>1, <2>3 DEF InOrder, SeqnoOK
    <3>2. SeqnoTold(last)' \/ Evidence'
      BY <1>2, <2>2, <3>1 DEF ToldOn
    <3> QED  BY <1>1, <2>3, <3>2 DEF SeqnoOK, SeqnoTold
  <2> QED  BY <2>2, <2>4, <2>5 DEF InOrder
<1> QED  BY <1>2, <1>3 DEF IInv

(* What a row holds after its entry moved. *)
LEMMA HeldMoves ==
    ASSUME Types, TurnOK, UnmadeOK, NEW fetched, NEW r \in Rows, EntryMove(pane'.cache[r], r, fetched),
           replies' \subseteq replies, NEW text, Held(r, text)'
    PROVE  \/ pane'.cache[r] = pane.cache[r] /\ Held(r, text)
           \/ pane'.cache[r].at = 0 /\ pane'.cache[r].kind = "line" /\ pane'.cache[r].text = text
<1>1. CASE pane'.cache[r] = pane.cache[r]
  BY <1>1 DEF Held
<1>2. CASE pane'.cache[r] = Refetch(pane.cache[r], Now)
  <2>1. pane'.cache[r].at = Now /\ pane'.cache[r].kind # "line"
    BY <1>2, EntryIs, NowIsFree, RefetchIs
  <2>2. \A reply \in replies' : reply.at # Now
    BY NowIsFree
  <2> QED  BY <2>1, <2>2 DEF Held
<1>3. CASE pane'.cache[r].at = 0
  <2>1. \A reply \in replies' : reply.at # 0
    BY DEF Types, WireType, Answers
  <2> QED  BY <1>3, <2>1 DEF Held
<1> QED  BY <1>1, <1>2, <1>3 DEF EntryMove

(* The rows that are fetched wait for their request. *)
LEMMA FetchIs ==
    ASSUME Types, TurnOK, UnmadeOK, AwaitOK, NEW fetched \in SUBSET Rows, Fetch(fetched),
           \A r \in Rows : EntryMove(pane'.cache[r], r, fetched),
           replies' = replies, past'.astray = past.astray
    PROVE  /\ AwaitOK'
           /\ tasks' = tasks \/ \E job \in Turns \cup Asks : tasks' = Append(tasks, job)
<1>1. PICK now : now = Now
  OBVIOUS
<1> DEFINE job == [kind |-> "lines", rows |-> fetched, at |-> now]
<1>2. job \in Turns \cup Asks
  BY <1>1, NowIsFree DEF Asks
<1>3. CASE fetched = {}
  <2>1. tasks' = tasks
    BY <1>3 DEF Fetch
  <2>2. ASSUME NEW r \in Rows, r \notin past.astray, pane'.cache[r].at # 0
        PROVE  Awaited(r, pane.cache[r].at)'
    <3>1. pane'.cache[r] = pane.cache[r]
      BY <1>3, <2>2, EntryMoveIs
    <3> QED  BY <2>1, <2>2, <3>1 DEF AwaitOK, Awaited
  <2> QED  BY <2>1, <2>2 DEF AwaitOK
<1>4. CASE fetched # {}
  <2>1. tasks' = Append(tasks, job)
    BY <1>1, <1>4 DEF Fetch
  <2>2. /\ \A r, at : (\E i \in DOMAIN tasks : tasks[i].kind = "lines" /\ tasks[i].at = at /\ r \in tasks[i].rows)
           => \E i \in DOMAIN tasks' : tasks'[i].kind = "lines" /\ tasks'[i].at = at /\ r \in tasks'[i].rows
        /\ \E i \in DOMAIN tasks' : tasks'[i] = job
    <3> HIDE DEF job
    <3> QED  BY <1>2, <2>1, QueuedIs
  <2>3. ASSUME NEW r \in Rows, r \notin past.astray, pane'.cache[r].at # 0
        PROVE  Awaited(r, pane.cache[r].at)'
    <3>1. PICK at : at = pane'.cache[r].at
      OBVIOUS
    <3>2. ASSUME pane'.cache[r] = pane.cache[r] PROVE Awaited(r, at)'
      <4>1. Awaited(r, at)
        BY <2>3, <3>1, <3>2 DEF AwaitOK
      <4> QED  BY <2>2, <4>1 DEF Awaited
    <3>3. ASSUME r \in fetched, at = now PROVE Awaited(r, at)'
      <4>1. PICK i \in DOMAIN tasks' : tasks'[i] = job
        BY <2>2
      <4>2. tasks'[i].kind = "lines" /\ tasks'[i].at = at /\ r \in tasks'[i].rows
        BY <3>3, <4>1
      <4> QED  BY <4>2 DEF Awaited
    <3>4. Awaited(r, at)'
      BY <1>1, <2>3, <3>1, <3>2, <3>3, EntryMoveIs
    <3> QED  BY <3>1, <3>4 DEF Awaited
  <2>4. AwaitOK'
    BY <2>3 DEF AwaitOK
  <2> QED  BY <1>2, <2>1, <2>4
<1> QED  BY <1>3, <1>4
-----------------------------------------------------------------------------
(* A push is applied. *)
LEMMA ApplyIs ==
    ASSUME Types, TurnOK, UnmadeOK, NEW d \in Deltas, \A r \in Rows : r \in DOMAIN d.bonus => r < Made,
           Apply(d)
    PROVE  \E fetched \in SUBSET Rows :
              /\ Fetch(fetched)
              /\ pane' \in ClientPanes /\ pane'.top = d.top /\ pane'.seqno = d.seqno
              /\ \A r \in Rows : EntryMove(pane'.cache[r], r, fetched)
              /\ \A r \in Rows : r \in DOMAIN d.bonus => pane'.cache[r].text = d.bonus[r].text
              /\ \A r \in Rows : r \notin DOMAIN d.bonus =>
                    pane'.cache[r].kind # "line" \/ (pane'.cache[r] = pane.cache[r] /\ ~Mentions(d, r))
              /\ \A r \in Rows : Mentions(d, r) /\ pane'.cache[r] = pane.cache[r] => pane.cache[r].at = 0
<1> DEFINE moved == IF d.cursor # pane.cursor THEN {pane.cursor, d.cursor} ELSE {}
           dirty == (d.dirty \cup moved) \ DOMAIN d.bonus
           fetch == {r \in dirty : r >= d.top}
           entry(r, admitted) ==
             CASE r \in DOMAIN d.bonus -> LineEntry(d.bonus[r])
               [] r \in fetch -> IF admitted THEN Refetch(pane.cache[r], Now)
                                 ELSE MakeStale(pane.cache[r])
               [] r \in dirty \ fetch -> Absent
               [] OTHER -> pane.cache[r]
<1>1. PICK admitted \in BOOLEAN :
         /\ pane' = [pane EXCEPT !.top = d.top, !.cursor = d.cursor,
                        !.seqno = d.seqno, !.cache = [r \in Rows |-> entry(r, admitted)]]
         /\ Fetch(IF admitted THEN fetch ELSE {})
  BY DEF Apply
<1>2. pane \in ClientPanes /\ pane.cursor \in Rows
  BY DEF Types, ClientType, ClientPanes
<1>3. /\ d.kind = "changes" /\ d.top \in 0 .. MaxTop /\ d.cursor \in Rows
      /\ d.seqno \in Nat /\ d.dirty \in SUBSET Rows /\ DOMAIN d.bonus \subseteq Rows
      /\ \A r \in DOMAIN d.bonus : d.bonus[r] \in Lines /\ d.bonus[r].text \in Texts
  BY Kinds
<1>4. /\ dirty \in SUBSET Rows /\ fetch \subseteq dirty /\ d.dirty \ DOMAIN d.bonus \subseteq dirty
      /\ \A r \in dirty : r \notin DOMAIN d.bonus
  BY <1>2, <1>3
<1> HIDE DEF dirty, fetch
<1> DEFINE fetched == IF admitted THEN fetch ELSE {}
           c == [r \in Rows |-> entry(r, admitted)]
<1>5. ASSUME NEW r \in Rows, r \in DOMAIN d.bonus
      PROVE  /\ c[r] \in Entries /\ c[r].at = 0 /\ c[r].kind = "line" /\ c[r].text = d.bonus[r].text
             /\ EntryMove(c[r], r, fetched)
  <2>1. c[r] = LineEntry(d.bonus[r])
    BY <1>4, <1>5
  <2>2. d.bonus[r].text \in Texts /\ d.bonus[r].seq \in Nat
    <3>1. d.bonus[r] \in Lines
      BY <1>3, <1>5
    <3> QED  BY <1>3, <1>5, <3>1, Sizes DEF Lines
  <2>3. LineEntry(d.bonus[r]) \in Entries /\ LineEntry(d.bonus[r]).at = 0
        /\ LineEntry(d.bonus[r]).kind = "line" /\ LineEntry(d.bonus[r]).text = d.bonus[r].text
    BY <2>2, LineEntryIs
  <2>4. r < Made
    BY <1>5
  <2> HIDE DEF c, fetched
  <2> QED  BY <2>1, <2>3, <2>4 DEF EntryMove
<1>6. ASSUME NEW r \in Rows, r \in dirty
      PROVE  /\ c[r] \in Entries /\ c[r].kind # "line" /\ (c[r].at = 0 \/ c[r].at = Now)
             /\ EntryMove(c[r], r, fetched)
  <2>1. pane.cache[r] \in Entries /\ Now \in Nat \ {0}
    BY EntryIs, NowIsFree
  <2>2. CASE r \in fetch /\ admitted
    <3>1. c[r] = Refetch(pane.cache[r], Now) /\ r \in fetched
      BY <1>4, <2>2
    <3> HIDE DEF c, fetched
    <3> QED  BY <2>1, <3>1, RefetchIs DEF EntryMove
  <2>3. CASE r \in fetch /\ ~admitted
    <3>1. c[r] = MakeStale(pane.cache[r])
      BY <1>4, <2>3
    <3>2. c[r].kind = "none" \/ r < Made
      <4>1. r >= Made => c[r].kind = "none"
        BY <2>1, <3>1, MakeStaleIs DEF UnmadeOK
      <4>2. Made \in Nat /\ r \in Nat
        BY MadeIs, Sizes
      <4> QED  BY <4>1, <4>2
    <3> HIDE DEF c, fetched
    <3> QED  BY <2>1, <3>1, <3>2, MakeStaleIs DEF EntryMove
  <2>4. CASE r \notin fetch
    <3>1. c[r] = Absent
      BY <1>4, <1>6, <2>4
    <3> HIDE DEF c, fetched
    <3> QED  BY <3>1, AbsentIs DEF EntryMove
  <2> QED  BY <2>2, <2>3, <2>4
<1>7. ASSUME NEW r \in Rows, r \notin DOMAIN d.bonus, r \notin dirty
      PROVE  c[r] = pane.cache[r] /\ c[r] \in Entries /\ EntryMove(c[r], r, fetched) /\ ~Mentions(d, r)
  <2>1. c[r] = pane.cache[r]
    BY <1>4, <1>7
  <2>2. ~Mentions(d, r)
    BY <1>4, <1>7 DEF Mentions
  <2> HIDE DEF c, fetched
  <2> QED  BY <2>1, <2>2, EntryIs DEF EntryMove
<1>8. c = [r \in Rows |-> c[r]] /\ fetched \in SUBSET Rows
  BY <1>4
<1>9. pane' = [pane EXCEPT !.top = d.top, !.cursor = d.cursor, !.seqno = d.seqno, !.cache = c]
      /\ Fetch(fetched)
  BY <1>1
<1> HIDE DEF c, fetched
<1>10. c \in [Rows -> Entries]
  <2>1. \A r \in Rows : c[r] \in Entries
    BY <1>5, <1>6, <1>7
  <2> QED  BY <1>8, <2>1
<1>11. pane' \in ClientPanes /\ pane'.top = d.top /\ pane'.seqno = d.seqno /\ pane'.cache = c
  BY <1>2, <1>3, <1>9, <1>10 DEF ClientPanes
<1>12. \A r \in Rows : EntryMove(c[r], r, fetched)
  BY <1>5, <1>6, <1>7
<1>13. \A r \in Rows : r \notin DOMAIN d.bonus =>
          c[r].kind # "line" \/ (c[r] = pane.cache[r] /\ ~Mentions(d, r))
  BY <1>6, <1>7
<1>14. \A r \in Rows : Mentions(d, r) /\ c[r] = pane.cache[r] => pane.cache[r].at = 0
  BY <1>5, <1>6, <1>7, NowIsFree
<1> QED  BY <1>5, <1>8, <1>9, <1>11, <1>12, <1>13, <1>14

(* What a row holds after a push was applied. *)
LEMMA HeldApplied ==
    ASSUME Types, TurnOK, UnmadeOK, replies' = replies, NEW d \in Deltas, NEW fetched, NEW r \in Rows,
           EntryMove(pane'.cache[r], r, fetched),
           r \in DOMAIN d.bonus => pane'.cache[r].text = d.bonus[r].text,
           r \notin DOMAIN d.bonus =>
             pane'.cache[r].kind # "line" \/ (pane'.cache[r] = pane.cache[r] /\ ~Mentions(d, r)),
           Mentions(d, r) /\ pane'.cache[r] = pane.cache[r] => pane.cache[r].at = 0,
           NEW text, Held(r, text)'
    PROVE  Bears(d, r, text) \/ (~Mentions(d, r) /\ Held(r, text))
<1>1. d.kind = "changes"
  BY Kinds
<1>2. \A reply \in replies : reply.at # 0
  BY DEF Types, WireType, Answers
<1>3. \/ pane'.cache[r] = pane.cache[r] /\ Held(r, text)
      \/ pane'.cache[r].at = 0 /\ pane'.cache[r].kind = "line" /\ pane'.cache[r].text = text
  BY HeldMoves
<1>4. ASSUME Mentions(d, r) PROVE Bears(d, r, text)
  <2>1. pane'.cache[r].kind = "line" /\ pane'.cache[r].text = text
    BY <1>2, <1>3, <1>4 DEF Held
  <2> QED  BY <1>1, <1>4, <2>1 DEF Bears
<1>5. r \in DOMAIN d.bonus => Mentions(d, r)
  BY <1>1 DEF Mentions
<1>6. ASSUME ~Mentions(d, r), pane'.cache[r].kind = "line", pane'.cache[r].text = text
      PROVE  Held(r, text)
  <2>1. pane'.cache[r] = pane.cache[r]
    BY <1>5, <1>6
  <2> QED  BY <1>6, <2>1 DEF Held
<1> QED  BY <1>3, <1>4, <1>6

(* The first push is no longer to come. *)
LEMMA HeadGoes ==
    ASSUME Types, pushes # <<>>, pushes' = Tail(pushes)
    PROVE  /\ pushes' \in Seq(Deltas \cup {Palette})
           /\ pushes[1] = Head(pushes) /\ pushes[1] \in Deltas \cup {Palette} /\ 1 \in DOMAIN pushes
           /\ \A i \in DOMAIN pushes' : \E j \in DOMAIN pushes : pushes'[i] = pushes[j]
           /\ \A r : Pushed(r) => Pushed(r)' \/ Mentions(pushes[1], r)
           /\ \A r : (\E j \in DOMAIN pushes : j > 1 /\ Mentions(pushes[j], r)) => Pushed(r)'
           /\ PushesOK /\ (\A r, text : Cleared(r, text)' <=> Cleared(r, text)) => PushesOK'
           /\ \A i \in DOMAIN pushes' : Newest(i)' => \E j \in DOMAIN pushes : Newest(j) /\ pushes'[i] = pushes[j]
           /\ NoChanges' => NoChanges \/ Newest(1)
<1>1. /\ pushes' \in Seq(Deltas \cup {Palette}) /\ Head(pushes) = pushes[1]
      /\ Head(pushes) \in Deltas \cup {Palette} /\ 1 \in DOMAIN pushes
      /\ \A i \in DOMAIN pushes' : i + 1 \in DOMAIN pushes /\ pushes'[i] = pushes[i + 1]
      /\ \A i \in DOMAIN pushes : i > 1 => i - 1 \in DOMAIN pushes' /\ pushes'[i - 1] = pushes[i]
      /\ DOMAIN pushes \subseteq Nat \ {0} /\ DOMAIN pushes' \subseteq Nat \ {0}
  <2>1. pushes \in Seq(Deltas \cup {Palette})
    BY DEF Types, WireType
  <2> QED  BY <2>1, TailIs
<1>2. \A j \in DOMAIN pushes : j = 1 \/ j > 1
  BY <1>1
<1>3. \A i \in DOMAIN pushes' : \E j \in DOMAIN pushes : pushes'[i] = pushes[j]
  BY <1>1
<1>4. \A r : (\E j \in DOMAIN pushes : j > 1 /\ Mentions(pushes[j], r)) => Pushed(r)'
  BY <1>1 DEF Pushed, Mentions
<1>5. \A r : Pushed(r) => Pushed(r)' \/ Mentions(pushes[1], r)
  BY <1>2, <1>4 DEF Pushed
<1>6. ASSUME PushesOK, \A r, text : Cleared(r, text)' <=> Cleared(r, text)
      PROVE  PushesOK'
  <2> SUFFICES ASSUME NEW i \in DOMAIN pushes', NEW r \in Rows, NEW text \in Texts,
                      Bears(pushes'[i], r, text), ~Cleared(r, text)
               PROVE  \E j \in DOMAIN pushes' : j > i /\ Mentions(pushes'[j], r)
    BY <1>6 DEF PushesOK, Mentions, Bears
  <2>1. PICK k : k = i + 1
    OBVIOUS
  <2>2. k \in DOMAIN pushes /\ pushes[k] = pushes'[i] /\ i \in Nat \ {0}
    BY <1>1, <2>1
  <2>3. PICK j \in DOMAIN pushes : j > k /\ Mentions(pushes[j], r)
    BY <1>6, <2>2 DEF PushesOK
  <2>4. j > 1 /\ j - 1 > i
    BY <1>1, <2>1, <2>2, <2>3
  <2>5. j - 1 \in DOMAIN pushes' /\ pushes'[j - 1] = pushes[j]
    BY <1>1, <2>4
  <2> QED  BY <2>3, <2>4, <2>5
<1>7. ASSUME NEW i \in DOMAIN pushes', Newest(i)'
      PROVE  \E j \in DOMAIN pushes : Newest(j) /\ pushes'[i] = pushes[j]
  <2>1. PICK k : k = i + 1
    OBVIOUS
  <2>2. k \in DOMAIN pushes /\ pushes[k] = pushes'[i] /\ i \in Nat \ {0}
    BY <1>1, <2>1
  <2>3. ASSUME NEW j \in DOMAIN pushes, j > k PROVE pushes[j].kind # "changes"
    <3>1. j > 1 /\ j - 1 > i
      BY <1>1, <2>1, <2>2, <2>3
    <3>2. j - 1 \in DOMAIN pushes' /\ pushes'[j - 1] = pushes[j]
      BY <1>1, <3>1
    <3> QED  BY <1>7, <3>1, <3>2 DEF Newest
  <2>4. Newest(k)
    BY <1>7, <2>2, <2>3 DEF Newest
  <2> QED  BY <2>2, <2>4
<1>8. NoChanges' => NoChanges \/ Newest(1)
  <2> SUFFICES ASSUME NoChanges' PROVE NoChanges \/ Newest(1)
    OBVIOUS
  <2>1. ASSUME NEW j \in DOMAIN pushes, j > 1 PROVE pushes[j].kind # "changes"
    <3>1. j - 1 \in DOMAIN pushes' /\ pushes'[j - 1] = pushes[j]
      BY <1>1, <2>1
    <3> QED  BY <3>1 DEF NoChanges
  <2> QED  BY <1>2, <2>1 DEF NoChanges, Newest
<1> QED  BY <1>1, <1>3, <1>4, <1>5, <1>6, <1>7, <1>8

(* What is on its way bears rows that the server had made.                 *)
LEMMA BearsMade ==
    ASSUME Types, TurnOK, UnmadeOK
    PROVE  /\ \A i \in DOMAIN pushes : pushes[i].kind = "changes" =>
                 \A r \in Rows : r \in DOMAIN pushes[i].bonus => r < Made
           /\ hydrating # <<>> => \A r \in Rows : r \in DOMAIN hydrating[1].bonus => r < Made
  BY HeldIsMade

LEMMA ApplyPushIInv ==
    ASSUME IInv, ApplyPush
    PROVE  IInv'
<1>1. Base /\ Types /\ TurnOK /\ UnmadeOK /\ AwaitOK
  BY DEF IInv, Base
<1>2. /\ pushes # <<>> /\ Head(pushes).kind = "changes" /\ Apply(Head(pushes)) /\ pushes' = Tail(pushes)
      /\ past' = [past EXCEPT !.overtaken = past.overtaken \/ hydrating # <<>>]
      /\ UNCHANGED <<term, per, reading, replies, hydrating>>
  BY DEF ApplyPush
<1>3. /\ pushes' \in Seq(Deltas \cup {Palette})
      /\ pushes[1] = Head(pushes) /\ pushes[1] \in Deltas \cup {Palette} /\ 1 \in DOMAIN pushes
      /\ \A i \in DOMAIN pushes' : \E j \in DOMAIN pushes : pushes'[i] = pushes[j]
      /\ \A r : Pushed(r) => Pushed(r)' \/ Mentions(pushes[1], r)
      /\ \A r : (\E j \in DOMAIN pushes : j > 1 /\ Mentions(pushes[j], r)) => Pushed(r)'
      /\ PushesOK /\ (\A r, text : Cleared(r, text)' <=> Cleared(r, text)) => PushesOK'
      /\ \A i \in DOMAIN pushes' : Newest(i)' => \E j \in DOMAIN pushes : Newest(j) /\ pushes'[i] = pushes[j]
      /\ NoChanges' => NoChanges \/ Newest(1)
  BY <1>1, <1>2, HeadGoes
<1>4. PICK d \in Deltas : d = pushes[1]
  BY <1>2, <1>3, Kinds
<1>5. \A r \in Rows : r \in DOMAIN d.bonus => r < Made
  BY <1>1, <1>2, <1>3, <1>4, BearsMade
<1>6. Apply(d)
  BY <1>2, <1>3, <1>4
<1>7. PICK fetched \in SUBSET Rows :
              /\ Fetch(fetched)
              /\ pane' \in ClientPanes /\ pane'.top = d.top /\ pane'.seqno = d.seqno
              /\ \A r \in Rows : EntryMove(pane'.cache[r], r, fetched)
              /\ \A r \in Rows : r \in DOMAIN d.bonus => pane'.cache[r].text = d.bonus[r].text
              /\ \A r \in Rows : r \notin DOMAIN d.bonus =>
                    pane'.cache[r].kind # "line" \/ (pane'.cache[r] = pane.cache[r] /\ ~Mentions(d, r))
              /\ \A r \in Rows : Mentions(d, r) /\ pane'.cache[r] = pane.cache[r] => pane.cache[r].at = 0
  BY <1>1, <1>5, <1>6, ApplyIs
<1>8. /\ past' \in [overtaken : BOOLEAN, unsaid : {past.unsaid}, astray : {past.astray}, events : Nat]
      /\ past'.overtaken = (past.overtaken \/ hydrating # <<>>) /\ past'.astray = past.astray
  <2>1. past \in [overtaken : BOOLEAN, unsaid : SUBSET Rows, astray : SUBSET Rows, events : Nat]
    BY <1>1 DEF Types, ClientType
  <2> QED  BY <1>2, <2>1
<1>9. WireType'
  BY <1>1, <1>2, <1>3 DEF Types, WireType
<1>10. \A i \in DOMAIN pushes' : pushes'[i].kind = "changes" =>
          \A r \in Rows : r \in DOMAIN pushes'[i].bonus => r < Made
  BY <1>1, <1>3, BearsMade
<1>11. hydrating' # <<>> => \A r \in Rows : r \in DOMAIN hydrating'[1].bonus => r < Made
  BY <1>1, <1>2, BearsMade
<1>12. AwaitOK' /\ (tasks' = tasks \/ \E job \in Turns \cup Asks : tasks' = Append(tasks, job))
  BY <1>1, <1>2, <1>7, <1>8, FetchIs
<1>13. Handles(fetched)
  BY <1>2, <1>7, <1>8, <1>9, <1>10, <1>11, <1>12 DEF Handles
<1>14. \A r, text : Cleared(r, text)' <=> Cleared(r, text)
  BY <1>1, <1>13, HandlesBase
<1>15. ASSUME ~past'.overtaken, InOrder PROVE HeldOK' /\ HydratingOK' /\ PushesOK' /\ ToldOn
  <2>1. hydrating = <<>> /\ hydrating' = <<>>
    BY <1>2, <1>8, <1>15
  <2>2. HeldOK'
    <3> SUFFICES ASSUME NEW r \in DOMAIN term.main, NEW text \in Texts, Held(r, text)'
                 PROVE  Cleared(r, text) \/ Pushed(r)'
      BY <1>2, <1>14 DEF HeldOK, Pushed, Mentions
    <3>1. r \in Rows
      BY <1>1, MadeIs
    <3>2. Bears(d, r, text) \/ (~Mentions(d, r) /\ Held(r, text))
      BY <1>1, <1>2, <1>7, <3>1, HeldApplied
    <3>3. CASE Bears(d, r, text)
      <4>1. Cleared(r, text) \/ \E j \in DOMAIN pushes : j > 1 /\ Mentions(pushes[j], r)
        BY <1>3, <1>4, <1>15, <3>1, <3>3 DEF InOrder, PushesOK
      <4> QED  BY <1>3, <4>1
    <3>4. CASE ~Mentions(d, r) /\ Held(r, text)
      <4>1. Cleared(r, text) \/ Pushed(r)
        BY <1>15, <2>1, <3>4 DEF InOrder, HeldOK
      <4> QED  BY <1>3, <1>4, <3>4, <4>1
    <3> QED  BY <3>2, <3>3, <3>4
  <2>3. HydratingOK'
    BY <2>1 DEF HydratingOK
  <2>4. PushesOK'
    BY <1>3, <1>14, <1>15 DEF InOrder
  <2>5. ASSUME NEW n, TopTold(n) PROVE TopTold(n)'
    <3>1. \A i \in DOMAIN pushes' : Newest(i)' => pushes'[i].top = n
      BY <1>3, <2>5 DEF TopTold
    <3>2. NoChanges => d.kind # "changes"
      BY <1>3, <1>4 DEF NoChanges
    <3>3. NoChanges' => pane'.top = n
      BY <1>2, <1>3, <1>4, <1>7, <2>5, <3>2 DEF TopTold
    <3> QED  BY <2>1, <3>1, <3>3 DEF TopTold
  <2>6. ASSUME NEW n, SeqnoTold(n) PROVE SeqnoTold(n)'
    <3>1. \A i \in DOMAIN pushes' : Newest(i)' => pushes'[i].seqno = n
      BY <1>3, <2>6 DEF SeqnoTold
    <3>2. NoChanges => d.kind # "changes"
      BY <1>3, <1>4 DEF NoChanges
    <3>3. NoChanges' => pane'.seqno = n
      BY <1>2, <1>3, <1>4, <1>7, <2>6, <3>2 DEF SeqnoTold
    <3> QED  BY <2>1, <3>1, <3>3 DEF SeqnoTold
  <2> QED  BY <2>2, <2>3, <2>4, <2>5, <2>6 DEF ToldOn
<1> QED  BY <1>8, <1>13, <1>15, HandlesIInv

LEMMA HydratePushIInv ==
    ASSUME IInv, HydratePush
    PROVE  IInv'
<1>1. Base /\ Types /\ TurnOK /\ UnmadeOK /\ AwaitOK
  BY DEF IInv, Base
<1>2. /\ pushes # <<>> /\ Head(pushes).kind = "changes" /\ hydrating = <<>>
      /\ hydrating' = <<Head(pushes)>> /\ pushes' = Tail(pushes)
      /\ past' = [past EXCEPT !.events = past.events + 1]
      /\ UNCHANGED <<term, per, tasks, reading, replies, pane>>
  BY DEF HydratePush
<1>3. /\ pushes' \in Seq(Deltas \cup {Palette})
      /\ pushes[1] = Head(pushes) /\ pushes[1] \in Deltas \cup {Palette} /\ 1 \in DOMAIN pushes
      /\ \A i \in DOMAIN pushes' : \E j \in DOMAIN pushes : pushes'[i] = pushes[j]
      /\ \A r : Pushed(r) => Pushed(r)' \/ Mentions(pushes[1], r)
      /\ \A r : (\E j \in DOMAIN pushes : j > 1 /\ Mentions(pushes[j], r)) => Pushed(r)'
      /\ PushesOK /\ (\A r, text : Cleared(r, text)' <=> Cleared(r, text)) => PushesOK'
      /\ \A i \in DOMAIN pushes' : Newest(i)' => \E j \in DOMAIN pushes : Newest(j) /\ pushes'[i] = pushes[j]
      /\ NoChanges' => NoChanges \/ Newest(1)
  BY <1>1, <1>2, HeadGoes
<1>4. PICK d \in Deltas : d = pushes[1]
  BY <1>2, <1>3, Kinds
<1>5. hydrating' = <<d>> /\ hydrating'[1] = d /\ hydrating' # <<>>
  BY <1>2, <1>3, <1>4
<1>6. /\ past' \in [overtaken : BOOLEAN, unsaid : {past.unsaid}, astray : {past.astray}, events : Nat]
      /\ past'.overtaken = past.overtaken /\ past'.astray = past.astray
  <2>1. past \in [overtaken : BOOLEAN, unsaid : SUBSET Rows, astray : SUBSET Rows, events : Nat]
    BY <1>1 DEF Types, ClientType
  <2> QED  BY <1>2, <2>1
<1>7. WireType'
  BY <1>1, <1>2, <1>3, <1>4, <1>5 DEF Types, WireType
<1>8. \A r \in Rows : EntryMove(pane.cache[r], r, {})
  BY DEF EntryMove
<1>9. AwaitOK'
  BY <1>1, <1>2, <1>6 DEF AwaitOK, Awaited
<1>10. pane \in ClientPanes
  BY <1>1 DEF Types, ClientType, ClientPanes
<1>11. /\ \A i \in DOMAIN pushes' : pushes'[i].kind = "changes" =>
            \A r \in Rows : r \in DOMAIN pushes'[i].bonus => r < Made
       /\ \A r \in Rows : r \in DOMAIN d.bonus => r < Made
  BY <1>1, <1>2, <1>3, <1>4, BearsMade
<1>12. Handles({})
  BY <1>2, <1>5, <1>6, <1>7, <1>8, <1>9, <1>10, <1>11 DEF Handles
<1>13. \A r, text : Cleared(r, text)' <=> Cleared(r, text)
  BY <1>1, <1>12, HandlesBase
<1>14. ASSUME InOrder PROVE HeldOK' /\ HydratingOK' /\ PushesOK' /\ ToldOn
  <2>1. HeldOK'
    <3> SUFFICES ASSUME NEW r \in DOMAIN term.main, NEW text \in Texts, Held(r, text)
                 PROVE  Cleared(r, text) \/ Pushed(r)' \/ Mentions(d, r)
      BY <1>2, <1>5, <1>13 DEF HeldOK, Pushed, Mentions, Held
    <3>1. Cleared(r, text) \/ Pushed(r)
      BY <1>2, <1>14 DEF InOrder, HeldOK
    <3> QED  BY <1>3, <1>4, <3>1
  <2>2. HydratingOK'
    <3> SUFFICES ASSUME NEW r \in Rows, NEW text \in Texts, Bears(d, r, text)
                 PROVE  Cleared(r, text) \/ Pushed(r)'
      BY <1>5, <1>13 DEF HydratingOK, Bears
    <3>1. Cleared(r, text) \/ \E j \in DOMAIN pushes : j > 1 /\ Mentions(pushes[j], r)
      BY <1>3, <1>4, <1>14 DEF InOrder, PushesOK
    <3> QED  BY <1>3, <3>1
  <2>3. PushesOK'
    BY <1>3, <1>13, <1>14 DEF InOrder
  <2>4. NoChanges => d.kind # "changes"
    BY <1>3, <1>4 DEF NoChanges
  <2>5. d.kind = "changes"
    BY Kinds
  <2>6. ASSUME NEW n, TopTold(n) PROVE TopTold(n)'
    <3>1. \A i \in DOMAIN pushes' : Newest(i)' => pushes'[i].top = n
      BY <1>3, <2>6 DEF TopTold
    <3>2. NoChanges' => d.top = n
      BY <1>3, <1>4, <2>4, <2>5, <2>6 DEF TopTold
    <3> QED  BY <1>5, <3>1, <3>2 DEF TopTold
  <2>7. ASSUME NEW n, SeqnoTold(n) PROVE SeqnoTold(n)'
    <3>1. \A i \in DOMAIN pushes' : Newest(i)' => pushes'[i].seqno = n
      BY <1>3, <2>7 DEF SeqnoTold
    <3>2. NoChanges' => d.seqno = n
      BY <1>3, <1>4, <2>4, <2>5, <2>7 DEF SeqnoTold
    <3> QED  BY <1>5, <3>1, <3>2 DEF SeqnoTold
  <2> QED  BY <2>1, <2>2, <2>3, <2>6, <2>7 DEF ToldOn
<1> QED  BY <1>6, <1>12, <1>14, HandlesIInv

LEMMA ApplyHydratedIInv ==
    ASSUME IInv, ApplyHydrated
    PROVE  IInv'
<1>1. Base /\ Types /\ TurnOK /\ UnmadeOK /\ AwaitOK
  BY DEF IInv, Base
<1>2. /\ hydrating # <<>> /\ Apply(Head(hydrating)) /\ hydrating' = <<>>
      /\ UNCHANGED <<term, per, reading, pushes, replies, past>>
  BY DEF ApplyHydrated
<1>3. PICK d \in Deltas : hydrating = <<d>>
  BY <1>1, <1>2 DEF Types, WireType
<1>4. Head(hydrating) = d /\ hydrating[1] = d
  BY <1>3
<1>5. \A r \in Rows : r \in DOMAIN d.bonus => r < Made
  BY <1>1, <1>2, <1>4, BearsMade
<1>6. Apply(d)
  BY <1>2, <1>4
<1>7. PICK fetched \in SUBSET Rows :
              /\ Fetch(fetched)
              /\ pane' \in ClientPanes /\ pane'.top = d.top /\ pane'.seqno = d.seqno
              /\ \A r \in Rows : EntryMove(pane'.cache[r], r, fetched)
              /\ \A r \in Rows : r \in DOMAIN d.bonus => pane'.cache[r].text = d.bonus[r].text
              /\ \A r \in Rows : r \notin DOMAIN d.bonus =>
                    pane'.cache[r].kind # "line" \/ (pane'.cache[r] = pane.cache[r] /\ ~Mentions(d, r))
              /\ \A r \in Rows : Mentions(d, r) /\ pane'.cache[r] = pane.cache[r] => pane.cache[r].at = 0
  BY <1>1, <1>5, <1>6, ApplyIs
<1>8. /\ past' \in [overtaken : BOOLEAN, unsaid : {past.unsaid}, astray : {past.astray}, events : Nat]
      /\ past'.overtaken = past.overtaken /\ past'.astray = past.astray
  <2>1. past \in [overtaken : BOOLEAN, unsaid : SUBSET Rows, astray : SUBSET Rows, events : Nat]
    BY <1>1 DEF Types, ClientType
  <2> QED  BY <1>2, <2>1
<1>9. WireType'
  BY <1>1, <1>2 DEF Types, WireType
<1>10. \A i \in DOMAIN pushes' : pushes'[i].kind = "changes" =>
          \A r \in Rows : r \in DOMAIN pushes'[i].bonus => r < Made
  BY <1>1, <1>2, BearsMade
<1>11. AwaitOK' /\ (tasks' = tasks \/ \E job \in Turns \cup Asks : tasks' = Append(tasks, job))
  BY <1>1, <1>2, <1>7, <1>8, FetchIs
<1>12. Handles(fetched)
  BY <1>2, <1>7, <1>8, <1>9, <1>10, <1>11 DEF Handles
<1>13. \A r, text : Cleared(r, text)' <=> Cleared(r, text)
  BY <1>1, <1>12, HandlesBase
<1>14. \A r : Pushed(r)' <=> Pushed(r)
  BY <1>2 DEF Pushed, Mentions
<1>15. ASSUME InOrder PROVE HeldOK' /\ HydratingOK' /\ PushesOK' /\ ToldOn
  <2>1. HeldOK'
    <3> SUFFICES ASSUME NEW r \in DOMAIN term.main, NEW text \in Texts, Held(r, text)'
                 PROVE  Cleared(r, text) \/ Pushed(r)
      BY <1>2, <1>13, <1>14 DEF HeldOK
    <3>1. r \in Rows
      BY <1>1, MadeIs
    <3>2. Bears(d, r, text) \/ (~Mentions(d, r) /\ Held(r, text))
      BY <1>1, <1>2, <1>7, <3>1, HeldApplied
    <3>3. CASE Bears(d, r, text)
      BY <1>2, <1>4, <1>15, <3>1, <3>3 DEF InOrder, HydratingOK
    <3>4. CASE ~Mentions(d, r) /\ Held(r, text)
      BY <1>4, <1>15, <3>4 DEF InOrder, HeldOK
    <3> QED  BY <3>2, <3>3, <3>4
  <2>2. HydratingOK'
    BY <1>2 DEF HydratingOK
  <2>3. PushesOK'
    BY <1>2, <1>13, <1>15 DEF InOrder, PushesOK, Mentions, Bears
  <2>4. \A n : TopTold(n) => TopTold(n)'
    BY <1>2, <1>4, <1>7 DEF TopTold, Newest, NoChanges
  <2>5. \A n : SeqnoTold(n) => SeqnoTold(n)'
    BY <1>2, <1>4, <1>7 DEF SeqnoTold, Newest, NoChanges
  <2> QED  BY <2>1, <2>2, <2>3, <2>4, <2>5 DEF ToldOn
<1> QED  BY <1>8, <1>12, <1>15, HandlesIInv

(* A palette makes the lines stale, and tells nothing of the pane's state. *)
LEMMA ApplyPaletteIInv ==
    ASSUME IInv, ApplyPalette
    PROVE  IInv'
<1> DEFINE c == MakeAllStale(pane.cache)
<1>1. Base /\ Types /\ TurnOK /\ UnmadeOK /\ AwaitOK
  BY DEF IInv, Base
<1>2. /\ pushes # <<>> /\ Head(pushes).kind = "palette" /\ pushes' = Tail(pushes)
      /\ pane' = [pane EXCEPT !.cache = c]
      /\ UNCHANGED <<term, per, tasks, reading, replies, hydrating, past>>
  BY DEF ApplyPalette
<1>3. /\ pushes' \in Seq(Deltas \cup {Palette})
      /\ pushes[1] = Head(pushes) /\ pushes[1] \in Deltas \cup {Palette} /\ 1 \in DOMAIN pushes
      /\ \A i \in DOMAIN pushes' : \E j \in DOMAIN pushes : pushes'[i] = pushes[j]
      /\ \A r : Pushed(r) => Pushed(r)' \/ Mentions(pushes[1], r)
      /\ \A r : (\E j \in DOMAIN pushes : j > 1 /\ Mentions(pushes[j], r)) => Pushed(r)'
      /\ PushesOK /\ (\A r, text : Cleared(r, text)' <=> Cleared(r, text)) => PushesOK'
      /\ \A i \in DOMAIN pushes' : Newest(i)' => \E j \in DOMAIN pushes : Newest(j) /\ pushes'[i] = pushes[j]
      /\ NoChanges' => NoChanges \/ Newest(1)
  BY <1>1, <1>2, HeadGoes
<1>4. \A r : ~Mentions(pushes[1], r)
  BY <1>2, <1>3 DEF Mentions
<1>5. ~Newest(1)
  BY <1>2, <1>3 DEF Newest
<1>6. ASSUME NEW r \in Rows
      PROVE  c[r] \in Entries /\ EntryMove(c[r], r, {}) /\ (c[r] = pane.cache[r] \/ c[r].kind # "line")
  <2>1. c[r] = IF pane.cache[r].kind = "line" THEN MakeStale(pane.cache[r]) ELSE pane.cache[r]
    BY DEF MakeAllStale
  <2>2. pane.cache[r] \in Entries
    BY <1>1, EntryIs
  <2>3. pane.cache[r].kind = "line" => r < Made
    <3>1. r >= Made => pane.cache[r].kind # "line"
      BY <1>1 DEF UnmadeOK
    <3> QED  BY <1>1, <3>1, MadeIs, Sizes
  <2> HIDE DEF c
  <2> QED  BY <2>1, <2>2, <2>3, MakeStaleIs DEF EntryMove
<1>7. c \in [Rows -> Entries]
  <2>1. c = [r \in Rows |-> c[r]]
    BY DEF MakeAllStale
  <2> HIDE DEF c
  <2> QED  BY <1>6, <2>1
<1> HIDE DEF c
<1>8. pane' \in ClientPanes /\ pane'.cache = c /\ pane'.top = pane.top /\ pane'.seqno = pane.seqno
  <2>1. pane \in ClientPanes
    BY <1>1 DEF Types, ClientType, ClientPanes
  <2> QED  BY <1>2, <1>7, <2>1 DEF ClientPanes
<1>9. past' \in [overtaken : BOOLEAN, unsaid : {past.unsaid}, astray : {past.astray}, events : Nat]
      /\ past'.overtaken = past.overtaken
  BY <1>1, <1>2 DEF Types, ClientType
<1>10. WireType'
  BY <1>1, <1>2, <1>3 DEF Types, WireType
<1>11. Fetch({})
  BY <1>2 DEF Fetch
<1>12. AwaitOK'
  <2>1. {} \in SUBSET Rows
    OBVIOUS
  <2> QED  BY <1>1, <1>2, <1>6, <1>8, <1>11, <2>1, FetchIs
<1>13. Handles({})
  <2>1. \A i \in DOMAIN pushes' : pushes'[i].kind = "changes" =>
            \A r \in Rows : r \in DOMAIN pushes'[i].bonus => r < Made
    BY <1>1, <1>3, BearsMade
  <2>2. hydrating' # <<>> => \A r \in Rows : r \in DOMAIN hydrating'[1].bonus => r < Made
    BY <1>1, <1>2, BearsMade
  <2> QED  BY <1>2, <1>6, <1>8, <1>9, <1>10, <1>12, <2>1, <2>2 DEF Handles
<1>14. \A r, text : Cleared(r, text)' <=> Cleared(r, text)
  BY <1>1, <1>13, HandlesBase
<1>15. \A r : Pushed(r) => Pushed(r)'
  BY <1>3, <1>4
<1>16. ASSUME InOrder PROVE HeldOK' /\ HydratingOK' /\ PushesOK' /\ ToldOn
  <2>1. HeldOK'
    <3> SUFFICES ASSUME NEW r \in DOMAIN term.main, NEW text \in Texts, Held(r, text)'
                 PROVE  Cleared(r, text) \/ Pushed(r) \/ (hydrating # <<>> /\ Mentions(hydrating[1], r))
      BY <1>2, <1>14, <1>15 DEF HeldOK, Mentions
    <3>1. r \in Rows
      BY <1>1, MadeIs
    <3>2. Held(r, text)
      <4>1. \/ pane'.cache[r] = pane.cache[r] /\ Held(r, text)
            \/ pane'.cache[r].at = 0 /\ pane'.cache[r].kind = "line" /\ pane'.cache[r].text = text
        BY <1>1, <1>2, <1>6, <1>8, <3>1, HeldMoves
      <4> QED  BY <1>6, <1>8, <3>1, <4>1 DEF Held
    <3> QED  BY <1>16, <3>2 DEF InOrder, HeldOK
  <2>2. HydratingOK'
    BY <1>2, <1>14, <1>15, <1>16 DEF InOrder, HydratingOK, Bears
  <2>3. PushesOK'
    BY <1>3, <1>14, <1>16 DEF InOrder
  <2>4. \A n : TopTold(n) => TopTold(n)'
    BY <1>2, <1>3, <1>5, <1>8 DEF TopTold
  <2>5. \A n : SeqnoTold(n) => SeqnoTold(n)'
    BY <1>2, <1>3, <1>5, <1>8 DEF SeqnoTold
  <2> QED  BY <2>1, <2>2, <2>3, <2>4, <2>5 DEF ToldOn
<1> QED  BY <1>9, <1>13, <1>16, HandlesIInv
-----------------------------------------------------------------------------
(* What changes the cache alone, and makes it hold no more than before.    *)
LEMMA QuietIInv ==
    ASSUME IInv, NEW fetched, Handles(fetched), UNCHANGED <<pushes, hydrating>>,
           past'.overtaken = past.overtaken, pane'.top = pane.top, pane'.seqno = pane.seqno,
           \A r \in Rows : \A text : Held(r, text)' => Held(r, text)
    PROVE  IInv'
<1>1. Base /\ Types /\ TurnOK /\ UNCHANGED term
  BY DEF IInv, Base, Handles
<1>2. \A r, text : Cleared(r, text)' <=> Cleared(r, text)
  BY <1>1, HandlesBase
<1>3. ASSUME InOrder PROVE HeldOK' /\ HydratingOK' /\ PushesOK' /\ ToldOn
  <2>1. HeldOK'
    <3> SUFFICES ASSUME NEW r \in DOMAIN term.main, NEW text \in Texts, Held(r, text)'
                 PROVE  Cleared(r, text) \/ Pushed(r) \/ (hydrating # <<>> /\ Mentions(hydrating[1], r))
      BY <1>1, <1>2 DEF HeldOK, Mentions, Pushed
    <3>1. Held(r, text)
      BY <1>1, MadeIs
    <3> QED  BY <1>3, <3>1 DEF InOrder, HeldOK
  <2>2. HydratingOK' /\ PushesOK'
    BY <1>2, <1>3 DEF InOrder, HydratingOK, PushesOK, Bears, Pushed, Mentions
  <2>3. ToldOn
    BY DEF ToldOn, TopTold, SeqnoTold, Newest, NoChanges
  <2> QED  BY <2>1, <2>2, <2>3
<1> QED  BY <1>3, HandlesIInv

(* Only the cache and the queue of requests move. *)
LEMMA OnlyMoves ==
    ASSUME Types, TurnOK, UnmadeOK, AwaitOK, NEW fetched \in SUBSET Rows, Fetch(fetched),
           UNCHANGED <<term, per, reading, pushes, replies, hydrating, past>>,
           pane' \in ClientPanes, \A r \in Rows : EntryMove(pane'.cache[r], r, fetched)
    PROVE  Handles(fetched)
<1>1. WireType' /\ past' \in [overtaken : BOOLEAN, unsaid : {past.unsaid}, astray : {past.astray}, events : Nat]
  BY DEF Types, WireType, ClientType
<1>2. /\ \A i \in DOMAIN pushes' : pushes'[i].kind = "changes" =>
            \A r \in Rows : r \in DOMAIN pushes'[i].bonus => r < Made
      /\ hydrating' # <<>> => \A r \in Rows : r \in DOMAIN hydrating'[1].bonus => r < Made
  BY BearsMade
<1>3. AwaitOK' /\ (tasks' = tasks \/ \E job \in Turns \cup Asks : tasks' = Append(tasks, job))
  BY FetchIs
<1> QED  BY <1>1, <1>2, <1>3 DEF Handles

LEMMA PaintIInv ==
    ASSUME IInv, Paint
    PROVE  IInv'
<1> DEFINE c == [r \in Rows |->
                  IF r \notin Outdated THEN pane.cache[r]
                  ELSE IF pane.cache[r].kind = "line" THEN MakeStale(pane.cache[r])
                  ELSE Refetch(pane.cache[r], Now)]
<1>1. Base /\ Types /\ TurnOK /\ UnmadeOK /\ AwaitOK
  BY DEF IInv, Base
<1>2. pane' = [pane EXCEPT !.cache = c] /\ Fetch(Outdated)
      /\ UNCHANGED <<term, per, reading, pushes, replies, hydrating, past>>
  BY DEF Paint
<1>3. Outdated \in SUBSET Rows
  <2>1. pane.top \in 0 .. MaxTop /\ pane.view \in -1 .. MaxTop - 1
    BY <1>1 DEF Types, ClientType
  <2>2. View \subseteq Rows
    BY <2>1, Sizes DEF View, Bottom
  <2> QED  BY <2>2 DEF Outdated
<1>4. c = [r \in Rows |-> c[r]]
      /\ \A r \in Rows : c[r] = IF r \notin Outdated THEN pane.cache[r]
                                ELSE IF pane.cache[r].kind = "line" THEN MakeStale(pane.cache[r])
                                ELSE Refetch(pane.cache[r], Now)
  OBVIOUS
<1> HIDE DEF c
<1>5. ASSUME NEW r \in Rows
      PROVE  c[r] \in Entries /\ EntryMove(c[r], r, Outdated) /\ (c[r] = pane.cache[r] \/ c[r].kind # "line")
  <2>1. pane.cache[r] \in Entries /\ Now \in Nat \ {0}
    BY <1>1, EntryIs, NowIsFree
  <2>2. CASE r \notin Outdated
    BY <1>4, <2>1, <2>2 DEF EntryMove
  <2>3. CASE r \in Outdated /\ pane.cache[r].kind = "line"
    <3>1. c[r] = MakeStale(pane.cache[r])
      BY <1>4, <2>3
    <3>2. r < Made
      <4>1. ~(r >= Made)
        BY <1>1, <2>3 DEF UnmadeOK
      <4> QED  BY <1>1, <4>1, MadeIs, Sizes
    <3> QED  BY <2>1, <3>1, <3>2, MakeStaleIs DEF EntryMove
  <2>4. CASE r \in Outdated /\ pane.cache[r].kind # "line"
    <3>1. c[r] = Refetch(pane.cache[r], Now)
      BY <1>4, <2>4
    <3> QED  BY <2>1, <2>4, <3>1, RefetchIs DEF EntryMove
  <2> QED  BY <2>2, <2>3, <2>4
<1>6. c \in [Rows -> Entries]
  BY <1>4, <1>5
<1>7. pane' \in ClientPanes /\ pane'.cache = c /\ pane'.top = pane.top /\ pane'.seqno = pane.seqno
  <2>1. pane \in ClientPanes
    BY <1>1 DEF Types, ClientType, ClientPanes
  <2> QED  BY <1>2, <1>6, <2>1 DEF ClientPanes
<1>8. Handles(Outdated)
  BY <1>1, <1>2, <1>3, <1>5, <1>7, OnlyMoves
<1>9. ASSUME NEW r \in Rows, NEW text, Held(r, text)' PROVE Held(r, text)
  <2>1. \/ pane'.cache[r] = pane.cache[r] /\ Held(r, text)
        \/ pane'.cache[r].at = 0 /\ pane'.cache[r].kind = "line" /\ pane'.cache[r].text = text
    BY <1>1, <1>2, <1>5, <1>7, <1>9, HeldMoves
  <2> QED  BY <1>5, <1>7, <2>1 DEF Held
<1> QED  BY <1>2, <1>7, <1>8, <1>9, QuietIInv

LEMMA ScrollToIInv ==
    ASSUME IInv, NEW row \in {Bottom} \cup 0 .. pane.top - 1, ScrollTo(row)
    PROVE  IInv'
<1>1. Base /\ Types /\ TurnOK /\ UnmadeOK /\ AwaitOK
  BY DEF IInv, Base
<1>2. pane' = [pane EXCEPT !.view = row] /\ past' = [past EXCEPT !.events = past.events + 1]
      /\ UNCHANGED <<term, per, tasks, reading, pushes, replies, hydrating>>
  BY DEF ScrollTo
<1>3. pane \in ClientPanes
  BY <1>1 DEF Types, ClientType, ClientPanes
<1>4. row \in -1 .. MaxTop - 1
  <2>1. pane.top \in 0 .. MaxTop
    BY <1>3 DEF ClientPanes
  <2> QED  BY <2>1, Sizes DEF Bottom
<1>5. pane' \in ClientPanes /\ pane'.cache = pane.cache /\ pane'.top = pane.top /\ pane'.seqno = pane.seqno
  BY <1>2, <1>3, <1>4 DEF ClientPanes
<1>6. /\ past' \in [overtaken : BOOLEAN, unsaid : {past.unsaid}, astray : {past.astray}, events : Nat]
      /\ past'.overtaken = past.overtaken /\ past'.astray = past.astray
  <2>1. past \in [overtaken : BOOLEAN, unsaid : SUBSET Rows, astray : SUBSET Rows, events : Nat]
    BY <1>1 DEF Types, ClientType
  <2> QED  BY <1>2, <2>1
<1>7. AwaitOK'
  BY <1>1, <1>2, <1>5, <1>6 DEF AwaitOK, Awaited
<1>8. WireType' /\ \A r \in Rows : EntryMove(pane'.cache[r], r, {})
  BY <1>1, <1>2, <1>5 DEF Types, WireType, EntryMove
<1>9. Handles({})
  <2>1. /\ \A i \in DOMAIN pushes' : pushes'[i].kind = "changes" =>
              \A r \in Rows : r \in DOMAIN pushes'[i].bonus => r < Made
        /\ hydrating' # <<>> => \A r \in Rows : r \in DOMAIN hydrating'[1].bonus => r < Made
    BY <1>1, <1>2, BearsMade
  <2> QED  BY <1>2, <1>5, <1>6, <1>7, <1>8, <2>1 DEF Handles
<1>10. \A r \in Rows : \A text : Held(r, text)' => Held(r, text)
  BY <1>2, <1>5 DEF Held
<1> QED  BY <1>2, <1>5, <1>6, <1>9, <1>10, QuietIInv

LEMMA PollIInv ==
    ASSUME IInv, Poll
    PROVE  IInv'
<1>1. Base /\ Types /\ TurnOK /\ UnmadeOK /\ AwaitOK
  BY DEF IInv, Base
<1>2. tasks' = Append(tasks, [kind |-> "poll"])
      /\ UNCHANGED <<term, per, reading, pushes, replies, hydrating, pane, past>>
  BY DEF Poll
<1>3. [kind |-> "poll"] \in Turns \cup Asks
  BY DEF Turns
<1>4. pane' \in ClientPanes /\ \A r \in Rows : EntryMove(pane'.cache[r], r, {})
  BY <1>1, <1>2 DEF Types, ClientType, ClientPanes, EntryMove
<1>5. AwaitOK'
  <2>1. \A r, at : (\E i \in DOMAIN tasks : tasks[i].kind = "lines" /\ tasks[i].at = at /\ r \in tasks[i].rows)
           => \E i \in DOMAIN tasks' : tasks'[i].kind = "lines" /\ tasks'[i].at = at /\ r \in tasks'[i].rows
    BY <1>1, <1>2, <1>3, QueuedIs
  <2> SUFFICES ASSUME NEW r \in Rows, r \notin past.astray, pane.cache[r].at # 0
               PROVE  Awaited(r, pane.cache[r].at)'
    BY <1>2 DEF AwaitOK, Awaited
  <2>2. PICK at : at = pane.cache[r].at
    OBVIOUS
  <2>3. Awaited(r, at)
    BY <1>1, <2>2 DEF AwaitOK
  <2>4. Awaited(r, at)'
    BY <1>2, <2>1, <2>3 DEF Awaited
  <2> QED  BY <1>2, <2>2, <2>4 DEF Awaited
<1>6. WireType' /\ past' \in [overtaken : BOOLEAN, unsaid : {past.unsaid}, astray : {past.astray}, events : Nat]
  BY <1>1, <1>2 DEF Types, WireType, ClientType
<1>7. Handles({})
  <2>1. /\ \A i \in DOMAIN pushes' : pushes'[i].kind = "changes" =>
              \A r \in Rows : r \in DOMAIN pushes'[i].bonus => r < Made
        /\ hydrating' # <<>> => \A r \in Rows : r \in DOMAIN hydrating'[1].bonus => r < Made
    BY <1>1, <1>2, BearsMade
  <2> QED  BY <1>2, <1>3, <1>4, <1>5, <1>6, <2>1 DEF Handles
<1>8. \A r \in Rows : \A text : Held(r, text)' => Held(r, text)
  BY <1>2 DEF Held
<1> QED  BY <1>2, <1>7, <1>8, QuietIInv

(* What an answer makes of an entry. *)
LEMMA FetchedIs ==
    ASSUME Types, TurnOK, UnmadeOK, NEW r \in Rows, NEW reply \in replies, NEW e,
           e = IF ~reply.ok /\ r \in reply.rows THEN Unfetch(pane.cache[r], reply.at)
               ELSE IF reply.ok /\ r \in DOMAIN reply.lines
               THEN PutFetched(pane.cache[r], reply.lines[r], reply.at)
               ELSE pane.cache[r]
    PROVE  /\ EntryMove(e, r, {})
           /\ e.at = 0 /\ e.kind = "line" => \A text : e.text = text => Held(r, text)
           /\ /\ pane.cache[r].at = reply.at /\ r \in reply.rows
              /\ reply.ok => r \in DOMAIN reply.lines
              => e.at = 0
<1> DEFINE entry == pane.cache[r]
<1>1. /\ entry \in Entries /\ (entry.at # 0 <=> entry.kind \in {"fetching", "both"})
      /\ reply \in Answers
  BY EntryIs DEF Types, WireType
<1>2. reply.lines \in LineMaps /\ reply.at # 0 /\ reply.ok \in BOOLEAN
  BY <1>1 DEF Answers
<1>3. pane.seqno \in Nat
  BY DEF Types, ClientType
<1>4. CASE e = entry /\ ~(entry.at = reply.at /\ r \in reply.rows /\ (reply.ok => r \in DOMAIN reply.lines))
  BY <1>4 DEF EntryMove, Held
<1>5. CASE entry.at = reply.at /\ ~reply.ok /\ r \in reply.rows
  <2>1. e = Unfetch(entry, reply.at)
    BY <1>5
  <2>2. CASE entry.kind = "both"
    <3>1. e = [entry EXCEPT !.kind = "line", !.at = 0]
      BY <1>5, <2>1, <2>2 DEF Unfetch
    <3>2. e \in Entries /\ e.at = 0 /\ e.kind = "line" /\ e.text = entry.text
      <4>1. \A x \in Entries : LET y == [x EXCEPT !.kind = "line", !.at = 0]
                               IN y \in Entries /\ y.at = 0 /\ y.kind = "line" /\ y.text = x.text
        BY DEF Entries
      <4> HIDE DEF entry
      <4> QED  BY <1>1, <3>1, <4>1
    <3>3. r < Made
      <4>1. ~(r >= Made)
        BY <2>2 DEF UnmadeOK
      <4> QED  BY <4>1, MadeIs, Sizes
    <3>4. \A text : e.text = text => Held(r, text)
      BY <1>5, <2>2, <3>2 DEF Held
    <3> QED  BY <3>2, <3>3, <3>4 DEF EntryMove
  <2>3. CASE entry.kind # "both"
    <3>1. e = Absent
      BY <1>5, <2>1, <2>3 DEF Unfetch
    <3> QED  BY <3>1, AbsentIs DEF EntryMove
  <2> QED  BY <2>2, <2>3
<1>6. CASE entry.at = reply.at /\ reply.ok /\ r \in DOMAIN reply.lines
  <2> DEFINE seen == reply.lines[r]
             line == [seen EXCEPT !.seq = IF seen.seq < pane.seqno THEN pane.seqno ELSE seen.seq]
  <2>1. e = LineEntry(line)
    BY <1>6 DEF PutFetched
  <2>2. seen \in Lines /\ seen.text \in Texts /\ seen.seq \in Nat
    BY <1>2, <1>6, Kinds
  <2>3. line.text = seen.text /\ line.seq \in Nat
    <3> HIDE DEF seen
    <3> QED  BY <1>3, <2>2 DEF Lines
  <2>4. e \in Entries /\ e.at = 0 /\ e.kind = "line" /\ e.text = seen.text
    <3> HIDE DEF seen, line
    <3> QED  BY <2>1, <2>2, <2>3, LineEntryIs
  <2>5. r < Made
    <3>1. ~(r >= Made)
      BY <1>6 DEF UnmadeOK
    <3> QED  BY <3>1, MadeIs, Sizes
  <2>6. \A text : e.text = text => Held(r, text)
    BY <1>6, <2>4 DEF Held
  <2> HIDE DEF seen, line
  <2> QED  BY <2>4, <2>5, <2>6 DEF EntryMove
<1>7. \/ e = entry /\ ~(entry.at = reply.at /\ r \in reply.rows /\ (reply.ok => r \in DOMAIN reply.lines))
      \/ entry.at = reply.at /\ ~reply.ok /\ r \in reply.rows
      \/ entry.at = reply.at /\ reply.ok /\ r \in DOMAIN reply.lines
  BY <1>2 DEF Unfetch, PutFetched
<1> QED  BY <1>4, <1>5, <1>6, <1>7

LEMMA ApplyLinesIInv ==
    ASSUME IInv, NEW reply \in replies, ApplyLines(reply)
    PROVE  IInv'
<1> DEFINE c == [r \in Rows |->
                  IF ~reply.ok /\ r \in reply.rows THEN Unfetch(pane.cache[r], reply.at)
                  ELSE IF reply.ok /\ r \in DOMAIN reply.lines
                  THEN PutFetched(pane.cache[r], reply.lines[r], reply.at)
                  ELSE pane.cache[r]]
<1>1. Base /\ Types /\ TurnOK /\ UnmadeOK /\ AwaitOK
  BY DEF IInv, Base
<1>2. pane' = [pane EXCEPT !.cache = c] /\ replies' = replies \ {reply}
      /\ UNCHANGED <<term, per, tasks, reading, pushes, hydrating, past>>
  BY DEF ApplyLines
<1>3. ASSUME NEW r \in Rows
      PROVE  /\ EntryMove(c[r], r, {})
             /\ c[r].at = 0 /\ c[r].kind = "line" => \A text : c[r].text = text => Held(r, text)
             /\ /\ pane.cache[r].at = reply.at /\ r \in reply.rows
                /\ reply.ok => r \in DOMAIN reply.lines
                => c[r].at = 0
  <2>1. c[r] = IF ~reply.ok /\ r \in reply.rows THEN Unfetch(pane.cache[r], reply.at)
               ELSE IF reply.ok /\ r \in DOMAIN reply.lines
               THEN PutFetched(pane.cache[r], reply.lines[r], reply.at)
               ELSE pane.cache[r]
    OBVIOUS
  <2> HIDE DEF c
  <2> QED  BY <1>1, <2>1, FetchedIs
<1>4. c \in [Rows -> Entries]
  <2>1. c = [r \in Rows |-> c[r]]
    OBVIOUS
  <2> HIDE DEF c
  <2>2. \A r \in Rows : c[r] \in Entries
    BY <1>1, <1>3, EntryMoveIs
  <2> QED  BY <2>1, <2>2
<1> HIDE DEF c
<1>5. pane' \in ClientPanes /\ pane'.cache = c /\ pane'.top = pane.top /\ pane'.seqno = pane.seqno
  <2>1. pane \in ClientPanes
    BY <1>1 DEF Types, ClientType, ClientPanes
  <2> QED  BY <1>2, <1>4, <2>1 DEF ClientPanes
<1>6. WireType'
  <2>1. IsFiniteSet(replies') /\ replies' \subseteq replies
    BY <1>1, <1>2, FS_Subset DEF Types, WireType
  <2> QED  BY <1>1, <1>2, <2>1 DEF Types, WireType
<1>7. past' \in [overtaken : BOOLEAN, unsaid : {past.unsaid}, astray : {past.astray}, events : Nat]
  BY <1>1, <1>2 DEF Types, ClientType
<1>8. AwaitOK'
  <2> SUFFICES ASSUME NEW r \in Rows, r \notin past.astray, c[r].at # 0
               PROVE  Awaited(r, pane.cache[r].at)'
    BY <1>2, <1>5 DEF AwaitOK, Awaited
  <2>1. PICK at : at = pane.cache[r].at
    OBVIOUS
  <2>2. c[r] = pane.cache[r]
    BY <1>1, <1>3, <2>1, EntryMoveIs
  <2>3. Awaited(r, at)
    BY <1>1, <2>1, <2>2 DEF AwaitOK
  <2>4. Awaited(r, at)'
    BY <1>2, <1>3, <2>1, <2>3 DEF Awaited
  <2> QED  BY <1>5, <2>1, <2>2, <2>4 DEF Awaited
<1>9. Handles({})
  <2>1. /\ \A i \in DOMAIN pushes' : pushes'[i].kind = "changes" =>
              \A r \in Rows : r \in DOMAIN pushes'[i].bonus => r < Made
        /\ hydrating' # <<>> => \A r \in Rows : r \in DOMAIN hydrating'[1].bonus => r < Made
    BY <1>1, <1>2, BearsMade
  <2> QED  BY <1>2, <1>3, <1>5, <1>6, <1>7, <1>8, <2>1 DEF Handles
<1>10. ASSUME NEW r \in Rows, NEW text, Held(r, text)' PROVE Held(r, text)
  <2>1. \/ pane'.cache[r] = pane.cache[r] /\ Held(r, text)
        \/ pane'.cache[r].at = 0 /\ pane'.cache[r].kind = "line" /\ pane'.cache[r].text = text
    BY <1>1, <1>2, <1>3, <1>5, <1>10, HeldMoves
  <2> QED  BY <1>3, <1>5, <2>1
<1> QED  BY <1>2, <1>5, <1>9, <1>10, QuietIInv
-----------------------------------------------------------------------------
(* Another connection: all is to be told again. *)
LEMMA FailedIs ==
    ASSUME NEW rows \in SUBSET Rows, NEW at \in Nat \ {0}
    PROVE  /\ Failed(rows, at) \in Answers /\ ~Failed(rows, at).ok
           /\ Failed(rows, at).at = at /\ Failed(rows, at).rows = rows
           /\ \A r : r \notin DOMAIN Failed(rows, at).lines
<1>1. <<>> \in LineMaps /\ \A r : r \notin DOMAIN <<>>
  <2>1. <<>> \in [{} -> Lines] /\ {} \in SUBSET Rows
    OBVIOUS
  <2> QED  BY <2>1 DEF LineMaps
<1> QED  BY <1>1 DEF Failed, Answers

LEMMA ReconnectReplies ==
    ASSUME Types, Reconnect
    PROVE  /\ replies' \subseteq Answers /\ IsFiniteSet(replies')
           /\ \A reply \in replies' : reply \in replies \/ \A r : r \notin DOMAIN reply.lines
           /\ \A r, at : Awaited(r, at) => Awaited(r, at)'
           /\ pushes' \in Seq(Deltas \cup {Palette})
           /\ \A i \in DOMAIN pushes' : i \in DOMAIN pushes /\ pushes'[i] = pushes[i]
<1>0. \A rows \in SUBSET Rows : \A at \in Nat \ {0} :
          /\ Failed(rows, at) \in Answers /\ ~Failed(rows, at).ok
          /\ Failed(rows, at).at = at /\ Failed(rows, at).rows = rows
          /\ \A r : r \notin DOMAIN Failed(rows, at).lines
  BY FailedIs
<1>1. PICK arrived \in 0 .. Len(pushes), answers \in SUBSET replies :
          /\ pushes' = SubSeq(pushes, 1, arrived)
          /\ replies' = answers
               \cup {Failed(reply.rows, reply.at) : reply \in replies \ answers}
               \cup {Failed(tasks[i].rows, tasks[i].at) :
                        i \in {j \in DOMAIN tasks : tasks[j].kind = "lines"}}
  BY DEF Reconnect
<1> DEFINE asked == {j \in DOMAIN tasks : tasks[j].kind = "lines"}
           lost == {Failed(reply.rows, reply.at) : reply \in replies \ answers}
           unmet == {Failed(tasks[i].rows, tasks[i].at) : i \in asked}
<1>2. /\ replies \subseteq Answers /\ IsFiniteSet(replies) /\ pushes \in Seq(Deltas \cup {Palette})
      /\ tasks \in Seq(Turns \cup Asks)
  BY DEF Types, WireType, ServerType
<1>3. \A reply \in replies : reply.rows \in SUBSET Rows /\ reply.at \in Nat \ {0}
  BY <1>2 DEF Answers
<1>4. \A i \in asked : tasks[i].rows \in SUBSET Rows /\ tasks[i].at \in Nat \ {0}
  <2>1. \A i \in DOMAIN tasks : tasks[i] \in Turns \cup Asks
    BY <1>2
  <2> QED  BY <2>1, Kinds
<1>5. replies' = answers \cup lost \cup unmet
  BY <1>1
<1>6. lost \subseteq Answers /\ \A reply \in lost : \A r : r \notin DOMAIN reply.lines
  <2>1. ASSUME NEW reply \in lost PROVE reply \in Answers /\ \A r : r \notin DOMAIN reply.lines
    <3>1. PICK asking \in replies \ answers : reply = Failed(asking.rows, asking.at)
      OBVIOUS
    <3>2. PICK rows \in SUBSET Rows, at \in Nat \ {0} : rows = asking.rows /\ at = asking.at
      BY <1>3
    <3>3. reply = Failed(rows, at)
      BY <3>1, <3>2
    <3> HIDE DEF lost
    <3> QED  BY <1>0, <3>3
  <2> QED  BY <2>1
<1>7. unmet \subseteq Answers /\ \A reply \in unmet : \A r : r \notin DOMAIN reply.lines
  <2>1. ASSUME NEW reply \in unmet PROVE reply \in Answers /\ \A r : r \notin DOMAIN reply.lines
    <3>1. PICK i \in asked : reply = Failed(tasks[i].rows, tasks[i].at)
      OBVIOUS
    <3>2. PICK rows \in SUBSET Rows, at \in Nat \ {0} : rows = tasks[i].rows /\ at = tasks[i].at
      BY <1>4
    <3>3. reply = Failed(rows, at)
      BY <3>1, <3>2
    <3> HIDE DEF unmet
    <3> QED  BY <1>0, <3>3
  <2> QED  BY <2>1
<1>8. IsFiniteSet(answers) /\ IsFiniteSet(replies \ answers)
  BY <1>2, FS_Subset
<1>9. IsFiniteSet(lost)
  <2> DEFINE f == [reply \in replies \ answers |-> Failed(reply.rows, reply.at)]
  <2>1. DOMAIN f = replies \ answers /\ f = [x \in replies \ answers |-> f[x]]
        /\ lost = {f[x] : x \in replies \ answers}
    OBVIOUS
  <2> HIDE DEF f, lost
  <2> QED  BY <1>8, <2>1, ImageOf
<1>10. IsFiniteSet(unmet)
  <2>1. IsFiniteSet(asked)
    <3>1. DOMAIN tasks = 1 .. Len(tasks) /\ Len(tasks) \in Nat
      BY <1>2
    <3>2. IsFiniteSet(1 .. Len(tasks))
      BY <3>1, FS_Interval
    <3> QED  BY <3>1, <3>2, FS_Subset
  <2> DEFINE f == [i \in asked |-> Failed(tasks[i].rows, tasks[i].at)]
  <2>2. DOMAIN f = asked /\ f = [x \in asked |-> f[x]] /\ unmet = {f[x] : x \in asked}
    OBVIOUS
  <2> HIDE DEF f, unmet, asked
  <2> QED  BY <2>1, <2>2, ImageOf
<1>11. ASSUME NEW r, NEW at, Awaited(r, at) PROVE Awaited(r, at)'
  <2>1. ASSUME NEW i \in asked, tasks[i].at = at, r \in tasks[i].rows PROVE Awaited(r, at)'
    <3>1. PICK reply \in unmet : reply = Failed(tasks[i].rows, tasks[i].at)
      OBVIOUS
    <3>2. ~reply.ok /\ reply.at = at /\ r \in reply.rows
      BY <2>1, <3>1 DEF Failed
    <3>3. reply \in replies'
      BY <1>5
    <3> QED  BY <3>2, <3>3 DEF Awaited
  <2>2. ASSUME NEW reply \in replies, reply.at = at, r \in reply.rows,
               reply.ok => r \in DOMAIN reply.lines
        PROVE  Awaited(r, at)'
    <3>1. CASE reply \in answers
      <4>1. reply \in replies'
        BY <1>5, <3>1
      <4> QED  BY <2>2, <4>1 DEF Awaited
    <3>2. CASE reply \notin answers
      <4>1. PICK failed \in lost : failed = Failed(reply.rows, reply.at)
        BY <3>2
      <4>2. ~failed.ok /\ failed.at = at /\ r \in failed.rows
        BY <2>2, <4>1 DEF Failed
      <4>3. failed \in replies'
        BY <1>5
      <4> QED  BY <4>2, <4>3 DEF Awaited
    <3> QED  BY <3>1, <3>2
  <2> QED  BY <1>11, <2>1, <2>2 DEF Awaited
<1>12. /\ pushes' \in Seq(Deltas \cup {Palette})
       /\ \A i \in DOMAIN pushes' : i \in DOMAIN pushes /\ pushes'[i] = pushes[i]
  BY <1>1, <1>2
<1> HIDE DEF lost, unmet
<1>13. IsFiniteSet(replies')
  BY <1>5, <1>8, <1>9, <1>10, FS_Union
<1> QED  BY <1>2, <1>5, <1>6, <1>7, <1>11, <1>12, <1>13

LEMMA NewSessionIs ==
    NewSession \in SentType /\ NewSession.seqno = 0 /\ Idle \in Readings
<1>1. /\ 0 \in Rows /\ 0 \in 0 .. MaxTop /\ 0 \in Nat
  BY Sizes
<1>2. <<>> \in LineMaps
  <2>1. <<>> \in [{} -> Lines] /\ {} \in SUBSET Rows
    OBVIOUS
  <2> QED  BY <2>1 DEF LineMaps
<1>3. Idle \in Readings
  BY <1>1, <1>2 DEF Idle, Readings, Steps
<1> QED  BY <1>1, <1>3 DEF NewSession, SentType

LEMMA ReconnectIInv ==
    ASSUME IInv, Reconnect
    PROVE  IInv'
<1>1. Base /\ Types /\ SeqBound /\ TurnOK /\ UnmadeOK /\ AwaitOK
  BY DEF IInv, Base
<1>2. /\ per' = NewSession /\ tasks' = <<>> /\ reading' = Idle
      /\ past' = [past EXCEPT !.events = past.events + 1,
                  !.unsaid = IF term.alt THEN {r \in Rows : r >= Height} ELSE {}]
      /\ UNCHANGED <<term, hydrating, pane>>
  BY DEF Reconnect
<1>3. /\ replies' \subseteq Answers /\ IsFiniteSet(replies')
      /\ \A reply \in replies' : reply \in replies \/ \A r : r \notin DOMAIN reply.lines
      /\ \A r, at : Awaited(r, at) => Awaited(r, at)'
      /\ pushes' \in Seq(Deltas \cup {Palette})
      /\ \A i \in DOMAIN pushes' : i \in DOMAIN pushes /\ pushes'[i] = pushes[i]
  BY <1>1, ReconnectReplies
<1>4. per' \in SentType /\ per'.seqno = 0 /\ reading' \in Readings
      /\ reading'.step = "idle" /\ reading'.bonus = <<>>
  BY <1>2, NewSessionIs DEF Idle
<1>5. /\ past' \in [overtaken : BOOLEAN, unsaid : SUBSET Rows, astray : SUBSET Rows, events : Nat]
      /\ past'.astray = past.astray /\ past'.unsaid = IF term.alt THEN {r \in Rows : r >= Height} ELSE {}
  <2> DEFINE behind == IF term.alt THEN {r \in Rows : r >= Height} ELSE {}
  <2>1. past \in [overtaken : BOOLEAN, unsaid : SUBSET Rows, astray : SUBSET Rows, events : Nat]
    BY <1>1 DEF Types, ClientType
  <2>2. behind \in SUBSET Rows /\ past' = [past EXCEPT !.events = past.events + 1, !.unsaid = behind]
    BY <1>2
  <2>3. past'.astray = past.astray /\ past'.unsaid = behind
        /\ past' \in [overtaken : BOOLEAN, unsaid : SUBSET Rows, astray : SUBSET Rows, events : Nat]
    <3> HIDE DEF behind
    <3>1. past.events + 1 \in Nat
      BY <2>1
    <3> QED  BY <2>1, <2>2, <3>1
  <2> QED  BY <2>3
<1>6. MainRows' = MainRows /\ Made' = MainRows /\ \A r : Cur(r)' = Cur(r)
  BY <1>2, <1>4 DEF MainRows, Made, Cur
<1>7. Types' /\ SeqBound'
  <2>1. TermType' /\ SeqBound'
    BY <1>1, <1>2 DEF Types, TermType, SeqBound, MainTop, MainRows
  <2>2. ServerType'
    <3>1. <<>> \in Seq(Turns \cup Asks)
      OBVIOUS
    <3> QED  BY <1>2, <1>4, <3>1 DEF ServerType
  <2>3. WireType'
    BY <1>1, <1>2, <1>3 DEF Types, WireType
  <2>4. ClientType'
    BY <1>1, <1>2, <1>5 DEF Types, ClientType
  <2> QED  BY <2>1, <2>2, <2>3, <2>4 DEF Types
<1>8. TurnOK'
  <2>1. term.seqno \in Nat
    BY <1>1, SeqnosAre
  <2> QED  BY <1>2, <1>4, <2>1 DEF TurnOK
<1>9. ASSUME NEW r \in DOMAIN term.main, NEW text PROVE Cleared(r, text)'
  <2>1. r \in Rows /\ Cur(r) \in Lines
    BY <1>1, ShownRows DEF Types
  <2>2. Cur(r).seq > 0
    BY <2>1, Sizes DEF Lines
  <2>3. Pending(r)'
    BY <1>4, <1>6, <2>2 DEF Pending
  <2> QED  BY <2>3 DEF Cleared
<1>10. HiddenOK'
  BY <1>1, <1>2, <1>5, MadeIs DEF HiddenOK
<1>11. AwaitOK'
  <2> SUFFICES ASSUME NEW r \in Rows, r \notin past.astray, pane.cache[r].at # 0
               PROVE  Awaited(r, pane.cache[r].at)'
    BY <1>2, <1>5 DEF AwaitOK, Awaited
  <2>1. PICK at : at = pane.cache[r].at
    OBVIOUS
  <2>2. Awaited(r, at)'
    BY <1>1, <1>3, <2>1 DEF AwaitOK
  <2> QED  BY <1>2, <2>1, <2>2 DEF Awaited
<1>12. BonusOK' /\ MovedOK' /\ SinceOK'
  BY <1>4 DEF BonusOK, MovedOK, SinceOK
<1>13. UnmadeOK'
  <2> SUFFICES ASSUME NEW r \in Rows, r >= MainRows
               PROVE  /\ pane.cache[r].kind \in {"none", "fetching"}
                      /\ \A reply \in replies' : r \notin DOMAIN reply.lines
                      /\ \A i \in DOMAIN pushes' : pushes'[i].kind = "changes" => r \notin DOMAIN pushes'[i].bonus
                      /\ hydrating # <<>> => r \notin DOMAIN hydrating[1].bonus
    BY <1>2, <1>6 DEF UnmadeOK
  <2>1. r >= Made
    BY <1>1, MadeIs, Sizes
  <2> QED  BY <1>1, <1>3, <2>1 DEF UnmadeOK
<1>14. Base'
  BY <1>7, <1>8, <1>10, <1>11, <1>12, <1>13 DEF Base
<1>15. InOrder'
  <2>1. HeldOK'
    BY <1>2, <1>9 DEF HeldOK
  <2>2. HydratingOK'
    <3> SUFFICES ASSUME hydrating # <<>>, NEW r \in Rows, NEW text \in Texts, Bears(hydrating[1], r, text)
                 PROVE  Cleared(r, text)'
      BY <1>2 DEF HydratingOK, Bears
    <3>1. r < Made
      BY <1>1, BearsMade DEF Bears
    <3> QED  BY <1>1, <1>9, <3>1, MadeIs
  <2>3. PushesOK'
    <3> SUFFICES ASSUME NEW i \in DOMAIN pushes', NEW r \in Rows, NEW text \in Texts, Bears(pushes'[i], r, text)
                 PROVE  Cleared(r, text)'
      BY DEF PushesOK, Bears
    <3>1. r < Made
      BY <1>1, <1>3, BearsMade DEF Bears
    <3> QED  BY <1>1, <1>9, <3>1, MadeIs
  <2>4. TopOK' /\ SeqnoOK'
    BY <1>4 DEF TopOK, SeqnoOK, Evidence
  <2> QED  BY <2>1, <2>2, <2>3, <2>4 DEF InOrder
<1> QED  BY <1>14, <1>15 DEF IInv

-----------------------------------------------------------------------------
(* The client attaches to an empty pane. *)
LEMMA InitIInv ==
    ASSUME Init
    PROVE  IInv
<1> DEFINE blank == [text |-> 1, seq |-> 1]
<1>1. /\ term = [main |-> [r \in 0 .. FirstTop + Height - 1 |-> blank],
                 other |-> [r \in 0 .. Height - 1 |-> blank],
                 alt |-> FALSE, cursor |-> 0, saved |-> 0, seqno |-> 1]
      /\ per = NewSession /\ reading = Idle
      /\ tasks = <<>> /\ pushes = <<>> /\ hydrating = <<>> /\ replies = {}
      /\ pane = [cache |-> [r \in Rows |-> Absent], top |-> 0, cursor |-> 0,
                 seqno |-> 0, view |-> Bottom]
      /\ past = [overtaken |-> FALSE, unsaid |-> {}, astray |-> {}, events |-> 0]
  BY DEF Init
<1>2. blank \in Lines /\ 1 \in 1 .. MaxOutputs + 1
  BY Sizes DEF Lines
<1>3. blank.seq = 1 /\ blank.text = 1
  OBVIOUS
<1> HIDE DEF blank
<1> DEFINE main == [r \in 0 .. FirstTop + Height - 1 |-> blank]
           other == [r \in 0 .. Height - 1 |-> blank]
<1>4. /\ main \in [0 .. FirstTop + Height - 1 -> Lines] /\ DOMAIN main = 0 .. FirstTop + Height - 1
      /\ other \in [0 .. Height - 1 -> Lines] /\ DOMAIN other = 0 .. Height - 1
      /\ \A r \in DOMAIN main : main[r].seq = 1
      /\ \A r \in DOMAIN other : other[r].seq = 1
  BY <1>2, <1>3
<1>5. term = [main |-> main, other |-> other, alt |-> FALSE, cursor |-> 0, saved |-> 0, seqno |-> 1]
  BY <1>1
<1> HIDE DEF main, other
<1>6. MainTop = FirstTop
  <2>1. Cardinality(0 .. FirstTop + Height - 1)
          = IF 0 > FirstTop + Height - 1 THEN 0 ELSE FirstTop + Height - 1 - 0 + 1
    BY Sizes, FS_Interval
  <2>2. MainTop = Cardinality(0 .. FirstTop + Height - 1) - Height
    BY <1>4, <1>5 DEF MainTop, MainRows
  <2> QED  BY <2>1, <2>2, Sizes
<1>7. TermType
  <2>1. main \in Mains
    BY <1>4, Sizes DEF Mains
  <2>2. 0 \in 0 .. Height - 1
    BY Sizes
  <2> QED  BY <1>2, <1>4, <1>5, <1>6, <2>1, <2>2, Sizes DEF TermType
<1>8. SeqBound
  BY <1>4, <1>5 DEF SeqBound
<1>9. ServerType /\ WireType
  <2>1. <<>> \in Seq(Turns \cup Asks) /\ <<>> \in Seq(Deltas \cup {Palette})
    OBVIOUS
  <2>2. IsFiniteSet({})
    BY FS_EmptySet
  <2> QED  BY <1>1, <2>1, <2>2, NewSessionIs DEF ServerType, WireType
<1>10. \A r \in Rows : pane.cache[r] = Absent
  BY <1>1
<1>11. ClientType
  <2>1. pane \in ClientPanes
    <3>1. [r \in Rows |-> Absent] \in [Rows -> Entries]
      BY AbsentIs
    <3> QED  BY <1>1, <3>1, Sizes DEF ClientPanes, Bottom
  <2>2. \A r \in Rows : pane.cache[r].at # 0 <=> pane.cache[r].kind \in {"fetching", "both"}
    BY <1>10, AbsentIs
  <2> QED  BY <1>1, <2>1, <2>2 DEF ClientType, ClientPanes
<1>12. TurnOK /\ HiddenOK /\ AwaitOK /\ BonusOK /\ MovedOK /\ SinceOK
  <2>1. reading.step = "idle" /\ reading.bonus = <<>> /\ per.seqno = 0 /\ ~term.alt /\ term.seqno = 1
    BY <1>1, <1>5, NewSessionIs DEF Idle
  <2>2. AwaitOK
    BY <1>10, AbsentIs DEF AwaitOK
  <2> QED  BY <2>1, <2>2 DEF TurnOK, HiddenOK, BonusOK, MovedOK, SinceOK
<1>13. UnmadeOK
  BY <1>1, <1>10, AbsentIs DEF UnmadeOK
<1>14. InOrder
  <2>1. \A r \in Rows : \A text : ~Held(r, text)
    BY <1>1, <1>10, AbsentIs DEF Held
  <2>2. HeldOK
    BY <1>7, <2>1, ShownRows DEF HeldOK
  <2>3. HydratingOK /\ PushesOK
    BY <1>1 DEF HydratingOK, PushesOK
  <2>4. TopOK /\ SeqnoOK
    BY <1>1, NewSessionIs DEF TopOK, SeqnoOK, Evidence
  <2> QED  BY <2>2, <2>3, <2>4 DEF InOrder
<1> QED  BY <1>7, <1>8, <1>9, <1>11, <1>12, <1>13, <1>14 DEF IInv, Base, Types

LEMMA NextIInv ==
    ASSUME IInv, [Next]_vars
    PROVE  IInv'
<1>1. CASE Program
  BY <1>1, ProgramIInv
<1>2. CASE Server
  BY <1>2, ReadDimensionsIInv, ReadCursorIInv, ReadSeqnoIInv, ReadDirtyIInv, ReadViewportIInv,
     SendNothingIInv, SendDeltaIInv, AnswerLinesIInv DEF Server
<1>3. CASE Receive
  BY <1>3, ApplyPushIInv, HydratePushIInv, ApplyPaletteIInv DEF Receive
<1>4. CASE ApplyHydrated
  BY <1>4, ApplyHydratedIInv
<1>5. CASE AnyLines
  BY <1>5, ApplyLinesIInv DEF AnyLines
<1>6. CASE Paint
  BY <1>6, PaintIInv
<1>7. CASE Poll
  BY <1>7, PollIInv
<1>8. CASE Reconnect
  BY <1>8, ReconnectIInv
<1>9. ASSUME NEW row \in {Bottom} \cup 0 .. pane.top - 1, ScrollTo(row) PROVE IInv'
  BY <1>9, ScrollToIInv
<1>10. CASE UNCHANGED vars
  <2>1. Base'
    BY <1>10 DEF IInv, Base, Types, TermType, ServerType, WireType, ClientType, SeqBound, TurnOK, AtWork,
       HiddenOK, AwaitOK, Awaited, BonusOK, UnmadeOK, Made, MovedOK, TurnTo, SinceOK, MainTop, MainRows, Cur,
       Top, Screen, vars
  <2>2. InOrder => InOrder'
    <3> USE DEF vars
    <3>1. /\ \A r : Cur(r)' = Cur(r)
          /\ Screen' = Screen /\ Top' = Top
      BY <1>10 DEF Cur, Screen, Top
    <3>2. \A r : Pending(r)' <=> Pending(r)
      BY <1>10, <3>1 DEF Pending
    <3>3. \A r, text : Cleared(r, text)' <=> Cleared(r, text)
      BY <1>10, <3>1, <3>2 DEF Cleared
    <3>4. HeldOK => HeldOK'
      <4>1. \A r, text : Held(r, text)' <=> Held(r, text)
        BY <1>10 DEF Held
      <4>2. \A r : Pushed(r)' <=> Pushed(r)
        BY <1>10 DEF Pushed, Mentions
      <4> QED  BY <1>10, <3>3, <4>1, <4>2 DEF HeldOK, Mentions
    <3>5. (HydratingOK => HydratingOK') /\ (PushesOK => PushesOK')
      BY <1>10, <3>3 DEF HydratingOK, PushesOK, Bears, Pushed, Mentions
    <3>6. TopOK => TopOK'
      BY <1>10 DEF TopOK, TopTold, Newest, NoChanges
    <3>7. SeqnoOK => SeqnoOK'
      <4>1. Evidence => Evidence'
        BY <1>10, <3>1, <3>2 DEF Evidence
      <4> QED  BY <1>10, <4>1 DEF SeqnoOK, SeqnoTold, Newest, NoChanges
    <3> QED  BY <3>4, <3>5, <3>6, <3>7 DEF InOrder
  <2>3. past' = past
    BY <1>10 DEF vars
  <2> QED  BY <2>1, <2>2, <2>3 DEF IInv
<1> QED  BY <1>1, <1>2, <1>3, <1>4, <1>5, <1>6, <1>7, <1>8, <1>9, <1>10 DEF Next

-----------------------------------------------------------------------------
(* What a client holds of a row is the server's, or the server is about to *)
(* tell it otherwise, or has: at every moment, whatever is under way.      *)
THEOREM ViewIsTold == Spec => []IInv
<1>1. Init => IInv
  BY InitIInv
<1>2. IInv /\ [Next]_vars => IInv'
  BY NextIInv
<1> QED  BY <1>1, <1>2, PTL DEF Spec

LEMMA RestingView ==
    ASSUME IInv
    PROVE  RestingViewIsCurrent
<1>1. /\ Base /\ Types /\ SeqBound /\ TurnOK /\ AwaitOK /\ MovedOK
      /\ TermType /\ ServerType /\ WireType /\ ClientType
  BY DEF IInv, Base, Types
<1>2. TypeOK
  <2>1. term.main \in [0 .. Cardinality(DOMAIN term.main) - 1 -> Lines]
    <3>1. MainRows = MainTop + Height /\ term.main \in [0 .. MainTop + Height - 1 -> Lines]
      BY <1>1, Shape DEF TermType
    <3>2. Cardinality(DOMAIN term.main) - 1 = MainTop + Height - 1
      <4>1. Cardinality(DOMAIN term.main) = MainRows
        BY DEF MainRows
      <4>2. MainTop \in Nat /\ MainRows = MainTop + Height
        BY <1>1, Shape, Sizes DEF TermType
      <4> QED  BY <4>1, <4>2, Sizes
    <3> QED  BY <3>1, <3>2
  <2>2. term.other \in [0 .. Height - 1 -> Lines]
        /\ {term.cursor, term.saved} \subseteq 0 .. Height - 1 /\ term.seqno \in 1 .. MaxOutputs + 1
    BY <1>1 DEF TermType
  <2>3. per.seqno \in 0 .. term.seqno
    BY <1>1, SeqnosAre DEF TurnOK
  <2>4. reading.dirty \subseteq Rows
    BY <1>1 DEF ServerType, Readings
  <2>5. \A r \in Rows :
          /\ pane.cache[r].kind \in {"none", "line", "fetching", "both", "stale"}
          /\ pane.cache[r].at # 0 <=> pane.cache[r].kind \in {"fetching", "both"}
    BY <1>1, EntryIs DEF Entries
  <2>6. pane.top \in 0 .. MaxTop /\ pane.view \in Rows \cup {Bottom}
    <3>1. pane.top \in 0 .. MaxTop /\ pane.view \in -1 .. MaxTop - 1
      BY <1>1 DEF ClientType
    <3> QED  BY <3>1, Sizes DEF Bottom
  <2> QED  BY <2>1, <2>2, <2>3, <2>4, <2>5, <2>6 DEF TypeOK
<1> SUFFICES ASSUME Rest
             PROVE  /\ \A r \in Rows \ past.astray : pane.cache[r].at = 0
                    /\ ~past.overtaken =>
                         /\ pane.top = Top
                         /\ past.unsaid = {} => pane.seqno = term.seqno
                         /\ \A r \in DOMAIN Screen \ past.unsaid :
                               pane.cache[r].kind = "line" => pane.cache[r].text = Screen[r].text
  BY <1>2 DEF RestingViewIsCurrent
<1>3. /\ tasks = <<>> /\ pushes = <<>> /\ replies = {} /\ hydrating = <<>>
      /\ per.seqno = term.seqno
  BY DEF Rest
<1>4. DOMAIN tasks = {} /\ DOMAIN pushes = {} /\ reading.step = "idle"
  BY <1>1, <1>3 DEF TurnOK, AtWork
<1>5. \A r \in Rows \ past.astray : pane.cache[r].at = 0
  BY <1>1, <1>3, <1>4 DEF AwaitOK, Awaited
<1>6. \A r \in DOMAIN term.main : ~Pending(r)
  <2>1. \A r \in DOMAIN term.main : Cur(r).seq \in Nat /\ Cur(r).seq <= term.seqno /\ term.seqno \in Nat
    BY <1>1, SeqnosAre
  <2> QED  BY <1>3, <1>4, <2>1 DEF Pending
<1>7. ASSUME ~past.overtaken
      PROVE  /\ pane.top = Top
             /\ past.unsaid = {} => pane.seqno = term.seqno
             /\ \A r \in DOMAIN Screen \ past.unsaid :
                   pane.cache[r].kind = "line" => pane.cache[r].text = Screen[r].text
  <2>1. InOrder
    BY <1>7 DEF IInv
  <2>2. per.seqno # 0
    <3>1. term.seqno \in 1 .. MaxOutputs + 1
      BY <1>1 DEF TermType
    <3> QED  BY <1>3, <3>1, Sizes
  <2>3. per.top = Top
    BY <1>1, <1>4, <2>2 DEF MovedOK
  <2>4. NoChanges
    BY <1>4 DEF NoChanges
  <2>5. pane.top = Top
    BY <1>3, <2>1, <2>2, <2>3, <2>4 DEF InOrder, TopOK, TopTold
  <2>6. /\ DOMAIN Screen \subseteq DOMAIN term.main /\ DOMAIN term.main \subseteq Rows
        /\ \A r \in DOMAIN Screen : Screen[r] = Cur(r)
    BY <1>1, ShownRows
  <2>7. past.unsaid = {} => pane.seqno = term.seqno
    <3>1. past.unsaid = {} => ~Evidence
      BY <1>4, <1>6, <2>2, <2>3, <2>6 DEF Evidence
    <3> QED  BY <1>3, <2>1, <2>4, <3>1 DEF InOrder, SeqnoOK, SeqnoTold
  <2>8. ASSUME NEW r \in DOMAIN Screen, r \notin past.unsaid, pane.cache[r].kind = "line"
        PROVE  pane.cache[r].text = Screen[r].text
    <3>1. PICK text : text = pane.cache[r].text
      OBVIOUS
    <3>2. Held(r, text) /\ text \in Texts
      <4>1. pane.cache[r] \in Entries
        BY <1>1, <2>6, EntryIs
      <4> QED  BY <2>8, <3>1, <4>1 DEF Held, Entries
    <3>3. ~Pushed(r)
      BY <1>4 DEF Pushed
    <3>4. Cleared(r, text)
      BY <1>3, <2>1, <2>6, <3>2, <3>3 DEF InOrder, HeldOK
    <3> QED  BY <1>6, <2>6, <2>8, <3>1, <3>4 DEF Cleared
  <2> QED  BY <2>5, <2>7, <2>8
<1> QED  BY <1>5, <1>7

(* Once nothing is under way, no row waits for a download that will not    *)
(* come, and what the client holds for up to date has the server's text,   *)
(* with the exceptions that RestingViewIsCurrent names: for any height,    *)
(* number of outputs, pushes, fetches, connections lost and scrolls.       *)
THEOREM ViewRestsCurrent == Spec => []RestingViewIsCurrent
  BY ViewIsTold, RestingView, PTL
=============================================================================

-------------------------- MODULE AgentStatusStore --------------------------
(* The agent status store as a state machine: its mutators called in any   *)
(* order with any arguments, and seconds passing, beside a history of what *)
(* an observer of the same events knows about each pane's turn.            *)
EXTENDS AgentStatusOps

VARIABLE
    turn        \* history: what an observer of the events of a pane knows

storeVars == <<store, turn>>

(* phase: whether the agent is running a turn; output: the last message it *)
(* sent while running, or else the first it sent after it stopped;         *)
(* cleared: a clear event ended the turn.                                  *)
NoTurn == [phase |-> "none", output |-> None, cleared |-> FALSE]

StoreInit ==
    /\ store = EmptyStore
    /\ turn = [p \in Panes |-> NoTurn]

TurnOnStatus(t, status, dropped) ==
    IF dropped \/ (status = "working" /\ t.phase = "running") THEN t
    ELSE IF status = "working" THEN [NoTurn EXCEPT !.phase = "running"]
    ELSE [t EXCEPT !.phase = IF @ = "running" THEN "ended" ELSE @]

TurnOnMessage(t, message, created) ==
    IF created THEN [NoTurn EXCEPT !.phase = "running", !.output = message]
    ELSE IF t.phase = "running" \/ (t.phase = "ended" /\ t.output = None)
    THEN [t EXCEPT !.output = message]
    ELSE t

Status(p, status) ==
    /\ store' = UpdateStatus(store, p, status)
    /\ turn' = [turn EXCEPT ![p] =
                    TurnOnStatus(@, status, IdleIsDropped(EntryMut(store, p, status), status))]

Message(p, message) ==
    /\ store' = UpdateMessage(store, p, message)
    /\ turn' = [turn EXCEPT ![p] = TurnOnMessage(@, message, IsNew(store, p))]

Field(p, f, value) ==
    /\ store' = UpdateField(store, p, f, value)
    /\ turn' = [turn EXCEPT ![p].phase =
                    IF IsNew(store, p) /\ f # "tool" /\ DefaultStatus(f) = "working"
                    THEN "running" ELSE @]

ClearEvent(p) ==
    /\ store' = Clear(store, p)
    /\ turn' = [turn EXCEPT ![p].phase = IF @ = "running" THEN "ended" ELSE @,
                            ![p].cleared = @ \/ turn[p].phase = "running"]

(* The pane is removed, or the sidebar saw that no agent runs in it.       *)
Forget(p) ==
    /\ store' = Remove(store, p)
    /\ turn' = [turn EXCEPT ![p] = NoTurn]

StoreTick ==
    /\ store' = Aged(store)
    /\ UNCHANGED turn

StoreNext ==
    \/ \E p \in Panes :
          \/ \E status \in Statuses : Status(p, status)
          \/ \E message \in Messages : Message(p, message)
          \/ \E f \in Fields, value \in Values : Field(p, f, value)
          \/ ClearEvent(p)
          \/ Forget(p)
    \/ StoreTick

StoreSpec == StoreInit /\ [][StoreNext]_storeVars

-----------------------------------------------------------------------------
(* Every entry is typed and the generation stays a u64.                    *)
TypeOK ==
    /\ store.statuses \in [Panes -> Entries \cup {None}]
    /\ store.generation \in 0 .. (GenerationSpan - 1)

(* The generation moves when, and only when, something a card shows has    *)
(* changed: a repeated value rebuilds nothing, a change is never missed,   *)
(* and removing what is not there does not make the sidebar repaint.       *)
GenerationTracksCards ==
    [][ (store.generation' # store.generation)
          <=> (\E p \in Panes : Visible(store'.statuses[p]) # Visible(store.statuses[p])) ]_storeVars

(* A working agent is never waited on for the output of an earlier turn:   *)
(* its first message of this turn is not taken for the last turn's.        *)
NoOutputAwaitedWhileWorking ==
    \A p \in Panes :
        ~IsNew(store, p) /\ store.statuses[p].awaiting_output
            => store.statuses[p].status # "working"

Ended(p) == turn[p].phase = "ended" /\ turn[p].output # None

(* Once a turn has ended, the card shows that turn's output: the last      *)
(* message sent while working, else the first sent afterwards; neither an  *)
(* older output nor a later label takes its place, whatever statuses,      *)
(* fields and dropped idle events come in between.                         *)
CardShowsTurnOutput ==
    \A p \in Panes :
        Ended(p) /\ ~turn[p].cleared => Preview(store.statuses[p]) = turn[p].output

=============================================================================

----------------------------- MODULE AgentHooks -----------------------------
(* One Claude Code session in a pane and the hook processes it starts      *)
(* (bin/claude wires them, bin/hooks/*.sh are their scripts), each writing *)
(* its OSC 7777 events to the pane's tty one by one.  The tty keeps their  *)
(* order and the mux applies them to the agent status store in it.  The    *)
(* hooks of the turn run one after the other; a Notification hook runs     *)
(* beside them.                                                            *)
EXTENDS AgentStatusOps, Sequences, FiniteSets

CONSTANTS
    Pane,
    Label,          \* the generic text of a notification
    Outputs,        \* Outputs[n]: what the n-th turn's Stop hook sends
    MaxTurns,       \* bound on the turns of a session
    MaxNotices      \* bound on the notifications of a turn

ASSUME HooksAssumption ==
    /\ Pane \in Panes
    /\ Label \in Messages
    /\ Outputs \in [1 .. MaxTurns -> Messages \ {Label}]
    /\ MaxTurns \in Nat /\ MaxNotices \in Nat

VARIABLES
    hooks,          \* the events each running hook process has still to write
    session,        \* where Claude Code is
    seen            \* history: what a person watching the session knows

vars == <<store, hooks, session, seen>>

Slots == {"turn", "notice"}
Quiescent == \A slot \in Slots : Len(hooks[slot]) = 0

Entry == EntryMut(store, Pane, "idle")
Known == ~IsNew(store, Pane)

-----------------------------------------------------------------------------
(* The scripts, as the events they write.                                  *)
StatusEvent(status)   == [kind |-> "status", value |-> status]
MessageEvent(message) == [kind |-> "message", value |-> message]
CountEvent(count)     == [kind |-> "background_tasks_count", value |-> count]

PromptSubmitScript == <<StatusEvent("working")>>
ToolBatchScript    == <<StatusEvent("working")>>
NeedsInputScript   == <<StatusEvent("needs_input")>>
(* A turn that ended on an API error: its output is the error's text.      *)
StopFailureScript(output) == <<StatusEvent("idle"), MessageEvent(output)>>

(* on-stop.sh also reports the background tasks when the payload holds     *)
(* them; the cron jobs it reports next are a field like them.              *)
StopScript(output, counts) ==
    StopFailureScript(output)
        \o (IF counts = {} THEN <<>> ELSE <<CountEvent(CHOOSE c \in counts : TRUE)>>)

NoticeTypes == {"permission_prompt", "idle_prompt", "other"}

(* Mutant: a waiting agent is reported with its label.                     *)
NotificationScriptNoRepair(type) ==
    IF type = "permission_prompt" THEN <<StatusEvent("needs_input"), MessageEvent(Label)>>
    ELSE <<MessageEvent(Label)>>

NotificationScript(type) ==
    (IF type = "permission_prompt" THEN <<StatusEvent("needs_input")>> ELSE <<>>)
        \o (IF type = "idle_prompt" THEN <<StatusEvent("idle")>> ELSE <<MessageEvent(Label)>>)

(* apply_notification_to_store for an event of the pane.                   *)
Apply(s, event) ==
    CASE event.kind = "status"  -> UpdateStatus(s, Pane, event.value)
      [] event.kind = "message" -> UpdateMessage(s, Pane, event.value)
      [] OTHER                  -> UpdateField(s, Pane, event.kind, event.value)

-----------------------------------------------------------------------------
(* phase: the prompt is open or a turn runs; number: of the last turn;     *)
(* pending: the dialog that is open; notices: notifications of this turn.  *)
(* output: what the last turn's Stop hook was given, None after an         *)
(* interrupt; labelled: a label was written after the card last entered    *)
(* Working and before the output; quiet: seconds since the last event;     *)
(* lapsed: since the last needs_input an idle came that long after any     *)
(* other event that nothing tells it from a new one.                       *)
Init ==
    /\ store = EmptyStore
    /\ hooks = [slot \in Slots |-> <<>>]
    /\ session = [phase |-> "prompt", number |-> 0, pending |-> "none", notices |-> 0]
    /\ seen = [output |-> None, labelled |-> FALSE, quiet |-> 0, lapsed |-> FALSE]

(* Claude Code waits for the hooks of a turn before it goes on.            *)
Free == Len(hooks["turn"]) = 0

SubmitPrompt ==
    /\ session.phase = "prompt" /\ Free
    /\ session.number < MaxTurns
    /\ hooks' = [hooks EXCEPT !["turn"] = PromptSubmitScript]
    /\ session' = [phase |-> "running", number |-> session.number + 1,
                   pending |-> "none", notices |-> 0]
    /\ UNCHANGED <<store, seen>>

(* A batch of tool calls is done: any dialog about it was answered.        *)
FinishToolBatch ==
    /\ session.phase = "running" /\ Free
    /\ hooks' = [hooks EXCEPT !["turn"] = ToolBatchScript]
    /\ session' = [session EXCEPT !.pending = "none"]
    /\ UNCHANGED <<store, seen>>

(* AskUserQuestion: the PreToolUse hook runs, then the dialog opens.       *)
AskQuestion ==
    /\ session.phase = "running" /\ session.pending = "none" /\ Free
    /\ hooks' = [hooks EXCEPT !["turn"] = NeedsInputScript]
    /\ session' = [session EXCEPT !.pending = "question"]
    /\ UNCHANGED <<store, seen>>

(* A permission prompt, or a plan that waits for approval while Claude     *)
(* stops: the Notification hook runs beside the Stop hook.                 *)
AskPermission ==
    /\ session.pending = "none" /\ Len(hooks["notice"]) = 0
    /\ (session.phase = "running") = Free
    /\ session.notices < MaxNotices
    /\ hooks' = [hooks EXCEPT !["notice"] = NotificationScript("permission_prompt")]
    /\ session' = [session EXCEPT !.pending = "permission", !.notices = @ + 1]
    /\ UNCHANGED <<store, seen>>

(* A notification of another type: a label without a status.               *)
NotifyOther ==
    /\ Len(hooks["notice"]) = 0
    /\ session.notices < MaxNotices
    /\ hooks' = [hooks EXCEPT !["notice"] = NotificationScript("other")]
    /\ session' = [session EXCEPT !.notices = @ + 1]
    /\ UNCHANGED <<store, seen>>

(* The prompt has sat unused for a minute with no dialog open.             *)
NotifyIdlePrompt ==
    /\ session.phase = "prompt" /\ session.pending = "none"
    /\ Quiescent /\ seen.quiet = StickySeconds
    /\ hooks' = [hooks EXCEPT !["notice"] = NotificationScript("idle_prompt")]
    /\ UNCHANGED <<store, session, seen>>

(* The turn ends; a permission dialog stays open.                          *)
Stop ==
    /\ session.phase = "running" /\ session.pending # "question" /\ Free
    /\ \E counts \in {{}} \cup {{v} : v \in Values} :
          hooks' = [hooks EXCEPT !["turn"] = StopScript(Outputs[session.number], counts)]
    /\ session' = [session EXCEPT !.phase = "prompt"]
    /\ seen' = [seen EXCEPT !.output = Outputs[session.number]]
    /\ UNCHANGED store

(* Esc ends a turn, and any dialog, without a hook.                        *)
Interrupt ==
    /\ session.phase = "running" /\ Free
    /\ session' = [session EXCEPT !.phase = "prompt", !.pending = "none"]
    /\ seen' = [seen EXCEPT !.output = None]
    /\ UNCHANGED <<store, hooks>>

(* A hook writes its next event, and the mux applies it.                   *)
Emit(slot) ==
    /\ Len(hooks[slot]) > 0
    /\ LET event == Head(hooks[slot])
           label == event.kind = "message" /\ event.value = Label
           owed  == \/ session.phase = "running"
                    \/ ~Known \/ Entry.status = "working"
                    \/ \E i \in DOMAIN hooks["turn"] : hooks["turn"][i].kind = "message"
           anew  == event = StatusEvent("working") /\ Entry.status # "working"
       IN /\ store' = Apply(store, event)
          /\ seen' = [seen EXCEPT !.quiet = 0,
                        !.labelled = IF anew THEN FALSE ELSE @ \/ (label /\ owed),
                        !.lapsed = IF event = StatusEvent("needs_input") THEN FALSE
                                   ELSE @ \/ (event = StatusEvent("idle") /\ seen.quiet = StickySeconds)]
    /\ hooks' = [hooks EXCEPT ![slot] = Tail(@)]
    /\ UNCHANGED session

(* A second passes, wherever the hooks are.                                *)
Tick ==
    /\ store' = Aged(store)
    /\ seen' = [seen EXCEPT !.quiet = IF @ < StickySeconds THEN @ + 1 ELSE @]
    /\ UNCHANGED <<hooks, session>>

Next ==
    \/ SubmitPrompt \/ FinishToolBatch \/ AskQuestion \/ AskPermission
    \/ NotifyOther \/ NotifyIdlePrompt \/ Stop \/ Interrupt \/ Tick
    \/ \E slot \in Slots : Emit(slot)

(* A started process finishes, time passes, and Claude Code sends its idle *)
(* notification; nobody has to submit, ask, stop or interrupt anything.    *)
Fairness ==
    /\ \A slot \in Slots : WF_vars(Emit(slot))
    /\ WF_vars(Tick)
    /\ WF_vars(NotifyIdlePrompt)

Spec == Init /\ [][Next]_vars
FairSpec == Spec /\ Fairness

-----------------------------------------------------------------------------
(* In whichever order the Stop and Notification hooks of a plan approval   *)
(* write their events, however they interleave and however slow they are,  *)
(* an open dialog shows as "needs input" once they are done, unless the    *)
(* idle of the Stop hook was the first thing heard in three seconds.       *)
DialogShowsNeedsInput ==
    Quiescent /\ session.pending # "none" /\ ~seen.lapsed => Entry.status = "needs_input"

Stopped == Quiescent /\ session.phase = "prompt" /\ seen.output # None

(* When no notification spoke up during the turn, the card of a stopped    *)
(* agent shows that turn's output: not an older one, not a later label.    *)
QuietTurnShowsOutput == Stopped /\ ~seen.labelled => Preview(Entry) = seen.output

(* A turn that is over does not show as working for ever, even one that    *)
(* ended without a Stop hook.                                              *)
WorkingEnds ==
    (session.phase = "prompt")
        ~> (session.phase = "running" \/ Entry.status # "working")
=============================================================================

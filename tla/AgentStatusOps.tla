--------------------------- MODULE AgentStatusOps ---------------------------
(* The agent status store of the mux (mux/src/agent_status.rs) as a value, *)
(* its mutators as operators on it: what each pane's agent last reported   *)
(* over OSC 7777, and the generation the sidebar compares with the one its *)
(* cached cards were built at.                                             *)
(* An entry's Instant is its age: the seconds since it was last refreshed, *)
(* which no reader distinguishes beyond StickySeconds.                     *)
EXTENDS Integers

CONSTANTS
    Panes,
    Messages,
    None,               \* Option::None: no entry, no message, no title
    Fields,             \* the fields beside status and message that are modelled
    Values,             \* what an agent may report in one of them
    StickySeconds,      \* 3 in update_status
    GenerationSpan      \* 2^64: generation is a u64

AllFields == {"conversation_title", "tool", "subagent_count",
              "background_tasks_count", "session_crons_count"}

Statuses == {"working", "idle", "needs_input"}

(* A field starts as None, which stands for the 0 of a count.              *)
Entries ==
    [status               : Statuses,
     message              : Messages \cup {None},
     last_working_message : Messages \cup {None},
     awaiting_output      : BOOLEAN,
     fields               : [Fields -> Values \cup {None}],
     age                  : 0 .. StickySeconds]

VARIABLE store          \* the agent status store

ASSUME AgentAssumption ==
    /\ Fields \subseteq AllFields
    /\ StickySeconds \in Nat
    /\ GenerationSpan \in Nat /\ GenerationSpan >= 2
    /\ None \notin Entries \cup Messages

EmptyStore == [statuses |-> [p \in Panes |-> None], generation |-> 0]

-----------------------------------------------------------------------------
IsNew(s, p) == s.statuses[p] = None

(* entry_mut: the entry of the pane, created with a default status.        *)
EntryMut(s, p, default_status) ==
    IF IsNew(s, p)
    THEN [status               |-> default_status,
          message              |-> None,
          last_working_message |-> None,
          awaiting_output      |-> FALSE,
          fields               |-> [f \in Fields |-> None],
          age                  |-> 0]
    ELSE s.statuses[p]

Bump(g) == IF g + 1 = GenerationSpan THEN 0 ELSE g + 1

(* The entry is written back, and the generation moves if the code says a  *)
(* field changed.                                                          *)
Write(s, p, entry, changed) ==
    [statuses   |-> [s.statuses EXCEPT ![p] = entry],
     generation |-> IF changed THEN Bump(s.generation) ELSE s.generation]

(* Mutant: the window is a second shorter.                                 *)
IdleIsDroppedShortly(entry, status) ==
    status = "idle" /\ entry.status = "needs_input" /\ entry.age + 1 < StickySeconds

(* The guard against an idle that races a needs_input.                     *)
IdleIsDropped(entry, status) ==
    /\ status = "idle"
    /\ entry.status = "needs_input"
    /\ entry.age < StickySeconds

(* Mutant: an output still to come is not waited for.                      *)
LeaveWorkingImpatient(entry, status) ==
    IF entry.status = "working" /\ status # "working" /\ entry.message # None
    THEN [entry EXCEPT !.last_working_message = entry.message]
    ELSE entry

(* Leaving Working keeps the message as the turn's output, or waits for it.*)
LeaveWorking(entry, status) ==
    IF entry.status # "working" \/ status = "working" THEN entry
    ELSE IF entry.message # None
    THEN [entry EXCEPT !.last_working_message = entry.message]
    ELSE [entry EXCEPT !.awaiting_output = TRUE]

(* Entering Working drops the label of the previous turn.                  *)
EnterWorking(entry, status) ==
    IF entry.status = "working" \/ status # "working" THEN entry
    ELSE [entry EXCEPT !.awaiting_output = FALSE, !.message = None]

UpdateStatus(s, p, status) ==
    LET entry   == EntryMut(s, p, status)
        left    == LeaveWorking(entry, status)
        entered == EnterWorking(left, status)
        changed == \/ IsNew(s, p)
                   \/ left.last_working_message # entry.last_working_message
                   \/ entered.message # left.message
                   \/ entry.status # status
    IN IF IdleIsDropped(entry, status) THEN s
       ELSE Write(s, p, [entered EXCEPT !.status = status, !.age = 0], changed)

UpdateMessage(s, p, message) ==
    LET entry    == EntryMut(s, p, "working")
        captured == IF entry.awaiting_output
                    THEN [entry EXCEPT !.awaiting_output = FALSE,
                                       !.last_working_message = message]
                    ELSE entry
        changed  == \/ IsNew(s, p)
                    \/ entry.message # message
                    \/ captured.last_working_message # entry.last_working_message
    IN Write(s, p, [captured EXCEPT !.message = message, !.age = 0], changed)

(* The status of an entry that the update of another field creates.        *)
DefaultStatus(f) ==
    IF f \in {"background_tasks_count", "session_crons_count"} THEN "idle" ELSE "working"

(* update_conversation_title, update_tool and the three counts: only the   *)
(* tool does not create an entry.                                          *)
UpdateField(s, p, f, value) ==
    LET entry   == EntryMut(s, p, DefaultStatus(f))
        changed == IsNew(s, p) \/ entry.fields[f] # value
    IN IF f = "tool" /\ IsNew(s, p) THEN s
       ELSE Write(s, p, [entry EXCEPT !.fields = [@ EXCEPT ![f] = value], !.age = 0], changed)

Clear(s, p) ==
    IF IsNew(s, p) THEN s
    ELSE Write(s, p, [s.statuses[p] EXCEPT !.status = "idle", !.age = 0],
               s.statuses[p].status # "idle")

(* Mutant: the generation moves with nothing removed.                      *)
RemoveMoving(s, p) == Write(s, p, None, TRUE)

Remove(s, p) == IF IsNew(s, p) THEN s ELSE Write(s, p, None, TRUE)

(* A second passes for every entry.                                        *)
Older(entry) ==
    [entry EXCEPT !.age = IF entry.age < StickySeconds THEN entry.age + 1 ELSE entry.age]

Aged(s) ==
    [statuses   |-> [p \in Panes |-> IF IsNew(s, p) THEN None ELSE Older(s.statuses[p])],
     generation |-> s.generation]

-----------------------------------------------------------------------------
(* What a card of the sidebar is built from (build_agent_info): nothing, or*)
(* what the entry shows.                                                   *)
Visible(entry) ==
    IF entry = None THEN {}
    ELSE {[status               |-> entry.status,
           message              |-> entry.message,
           last_working_message |-> entry.last_working_message,
           fields               |-> entry.fields]}

(* The preview line: while working the current message, otherwise the last *)
(* output before the current message.  The fallback to the tool is left    *)
(* out.                                                                    *)
Preview(entry) ==
    LET first  == IF entry.status = "working" THEN entry.message ELSE entry.last_working_message
        second == IF entry.status = "working" THEN entry.last_working_message ELSE entry.message
    IN IF first # None THEN first ELSE second
=============================================================================

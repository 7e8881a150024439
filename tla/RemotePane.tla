----------------------------- MODULE RemotePane -----------------------------
(* A pane of a mux server as a client shows it: the terminal, which a      *)
(* parser thread of the server changes at any time; the session handler,   *)
(* which reads it under one lock after the other and pushes what changed;  *)
(* and the client's cache of lines, filled by pushes and by fetches.       *)
(* A line is its text and the sequence number of its last change; a text   *)
(* is the number of the output that wrote it.  A row is a StableRowIndex:  *)
(* the alternate screen reuses those of the top of the primary screen.     *)
EXTENDS Integers, Sequences, FiniteSetsExt

CONSTANTS
    Height,         \* viewport_rows
    FirstTop,       \* physical_top when the client attaches
    MaxTop,         \* bound on the rows that scroll off
    MaxOutputs,     \* bound on the outputs of the program
    MaxEvents,      \* bound on images to wait for, connections lost and scrolls
    MaxRequests,    \* bound on the fetches under way when a window is painted
    MaxPushes,      \* bound on the pushes under way when the server turns to a pane
    AltModes        \* modes by which the program uses the alternate screen

ASSUME RemoteAssumption ==
    /\ Height \in Nat \ {0} /\ MaxTop \in Nat /\ FirstTop \in 0 .. MaxTop
    /\ {MaxOutputs, MaxEvents, MaxRequests, MaxPushes} \subseteq Nat
    /\ AltModes \subseteq {47, 1047, 1049}

VARIABLES
    term,       \* the terminal of the server
    per,        \* PerPane: what the session last sent of it
    tasks,      \* the server's main thread: pushes, polls, requests for lines
    reading,    \* compute_changes under way: what it has read so far
    pushes,     \* the pushes that the client has not handled
    replies,    \* the answers to requests for lines that it has not applied
    hydrating,  \* the push, if any, that waits for the images it shows
    pane,       \* RenderableInner: the client's cache and what goes with it
    past        \* history: what leaves the cache wrong, and the bounds used up

vars == <<term, per, tasks, reading, pushes, replies, hydrating, pane, past>>

Rows == 0 .. MaxTop + Height - 1

-----------------------------------------------------------------------------
(* The terminal.                                                           *)
Screen == IF term.alt THEN term.other ELSE term.main
Top == Cardinality(DOMAIN Screen) - Height
Cursor == Top + term.cursor

(* Every batch of output is a new sequence number, and a push of the pane. *)
Written == [text |-> term.seqno + 1, seq |-> term.seqno + 1]

Erased  == [r \in 0 .. Height - 1 |-> Written]

Output(new) ==
    /\ term.seqno <= MaxOutputs
    /\ term' = [new EXCEPT !.seqno = @ + 1]
    /\ tasks' = Append(tasks, [kind |-> "push"])
    /\ UNCHANGED <<per, reading, pushes, replies, hydrating, pane>>

WriteRow(row) ==
    /\ IF term.alt
       THEN Output([term EXCEPT !.other[row] = Written, !.cursor = row])
       ELSE Output([term EXCEPT !.main[Top + row] = Written, !.cursor = row])
    /\ past' = [past EXCEPT !.unsaid = @ \ {Top + row}]

ScrollUp ==
    /\ ~term.alt /\ Top < MaxTop
    /\ Output([term EXCEPT !.cursor = Height - 1,
                 !.main = [r \in 0 .. Top + Height |->
                             IF r \in DOMAIN @ THEN @[r] ELSE Written]])
    /\ UNCHANGED past

(* Mutant: the rows that the screens share are not marked.                 *)
DirtyNothing(screen) == screen

(* dirty_top_phys_rows: of the primary screen, whichever is active.        *)
DirtyTop(screen) ==
    [r \in DOMAIN screen |->
        IF r < Height THEN [screen[r] EXCEPT !.seq = term.seqno + 1] ELSE screen[r]]

(* Mode 1049 saves the cursor and enters an erased screen, 1047 erases it  *)
(* on leaving, and 47 keeps what was left there.                           *)
EnterAlt(mode) ==
    /\ ~term.alt
    /\ Output([term EXCEPT !.alt = TRUE, !.main = DirtyTop(@),
                 !.saved = IF mode = 1049 THEN term.cursor ELSE @,
                 !.cursor = IF mode = 1049 THEN 0 ELSE @,
                 !.other = IF mode = 1049 THEN Erased ELSE @])
    /\ past' = [past EXCEPT !.unsaid = @
                  \cup {r \in DOMAIN term.main : r >= Height /\ term.main[r].seq > per.seqno}
                  \cup (IF mode = 1049 THEN {} ELSE DOMAIN term.other)]

LeaveAlt(mode) ==
    /\ term.alt
    /\ Output([term EXCEPT !.alt = FALSE, !.main = DirtyTop(@),
                 !.cursor = IF mode = 1049 THEN term.saved ELSE @,
                 !.other = IF mode = 1047 THEN Erased ELSE @])
    /\ past' = [past EXCEPT !.unsaid = @ \ DOMAIN term.other]

Program ==
    \/ \E row \in 0 .. Height - 1 : WriteRow(row)
    \/ ScrollUp
    \/ \E mode \in AltModes : EnterAlt(mode) \/ LeaveAlt(mode)

(* Screen::stable_range clamps a range of rows that are not there.         *)
StableRange(first, last) ==
    LET n   == Cardinality(DOMAIN Screen)
        len == last - first + 1
    IN CASE first \notin DOMAIN Screen -> {r \in DOMAIN Screen : r < len}
         [] first \in DOMAIN Screen /\ last \notin DOMAIN Screen ->
              {r \in DOMAIN Screen : r >= n - 1 - len}
         [] OTHER -> first .. last

GetLines(first, last) == [r \in StableRange(first, last) |-> Screen[r]]

-----------------------------------------------------------------------------
(* The session handler, on the server's main thread: compute_changes takes *)
(* the terminal's lock for each thing it reads.                            *)
Idle == [step |-> "idle", top |-> 0, alt |-> FALSE, cursor |-> 0, seqno |-> 0,
         dirty |-> {}, bonus |-> <<>>]

AtWork == tasks # <<>> /\ Head(tasks).kind \in {"push", "poll"}

ReadDimensions ==
    /\ reading.step = "idle" /\ AtWork /\ Len(pushes) < MaxPushes
    /\ reading' = [reading EXCEPT !.step = "cursor", !.top = Top, !.alt = term.alt]
    /\ UNCHANGED <<term, per, tasks, pushes, replies, hydrating, pane, past>>

ReadCursor ==
    /\ reading.step = "cursor"
    /\ reading' = [reading EXCEPT !.step = "seqno", !.cursor = Cursor]
    /\ UNCHANGED <<term, per, tasks, pushes, replies, hydrating, pane, past>>

ReadSeqno ==
    /\ reading.step = "seqno"
    /\ reading' = [reading EXCEPT !.step = "dirty", !.seqno = term.seqno]
    /\ past' = [past EXCEPT !.unsaid = @ \cup
                  {r \in DOMAIN Screen : /\ reading.alt /\ r >= reading.top + Height
                                        /\ Screen[r].seq > per.seqno}]
    /\ UNCHANGED <<term, per, tasks, pushes, replies, hydrating, pane>>

ReadDirty ==
    /\ reading.step = "dirty"
    /\ reading' = [reading EXCEPT !.step = "lines", !.dirty =
                     {r \in StableRange(0, reading.top + Height - 1) : Screen[r].seq > per.seqno}]
    /\ UNCHANGED <<term, per, tasks, pushes, replies, hydrating, pane, past>>

(* Nothing changed: no push, and only the number is kept.                  *)
Unchanged ==
    reading.top = per.top /\ reading.cursor = per.cursor /\ reading.dirty = {}

(* Dirty rows of the viewport go along as bonus lines.                     *)
ReadViewport ==
    /\ reading.step = "lines" /\ ~Unchanged
    /\ LET lines == GetLines(reading.top, reading.top + Height - 1)
           sent  == DOMAIN lines \cap reading.dirty
       IN reading' = [reading EXCEPT !.step = "send", !.dirty = @ \ sent,
                                     !.bonus = [r \in sent |-> lines[r]]]
    /\ UNCHANGED <<term, per, tasks, pushes, replies, hydrating, pane, past>>

Palette == [kind |-> "palette"]

(* The alerts that wait, here a palette, follow the changes.               *)
SendChanges(changes, sent) ==
    /\ pushes' = pushes \o changes \o (IF per.palette THEN <<Palette>> ELSE <<>>)
    /\ per' = sent
    /\ tasks' = Tail(tasks)
    /\ reading' = Idle
    /\ UNCHANGED <<term, replies, hydrating, pane, past>>

SendNothing ==
    /\ reading.step = "lines" /\ Unchanged
    /\ SendChanges(<<>>, [per EXCEPT !.seqno = reading.seqno, !.palette = FALSE])

(* The cursor's line is always sent.                                       *)
SendDelta ==
    /\ reading.step = "send"
    /\ LET lines == GetLines(reading.cursor, reading.cursor)
           row   == Min(DOMAIN lines)
           bonus == [r \in DOMAIN reading.bonus \cup {row} |->
                       IF r = row THEN lines[r] ELSE reading.bonus[r]]
       IN SendChanges(<<[kind |-> "changes", top |-> reading.top, cursor |-> reading.cursor,
                         seqno |-> reading.seqno, dirty |-> reading.dirty, bonus |-> bonus]>>,
                      [seqno |-> reading.seqno, top |-> reading.top,
                       cursor |-> reading.cursor, palette |-> FALSE])

(* The ranges of a RangeSet.                                               *)
Ranges(rows) ==
    {range \in rows \X rows :
        /\ range[1] .. range[2] \subseteq rows
        /\ range[1] <= range[2] /\ range[1] - 1 \notin rows /\ range[2] + 1 \notin rows}

AnswerLines ==
    /\ reading.step = "idle" /\ tasks # <<>> /\ Head(tasks).kind = "lines"
    /\ LET request == Head(tasks)
           found   == UNION {StableRange(range[1], range[2]) : range \in Ranges(request.rows)}
       IN /\ replies' = replies \cup
                {[ok |-> TRUE, rows |-> request.rows, at |-> request.at,
                  lines |-> [r \in found |-> Screen[r]]]}
          /\ past' = [past EXCEPT !.astray = @ \cup (request.rows \ found)]
    /\ tasks' = Tail(tasks)
    /\ UNCHANGED <<term, per, reading, pushes, hydrating, pane>>

Server ==
    \/ ReadDimensions \/ ReadCursor \/ ReadSeqno \/ ReadDirty \/ ReadViewport
    \/ SendNothing \/ SendDelta \/ AnswerLines

-----------------------------------------------------------------------------
(* The client's cache: a LineEntry per row, absent, or with a line, or the *)
(* time its download began, or both.                                       *)
Absent == [kind |-> "none", text |-> 0, seq |-> 0, at |-> 0]
LineEntry(line) == [kind |-> "line", text |-> line.text, seq |-> line.seq, at |-> 0]
Fetching(now) == [Absent EXCEPT !.kind = "fetching", !.at = now]

(* make_stale: what is only being fetched is forgotten.                    *)
MakeStale(entry) ==
    IF entry.kind \in {"none", "fetching"} THEN Absent
    ELSE [entry EXCEPT !.kind = "stale", !.at = 0]

(* make_all_stale leaves what is being fetched.                            *)
MakeAllStale(cache) ==
    [r \in Rows |-> IF cache[r].kind = "line" THEN MakeStale(cache[r]) ELSE cache[r]]

(* A fetch is known by the instant it began.                               *)
Now == Min({n \in 1 .. Cardinality(Rows) + Len(tasks) + Cardinality(replies) + 1 :
              /\ \A r \in Rows : pane.cache[r].at # n
              /\ \A i \in DOMAIN tasks : tasks[i].kind = "lines" => tasks[i].at # n
              /\ \A reply \in replies : reply.at # n})

(* schedule_fetch_lines.                                                   *)
Fetch(rows) ==
    tasks' = IF rows = {} THEN tasks
             ELSE Append(tasks, [kind |-> "lines", rows |-> rows, at |-> Now])

Refetch(entry, now) ==
    IF entry.kind \in {"none", "fetching"} THEN Fetching(now)
    ELSE [entry EXCEPT !.kind = "both", !.at = now]

(* apply_changes_to_surface: dirty rows of the viewport are fetched, unless*)
(* the throttle forbids, and others forgotten.                             *)
Apply(delta) ==
    LET moved == IF delta.cursor # pane.cursor THEN {pane.cursor, delta.cursor} ELSE {}
        dirty == (delta.dirty \cup moved) \ DOMAIN delta.bonus
        fetch == {r \in dirty : r >= delta.top}
        entry(r, admitted) ==
            CASE r \in DOMAIN delta.bonus -> LineEntry(delta.bonus[r])
              [] r \in fetch -> IF admitted THEN Refetch(pane.cache[r], Now)
                                ELSE MakeStale(pane.cache[r])
              [] r \in dirty \ fetch -> Absent
              [] OTHER -> pane.cache[r]
    IN \E admitted \in BOOLEAN :
          /\ fetch = {} => admitted
          /\ pane' = [pane EXCEPT !.top = delta.top, !.cursor = delta.cursor,
                        !.seqno = delta.seqno, !.cache = [r \in Rows |-> entry(r, admitted)]]
          /\ Fetch(IF admitted THEN fetch ELSE {})

(* The client handles the pushes in their order, until one shows images    *)
(* that it has to ask for.                                                 *)
ApplyPush ==
    /\ pushes # <<>> /\ Head(pushes).kind = "changes"
    /\ Apply(Head(pushes))
    /\ pushes' = Tail(pushes)
    /\ past' = [past EXCEPT !.overtaken = @ \/ hydrating # <<>>]
    /\ UNCHANGED <<term, per, reading, replies, hydrating>>

HydratePush ==
    /\ pushes # <<>> /\ Head(pushes).kind = "changes"
    /\ hydrating = <<>> /\ past.events < MaxEvents
    /\ hydrating' = <<Head(pushes)>>
    /\ pushes' = Tail(pushes)
    /\ past' = [past EXCEPT !.events = @ + 1]
    /\ UNCHANGED <<term, per, tasks, reading, replies, pane>>

ApplyHydrated ==
    /\ hydrating # <<>>
    /\ Apply(Head(hydrating))
    /\ hydrating' = <<>>
    /\ UNCHANGED <<term, per, reading, pushes, replies, past>>

ApplyPalette ==
    /\ pushes # <<>> /\ Head(pushes).kind = "palette"
    /\ pane' = [pane EXCEPT !.cache = MakeAllStale(@)]
    /\ pushes' = Tail(pushes)
    /\ UNCHANGED <<term, per, tasks, reading, replies, hydrating, past>>

(* put_line completes a fetch only of rows that still wait for that fetch. *)
PutFetched(entry, line, at) ==
    IF entry.at = at THEN LineEntry([line EXCEPT !.seq = IF @ < pane.seqno THEN pane.seqno ELSE @])
    ELSE entry

(* A fetch that failed: back to the line there was.                        *)
Unfetch(entry, at) ==
    CASE entry.at = at /\ entry.kind = "both" -> [entry EXCEPT !.kind = "line", !.at = 0]
      [] entry.at = at /\ entry.kind # "both" -> Absent
      [] OTHER -> entry

ApplyLines(reply) ==
    /\ pane' = [pane EXCEPT !.cache = [r \in Rows |->
                  IF ~reply.ok /\ r \in reply.rows THEN Unfetch(@[r], reply.at)
                  ELSE IF reply.ok /\ r \in DOMAIN reply.lines
                  THEN PutFetched(@[r], reply.lines[r], reply.at)
                  ELSE @[r]]]
    /\ replies' = replies \ {reply}
    /\ UNCHANGED <<term, per, tasks, reading, pushes, hydrating, past>>

(* RenderableState::get_lines for the rows on screen.                      *)
ChangedSince(entry) == entry.seq = 0 \/ entry.seq > pane.seqno

Bottom == -1

View == LET first == IF pane.view = Bottom THEN pane.top ELSE pane.view
        IN first .. first + Height - 1

Outdated == {r \in View : \/ pane.cache[r].kind \in {"none", "stale"}
                          \/ pane.cache[r].kind = "line" /\ ChangedSince(pane.cache[r])}

Requests == {i \in DOMAIN tasks : tasks[i].kind = "lines"}

Paint ==
    /\ Outdated # {} /\ Cardinality(Requests) + Cardinality(replies) < MaxRequests
    /\ pane' = [pane EXCEPT !.cache = [r \in Rows |->
                  IF r \notin Outdated THEN @[r]
                  ELSE IF @[r].kind = "line" THEN MakeStale(@[r])
                  ELSE Refetch(@[r], Now)]]
    /\ Fetch(Outdated)
    /\ UNCHANGED <<term, per, reading, pushes, replies, hydrating, past>>

ScrollTo(row) ==
    /\ past.events < MaxEvents /\ row # pane.view
    /\ pane' = [pane EXCEPT !.view = row]
    /\ past' = [past EXCEPT !.events = @ + 1]
    /\ UNCHANGED <<term, per, tasks, reading, pushes, replies, hydrating>>

(* Mutant: a poll that failed with its connection is never over.           *)
PollUntilItFails ==
    /\ past.events = 0 /\ \A i \in DOMAIN tasks : tasks[i].kind = "lines"
    /\ tasks' = Append(tasks, [kind |-> "poll"])
    /\ UNCHANGED <<term, per, reading, pushes, replies, hydrating, pane, past>>

(* Painting polls; a poll behind a push or a poll would find nothing new.  *)
Poll ==
    /\ \A i \in DOMAIN tasks : tasks[i].kind = "lines"
    /\ tasks' = Append(tasks, [kind |-> "poll"])
    /\ UNCHANGED <<term, per, reading, pushes, replies, hydrating, pane, past>>

-----------------------------------------------------------------------------
(* The connection fails and another is made, with a session of its own: the*)
(* client has what had arrived, and its requests without an answer fail.   *)
NewSession == [seqno |-> 0, top |-> 0, cursor |-> 0, palette |-> TRUE]

Failed(rows, at) == [ok |-> FALSE, rows |-> rows, at |-> at, lines |-> <<>>]

Reconnect ==
    /\ past.events < MaxEvents
    /\ \E arrived \in 0 .. Len(pushes), answers \in SUBSET replies :
          /\ pushes' = SubSeq(pushes, 1, arrived)
          /\ replies' = answers
               \cup {Failed(reply.rows, reply.at) : reply \in replies \ answers}
               \cup {Failed(tasks[i].rows, tasks[i].at) :
                        i \in {j \in DOMAIN tasks : tasks[j].kind = "lines"}}
    /\ per' = NewSession
    /\ tasks' = <<>>
    /\ reading' = Idle
    /\ past' = [past EXCEPT !.events = @ + 1,
                  !.unsaid = IF term.alt THEN {r \in Rows : r >= Height} ELSE {}]
    /\ UNCHANGED <<term, hydrating, pane>>

-----------------------------------------------------------------------------
Init ==
    /\ LET blank == [text |-> 1, seq |-> 1]
       IN term = [main |-> [r \in 0 .. FirstTop + Height - 1 |-> blank],
                  other |-> [r \in 0 .. Height - 1 |-> blank],
                  alt |-> FALSE, cursor |-> 0, saved |-> 0, seqno |-> 1]
    /\ per = NewSession
    /\ tasks = <<>> /\ pushes = <<>> /\ hydrating = <<>> /\ replies = {}
    /\ reading = Idle
    /\ pane = [cache |-> [r \in Rows |-> Absent], top |-> 0, cursor |-> 0,
               seqno |-> 0, view |-> Bottom]
    /\ past = [overtaken |-> FALSE, unsaid |-> {}, astray |-> {},
               events |-> 0]

Receive == ApplyPush \/ HydratePush \/ ApplyPalette

AnyLines == \E reply \in replies : ApplyLines(reply)

Next ==
    \/ Program \/ Server \/ Receive \/ ApplyHydrated \/ AnyLines
    \/ Paint \/ Poll \/ Reconnect
    \/ \E row \in {Bottom} \cup 0 .. pane.top - 1 : ScrollTo(row)

(* Both main threads serve their queues, windows are painted, and painting *)
(* polls.                                                                  *)
Fairness ==
    /\ WF_vars(Server) /\ WF_vars(Receive \/ ApplyHydrated) /\ WF_vars(AnyLines)
    /\ WF_vars(Paint) /\ WF_vars(Poll)

Spec == Init /\ [][Next]_vars /\ Fairness

-----------------------------------------------------------------------------
Lines == [text : 1 .. MaxOutputs + 1, seq : 1 .. MaxOutputs + 1]

TypeOK ==
    /\ term.main \in [0 .. Cardinality(DOMAIN term.main) - 1 -> Lines]
    /\ term.other \in [0 .. Height - 1 -> Lines]
    /\ {term.cursor, term.saved} \subseteq 0 .. Height - 1 /\ term.seqno \in 1 .. MaxOutputs + 1
    /\ per.seqno \in 0 .. term.seqno
    /\ reading.dirty \subseteq Rows
    /\ \A r \in Rows :
          /\ pane.cache[r].kind \in {"none", "line", "fetching", "both", "stale"}
          /\ pane.cache[r].at # 0 <=> pane.cache[r].kind \in {"fetching", "both"}
    /\ pane.top \in 0 .. MaxTop /\ pane.view \in Rows \cup {Bottom}

Rest ==
    /\ tasks = <<>> /\ pushes = <<>> /\ replies = {} /\ hydrating = <<>>
    /\ per.seqno = term.seqno

(* What the client holds for up to date has the server's text once nothing *)
(* is under way, and no row waits for a download that will not come,       *)
(* whatever crossed, failed or was lost before.  Left open: a push that a  *)
(* later one overtook while it waited for images, rows that the primary    *)
(* screen changed just before the alternate took over or that an alternate *)
(* entered without being erased kept from before (unsaid), and rows that   *)
(* were asked of a screen that does not have them (astray).                *)
RestingViewIsCurrent ==
    /\ TypeOK
    /\ Rest => \A r \in Rows \ past.astray : pane.cache[r].at = 0
    /\ Rest /\ ~past.overtaken =>
        /\ pane.top = Top
        /\ past.unsaid = {} => pane.seqno = term.seqno
        /\ \A r \in DOMAIN Screen \ past.unsaid :
              pane.cache[r].kind = "line" => pane.cache[r].text = Screen[r].text

(* In the end the window shows the server's rows and goes on doing so, with*)
(* the same exceptions.                                                    *)
Shown == \A r \in View \cap DOMAIN Screen :
    pane.cache[r].kind = "line" /\ pane.cache[r].text = Screen[r].text

ViewCatchesUp ==
    <>[](past.overtaken \/ View \cap (past.unsaid \cup past.astray) # {} \/ Shown)
=============================================================================

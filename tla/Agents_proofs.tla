---------------------------- MODULE Agents_proofs ----------------------------
(* Proofs about AgentStatusStore, for any panes, messages, fields, values, *)
(* window and generation width: the generation the sidebar compares moves  *)
(* exactly with what its cards show, and a card shows what its turn said;  *)
(* after them about AgentHooks, for any messages, outputs and counts, and  *)
(* any number of turns and notifications; and about SubagentCount, for any *)
(* number of subagents, any patience, any timeout and any kills.           *)
EXTENDS AgentHooks, AgentStatusStore, SubagentCount, FiniteSetTheorems, SequenceTheorems, TLAPS

Stores ==
    [statuses : [Panes -> Entries \cup {None}], generation : 0 .. (GenerationSpan - 1)]

(* The generation of r differs from that of s iff some card does.          *)
Tracks(s, r) ==
    (r.generation # s.generation)
      <=> \E p \in Panes : Visible(r.statuses[p]) # Visible(s.statuses[p])

(* No output is awaited from a pane whose agent is working.                *)
NotAwaiting(s) ==
    \A p \in Panes : ~IsNew(s, p) /\ s.statuses[p].awaiting_output
                        => s.statuses[p].status # "working"

Patient(entry) == entry.awaiting_output => entry.status # "working"

LEMMA BumpMoves ==
    ASSUME NEW g \in 0 .. (GenerationSpan - 1)
    PROVE  Bump(g) \in 0 .. (GenerationSpan - 1) /\ Bump(g) # g
BY AgentAssumption DEF Bump

(* A write that is said to be a change iff the card differs keeps the      *)
(* generation in step with the cards.                                      *)
LEMMA WriteTracks ==
    ASSUME NEW s \in Stores, NEW p \in Panes, NEW entry \in Entries \cup {None},
           NEW changed \in BOOLEAN,
           changed <=> (Visible(entry) # Visible(s.statuses[p]))
    PROVE  /\ Write(s, p, entry, changed) \in Stores
           /\ Tracks(s, Write(s, p, entry, changed))
<1> DEFINE r == Write(s, p, entry, changed)
<1>1. /\ r.statuses = [s.statuses EXCEPT ![p] = entry]
      /\ r.generation = IF changed THEN Bump(s.generation) ELSE s.generation
  BY DEF Write
<1>r. r = [statuses |-> r.statuses, generation |-> r.generation]
  BY DEF Write
<1>2. r.statuses \in [Panes -> Entries \cup {None}]
  BY <1>1 DEF Stores
<1>3. /\ r.generation \in 0 .. (GenerationSpan - 1)
      /\ r.generation # s.generation <=> changed
  <2>1. s.generation \in 0 .. (GenerationSpan - 1)
    BY DEF Stores
  <2> QED  BY <1>1, <2>1, BumpMoves
<1>4. \A q \in Panes : r.statuses[q] = IF q = p THEN entry ELSE s.statuses[q]
  BY <1>1 DEF Stores
<1> HIDE DEF r
<1>5. r \in Stores
  BY <1>r, <1>2, <1>3 DEF Stores
<1>6. (\E q \in Panes : Visible(r.statuses[q]) # Visible(s.statuses[q]))
        <=> (Visible(entry) # Visible(s.statuses[p]))
  BY <1>4
<1> QED  BY <1>3, <1>5, <1>6 DEF Tracks, r

(* A write of an entry that is patient, or of none, keeps the others so.   *)
LEMMA WritePatient ==
    ASSUME NEW s \in Stores, NotAwaiting(s), NEW p \in Panes,
           NEW entry, NEW changed, entry = None \/ Patient(entry)
    PROVE  NotAwaiting(Write(s, p, entry, changed))
<1>1. \A q \in Panes : Write(s, p, entry, changed).statuses[q]
                         = IF q = p THEN entry ELSE s.statuses[q]
  BY DEF Write, Stores
<1> QED  BY <1>1 DEF NotAwaiting, IsNew, Patient

(* The entry an update starts from.                                        *)
LEMMA EntryMutFacts ==
    ASSUME NEW s \in Stores, NotAwaiting(s), NEW p \in Panes, NEW st \in Statuses
    PROVE  /\ EntryMut(s, p, st) \in Entries
           /\ Patient(EntryMut(s, p, st))
           /\ ~IsNew(s, p) => EntryMut(s, p, st) = s.statuses[p]
           /\ IsNew(s, p) => EntryMut(s, p, st).status = st
<1>1. CASE IsNew(s, p)
  BY <1>1, AgentAssumption DEF EntryMut, Entries, Patient
<1>2. CASE ~IsNew(s, p)
  BY <1>2 DEF EntryMut, IsNew, Stores, NotAwaiting, Patient
<1> QED  BY <1>1, <1>2

(* A card that is new, or whose shown fields differ, is a changed card.    *)
LEMMA VisibleDiffers ==
    ASSUME NEW a \in Entries, NEW b \in Entries \cup {None}
    PROVE  (Visible(a) # Visible(b))
             <=> \/ b = None
                 \/ a.status # b.status
                 \/ a.message # b.message
                 \/ a.last_working_message # b.last_working_message
                 \/ a.fields # b.fields
<1>1. a # None
  BY AgentAssumption
<1>2. CASE b = None
  BY <1>1, <1>2 DEF Visible
<1>3. CASE b # None
  <2> DEFINE Shown(e) ==
               [status |-> e.status, message |-> e.message,
                last_working_message |-> e.last_working_message, fields |-> e.fields]
  <2>1. Visible(a) = {Shown(a)} /\ Visible(b) = {Shown(b)}
    BY <1>1, <1>3 DEF Visible
  <2>2. Shown(a) = Shown(b) <=> /\ a.status = b.status
                                /\ a.message = b.message
                                /\ a.last_working_message = b.last_working_message
                                /\ a.fields = b.fields
    OBVIOUS
  <2> HIDE DEF Shown
  <2>3. {Shown(a)} = {Shown(b)} <=> Shown(a) = Shown(b)
    OBVIOUS
  <2> QED  BY <1>3, <2>1, <2>2, <2>3
<1> QED  BY <1>2, <1>3

-----------------------------------------------------------------------------
(* Refreshing an entry changes nothing else of it.                         *)
LEMMA RefreshFacts ==
    ASSUME NEW e \in Entries
    PROVE  LET r == [e EXCEPT !.age = 0]
           IN  /\ r \in Entries
               /\ r.status = e.status /\ r.message = e.message /\ r.fields = e.fields
               /\ r.last_working_message = e.last_working_message
               /\ r.awaiting_output = e.awaiting_output
<1>1. 0 \in 0 .. StickySeconds
  BY AgentAssumption
<1> QED  BY <1>1 DEF Entries

(* What leaving and entering Working do to an entry.                       *)
LEMMA LeaveWorkingFacts ==
    ASSUME NEW e \in Entries, NEW st \in Statuses
    PROVE  LET l == LeaveWorking(e, st)
           IN  /\ l \in Entries
               /\ l.status = e.status /\ l.message = e.message /\ l.fields = e.fields
               /\ l.awaiting_output => e.awaiting_output \/ st # "working"
BY DEF LeaveWorking, Entries

LEMMA EnterWorkingFacts ==
    ASSUME NEW e \in Entries, NEW st \in Statuses
    PROVE  LET n == EnterWorking(e, st)
           IN  /\ n \in Entries
               /\ n.status = e.status /\ n.fields = e.fields
               /\ n.last_working_message = e.last_working_message
               /\ st = "working" /\ e.status # "working" => ~n.awaiting_output
               /\ n.awaiting_output => e.awaiting_output
BY DEF EnterWorking, Entries

(* Each mutator leaves a typed, patient store and keeps the generation in  *)
(* step with the cards.                                                    *)
Safe(s, r) == r \in Stores /\ Tracks(s, r) /\ NotAwaiting(r)

LEMMA UpdateStatusSafe ==
    ASSUME NEW s \in Stores, NotAwaiting(s), NEW p \in Panes, NEW st \in Statuses
    PROVE  Safe(s, UpdateStatus(s, p, st))
<1> DEFINE entry   == EntryMut(s, p, st)
           left    == LeaveWorking(entry, st)
           entered == EnterWorking(left, st)
           final   == [entered EXCEPT !.status = st, !.age = 0]
           changed == \/ IsNew(s, p)
                      \/ left.last_working_message # entry.last_working_message
                      \/ entered.message # left.message
                      \/ entry.status # st
<1>1. /\ entry \in Entries /\ Patient(entry)
      /\ ~IsNew(s, p) => entry = s.statuses[p]
  BY EntryMutFacts
<1> HIDE DEF entry
<1>2. /\ left \in Entries
      /\ left.status = entry.status /\ left.message = entry.message /\ left.fields = entry.fields
      /\ left.awaiting_output => entry.awaiting_output \/ st # "working"
  BY <1>1, LeaveWorkingFacts
<1> HIDE DEF left
<1>3. /\ entered \in Entries
      /\ entered.status = left.status /\ entered.fields = left.fields
      /\ entered.last_working_message = left.last_working_message
      /\ st = "working" /\ left.status # "working" => ~entered.awaiting_output
      /\ entered.awaiting_output => left.awaiting_output
  BY <1>2, EnterWorkingFacts
<1> HIDE DEF entered
<1>4. /\ final \in Entries /\ final.status = st
      /\ final.message = entered.message /\ final.fields = entered.fields
      /\ final.last_working_message = entered.last_working_message
      /\ final.awaiting_output = entered.awaiting_output
  <2> DEFINE mid == [entered EXCEPT !.status = st]
  <2>1. /\ mid \in Entries /\ mid.status = st
        /\ mid.message = entered.message /\ mid.fields = entered.fields
        /\ mid.last_working_message = entered.last_working_message
        /\ mid.awaiting_output = entered.awaiting_output
    BY <1>3 DEF Entries
  <2>2. final = [mid EXCEPT !.age = 0]
    OBVIOUS
  <2> HIDE DEF mid, final
  <2> QED  BY <2>1, <2>2, RefreshFacts
<1> HIDE DEF final
<1>5. Patient(final)
  BY <1>1, <1>2, <1>3, <1>4 DEF Patient
<1>6. s.statuses[p] \in Entries \cup {None}
  BY DEF Stores
<1>7. changed <=> (Visible(final) # Visible(s.statuses[p]))
  <2>1. CASE IsNew(s, p)
    BY <1>4, <1>6, <2>1, VisibleDiffers DEF IsNew
  <2>2. CASE ~IsNew(s, p)
    BY <1>1, <1>2, <1>3, <1>4, <1>6, <2>2, VisibleDiffers DEF IsNew
  <2> QED  BY <2>1, <2>2
<1>8. changed \in BOOLEAN
  OBVIOUS
<1> HIDE DEF changed
<1>9. Safe(s, Write(s, p, final, changed))
  BY <1>4, <1>5, <1>7, <1>8, WriteTracks, WritePatient DEF Safe
<1>10. Safe(s, s)
  BY DEF Safe, Tracks
<1>11. UpdateStatus(s, p, st) = IF IdleIsDropped(entry, st) THEN s ELSE Write(s, p, final, changed)
  BY DEF UpdateStatus, entry, left, entered, final, changed
<1> QED  BY <1>9, <1>10, <1>11

LEMMA UpdateMessageSafe ==
    ASSUME NEW s \in Stores, NotAwaiting(s), NEW p \in Panes, NEW m \in Messages
    PROVE  Safe(s, UpdateMessage(s, p, m))
<1> DEFINE entry    == EntryMut(s, p, "working")
           captured == IF entry.awaiting_output
                       THEN [entry EXCEPT !.awaiting_output = FALSE,
                                          !.last_working_message = m]
                       ELSE entry
           final    == [captured EXCEPT !.message = m, !.age = 0]
           changed  == \/ IsNew(s, p)
                       \/ entry.message # m
                       \/ captured.last_working_message # entry.last_working_message
<1>1. /\ entry \in Entries /\ Patient(entry)
      /\ ~IsNew(s, p) => entry = s.statuses[p]
  BY EntryMutFacts DEF Statuses
<1> HIDE DEF entry
<1>2. /\ captured \in Entries
      /\ captured.status = entry.status /\ captured.fields = entry.fields
      /\ captured.awaiting_output => entry.awaiting_output
  BY <1>1 DEF Entries
<1> HIDE DEF captured
<1>3. /\ final \in Entries /\ final.status = captured.status
      /\ final.message = m /\ final.fields = captured.fields
      /\ final.last_working_message = captured.last_working_message
      /\ final.awaiting_output = captured.awaiting_output
  <2> DEFINE mid == [captured EXCEPT !.message = m]
  <2>1. /\ mid \in Entries /\ mid.status = captured.status
        /\ mid.message = m /\ mid.fields = captured.fields
        /\ mid.last_working_message = captured.last_working_message
        /\ mid.awaiting_output = captured.awaiting_output
    BY <1>2 DEF Entries
  <2>2. final = [mid EXCEPT !.age = 0]
    OBVIOUS
  <2> HIDE DEF mid, final
  <2> QED  BY <2>1, <2>2, RefreshFacts
<1> HIDE DEF final
<1>4. Patient(final)
  BY <1>1, <1>2, <1>3 DEF Patient
<1>5. s.statuses[p] \in Entries \cup {None}
  BY DEF Stores
<1>6. changed <=> (Visible(final) # Visible(s.statuses[p]))
  <2>1. CASE IsNew(s, p)
    BY <1>3, <1>5, <2>1, VisibleDiffers DEF IsNew
  <2>2. CASE ~IsNew(s, p)
    BY <1>1, <1>2, <1>3, <1>5, <2>2, VisibleDiffers DEF IsNew
  <2> QED  BY <2>1, <2>2
<1>7. changed \in BOOLEAN
  OBVIOUS
<1> HIDE DEF changed
<1>8. Safe(s, Write(s, p, final, changed))
  BY <1>3, <1>4, <1>6, <1>7, WriteTracks, WritePatient DEF Safe
<1>9. UpdateMessage(s, p, m) = Write(s, p, final, changed)
  BY DEF UpdateMessage, entry, captured, final, changed
<1> QED  BY <1>8, <1>9

LEMMA UpdateFieldSafe ==
    ASSUME NEW s \in Stores, NotAwaiting(s), NEW p \in Panes, NEW f \in Fields, NEW v \in Values
    PROVE  Safe(s, UpdateField(s, p, f, v))
<1> DEFINE entry   == EntryMut(s, p, DefaultStatus(f))
           newFields   == [entry.fields EXCEPT ![f] = v]
           mid     == [entry EXCEPT !.fields = newFields]
           final   == [mid EXCEPT !.age = 0]
           changed == IsNew(s, p) \/ entry.fields[f] # v
<1>1. /\ entry \in Entries /\ Patient(entry)
      /\ ~IsNew(s, p) => entry = s.statuses[p]
  <2>1. DefaultStatus(f) \in Statuses
    BY DEF DefaultStatus, Statuses
  <2> QED  BY <2>1, EntryMutFacts
<1> HIDE DEF entry
<1>2. /\ newFields \in [Fields -> Values \cup {None}]
      /\ newFields # entry.fields <=> entry.fields[f] # v
  BY <1>1 DEF Entries
<1> HIDE DEF newFields
<1>3. /\ mid \in Entries /\ mid.status = entry.status
      /\ mid.message = entry.message /\ mid.fields = newFields
      /\ mid.last_working_message = entry.last_working_message
      /\ mid.awaiting_output = entry.awaiting_output
  BY <1>1, <1>2 DEF Entries
<1> HIDE DEF mid
<1>4. /\ final \in Entries /\ final.status = mid.status
      /\ final.message = mid.message /\ final.fields = mid.fields
      /\ final.last_working_message = mid.last_working_message
      /\ final.awaiting_output = mid.awaiting_output
  BY <1>3, RefreshFacts
<1> HIDE DEF final
<1>5. Patient(final)
  BY <1>1, <1>3, <1>4 DEF Patient
<1>6. s.statuses[p] \in Entries \cup {None}
  BY DEF Stores
<1>7. changed <=> (Visible(final) # Visible(s.statuses[p]))
  <2>1. CASE IsNew(s, p)
    BY <1>4, <1>6, <2>1, VisibleDiffers DEF IsNew
  <2>2. CASE ~IsNew(s, p)
    BY <1>1, <1>2, <1>3, <1>4, <1>6, <2>2, VisibleDiffers DEF IsNew
  <2> QED  BY <2>1, <2>2
<1>8. changed \in BOOLEAN
  OBVIOUS
<1> HIDE DEF changed
<1>9. Safe(s, Write(s, p, final, changed))
  BY <1>4, <1>5, <1>7, <1>8, WriteTracks, WritePatient DEF Safe
<1>10. Safe(s, s)
  BY DEF Safe, Tracks
<1>11. UpdateField(s, p, f, v) = IF f = "tool" /\ IsNew(s, p) THEN s ELSE Write(s, p, final, changed)
  BY DEF UpdateField, entry, newFields, mid, final, changed
<1> QED  BY <1>9, <1>10, <1>11

LEMMA ClearSafe ==
    ASSUME NEW s \in Stores, NotAwaiting(s), NEW p \in Panes
    PROVE  Safe(s, Clear(s, p))
<1>1. CASE IsNew(s, p)
  BY <1>1 DEF Clear, Safe, Tracks
<1>2. CASE ~IsNew(s, p)
  <2> DEFINE entry   == s.statuses[p]
             mid     == [entry EXCEPT !.status = "idle"]
             final   == [mid EXCEPT !.age = 0]
             changed == entry.status # "idle"
  <2>1. entry \in Entries
    BY <1>2 DEF Stores, IsNew
  <2>2. /\ mid \in Entries /\ mid.status = "idle"
        /\ mid.message = entry.message /\ mid.fields = entry.fields
        /\ mid.last_working_message = entry.last_working_message
    BY <2>1 DEF Entries, Statuses
  <2> HIDE DEF mid
  <2>3. /\ final \in Entries /\ final.status = mid.status
        /\ final.message = mid.message /\ final.fields = mid.fields
        /\ final.last_working_message = mid.last_working_message
    BY <2>2, RefreshFacts
  <2> HIDE DEF final
  <2>4. Patient(final)
    BY <2>2, <2>3 DEF Patient
  <2>5. changed <=> (Visible(final) # Visible(s.statuses[p]))
    BY <1>2, <2>1, <2>2, <2>3, VisibleDiffers DEF IsNew
  <2>6. changed \in BOOLEAN
    OBVIOUS
  <2>7. Clear(s, p) = Write(s, p, final, changed)
    BY <1>2 DEF Clear, final, mid
  <2> HIDE DEF changed
  <2> QED  BY <2>3, <2>4, <2>5, <2>6, <2>7, WriteTracks, WritePatient DEF Safe
<1> QED  BY <1>1, <1>2

LEMMA RemoveSafe ==
    ASSUME NEW s \in Stores, NotAwaiting(s), NEW p \in Panes
    PROVE  Safe(s, Remove(s, p))
<1>1. CASE IsNew(s, p)
  BY <1>1 DEF Remove, Safe, Tracks
<1>2. CASE ~IsNew(s, p)
  <2>1. Visible(None) # Visible(s.statuses[p])
    BY <1>2 DEF Visible, IsNew
  <2>2. Safe(s, Write(s, p, None, TRUE))
    BY <2>1, WriteTracks, WritePatient DEF Safe
  <2> QED  BY <1>2, <2>2 DEF Remove
<1> QED  BY <1>1, <1>2

(* A second passing is invisible.                                          *)
LEMMA AgedSafe ==
    ASSUME NEW s \in Stores, NotAwaiting(s)
    PROVE  Safe(s, Aged(s))
<1> DEFINE r == Aged(s)
<1>1. \A e \in Entries : /\ Older(e) \in Entries
                         /\ Older(e).status = e.status /\ Older(e).message = e.message
                         /\ Older(e).fields = e.fields
                         /\ Older(e).last_working_message = e.last_working_message
                         /\ Older(e).awaiting_output = e.awaiting_output
  BY AgentAssumption DEF Entries, Older
<1>2. /\ r = [statuses |-> r.statuses, generation |-> s.generation]
      /\ r.statuses = [p \in Panes |-> IF s.statuses[p] = None THEN None ELSE Older(s.statuses[p])]
  BY DEF Aged, IsNew
<1> HIDE DEF r
<1>3. \A p \in Panes : s.statuses[p] \in Entries \cup {None}
  BY DEF Stores
<1>4. r \in Stores
  <2>1. r.statuses \in [Panes -> Entries \cup {None}]
    BY <1>1, <1>2, <1>3
  <2> QED  BY <1>2, <2>1 DEF Stores
<1>5. \A p \in Panes : Visible(r.statuses[p]) = Visible(s.statuses[p])
  <2> TAKE p \in Panes
  <2>1. CASE s.statuses[p] = None
    BY <1>2, <2>1
  <2>2. CASE s.statuses[p] # None
    BY <1>1, <1>2, <1>3, <2>2, VisibleDiffers, AgentAssumption
  <2> QED  BY <2>1, <2>2
<1>6. NotAwaiting(r)
  BY <1>1, <1>2, <1>3 DEF NotAwaiting, IsNew
<1>7. r.generation = s.generation
  BY <1>2
<1> QED  BY <1>4, <1>5, <1>6, <1>7 DEF Safe, Tracks, r

-----------------------------------------------------------------------------
IInv == store \in Stores /\ NotAwaiting(store)

LEMMA InitIInv == StoreInit => IInv
<1> SUFFICES ASSUME StoreInit PROVE IInv
  OBVIOUS
<1>1. store \in Stores
  BY AgentAssumption DEF StoreInit, EmptyStore, Stores
<1>2. \A p \in Panes : store.statuses[p] = None
  BY DEF StoreInit, EmptyStore
<1> QED  BY <1>1, <1>2 DEF IInv, NotAwaiting, IsNew

(* Every step is a mutator's, a second's, or a stutter, and each is safe.  *)
LEMMA NextSafe == IInv /\ [StoreNext]_storeVars => Safe(store, store')
<1> SUFFICES ASSUME IInv, [StoreNext]_storeVars PROVE Safe(store, store')
  OBVIOUS
<1>0. store \in Stores /\ NotAwaiting(store)
  BY DEF IInv
<1>1. ASSUME NEW p \in Panes, NEW st \in Statuses, Status(p, st) PROVE Safe(store, store')
  BY <1>0, <1>1, UpdateStatusSafe DEF Status
<1>2. ASSUME NEW p \in Panes, NEW m \in Messages, Message(p, m) PROVE Safe(store, store')
  BY <1>0, <1>2, UpdateMessageSafe DEF Message
<1>3. ASSUME NEW p \in Panes, NEW f \in Fields, NEW v \in Values, Field(p, f, v)
      PROVE  Safe(store, store')
  BY <1>0, <1>3, UpdateFieldSafe DEF Field
<1>4. ASSUME NEW p \in Panes, ClearEvent(p) PROVE Safe(store, store')
  BY <1>0, <1>4, ClearSafe DEF ClearEvent
<1>5. ASSUME NEW p \in Panes, Forget(p) PROVE Safe(store, store')
  BY <1>0, <1>5, RemoveSafe DEF Forget
<1>6. CASE StoreTick
  BY <1>0, <1>6, AgedSafe DEF StoreTick
<1>7. CASE UNCHANGED storeVars
  BY <1>0, <1>7 DEF storeVars, Safe, Tracks
<1> QED  BY <1>1, <1>2, <1>3, <1>4, <1>5, <1>6, <1>7 DEF StoreNext

LEMMA NextIInv == IInv /\ [StoreNext]_storeVars => IInv'
BY NextSafe DEF IInv, Safe, NotAwaiting, IsNew

(* Entries stay typed and the generation a u64, for every constant.        *)
THEOREM AgentStoreTypeCorrect == StoreSpec => []TypeOK
<1>1. IInv => TypeOK
  BY DEF IInv, Stores, TypeOK
<1> QED  BY <1>1, InitIInv, NextIInv, PTL DEF StoreSpec

(* No agent shown as working still waits for the output of its last turn.  *)
THEOREM WorkingNeverAwaits == StoreSpec => []NoOutputAwaitedWhileWorking
<1>1. IInv => NoOutputAwaitedWhileWorking
  BY DEF IInv, NotAwaiting, NoOutputAwaitedWhileWorking
<1> QED  BY <1>1, InitIInv, NextIInv, PTL DEF StoreSpec

(* Whatever the agents report and in whatever order, the sidebar's stale   *)
(* test is exact: the generation moves iff a card would look different.    *)
THEOREM GenerationIsExact == StoreSpec => GenerationTracksCards
<1>1. IInv /\ [StoreNext]_storeVars =>
        [ (store.generation' # store.generation)
            <=> (\E p \in Panes : Visible(store'.statuses[p]) # Visible(store.statuses[p])) ]_storeVars
  BY NextSafe DEF Safe, Tracks
<1> QED  BY <1>1, InitIInv, NextIInv, PTL DEF StoreSpec, GenerationTracksCards
-----------------------------------------------------------------------------
(* What a turn is known to have said, and where its entry keeps it: the    *)
(* message while the agent works, then the output of the last turn, or     *)
(* nothing yet but the mark that the next message is that output.          *)
Turns == [phase : {"none", "running", "ended"}, output : Messages \cup {None}, cleared : BOOLEAN]

Kept(e, t) ==
    /\ t.phase = "running" <=> e.status = "working"
    /\ t.phase = "running" => t.output = e.message
    /\ t.phase = "ended" /\ ~t.cleared =>
         /\ t.output = None => e.awaiting_output
         /\ t.output # None => ~e.awaiting_output /\ e.last_working_message = t.output

Agrees(e, t) == IF e = None THEN t = NoTurn ELSE Kept(e, t)

TInv == IInv /\ turn \in [Panes -> Turns] /\ \A p \in Panes : Agrees(store.statuses[p], turn[p])

(* A step that writes one pane's entry and turn, and keeps them in         *)
(* agreement, keeps all of them so.                                        *)
LEMMA OnePaneAgrees ==
    ASSUME TInv, NEW p \in Panes, NEW e \in Entries \cup {None}, NEW t \in Turns,
           Agrees(e, t),
           store'.statuses = [store.statuses EXCEPT ![p] = e],
           turn' = [turn EXCEPT ![p] = t]
    PROVE  turn' \in [Panes -> Turns] /\ \A q \in Panes : Agrees(store'.statuses[q], turn'[q])
<1>1. store.statuses \in [Panes -> Entries \cup {None}] /\ turn \in [Panes -> Turns]
  BY DEF TInv, IInv, Stores
<1>2. \A q \in Panes : Agrees(store.statuses[q], turn[q])
  BY DEF TInv
<1> QED  BY <1>1, <1>2

LEMMA TurnFacts ==
    ASSUME TInv, NEW p \in Panes
    PROVE  /\ store \in Stores /\ NotAwaiting(store)
           /\ store.statuses[p] \in Entries \cup {None}
           /\ turn[p] \in Turns /\ turn \in [Panes -> Turns]
           /\ Agrees(store.statuses[p], turn[p])
           /\ NoTurn \in Turns
BY DEF TInv, IInv, Stores, Turns, NoTurn

(* What a status that is not dropped makes of an entry.                    *)
StatusEntry(e, st) == [EnterWorking(LeaveWorking(e, st), st) EXCEPT !.status = st, !.age = 0]

LEMMA StatusEntryFacts ==
    ASSUME NEW e \in Entries, NEW st \in Statuses
    PROVE  LET f == StatusEntry(e, st)
               enters == st = "working" /\ e.status # "working"
               leaves == st # "working" /\ e.status = "working"
           IN  /\ f \in Entries /\ f.status = st
               /\ f.message = IF enters THEN None ELSE e.message
               /\ f.last_working_message =
                    IF leaves /\ e.message # None THEN e.message ELSE e.last_working_message
               /\ f.awaiting_output =
                    IF enters THEN FALSE
                    ELSE IF leaves /\ e.message = None THEN TRUE ELSE e.awaiting_output
<1> DEFINE l == LeaveWorking(e, st)
           n == EnterWorking(l, st)
           m == [n EXCEPT !.status = st]
           f == [m EXCEPT !.age = 0]
           enters == st = "working" /\ e.status # "working"
           leaves == st # "working" /\ e.status = "working"
<1>1. /\ l \in Entries /\ l.status = e.status /\ l.message = e.message
      /\ l.last_working_message =
           IF leaves /\ e.message # None THEN e.message ELSE e.last_working_message
      /\ l.awaiting_output = IF leaves /\ e.message = None THEN TRUE ELSE e.awaiting_output
  BY DEF LeaveWorking, Entries
<1> HIDE DEF l
<1>2. /\ n \in Entries
      /\ n.message = IF enters THEN None ELSE l.message
      /\ n.last_working_message = l.last_working_message
      /\ n.awaiting_output = IF enters THEN FALSE ELSE l.awaiting_output
  BY <1>1 DEF EnterWorking, Entries
<1> HIDE DEF n
<1>3. /\ m \in Entries /\ m.status = st /\ m.message = n.message
      /\ m.last_working_message = n.last_working_message /\ m.awaiting_output = n.awaiting_output
  BY <1>2 DEF Entries
<1> HIDE DEF m
<1>4. /\ f \in Entries /\ f.status = m.status /\ f.message = m.message
      /\ f.last_working_message = m.last_working_message /\ f.awaiting_output = m.awaiting_output
  BY <1>3, RefreshFacts
<1>5. f = StatusEntry(e, st)
  BY DEF StatusEntry, l, n, m
<1> HIDE DEF f
<1> QED  BY <1>1, <1>2, <1>3, <1>4, <1>5

(* A status event starts a turn, ends it or leaves it as it is.            *)
LEMMA StatusAgrees ==
    ASSUME TInv, NEW p \in Panes, NEW st \in Statuses, Status(p, st)
    PROVE  turn' \in [Panes -> Turns] /\ \A q \in Panes : Agrees(store'.statuses[q], turn'[q])
<1> DEFINE e == EntryMut(store, p, st)
           t == turn[p]
           f == StatusEntry(e, st)
           u == TurnOnStatus(t, st, FALSE)
<1>1. /\ store \in Stores /\ NotAwaiting(store) /\ t \in Turns /\ turn \in [Panes -> Turns]
      /\ Agrees(store.statuses[p], t)
  BY TurnFacts
<1>2. /\ e \in Entries /\ Patient(e)
      /\ ~IsNew(store, p) => e = store.statuses[p]
      /\ IsNew(store, p) => e.status = st
  BY <1>1, EntryMutFacts
<1>3. CASE IdleIsDropped(e, st)
  <2>1. store' = store /\ turn' = turn
    <3>1. store' = store
      BY <1>3 DEF Status, UpdateStatus
    <3>2. turn' = [turn EXCEPT ![p] = turn[p]]
      BY <1>3 DEF Status, TurnOnStatus
    <3> QED  BY <1>1, <3>1, <3>2
  <2> QED  BY <2>1 DEF TInv
<1>4. CASE ~IdleIsDropped(e, st)
  <2>1. store'.statuses = [store.statuses EXCEPT ![p] = f]
    BY <1>4 DEF Status, UpdateStatus, Write, StatusEntry
  <2>2. turn' = [turn EXCEPT ![p] = u]
    BY <1>4 DEF Status, TurnOnStatus
  <2>3. /\ u \in Turns
        /\ st = "working" /\ t.phase = "running" => u = t
        /\ st = "working" /\ t.phase # "running" =>
             u.phase = "running" /\ u.output = None /\ ~u.cleared
        /\ st # "working" =>
             /\ u.phase = IF t.phase = "running" THEN "ended" ELSE t.phase
             /\ u.output = t.output /\ u.cleared = t.cleared
    BY <1>1 DEF TurnOnStatus, Turns, NoTurn
  <2>4. /\ f \in Entries /\ f.status = st
        /\ st = "working" /\ e.status # "working" => f.message = None
        /\ ~(st = "working" /\ e.status # "working") => f.message = e.message
        /\ st # "working" /\ e.status = "working" /\ e.message # None =>
             f.last_working_message = e.message /\ f.awaiting_output = e.awaiting_output
        /\ st # "working" /\ e.status = "working" /\ e.message = None => f.awaiting_output
        /\ st # "working" /\ e.status # "working" =>
             /\ f.last_working_message = e.last_working_message
             /\ f.awaiting_output = e.awaiting_output
    BY <1>2, StatusEntryFacts
  <2> HIDE DEF f, u, e
  <2>5. f # None
    BY <2>4, AgentAssumption
  <2>6. Kept(f, u)
    <3>1. CASE IsNew(store, p)
      <4>1. t.phase = "none" /\ t.output = None
        BY <1>1, <3>1 DEF Agrees, IsNew, NoTurn
      <4>2. st = "working" => f.message = None
        <5>1. st = "working" => e.message = None
          BY <3>1 DEF EntryMut, e
        <5> QED  BY <2>4, <5>1
      <4> QED  BY <1>2, <2>3, <2>4, <3>1, <4>1, <4>2 DEF Kept
    <3>2. CASE ~IsNew(store, p)
      <4>1. Kept(e, t)
        BY <1>1, <1>2, <3>2 DEF Agrees, IsNew
      <4>2. t.phase \in {"none", "running", "ended"} /\ t.cleared \in BOOLEAN
        BY <1>1 DEF Turns
      <4>3. CASE st = "working"
        BY <2>3, <2>4, <4>1, <4>2, <4>3 DEF Kept
      <4>4. CASE st # "working" /\ e.status = "working"
        BY <1>2, <2>3, <2>4, <4>1, <4>4 DEF Kept, Patient
      <4>5. CASE st # "working" /\ e.status # "working"
        BY <2>3, <2>4, <4>1, <4>2, <4>5 DEF Kept
      <4> QED  BY <4>3, <4>4, <4>5
    <3> QED  BY <3>1, <3>2
  <2>7. Agrees(f, u)
    BY <2>5, <2>6 DEF Agrees
  <2> QED  BY <2>1, <2>2, <2>3, <2>4, <2>7, OnePaneAgrees
<1> QED  BY <1>3, <1>4

(* A message is the output of a running turn, or the one waited for, or a  *)
(* label.                                                                  *)
LEMMA MessageAgrees ==
    ASSUME TInv, NEW p \in Panes, NEW m \in Messages, Message(p, m)
    PROVE  turn' \in [Panes -> Turns] /\ \A q \in Panes : Agrees(store'.statuses[q], turn'[q])
<1> DEFINE e == EntryMut(store, p, "working")
           c == IF e.awaiting_output
                THEN [e EXCEPT !.awaiting_output = FALSE, !.last_working_message = m] ELSE e
           g == [c EXCEPT !.message = m]
           f == [g EXCEPT !.age = 0]
           t == turn[p]
           u == TurnOnMessage(t, m, IsNew(store, p))
<1>1. /\ store \in Stores /\ NotAwaiting(store) /\ t \in Turns /\ turn \in [Panes -> Turns]
      /\ Agrees(store.statuses[p], t)
  BY TurnFacts
<1>2. /\ e \in Entries /\ Patient(e)
      /\ ~IsNew(store, p) => e = store.statuses[p]
      /\ IsNew(store, p) => e.status = "working"
  BY <1>1, EntryMutFacts DEF Statuses
<1>3. store'.statuses = [store.statuses EXCEPT ![p] = f]
  BY DEF Message, UpdateMessage, Write
<1>4. turn' = [turn EXCEPT ![p] = u]
  BY DEF Message
<1>5. /\ u \in Turns
      /\ IsNew(store, p) => u.phase = "running" /\ u.output = m
      /\ ~IsNew(store, p) =>
           /\ u.phase = t.phase /\ u.cleared = t.cleared
           /\ u.output = IF t.phase = "running" \/ (t.phase = "ended" /\ t.output = None)
                         THEN m ELSE t.output
  BY <1>1 DEF TurnOnMessage, Turns, NoTurn
<1> HIDE DEF e
<1>6. /\ c \in Entries /\ c.status = e.status /\ ~c.awaiting_output
      /\ c.last_working_message = IF e.awaiting_output THEN m ELSE e.last_working_message
  BY <1>2 DEF Entries
<1> HIDE DEF c
<1>7. /\ g \in Entries /\ g.status = c.status /\ g.message = m
      /\ g.awaiting_output = c.awaiting_output
      /\ g.last_working_message = c.last_working_message
  BY <1>6 DEF Entries
<1> HIDE DEF g
<1>8. /\ f \in Entries /\ f.status = e.status /\ f.message = m /\ ~f.awaiting_output
      /\ f.last_working_message = IF e.awaiting_output THEN m ELSE e.last_working_message
  BY <1>6, <1>7, RefreshFacts
<1> HIDE DEF f, u
<1>9. f # None /\ m # None
  BY <1>8, AgentAssumption
<1>10. Kept(f, u)
  <2>1. CASE IsNew(store, p)
    BY <1>2, <1>5, <1>8, <2>1 DEF Kept
  <2>2. CASE ~IsNew(store, p)
    <3>1. Kept(e, t) /\ t.phase \in {"none", "running", "ended"}
      BY <1>1, <1>2, <2>2 DEF Agrees, IsNew, Turns
    <3> QED  BY <1>5, <1>8, <1>9, <2>2, <3>1 DEF Kept
  <2> QED  BY <2>1, <2>2
<1>11. Agrees(f, u)
  BY <1>9, <1>10 DEF Agrees
<1> QED  BY <1>3, <1>4, <1>5, <1>8, <1>11, OnePaneAgrees

(* Another field tells nothing of the turn, unless it is the first thing   *)
(* heard of an agent that works.                                           *)
LEMMA FieldAgrees ==
    ASSUME TInv, NEW p \in Panes, NEW i \in Fields, NEW v \in Values, Field(p, i, v)
    PROVE  turn' \in [Panes -> Turns] /\ \A q \in Panes : Agrees(store'.statuses[q], turn'[q])
<1> DEFINE e == EntryMut(store, p, DefaultStatus(i))
           g == [e EXCEPT !.fields = [@ EXCEPT ![i] = v]]
           f == [g EXCEPT !.age = 0]
           t == turn[p]
           u == [t EXCEPT !.phase = IF IsNew(store, p) /\ i # "tool" /\ DefaultStatus(i) = "working"
                                    THEN "running" ELSE @]
<1>1. /\ store \in Stores /\ NotAwaiting(store) /\ t \in Turns /\ turn \in [Panes -> Turns]
      /\ Agrees(store.statuses[p], t)
  BY TurnFacts
<1>2. turn' = [turn EXCEPT ![p] = u]
  BY <1>1 DEF Field
<1>3. CASE i = "tool" /\ IsNew(store, p)
  <2>1. store' = store
    BY <1>3 DEF Field, UpdateField
  <2>2. u = t
    BY <1>1, <1>3 DEF Turns
  <2>3. turn' = turn
    BY <1>1, <1>2, <2>2
  <2> QED  BY <2>1, <2>3 DEF TInv
<1>4. CASE ~(i = "tool" /\ IsNew(store, p))
  <2>1. DefaultStatus(i) \in Statuses
    BY DEF DefaultStatus, Statuses
  <2>2. /\ e \in Entries
        /\ ~IsNew(store, p) => e = store.statuses[p]
        /\ IsNew(store, p) => e.status = DefaultStatus(i)
    BY <1>1, <2>1, EntryMutFacts
  <2>3. IsNew(store, p) => e.message = None
    BY DEF EntryMut
  <2>4. store'.statuses = [store.statuses EXCEPT ![p] = f]
    BY <1>4 DEF Field, UpdateField, Write
  <2>5. /\ u \in Turns /\ u.output = t.output /\ u.cleared = t.cleared
        /\ u.phase = IF IsNew(store, p) /\ i # "tool" /\ DefaultStatus(i) = "working"
                     THEN "running" ELSE t.phase
    BY <1>1 DEF Turns
  <2> HIDE DEF e, u
  <2>6. /\ g \in Entries /\ g.status = e.status /\ g.message = e.message
        /\ g.awaiting_output = e.awaiting_output
        /\ g.last_working_message = e.last_working_message
    BY <2>2 DEF Entries
  <2> HIDE DEF g
  <2>7. /\ f \in Entries /\ f.status = e.status /\ f.message = e.message
        /\ f.awaiting_output = e.awaiting_output
        /\ f.last_working_message = e.last_working_message
    BY <2>6, RefreshFacts
  <2> HIDE DEF f
  <2>8. f # None
    BY <2>7, AgentAssumption
  <2>9. Kept(f, u)
    <3>1. CASE IsNew(store, p)
      <4>1. t.phase = "none" /\ t.output = None
        BY <1>1, <3>1 DEF Agrees, IsNew, NoTurn
      <4> QED  BY <1>4, <2>2, <2>3, <2>5, <2>7, <3>1, <4>1 DEF Kept
    <3>2. CASE ~IsNew(store, p)
      <4>1. Kept(e, t)
        BY <1>1, <2>2, <3>2 DEF Agrees, IsNew
      <4> QED  BY <2>5, <2>7, <3>2, <4>1 DEF Kept
    <3> QED  BY <3>1, <3>2
  <2>10. Agrees(f, u)
    BY <2>8, <2>9 DEF Agrees
  <2> QED  BY <1>2, <2>4, <2>5, <2>7, <2>10, OnePaneAgrees
<1> QED  BY <1>3, <1>4

(* A clear ends a turn whose output no card has to show.                   *)
LEMMA ClearAgrees ==
    ASSUME TInv, NEW p \in Panes, ClearEvent(p)
    PROVE  turn' \in [Panes -> Turns] /\ \A q \in Panes : Agrees(store'.statuses[q], turn'[q])
<1> DEFINE e == store.statuses[p]
           g == [e EXCEPT !.status = "idle"]
           f == [g EXCEPT !.age = 0]
           t == turn[p]
           u == turn'[p]
<1>1. /\ store \in Stores /\ e \in Entries \cup {None} /\ t \in Turns /\ turn \in [Panes -> Turns]
      /\ Agrees(e, t)
  BY TurnFacts
<1>2. /\ u \in Turns /\ u.output = t.output
      /\ u.phase = IF t.phase = "running" THEN "ended" ELSE t.phase
      /\ u.cleared = (t.cleared \/ t.phase = "running")
      /\ turn' = [turn EXCEPT ![p] = u]
  BY <1>1 DEF ClearEvent, Turns
<1>3. CASE IsNew(store, p)
  <2>1. store' = store
    BY <1>3 DEF ClearEvent, Clear
  <2>2. e = None /\ t = NoTurn
    BY <1>1, <1>3 DEF Agrees, IsNew
  <2>3. u = NoTurn
    <3>1. u = [phase |-> u.phase, output |-> u.output, cleared |-> u.cleared]
      BY <1>2 DEF Turns
    <3>2. u.phase = "none" /\ u.output = None /\ u.cleared = FALSE
      <4>1. t.phase = "none" /\ t.output = None /\ t.cleared = FALSE
        BY <2>2 DEF NoTurn
      <4> HIDE DEF t, u
      <4> QED  BY <1>2, <4>1
    <3> HIDE DEF u
    <3> QED  BY <3>1, <3>2 DEF NoTurn
  <2>4. \A q \in Panes : turn'[q] = turn[q]
    BY <1>1, <1>2, <2>2, <2>3
  <2>5. turn' = turn
    BY <1>1, <1>2, <2>2, <2>3
  <2> QED  BY <2>1, <2>5 DEF TInv
<1>4. CASE ~IsNew(store, p)
  <2>1. e \in Entries /\ Kept(e, t)
    BY <1>1, <1>4 DEF Agrees, IsNew
  <2>2. store'.statuses = [store.statuses EXCEPT ![p] = f]
    BY <1>4 DEF ClearEvent, Clear, Write
  <2>3. /\ g \in Entries /\ g.status = "idle"
        /\ g.awaiting_output = e.awaiting_output
        /\ g.last_working_message = e.last_working_message
    BY <2>1 DEF Entries, Statuses
  <2> HIDE DEF g
  <2>4. /\ f \in Entries /\ f.status = "idle"
        /\ f.awaiting_output = e.awaiting_output
        /\ f.last_working_message = e.last_working_message
    BY <2>3, RefreshFacts
  <2> HIDE DEF f, u
  <2>5. f # None
    BY <2>4, AgentAssumption
  <2>6. Kept(f, u)
    BY <1>1, <1>2, <2>1, <2>4 DEF Kept, Turns
  <2>7. Agrees(f, u)
    BY <2>5, <2>6 DEF Agrees
  <2> QED  BY <1>2, <2>2, <2>4, <2>7, OnePaneAgrees
<1> QED  BY <1>3, <1>4

LEMMA ForgetAgrees ==
    ASSUME TInv, NEW p \in Panes, Forget(p)
    PROVE  turn' \in [Panes -> Turns] /\ \A q \in Panes : Agrees(store'.statuses[q], turn'[q])
<1>1. store.statuses \in [Panes -> Entries \cup {None}]
  BY TurnFacts DEF Stores
<1>2. store'.statuses = [store.statuses EXCEPT ![p] = None]
  BY <1>1 DEF Forget, Remove, Write, IsNew
<1>3. turn' = [turn EXCEPT ![p] = NoTurn]
  BY DEF Forget
<1>4. Agrees(None, NoTurn) /\ NoTurn \in Turns
  BY TurnFacts DEF Agrees
<1> QED  BY <1>2, <1>3, <1>4, OnePaneAgrees

LEMMA TickAgrees ==
    ASSUME TInv, StoreTick
    PROVE  turn' \in [Panes -> Turns] /\ \A q \in Panes : Agrees(store'.statuses[q], turn'[q])
<1>1. turn' = turn /\ turn \in [Panes -> Turns]
  BY DEF StoreTick, TInv
<1>2. ASSUME NEW q \in Panes PROVE Agrees(store'.statuses[q], turn[q])
  <2> DEFINE e == store.statuses[q]
             f == Older(e)
  <2>1. e \in Entries \cup {None} /\ Agrees(e, turn[q])
    BY TurnFacts
  <2>2. store'.statuses[q] = IF e = None THEN None ELSE f
    BY DEF StoreTick, Aged, IsNew
  <2>3. CASE e = None
    BY <2>1, <2>2, <2>3
  <2>4. CASE e # None
    <3>1. /\ f \in Entries /\ f.status = e.status /\ f.message = e.message
          /\ f.awaiting_output = e.awaiting_output
          /\ f.last_working_message = e.last_working_message
      BY <2>1, <2>4, AgentAssumption DEF Entries, Older
    <3> HIDE DEF f
    <3>2. f # None
      BY <3>1, AgentAssumption
    <3>3. Kept(e, turn[q])
      BY <2>1, <2>4 DEF Agrees
    <3> QED  BY <2>2, <2>4, <3>1, <3>2, <3>3 DEF Agrees, Kept
  <2> QED  BY <2>3, <2>4
<1> QED  BY <1>1, <1>2

(* Whatever the agents report, a card shows the output of the turn that    *)
(* ended: not an older one, nor a label that came later.                   *)
THEOREM CardsShowTheTurn == StoreSpec => []CardShowsTurnOutput
<1>1. StoreInit => TInv
  <2> SUFFICES ASSUME StoreInit PROVE TInv
    OBVIOUS
  <2>1. \A p \in Panes : store.statuses[p] = None /\ turn[p] = NoTurn
    BY DEF StoreInit, EmptyStore
  <2>2. turn \in [Panes -> Turns]
    BY DEF StoreInit, Turns, NoTurn
  <2> QED  BY <2>1, <2>2, InitIInv DEF TInv, Agrees
<1>2. TInv /\ [StoreNext]_storeVars => TInv'
  <2> SUFFICES ASSUME TInv, [StoreNext]_storeVars PROVE TInv'
    OBVIOUS
  <2> DEFINE Good == turn' \in [Panes -> Turns] /\ \A q \in Panes : Agrees(store'.statuses[q], turn'[q])
  <2>1. IInv'
    BY NextIInv DEF TInv
  <2>2. ASSUME NEW p \in Panes, NEW st \in Statuses, Status(p, st) PROVE Good
    BY <2>2, StatusAgrees
  <2>3. ASSUME NEW p \in Panes, NEW m \in Messages, Message(p, m) PROVE Good
    BY <2>3, MessageAgrees
  <2>4. ASSUME NEW p \in Panes, NEW f \in Fields, NEW v \in Values, Field(p, f, v) PROVE Good
    BY <2>4, FieldAgrees
  <2>5. ASSUME NEW p \in Panes, ClearEvent(p) PROVE Good
    BY <2>5, ClearAgrees
  <2>6. ASSUME NEW p \in Panes, Forget(p) PROVE Good
    BY <2>6, ForgetAgrees
  <2>7. ASSUME StoreTick PROVE Good
    BY <2>7, TickAgrees
  <2>8. ASSUME UNCHANGED storeVars PROVE Good
    BY <2>8 DEF storeVars, TInv
  <2>9. Good
    <3> HIDE DEF Good
    <3> QED  BY <2>2, <2>3, <2>4, <2>5, <2>6, <2>7, <2>8 DEF StoreNext
  <2> QED  BY <2>1, <2>9 DEF TInv
<1>3. TInv => CardShowsTurnOutput
  <2> SUFFICES ASSUME TInv, NEW p \in Panes, Ended(p), ~turn[p].cleared
               PROVE  Preview(store.statuses[p]) = turn[p].output
    BY DEF CardShowsTurnOutput
  <2>1. Agrees(store.statuses[p], turn[p])
    BY TurnFacts
  <2>2. store.statuses[p] # None
    BY <2>1 DEF Agrees, Ended, NoTurn
  <2>3. Kept(store.statuses[p], turn[p])
    BY <2>1, <2>2 DEF Agrees
  <2> QED  BY <2>3 DEF Kept, Ended, Preview
<1> QED  BY <1>1, <1>2, <1>3, PTL DEF StoreSpec

-----------------------------------------------------------------------------
(* The hooks of a session.                                                 *)
Events ==
    [kind : {"status"}, value : Statuses] \cup [kind : {"message"}, value : Messages]
        \cup [kind : {"background_tasks_count"}, value : Values]

(* What a hook process has still to write: a status, some message, only    *)
(* one message; a status comes first, and only counts after a message.     *)
Comes(q, status) == \E i \in 1 .. Len(q) : q[i].kind = "status" /\ q[i].value = status
Speaks(q) == \E i \in 1 .. Len(q) : q[i].kind = "message"
SaysOnly(q, m) == \A i \in 1 .. Len(q) : q[i].kind = "message" => q[i].value = m
Leads(q) == \A i \in 1 .. Len(q) : q[i].kind = "status" => i = 1
Ordered(q) ==
    \A i, j \in 1 .. Len(q) : i < j /\ q[i].kind = "message" => q[j].kind = "background_tasks_count"

(* The first event and the others.                                         *)
LEMMA HeadAndTail ==
    ASSUME NEW q \in Seq(Events), Len(q) > 0
    PROVE  /\ Head(q) \in Events /\ Tail(q) \in Seq(Events)
           /\ \A st : Comes(q, st) <=> (Head(q).kind = "status" /\ Head(q).value = st) \/ Comes(Tail(q), st)
           /\ Speaks(q) <=> Head(q).kind = "message" \/ Speaks(Tail(q))
           /\ \A m : SaysOnly(q, m) =>
                /\ Head(q).kind = "message" => Head(q).value = m
                /\ SaysOnly(Tail(q), m)
           /\ Leads(q) => Leads(Tail(q)) /\ \A st : ~Comes(Tail(q), st)
           /\ Ordered(q) => /\ Ordered(Tail(q))
                            /\ Head(q).kind = "message" => ~Speaks(Tail(q)) /\ \A st : ~Comes(Tail(q), st)
<1>1. q # <<>>
  OBVIOUS
<1>2. /\ Head(q) \in Events /\ Head(q) = q[1] /\ Tail(q) \in Seq(Events)
      /\ Len(q) \in Nat /\ Len(Tail(q)) = Len(q) - 1
      /\ \A i \in 1 .. Len(Tail(q)) : Tail(q)[i] = q[i + 1]
  BY <1>1, HeadTailProperties, LenProperties
<1> DEFINE h == Head(q)
           t == Tail(q)
<1>3. /\ Len(q) = Len(t) + 1 /\ Len(t) \in Nat
      /\ q[1] = h /\ \A i \in 1 .. Len(t) : t[i] = q[i + 1]
  BY <1>2
<1> HIDE DEF h, t
<1>4. \A i \in 1 .. Len(q) : i = 1 \/ (i - 1 \in 1 .. Len(t) /\ q[i] = t[i - 1])
  BY <1>3
<1>5. 1 \in 1 .. Len(q) /\ \A i \in 1 .. Len(t) : i + 1 \in 1 .. Len(q) /\ 1 < i + 1
  BY <1>3
<1>6. \A st : Comes(q, st) <=> (h.kind = "status" /\ h.value = st) \/ Comes(t, st)
  BY <1>3, <1>4, <1>5 DEF Comes
<1>7. Speaks(q) <=> h.kind = "message" \/ Speaks(t)
  BY <1>3, <1>4, <1>5 DEF Speaks
<1>8. \A m : SaysOnly(q, m) => (h.kind = "message" => h.value = m) /\ SaysOnly(t, m)
  BY <1>3, <1>5 DEF SaysOnly
<1>9. ASSUME Ordered(q)
      PROVE  /\ Ordered(t)
             /\ h.kind = "message" => ~Speaks(t) /\ \A st : ~Comes(t, st)
  <2>1. Ordered(t)
    BY <1>3, <1>5, <1>9 DEF Ordered
  <2>2. h.kind = "message" => \A i \in 1 .. Len(t) : t[i].kind = "background_tasks_count"
    BY <1>3, <1>5, <1>9 DEF Ordered
  <2> QED  BY <2>1, <2>2 DEF Speaks, Comes
<1>10. ASSUME Leads(q)
       PROVE  Leads(t) /\ \A st : ~Comes(t, st)
  <2>1. \A i \in 1 .. Len(t) : t[i].kind # "status"
    BY <1>3, <1>5, <1>10 DEF Leads
  <2> QED  BY <2>1 DEF Leads, Comes
<1> QED  BY <1>2, <1>6, <1>7, <1>8, <1>9, <1>10 DEF h, t

-----------------------------------------------------------------------------
(* What the store makes of the events of the pane.                         *)
Typed(s) == s.statuses \in [Panes -> Entries \cup {None}]

At(s) == s.statuses[Pane]

LEMMA StatusDoes ==
    ASSUME NEW s, Typed(s), NEW st \in Statuses
    PROVE  LET u == At(UpdateStatus(s, Pane, st))
               e == At(s)
           IN /\ Typed(UpdateStatus(s, Pane, st))
              /\ e # None /\ IdleIsDropped(e, st) => UpdateStatus(s, Pane, st) = s
              /\ ~(e # None /\ IdleIsDropped(e, st)) =>
                   /\ u # None /\ u.status = st /\ u.age = 0
                   /\ e = None => u.message = None /\ ~u.awaiting_output
                   /\ e # None /\ e.status # "working" /\ st = "working" => u.message = None
                   /\ e # None /\ e.status = "working" /\ st = "working" => u.message = e.message
                   /\ e # None /\ e.status = "working" /\ st # "working" /\ e.message = None =>
                        u.awaiting_output
                   /\ e # None /\ e.status # "working" /\ st # "working" =>
                        /\ u.awaiting_output = e.awaiting_output
                        /\ u.last_working_message = e.last_working_message
<1> DEFINE e       == At(s)
           entry   == EntryMut(s, Pane, st)
           left    == LeaveWorking(entry, st)
           entered == EnterWorking(left, st)
           new     == [entered EXCEPT !.status = st, !.age = 0]
           changed == \/ IsNew(s, Pane)
                      \/ left.last_working_message # entry.last_working_message
                      \/ entered.message # left.message
                      \/ entry.status # st
           t       == UpdateStatus(s, Pane, st)
<1>0. /\ Pane \in Panes /\ 0 \in 0 .. StickySeconds
      /\ None \notin Entries /\ e \in Entries \cup {None}
  BY HooksAssumption, AgentAssumption DEF Typed, At
<1>1. entry \in Entries /\ (e # None => entry = e)
      /\ (e = None => entry.status = st /\ entry.message = None /\ ~entry.awaiting_output)
  BY <1>0 DEF EntryMut, IsNew, Entries, At, Statuses
<1>2. /\ left \in Entries /\ left.status = entry.status /\ left.message = entry.message
      /\ entry.status = "working" /\ st # "working" /\ entry.message = None => left.awaiting_output
      /\ ~(entry.status = "working" /\ st # "working") => left = entry
  BY <1>1 DEF LeaveWorking, Entries
<1>3. /\ entered \in Entries
      /\ entry.status # "working" /\ st = "working" => entered.message = None
      /\ ~(entry.status # "working" /\ st = "working") => entered = left
  BY <1>2 DEF EnterWorking, Entries
<1>4. /\ new \in Entries /\ new.status = st /\ new.age = 0
      /\ new.message = entered.message
      /\ new.awaiting_output = entered.awaiting_output
      /\ new.last_working_message = entered.last_working_message
  BY <1>0, <1>3 DEF Entries
<1>5. t = IF IdleIsDropped(entry, st) THEN s ELSE Write(s, Pane, new, changed)
  BY DEF UpdateStatus
<1>6. e = None => ~IdleIsDropped(entry, st)
  BY <1>1 DEF IdleIsDropped
<1> HIDE DEF new, changed, entered, left, entry
<1>7. At(Write(s, Pane, new, changed)) = new /\ Typed(Write(s, Pane, new, changed))
  BY <1>0, <1>4 DEF Write, Typed, At
<1> HIDE DEF e, t
<1>8. Typed(t)
  BY <1>5, <1>7
<1>9. e # None /\ IdleIsDropped(e, st) => t = s
  BY <1>1, <1>5
<1>10. ASSUME ~(e # None /\ IdleIsDropped(e, st))
       PROVE  At(t) = new
  BY <1>1, <1>5, <1>6, <1>7, <1>10
<1>11. /\ new # None /\ new.status = st /\ new.age = 0
       /\ e = None => new.message = None /\ ~new.awaiting_output
       /\ e # None /\ e.status # "working" /\ st = "working" => new.message = None
       /\ e # None /\ e.status = "working" /\ st = "working" => new.message = e.message
       /\ e # None /\ e.status = "working" /\ st # "working" /\ e.message = None => new.awaiting_output
       /\ e # None /\ e.status # "working" /\ st # "working" =>
            /\ new.awaiting_output = e.awaiting_output
            /\ new.last_working_message = e.last_working_message
  BY <1>0, <1>1, <1>2, <1>3, <1>4
<1> QED  BY <1>8, <1>9, <1>10, <1>11 DEF e, t

LEMMA MessageDoes ==
    ASSUME NEW s, Typed(s), NEW m \in Messages
    PROVE  LET u == At(UpdateMessage(s, Pane, m))
               e == At(s)
           IN /\ Typed(UpdateMessage(s, Pane, m))
              /\ u # None /\ u.age = 0
              /\ e = None => u.status = "working"
              /\ e # None => /\ u.status = e.status
                             /\ ~u.awaiting_output
                             /\ u.last_working_message
                                  = IF e.awaiting_output THEN m ELSE e.last_working_message
<1> DEFINE e        == At(s)
           entry    == EntryMut(s, Pane, "working")
           captured == IF entry.awaiting_output
                       THEN [entry EXCEPT !.awaiting_output = FALSE, !.last_working_message = m]
                       ELSE entry
           new      == [captured EXCEPT !.message = m, !.age = 0]
           changed  == \/ IsNew(s, Pane)
                       \/ entry.message # m
                       \/ captured.last_working_message # entry.last_working_message
<1>0. /\ Pane \in Panes /\ 0 \in 0 .. StickySeconds
      /\ None \notin Entries /\ e \in Entries \cup {None}
  BY HooksAssumption, AgentAssumption DEF Typed, At
<1>1. entry \in Entries /\ (e # None => entry = e) /\ (e = None => entry.status = "working")
  BY <1>0 DEF EntryMut, IsNew, Entries, At, Statuses
<1>2. /\ captured \in Entries /\ captured.status = entry.status /\ ~captured.awaiting_output
      /\ captured.last_working_message = IF entry.awaiting_output THEN m ELSE entry.last_working_message
  BY <1>1 DEF Entries
<1>3. /\ new \in Entries /\ new.status = captured.status /\ new.age = 0
      /\ new.awaiting_output = captured.awaiting_output
      /\ new.last_working_message = captured.last_working_message
  BY <1>0, <1>2 DEF Entries
<1>4. UpdateMessage(s, Pane, m) = Write(s, Pane, new, changed)
  BY DEF UpdateMessage
<1> HIDE DEF new, changed, captured, entry
<1>5. At(Write(s, Pane, new, changed)) = new /\ Typed(Write(s, Pane, new, changed))
  BY <1>0, <1>3 DEF Write, Typed, At
<1> QED  BY <1>0, <1>1, <1>2, <1>3, <1>4, <1>5

LEMMA CountDoes ==
    ASSUME NEW s, Typed(s), NEW v \in Values
    PROVE  LET u == At(UpdateField(s, Pane, "background_tasks_count", v))
               e == At(s)
           IN /\ Typed(UpdateField(s, Pane, "background_tasks_count", v))
              /\ u # None /\ u.age = 0
              /\ e = None => u.status = "idle"
              /\ e # None => /\ u.status = e.status /\ u.message = e.message
                             /\ u.awaiting_output = e.awaiting_output
                             /\ u.last_working_message = e.last_working_message
<1> DEFINE e       == At(s)
           f       == "background_tasks_count"
           entry   == EntryMut(s, Pane, "idle")
           new     == [entry EXCEPT !.fields = [@ EXCEPT ![f] = v], !.age = 0]
           changed == IsNew(s, Pane) \/ entry.fields[f] # v
<1>0. /\ Pane \in Panes /\ 0 \in 0 .. StickySeconds
      /\ None \notin Entries /\ e \in Entries \cup {None}
  BY HooksAssumption, AgentAssumption DEF Typed, At
<1>1. entry \in Entries /\ (e # None => entry = e) /\ (e = None => entry.status = "idle")
  BY <1>0 DEF EntryMut, IsNew, Entries, At, Statuses
<1> HIDE DEF entry
<1>2a. [entry.fields EXCEPT ![f] = v] \in [Fields -> Values \cup {None}]
  BY <1>1 DEF Entries
<1>2. /\ new \in Entries /\ new.status = entry.status /\ new.age = 0
      /\ new.message = entry.message
      /\ new.awaiting_output = entry.awaiting_output
      /\ new.last_working_message = entry.last_working_message
  BY <1>0, <1>1, <1>2a DEF Entries
<1>3. UpdateField(s, Pane, f, v) = Write(s, Pane, new, changed)
  BY DEF UpdateField, DefaultStatus, entry
<1> HIDE DEF new, changed
<1>4. At(Write(s, Pane, new, changed)) = new /\ Typed(Write(s, Pane, new, changed))
  BY <1>0, <1>2 DEF Write, Typed, At
<1> QED  BY <1>0, <1>1, <1>2, <1>3, <1>4

-----------------------------------------------------------------------------
(* The scripts.                                                            *)
LEMMA NothingLeft ==
    ASSUME NEW q, Len(q) = 0
    PROVE  /\ \A st : ~Comes(q, st)
           /\ ~Speaks(q) /\ Ordered(q) /\ Leads(q)
           /\ \A m : SaysOnly(q, m)
BY DEF Comes, Speaks, Ordered, Leads, SaysOnly

LEMMA StatusScript ==
    ASSUME NEW st \in Statuses
    PROVE  LET q == <<StatusEvent(st)>>
           IN /\ q \in Seq(Events)
              /\ \A su : Comes(q, su) <=> su = st
              /\ ~Speaks(q) /\ Ordered(q) /\ Leads(q)
              /\ \A m : SaysOnly(q, m)
<1> DEFINE q == <<StatusEvent(st)>>
<1>1. q \in Seq(Events) /\ Len(q) = 1 /\ q[1].kind = "status" /\ q[1].value = st
  BY DEF StatusEvent, Events
<1> HIDE DEF q
<1>2. 1 \in 1 .. Len(q) /\ \A i \in 1 .. Len(q) : i = 1
  BY <1>1
<1>3. \A su : Comes(q, su) <=> su = st
  BY <1>1, <1>2 DEF Comes
<1>4. ~Speaks(q) /\ Ordered(q) /\ Leads(q) /\ \A m : SaysOnly(q, m)
  BY <1>1, <1>2 DEF Speaks, Ordered, Leads, SaysOnly
<1> QED  BY <1>1, <1>3, <1>4 DEF q

LEMMA NoticeScripts ==
    ASSUME NEW type \in NoticeTypes
    PROVE  LET q == NotificationScript(type)
           IN /\ q \in Seq(Events)
              /\ \A st : Comes(q, st) <=> \/ type = "permission_prompt" /\ st = "needs_input"
                                          \/ type = "idle_prompt" /\ st = "idle"
              /\ SaysOnly(q, Label) /\ Leads(q)
<1> DEFINE q == NotificationScript(type)
<1>0. StatusEvent("needs_input") \in Events /\ StatusEvent("idle") \in Events
      /\ MessageEvent(Label) \in Events
  BY HooksAssumption DEF StatusEvent, MessageEvent, Events, Statuses
<1>1. CASE type = "permission_prompt"
  <2>1. q = <<StatusEvent("needs_input")>> \o <<MessageEvent(Label)>>
    BY <1>1 DEF NotificationScript
  <2> HIDE DEF q
  <2>2. /\ q \in Seq(Events) /\ Len(q) = 2
        /\ q[1] = StatusEvent("needs_input") /\ q[2] = MessageEvent(Label)
    BY <1>0, <2>1
  <2>3. /\ q[1].kind = "status" /\ q[1].value = "needs_input"
        /\ q[2].kind = "message" /\ q[2].value = Label
    BY <2>2 DEF StatusEvent, MessageEvent
  <2>4. 1 \in 1 .. Len(q) /\ \A i \in 1 .. Len(q) : i = 1 \/ i = 2
    BY <2>2
  <2>5. \A st : Comes(q, st) <=> st = "needs_input"
    BY <2>3, <2>4 DEF Comes
  <2>6. SaysOnly(q, Label) /\ Leads(q)
    BY <2>3, <2>4 DEF SaysOnly, Leads
  <2> QED  BY <1>1, <2>2, <2>5, <2>6 DEF q
<1>2. CASE type = "other"
  <2>1. q = <<>> \o <<MessageEvent(Label)>>
    BY <1>2 DEF NotificationScript
  <2> HIDE DEF q
  <2>2. q \in Seq(Events) /\ Len(q) = 1 /\ q[1] = MessageEvent(Label)
    BY <1>0, <2>1
  <2>3. q[1].kind = "message" /\ q[1].value = Label
    BY <2>2 DEF MessageEvent
  <2>4. \A i \in 1 .. Len(q) : i = 1
    BY <2>2
  <2>5. \A st : ~Comes(q, st)
    BY <2>3, <2>4 DEF Comes
  <2>6. SaysOnly(q, Label) /\ Leads(q)
    BY <2>3, <2>4 DEF SaysOnly, Leads
  <2> QED  BY <1>2, <2>2, <2>5, <2>6 DEF q
<1>3. CASE type = "idle_prompt"
  <2>1. q = <<>> \o <<StatusEvent("idle")>>
    BY <1>3 DEF NotificationScript
  <2> HIDE DEF q
  <2>2. q \in Seq(Events) /\ Len(q) = 1 /\ q[1] = StatusEvent("idle")
    BY <1>0, <2>1
  <2>3. q[1].kind = "status" /\ q[1].value = "idle"
    BY <2>2 DEF StatusEvent
  <2>4. 1 \in 1 .. Len(q) /\ \A i \in 1 .. Len(q) : i = 1
    BY <2>2
  <2>5. \A st : Comes(q, st) <=> st = "idle"
    BY <2>3, <2>4 DEF Comes
  <2>6. SaysOnly(q, Label) /\ Leads(q)
    BY <2>3, <2>4 DEF SaysOnly, Leads
  <2> QED  BY <1>3, <2>2, <2>5, <2>6 DEF q
<1> QED  BY <1>1, <1>2, <1>3 DEF NoticeTypes

LEMMA StopScripts ==
    ASSUME NEW m \in Messages, NEW counts \in {{}} \cup {{v} : v \in Values}
    PROVE  LET q == StopScript(m, counts)
           IN /\ q \in Seq(Events)
              /\ \A st : Comes(q, st) <=> st = "idle"
              /\ Speaks(q) /\ Ordered(q) /\ Leads(q) /\ SaysOnly(q, m)
<1> DEFINE q == StopScript(m, counts)
           c == CHOOSE c \in counts : TRUE
<1>0. /\ StatusEvent("idle") \in Events /\ MessageEvent(m) \in Events
      /\ counts = {} \/ CountEvent(c) \in Events
  BY DEF StatusEvent, MessageEvent, CountEvent, Events, Statuses
<1>1. \/ q = <<StatusEvent("idle"), MessageEvent(m)>> \o <<>>
      \/ q = <<StatusEvent("idle"), MessageEvent(m)>> \o <<CountEvent(c)>> /\ CountEvent(c) \in Events
  BY <1>0 DEF StopScript, StopFailureScript
<1> HIDE DEF q, c
<1>2. /\ q \in Seq(Events) /\ Len(q) \in {2, 3}
      /\ q[1] = StatusEvent("idle") /\ q[2] = MessageEvent(m)
      /\ Len(q) = 3 => q[3] = CountEvent(c)
  <2>1. CASE q = <<StatusEvent("idle"), MessageEvent(m)>> \o <<>>
    BY <1>0, <2>1
  <2>2. CASE q = <<StatusEvent("idle"), MessageEvent(m)>> \o <<CountEvent(c)>> /\ CountEvent(c) \in Events
    BY <1>0, <2>2
  <2> QED  BY <1>1, <2>1, <2>2
<1>3. /\ q[1].kind = "status" /\ q[1].value = "idle"
      /\ q[2].kind = "message" /\ q[2].value = m
      /\ Len(q) = 3 => q[3].kind = "background_tasks_count"
  BY <1>2 DEF StatusEvent, MessageEvent, CountEvent
<1>4. /\ 1 \in 1 .. Len(q) /\ 2 \in 1 .. Len(q)
      /\ \A i \in 1 .. Len(q) : i = 1 \/ i = 2 \/ (i = 3 /\ Len(q) = 3)
  <2>1. CASE Len(q) = 2
    BY <2>1
  <2>2. CASE Len(q) = 3
    BY <2>2
  <2> QED  BY <1>2, <2>1, <2>2
<1>5. \A st : Comes(q, st) <=> st = "idle"
  BY <1>3, <1>4 DEF Comes
<1>6. Speaks(q) /\ SaysOnly(q, m)
  BY <1>3, <1>4 DEF Speaks, SaysOnly
<1>7. Ordered(q) /\ Leads(q)
  BY <1>3, <1>4 DEF Ordered, Leads
<1> QED  BY <1>2, <1>5, <1>6, <1>7 DEF q

-----------------------------------------------------------------------------
(* The invariant.                                                          *)
TypeInv ==
    /\ Typed(store)
    /\ hooks \in [Slots -> Seq(Events)]
    /\ session \in [phase : {"prompt", "running"}, number : 0 .. MaxTurns,
                    pending : {"none", "question", "permission"}, notices : Nat]
    /\ session.phase = "running" => session.number \in 1 .. MaxTurns
    /\ seen \in [output : (Messages \ {Label}) \cup {None}, labelled : BOOLEAN,
                 quiet : 0 .. StickySeconds, lapsed : BOOLEAN]

(* What the hook processes have still to write, and who else can still     *)
(* write an idle while a dialog is open: for a permission only the Stop    *)
(* hook of its turn, for a question only an idle notification that is late.*)
QueueInv ==
    /\ Leads(hooks["turn"]) /\ Leads(hooks["notice"])
    /\ ~Comes(hooks["notice"], "working") /\ SaysOnly(hooks["notice"], Label)
    /\ Ordered(hooks["turn"]) /\ SaysOnly(hooks["turn"], seen.output)
    /\ Comes(hooks["turn"], "working") => session.phase = "running" /\ session.pending = "none"
    /\ Comes(hooks["turn"], "idle") => session.phase = "prompt"
    /\ Comes(hooks["notice"], "idle") => session.pending # "permission"
    /\ session.pending = "question" => session.phase = "running"
    /\ Speaks(hooks["turn"]) => session.phase = "prompt" /\ seen.output # None

IdleToCome ==
    \/ Comes(hooks["turn"], "idle") \/ Comes(hooks["notice"], "idle")
    \/ session.phase = "running" /\ session.pending = "permission"

(* An open dialog is about to be reported, or it is reported and any idle  *)
(* still to come finds an entry no older than the last event.              *)
DialogInv ==
    session.pending # "none" /\ ~seen.lapsed =>
        \/ Comes(hooks["turn"], "needs_input") \/ Comes(hooks["notice"], "needs_input")
        \/ /\ At(store) # None /\ At(store).status = "needs_input"
           /\ IdleToCome => At(store).age <= seen.quiet

(* The output still to come will be taken for the turn's.                  *)
OutputIsAwaited ==
    At(store) # None /\ (At(store).status # "working" => At(store).awaiting_output)

OutputIsKept ==
    /\ At(store) # None /\ At(store).status # "working"
    /\ ~At(store).awaiting_output
    /\ At(store).last_working_message = seen.output

OutputInv ==
    /\ At(store) # None /\ At(store).status = "working" /\ ~seen.labelled => At(store).message = None
    /\ Speaks(hooks["turn"]) /\ ~Comes(hooks["turn"], "idle") =>
         At(store) # None /\ At(store).status # "working"
    /\ session.phase = "running" /\ ~Comes(hooks["turn"], "working") /\ ~seen.labelled => OutputIsAwaited
    /\ session.phase = "prompt" /\ seen.output # None /\ ~seen.labelled =>
         IF Speaks(hooks["turn"]) THEN OutputIsAwaited ELSE OutputIsKept

HooksInv == TypeInv /\ QueueInv /\ DialogInv /\ OutputInv

LEMMA HooksInit == Init => HooksInv
<1> SUFFICES ASSUME Init PROVE HooksInv
  OBVIOUS
<1>1. /\ Pane \in Panes /\ 0 \in 0 .. StickySeconds /\ 0 \in 0 .. MaxTurns
      /\ None \notin Messages
  BY HooksAssumption, AgentAssumption
<1>2. Typed(store) /\ At(store) = None
  BY <1>1 DEF Init, EmptyStore, Typed, At
<1>3. /\ hooks \in [Slots -> Seq(Events)]
      /\ Len(hooks["turn"]) = 0 /\ Len(hooks["notice"]) = 0
  BY DEF Init, Slots
<1>4. /\ \A st : ~Comes(hooks["turn"], st) /\ ~Comes(hooks["notice"], st)
      /\ ~Speaks(hooks["turn"]) /\ Ordered(hooks["turn"])
      /\ Leads(hooks["turn"]) /\ Leads(hooks["notice"])
      /\ SaysOnly(hooks["turn"], seen.output) /\ SaysOnly(hooks["notice"], Label)
  BY <1>3, NothingLeft
<1>5. TypeInv
  BY <1>1, <1>2, <1>3 DEF TypeInv, Init
<1>6. QueueInv
  BY <1>4 DEF QueueInv, Init
<1>7. DialogInv /\ OutputInv
  BY <1>2, <1>4 DEF DialogInv, OutputInv, Init
<1> QED  BY <1>5, <1>6, <1>7 DEF HooksInv

-----------------------------------------------------------------------------
(* The steps of the session: the store and the labels stay as they are.    *)
LEMMA SubmitPromptStep ==
    ASSUME HooksInv, SubmitPrompt  PROVE HooksInv'
<1> DEFINE q == PromptSubmitScript
<1>1. /\ hooks \in [Slots -> Seq(Events)] /\ "turn" \in Slots /\ "notice" \in Slots
      /\ MaxTurns \in Nat /\ "working" \in Statuses
  BY HooksAssumption DEF HooksInv, TypeInv, Slots, Statuses
<1>2. /\ q \in Seq(Events) /\ \A st : Comes(q, st) <=> st = "working"
      /\ ~Speaks(q) /\ Ordered(q) /\ Leads(q) /\ \A m : SaysOnly(q, m)
  BY <1>1, StatusScript DEF PromptSubmitScript
<1> HIDE DEF q
<1>3. /\ hooks' \in [Slots -> Seq(Events)]
      /\ hooks'["turn"] = q /\ hooks'["notice"] = hooks["notice"]
  BY <1>1, <1>2 DEF SubmitPrompt, q
<1>4. /\ session'.phase = "running" /\ session'.pending = "none"
      /\ session'.number \in 1 .. MaxTurns
      /\ session' \in [phase : {"prompt", "running"}, number : 0 .. MaxTurns,
                       pending : {"none", "question", "permission"}, notices : Nat]
  BY <1>1 DEF SubmitPrompt, HooksInv, TypeInv
<1>5. store' = store /\ seen' = seen
  BY DEF SubmitPrompt
<1>6. TypeInv'
  BY <1>3, <1>4, <1>5 DEF HooksInv, TypeInv
<1>7. QueueInv'
  BY <1>2, <1>3, <1>4, <1>5 DEF HooksInv, QueueInv
<1>8. DialogInv' /\ OutputInv'
  BY <1>2, <1>3, <1>4, <1>5 DEF HooksInv, DialogInv, IdleToCome, OutputInv
<1> QED  BY <1>6, <1>7, <1>8 DEF HooksInv

LEMMA FinishToolBatchStep ==
    ASSUME HooksInv, FinishToolBatch  PROVE HooksInv'
<1> DEFINE q == ToolBatchScript
<1>1. /\ hooks \in [Slots -> Seq(Events)] /\ "turn" \in Slots /\ "notice" \in Slots
      /\ "working" \in Statuses
  BY DEF HooksInv, TypeInv, Slots, Statuses
<1>2. /\ q \in Seq(Events) /\ \A st : Comes(q, st) <=> st = "working"
      /\ ~Speaks(q) /\ Ordered(q) /\ Leads(q) /\ \A m : SaysOnly(q, m)
  BY <1>1, StatusScript DEF ToolBatchScript
<1> HIDE DEF q
<1>3. /\ hooks' \in [Slots -> Seq(Events)]
      /\ hooks'["turn"] = q /\ hooks'["notice"] = hooks["notice"]
  BY <1>1, <1>2 DEF FinishToolBatch, q
<1>4. /\ session'.phase = "running" /\ session'.pending = "none"
      /\ session'.number \in 1 .. MaxTurns
      /\ session' \in [phase : {"prompt", "running"}, number : 0 .. MaxTurns,
                       pending : {"none", "question", "permission"}, notices : Nat]
  BY DEF FinishToolBatch, HooksInv, TypeInv
<1>5. store' = store /\ seen' = seen
  BY DEF FinishToolBatch
<1>6. TypeInv'
  BY <1>3, <1>4, <1>5 DEF HooksInv, TypeInv
<1>7. QueueInv'
  BY <1>2, <1>3, <1>4, <1>5 DEF HooksInv, QueueInv
<1>8. DialogInv' /\ OutputInv'
  BY <1>2, <1>3, <1>4, <1>5 DEF HooksInv, DialogInv, IdleToCome, OutputInv
<1> QED  BY <1>6, <1>7, <1>8 DEF HooksInv

LEMMA AskQuestionStep ==
    ASSUME HooksInv, AskQuestion  PROVE HooksInv'
<1> DEFINE q == NeedsInputScript
<1>1. /\ hooks \in [Slots -> Seq(Events)] /\ "turn" \in Slots /\ "notice" \in Slots
      /\ "needs_input" \in Statuses /\ 0 \in 0 .. StickySeconds
  BY AgentAssumption DEF HooksInv, TypeInv, Slots, Statuses
<1>2. /\ q \in Seq(Events) /\ \A st : Comes(q, st) <=> st = "needs_input"
      /\ ~Speaks(q) /\ Ordered(q) /\ Leads(q) /\ \A m : SaysOnly(q, m)
  BY <1>1, StatusScript DEF NeedsInputScript
<1> HIDE DEF q
<1>3. /\ hooks' \in [Slots -> Seq(Events)]
      /\ hooks'["turn"] = q /\ hooks'["notice"] = hooks["notice"]
  BY <1>1, <1>2 DEF AskQuestion, q
<1>4. /\ session'.phase = session.phase /\ session'.number = session.number
      /\ session.phase = "running" /\ session'.pending = "question"
      /\ session' \in [phase : {"prompt", "running"}, number : 0 .. MaxTurns,
                       pending : {"none", "question", "permission"}, notices : Nat]
  BY DEF AskQuestion, HooksInv, TypeInv
<1>5. /\ store' = store /\ seen'.output = seen.output /\ seen'.labelled = seen.labelled
      /\ seen' \in [output : (Messages \ {Label}) \cup {None}, labelled : BOOLEAN,
                    quiet : 0 .. StickySeconds, lapsed : BOOLEAN]
  BY <1>1 DEF AskQuestion, HooksInv, TypeInv
<1>6. \A st : ~Comes(hooks["turn"], st)
  BY NothingLeft DEF AskQuestion, Free
<1>7. TypeInv'
  BY <1>3, <1>4, <1>5 DEF HooksInv, TypeInv
<1>8. QueueInv'
  BY <1>2, <1>3, <1>4, <1>5 DEF HooksInv, QueueInv
<1>9. DialogInv'
  BY <1>2, <1>3 DEF DialogInv
<1>10. OutputInv'
  BY <1>2, <1>3, <1>4, <1>5, <1>6 DEF HooksInv, OutputInv, OutputIsAwaited
<1> QED  BY <1>7, <1>8, <1>9, <1>10 DEF HooksInv

(* The three notifications.                                                *)
LEMMA NoticeStep ==
    ASSUME HooksInv, AskPermission \/ NotifyOther \/ NotifyIdlePrompt  PROVE HooksInv'
<1>1. /\ hooks \in [Slots -> Seq(Events)] /\ "turn" \in Slots /\ "notice" \in Slots
      /\ 0 \in 0 .. StickySeconds
  BY AgentAssumption DEF HooksInv, TypeInv, Slots
<1>2. PICK type \in NoticeTypes :
        /\ hooks' = [hooks EXCEPT !["notice"] = NotificationScript(type)]
        /\ \/ AskPermission /\ type = "permission_prompt"
           \/ NotifyOther /\ type = "other"
           \/ NotifyIdlePrompt /\ type = "idle_prompt"
  BY DEF AskPermission, NotifyOther, NotifyIdlePrompt, NoticeTypes
<1> DEFINE q == NotificationScript(type)
<1>3. /\ q \in Seq(Events) /\ SaysOnly(q, Label) /\ Leads(q)
      /\ \A st : Comes(q, st) <=> \/ type = "permission_prompt" /\ st = "needs_input"
                                  \/ type = "idle_prompt" /\ st = "idle"
  BY NoticeScripts
<1> HIDE DEF q
<1>4. /\ hooks' \in [Slots -> Seq(Events)]
      /\ hooks'["turn"] = hooks["turn"] /\ hooks'["notice"] = q
  BY <1>1, <1>2, <1>3 DEF q
<1>5. Len(hooks["notice"]) = 0
  BY <1>1, <1>2 DEF AskPermission, NotifyOther, NotifyIdlePrompt, Quiescent
<1>6. \A st : ~Comes(hooks["notice"], st)
  BY <1>5, NothingLeft
<1>7. /\ session'.phase = session.phase /\ session'.number = session.number
      /\ session' \in [phase : {"prompt", "running"}, number : 0 .. MaxTurns,
                       pending : {"none", "question", "permission"}, notices : Nat]
      /\ type = "permission_prompt" => session'.pending = "permission"
      /\ type # "permission_prompt" => session'.pending = session.pending
      /\ type = "idle_prompt" => session.pending = "none"
      /\ type = "permission_prompt" => session.pending = "none"
  <2>1. CASE AskPermission /\ type = "permission_prompt"
    <3>1. session' = [session EXCEPT !.pending = "permission", !.notices = @ + 1]
      BY <2>1, Zenon DEF AskPermission
    <3>2. session \in [phase : {"prompt", "running"}, number : 0 .. MaxTurns,
                       pending : {"none", "question", "permission"}, notices : Nat]
      BY DEF HooksInv, TypeInv
    <3>3. session.notices + 1 \in Nat
      BY <3>2
    <3>4. type = "permission_prompt"
      BY <2>1
    <3>5. session.pending = "none"
      BY <2>1 DEF AskPermission
    <3> QED  BY <3>1, <3>2, <3>3, <3>4, <3>5
  <2>2. CASE NotifyOther /\ type = "other"
    BY <2>2 DEF NotifyOther, HooksInv, TypeInv
  <2>3. CASE NotifyIdlePrompt /\ type = "idle_prompt"
    BY <2>3 DEF NotifyIdlePrompt, HooksInv, TypeInv
  <2> QED  BY <1>2, <2>1, <2>2, <2>3
<1>8. /\ store' = store /\ seen' = seen
      /\ seen' \in [output : (Messages \ {Label}) \cup {None}, labelled : BOOLEAN,
                    quiet : 0 .. StickySeconds, lapsed : BOOLEAN]
  BY <1>1, <1>2 DEF AskPermission, NotifyOther, NotifyIdlePrompt, HooksInv, TypeInv
<1>9. type = "permission_prompt" => ~Comes(hooks["turn"], "working")
  <2>1. CASE AskPermission /\ session.phase = "running"
    BY <2>1, NothingLeft DEF AskPermission, Free
  <2>2. CASE session.phase # "running"
    BY <2>2 DEF HooksInv, QueueInv
  <2> QED  BY <1>2, <2>1, <2>2 DEF NotifyOther, NotifyIdlePrompt
<1>10. TypeInv'
  BY <1>4, <1>7, <1>8 DEF HooksInv, TypeInv
<1>11. QueueInv'
  BY <1>3, <1>4, <1>7, <1>8, <1>9 DEF HooksInv, QueueInv
<1>12. DialogInv'
  BY <1>2, <1>3, <1>4, <1>6, <1>7, <1>8 DEF HooksInv, DialogInv, IdleToCome, NoticeTypes
<1>13. OutputInv'
  BY <1>4, <1>7, <1>8 DEF HooksInv, OutputInv, OutputIsAwaited, OutputIsKept
<1> QED  BY <1>10, <1>11, <1>12, <1>13 DEF HooksInv

LEMMA StopStep ==
    ASSUME HooksInv, Stop  PROVE HooksInv'
<1> DEFINE m == Outputs[session.number]
<1>1. /\ hooks \in [Slots -> Seq(Events)] /\ "turn" \in Slots /\ "notice" \in Slots
      /\ m \in Messages \ {Label} /\ m # None
  BY HooksAssumption, AgentAssumption DEF HooksInv, TypeInv, Slots, Stop
<1>2. PICK counts \in {{}} \cup {{v} : v \in Values} :
        hooks' = [hooks EXCEPT !["turn"] = StopScript(m, counts)]
  BY DEF Stop
<1> DEFINE q == StopScript(m, counts)
<1>3. /\ q \in Seq(Events) /\ \A st : Comes(q, st) <=> st = "idle"
      /\ Speaks(q) /\ Ordered(q) /\ Leads(q) /\ SaysOnly(q, m)
  BY <1>1, StopScripts
<1>4. /\ session'.phase = "prompt" /\ session.phase = "running"
      /\ session'.pending = session.pending
      /\ session.pending = "none" \/ session.pending = "permission"
      /\ session' \in [phase : {"prompt", "running"}, number : 0 .. MaxTurns,
                       pending : {"none", "question", "permission"}, notices : Nat]
  BY DEF Stop, HooksInv, TypeInv
<1>5. /\ store' = store /\ seen'.output = m /\ seen'.labelled = seen.labelled
      /\ seen'.quiet = seen.quiet /\ seen'.lapsed = seen.lapsed
      /\ seen' \in [output : (Messages \ {Label}) \cup {None}, labelled : BOOLEAN,
                    quiet : 0 .. StickySeconds, lapsed : BOOLEAN]
  BY <1>1 DEF Stop, HooksInv, TypeInv
<1>6. \A st : ~Comes(hooks["turn"], st)
  BY NothingLeft DEF Stop, Free
<1> HIDE DEF q, m
<1>7. /\ hooks' \in [Slots -> Seq(Events)]
      /\ hooks'["turn"] = q /\ hooks'["notice"] = hooks["notice"]
  BY <1>1, <1>2, <1>3 DEF q
<1>8. TypeInv'
  BY <1>4, <1>5, <1>7 DEF HooksInv, TypeInv
<1>9. QueueInv'
  BY <1>1, <1>3, <1>4, <1>5, <1>7 DEF HooksInv, QueueInv
<1>10. DialogInv'
  <2> SUFFICES ASSUME session'.pending # "none", ~seen.lapsed,
                      ~Comes(hooks["notice"], "needs_input")
               PROVE  /\ At(store) # None /\ At(store).status = "needs_input"
                      /\ At(store).age <= seen.quiet
    BY <1>5, <1>7 DEF DialogInv
  <2>1. session.phase = "running" /\ session.pending = "permission"
    BY <1>4
  <2> QED  BY <1>6, <2>1 DEF HooksInv, DialogInv, IdleToCome
<1>11. OutputInv'
  BY <1>3, <1>4, <1>5, <1>6, <1>7 DEF HooksInv, OutputInv, OutputIsAwaited
<1> QED  BY <1>8, <1>9, <1>10, <1>11 DEF HooksInv

LEMMA InterruptStep ==
    ASSUME HooksInv, Interrupt  PROVE HooksInv'
<1>1. /\ session'.phase = "prompt" /\ session'.pending = "none"
      /\ session' \in [phase : {"prompt", "running"}, number : 0 .. MaxTurns,
                       pending : {"none", "question", "permission"}, notices : Nat]
  BY DEF Interrupt, HooksInv, TypeInv
<1>2. /\ store' = store /\ hooks' = hooks
      /\ seen'.output = None /\ seen'.labelled = seen.labelled
      /\ seen' \in [output : (Messages \ {Label}) \cup {None}, labelled : BOOLEAN,
                    quiet : 0 .. StickySeconds, lapsed : BOOLEAN]
  BY DEF Interrupt, HooksInv, TypeInv
<1>3. /\ ~Speaks(hooks["turn"]) /\ ~Comes(hooks["turn"], "working")
      /\ SaysOnly(hooks["turn"], None)
  BY NothingLeft DEF Interrupt, Free
<1>4. TypeInv'
  BY <1>1, <1>2 DEF HooksInv, TypeInv
<1>5. QueueInv'
  BY <1>1, <1>2, <1>3 DEF HooksInv, QueueInv
<1>6. DialogInv' /\ OutputInv'
  BY <1>1, <1>2, <1>3 DEF HooksInv, DialogInv, IdleToCome, OutputInv
<1> QED  BY <1>4, <1>5, <1>6 DEF HooksInv

(* A second passes for the entry as for the quiet.                         *)
LEMMA TickStep ==
    ASSUME HooksInv, Tick  PROVE HooksInv'
<1> DEFINE e == At(store)
           u == At(store')
<1>1. /\ hooks' = hooks /\ session' = session
      /\ seen'.output = seen.output /\ seen'.labelled = seen.labelled
      /\ seen'.lapsed = seen.lapsed
      /\ seen'.quiet = IF seen.quiet < StickySeconds THEN seen.quiet + 1 ELSE seen.quiet
      /\ seen' \in [output : (Messages \ {Label}) \cup {None}, labelled : BOOLEAN,
                    quiet : 0 .. StickySeconds, lapsed : BOOLEAN]
  <2>1. StickySeconds \in Nat /\ seen.quiet \in 0 .. StickySeconds
    BY AgentAssumption DEF HooksInv, TypeInv
  <2>2. (IF seen.quiet < StickySeconds THEN seen.quiet + 1 ELSE seen.quiet) \in 0 .. StickySeconds
    BY <2>1
  <2> QED  BY <2>2 DEF Tick, HooksInv, TypeInv
<1>2. /\ Pane \in Panes /\ StickySeconds \in Nat /\ None \notin Entries
      /\ e \in Entries \cup {None}
  BY HooksAssumption, AgentAssumption DEF HooksInv, TypeInv, Typed, At
<1>3. u = IF e = None THEN None ELSE Older(e)
  BY <1>2 DEF Tick, Aged, At, IsNew
<1>4. Typed(store')
  <2>1. ASSUME NEW x \in Entries PROVE Older(x) \in Entries
    <3>1. (IF x.age < StickySeconds THEN x.age + 1 ELSE x.age) \in 0 .. StickySeconds
      BY <1>2, <2>1 DEF Entries
    <3> QED  BY <2>1, <3>1 DEF Older, Entries
  <2>2. /\ Typed(store)
        /\ store'.statuses = [p \in Panes |-> IF IsNew(store, p) THEN None
                                             ELSE Older(store.statuses[p])]
    BY DEF HooksInv, TypeInv, Tick, Aged
  <2>3. \A p \in Panes : (IF IsNew(store, p) THEN None ELSE Older(store.statuses[p]))
                             \in Entries \cup {None}
    BY <2>1, <2>2 DEF Typed, IsNew
  <2> QED  BY <2>2, <2>3 DEF Typed
<1>5. /\ u = None <=> e = None
      /\ e # None => /\ u.status = e.status /\ u.message = e.message
                     /\ u.awaiting_output = e.awaiting_output
                     /\ u.last_working_message = e.last_working_message
                     /\ u.age = IF e.age < StickySeconds THEN e.age + 1 ELSE e.age
  <2>1. e # None => Older(e) # None
    <3>1. e # None => (IF e.age < StickySeconds THEN e.age + 1 ELSE e.age) \in 0 .. StickySeconds
      BY <1>2 DEF Entries
    <3> QED  BY <1>2, <3>1 DEF Older, Entries
  <2> QED  BY <1>2, <1>3, <2>1 DEF Older, Entries
<1> HIDE DEF e, u
<1>7. TypeInv'
  BY <1>1, <1>4 DEF HooksInv, TypeInv
<1>8. QueueInv'
  BY <1>1 DEF HooksInv, QueueInv
<1>9. DialogInv'
  <2>1. e # None => e.age \in Nat /\ e.age <= StickySeconds
    BY <1>2 DEF Entries
  <2>2. seen.quiet \in Nat /\ seen.quiet <= StickySeconds
    BY <1>2 DEF HooksInv, TypeInv
  <2>3. e # None /\ e.age <= seen.quiet => u.age <= seen'.quiet
    BY <1>1, <1>2, <1>5, <2>1, <2>2
  <2> QED  BY <1>1, <1>5, <2>3 DEF HooksInv, DialogInv, IdleToCome, e, u
<1>10. OutputInv'
  BY <1>1, <1>5 DEF HooksInv, OutputInv, OutputIsAwaited, OutputIsKept, e, u
<1> QED  BY <1>7, <1>8, <1>9, <1>10 DEF HooksInv

-----------------------------------------------------------------------------
(* A hook writes an event: what is left to write, and the labels.          *)
LEMMA EmitQueues ==
    ASSUME HooksInv, NEW slot \in Slots, Emit(slot)
    PROVE  LET h == Head(hooks[slot])
           IN /\ h \in Events
              /\ hooks' \in [Slots -> Seq(Events)]
              /\ slot = "turn" \/ slot = "notice"
              /\ \A q \in Slots : \A st :
                   /\ Comes(hooks'[q], st) => Comes(hooks[q], st)
                   /\ Comes(hooks[q], st) /\ (q # slot \/ h.kind # "status" \/ h.value # st) =>
                        Comes(hooks'[q], st)
              /\ h.kind = "status" => Comes(hooks[slot], h.value)
              /\ \A st : ~Comes(hooks'[slot], st)
              /\ Speaks(hooks'["turn"]) => Speaks(hooks["turn"])
              /\ Speaks(hooks["turn"]) /\ (slot # "turn" \/ h.kind # "message") =>
                   Speaks(hooks'["turn"])
              /\ h.kind = "message" /\ slot = "turn" =>
                   /\ Speaks(hooks["turn"]) /\ ~Speaks(hooks'["turn"])
                   /\ \A st : ~Comes(hooks["turn"], st)
                   /\ h.value = seen.output /\ h.value # Label
              /\ h.kind = "message" /\ slot = "notice" => h.value = Label
              /\ QueueInv'
<1> DEFINE h == Head(hooks[slot])
           t == Tail(hooks[slot])
<1>1. /\ hooks \in [Slots -> Seq(Events)] /\ Len(hooks[slot]) > 0
      /\ "turn" \in Slots /\ "notice" \in Slots /\ (slot = "turn" \/ slot = "notice")
      /\ hooks' = [hooks EXCEPT ![slot] = t]
      /\ session' = session /\ seen'.output = seen.output
  BY DEF HooksInv, TypeInv, Slots, Emit
<1>2. /\ h \in Events /\ t \in Seq(Events)
      /\ \A st : Comes(hooks[slot], st) <=> (h.kind = "status" /\ h.value = st) \/ Comes(t, st)
      /\ Speaks(hooks[slot]) <=> h.kind = "message" \/ Speaks(t)
      /\ \A m : SaysOnly(hooks[slot], m) => /\ h.kind = "message" => h.value = m
                                            /\ SaysOnly(t, m)
      /\ Leads(hooks[slot]) => Leads(t) /\ \A st : ~Comes(t, st)
      /\ Ordered(hooks[slot]) => /\ Ordered(t)
                                 /\ h.kind = "message" => ~Speaks(t) /\ \A st : ~Comes(t, st)
  BY <1>1, HeadAndTail
<1> HIDE DEF h, t
<1>3. /\ hooks' \in [Slots -> Seq(Events)]
      /\ \A q \in Slots : hooks'[q] = IF q = slot THEN t ELSE hooks[q]
  BY <1>1, <1>2
<1>4. \A q \in Slots : \A st :
        /\ Comes(hooks'[q], st) => Comes(hooks[q], st)
        /\ Comes(hooks[q], st) /\ (q # slot \/ h.kind # "status" \/ h.value # st) =>
             Comes(hooks'[q], st)
  BY <1>2, <1>3
<1>5. /\ h.kind = "status" => Comes(hooks[slot], h.value)
      /\ \A st : ~Comes(hooks'[slot], st)
      /\ Leads(hooks'["turn"]) /\ Leads(hooks'["notice"])
  BY <1>1, <1>2, <1>3 DEF HooksInv, QueueInv
<1>6. /\ Speaks(hooks'["turn"]) => Speaks(hooks["turn"])
      /\ Speaks(hooks["turn"]) /\ (slot # "turn" \/ h.kind # "message") => Speaks(hooks'["turn"])
  BY <1>1, <1>2, <1>3
<1>7. ASSUME h.kind = "message", slot = "turn"
      PROVE  /\ Speaks(hooks["turn"]) /\ ~Speaks(hooks'["turn"])
             /\ \A st : ~Comes(hooks["turn"], st)
             /\ h.value = seen.output /\ h.value # Label
  <2>1. Ordered(hooks["turn"]) /\ SaysOnly(hooks["turn"], seen.output)
    BY DEF HooksInv, QueueInv
  <2>2. Speaks(hooks["turn"]) /\ ~Speaks(hooks'["turn"]) /\ h.value = seen.output
    BY <1>1, <1>2, <1>3, <1>7, <2>1
  <2>3. \A st : ~Comes(hooks["turn"], st)
    BY <1>2, <1>7, <2>1
  <2>4. seen.output # Label
    BY <2>2 DEF HooksInv, TypeInv, QueueInv
  <2> QED  BY <2>2, <2>3, <2>4
<1>8. h.kind = "message" /\ slot = "notice" => h.value = Label
  BY <1>2 DEF HooksInv, QueueInv
<1>9. QueueInv'
  <2>1. ~Comes(hooks'["notice"], "working")
    BY <1>1, <1>4 DEF HooksInv, QueueInv
  <2>2. SaysOnly(hooks'["notice"], Label)
    BY <1>1, <1>2, <1>3 DEF HooksInv, QueueInv
  <2>3. Ordered(hooks'["turn"]) /\ SaysOnly(hooks'["turn"], seen.output)
    BY <1>1, <1>2, <1>3 DEF HooksInv, QueueInv
  <2>4. Comes(hooks'["turn"], "working") => session.phase = "running" /\ session.pending = "none"
    BY <1>1, <1>4 DEF HooksInv, QueueInv
  <2>5. Speaks(hooks'["turn"]) => session.phase = "prompt" /\ seen.output # None
    BY <1>6 DEF HooksInv, QueueInv
  <2>6. /\ Comes(hooks'["turn"], "idle") => session.phase = "prompt"
        /\ Comes(hooks'["notice"], "idle") => session.pending # "permission"
        /\ session.pending = "question" => session.phase = "running"
    BY <1>1, <1>4 DEF HooksInv, QueueInv
  <2> QED  BY <1>1, <1>5, <2>1, <2>2, <2>3, <2>4, <2>5, <2>6 DEF QueueInv
<1> QED  BY <1>1, <1>2, <1>3, <1>4, <1>5, <1>6, <1>7, <1>8, <1>9 DEF h

LEMMA EmitLabels ==
    ASSUME HooksInv, NEW slot \in Slots, Emit(slot)
    PROVE  LET h == Head(hooks[slot])
               e == At(store)
           IN /\ session' = session /\ store' = Apply(store, h)
              /\ seen'.output = seen.output /\ seen'.quiet = 0
              /\ h.kind = "status" /\ h.value = "idle" /\ ~seen'.lapsed =>
                   ~seen.lapsed /\ seen.quiet # StickySeconds
              /\ ~(h.kind = "status" /\ h.value = "needs_input") /\ seen.lapsed => seen'.lapsed
              /\ seen' \in [output : (Messages \ {Label}) \cup {None}, labelled : BOOLEAN,
                            quiet : 0 .. StickySeconds, lapsed : BOOLEAN]
              /\ h.kind = "status" /\ h.value = "working" /\ (e = None \/ e.status # "working") =>
                   ~seen'.labelled
              /\ ~(h.kind = "status" /\ h.value = "working") /\ ~seen'.labelled =>
                   /\ ~seen.labelled
                   /\ h.kind = "message" /\ h.value = Label =>
                        /\ session.phase = "prompt"
                        /\ e # None /\ e.status # "working"
                        /\ ~Speaks(hooks["turn"])
              /\ e # None /\ e.status = "working" /\ ~seen'.labelled => ~seen.labelled
<1> DEFINE h == Head(hooks[slot])
           e == At(store)
           label == h.kind = "message" /\ h.value = Label
           owed  == \/ session.phase = "running"
                    \/ ~Known \/ Entry.status = "working"
                    \/ \E i \in DOMAIN hooks["turn"] : hooks["turn"][i].kind = "message"
           asks  == h = StatusEvent("needs_input")
           late  == h = StatusEvent("idle") /\ seen.quiet = StickySeconds
           anew  == h = StatusEvent("working") /\ Entry.status # "working"
<1>1. h \in Events
  BY EmitQueues
<1>2. /\ session' = session /\ store' = Apply(store, h)
      /\ seen' = [seen EXCEPT !.quiet = 0,
                    !.labelled = IF anew THEN FALSE ELSE @ \/ (label /\ owed),
                    !.lapsed = IF asks THEN FALSE ELSE @ \/ late]
  BY DEF Emit
<1>3. /\ Known <=> e # None
      /\ e # None => Entry = e
      /\ e = None => Entry.status = "idle"
  BY DEF Known, Entry, IsNew, EntryMut, At
<1>4. \A st \in Statuses : h = StatusEvent(st) <=> h.kind = "status" /\ h.value = st
  <2>1. CASE h.kind = "status"
    <3>1. h \in [kind : {"status"}, value : Statuses]
      BY <1>1, <2>1 DEF Events
    <3> QED  BY <3>1 DEF StatusEvent
  <2>2. CASE h.kind # "status"
    BY <2>2 DEF StatusEvent
  <2> QED  BY <2>1, <2>2
<1>5. Speaks(hooks["turn"]) => \E i \in DOMAIN hooks["turn"] : hooks["turn"][i].kind = "message"
  <2>1. hooks["turn"] \in Seq(Events)
    BY DEF HooksInv, TypeInv, Slots
  <2> QED  BY <2>1, LenProperties DEF Speaks
<1>6. session.phase \in {"prompt", "running"}
  BY DEF HooksInv, TypeInv
<1>7. ~owed => /\ session.phase = "prompt" /\ e # None /\ e.status # "working"
               /\ ~Speaks(hooks["turn"])
  BY <1>3, <1>5, <1>6
<1>s. "working" \in Statuses /\ "idle" \in Statuses /\ "needs_input" \in Statuses
  BY DEF Statuses
<1>8. /\ anew => h.kind = "status" /\ h.value = "working" /\ (e = None \/ e.status # "working")
      /\ h.kind = "status" /\ h.value = "working" /\ (e = None \/ e.status # "working") => anew
      /\ asks => h.kind = "status" /\ h.value = "needs_input"
      /\ h.kind = "status" /\ h.value = "idle" => ~asks
      /\ h.kind = "status" /\ h.value = "idle" /\ ~late => seen.quiet # StickySeconds
  BY <1>3, <1>4, <1>s
<1>9. seen \in [output : (Messages \ {Label}) \cup {None}, labelled : BOOLEAN,
                quiet : 0 .. StickySeconds, lapsed : BOOLEAN] /\ 0 \in 0 .. StickySeconds
  BY AgentAssumption DEF HooksInv, TypeInv
<1> DEFINE l == IF anew THEN FALSE ELSE seen.labelled \/ (label /\ owed)
           k == IF asks THEN FALSE ELSE seen.lapsed \/ late
<1>10. /\ seen' = [seen EXCEPT !.quiet = 0, !.labelled = l, !.lapsed = k]
       /\ l \in BOOLEAN /\ k \in BOOLEAN
  BY <1>2, <1>9
<1>11. /\ (anew => ~l) /\ (~anew /\ ~l => ~seen.labelled /\ ~(label /\ owed))
       /\ ~asks /\ ~k => ~seen.lapsed /\ ~late
       /\ ~asks /\ seen.lapsed => k
  OBVIOUS
<1> HIDE DEF anew, owed, asks, late, l, k
<1>12. /\ seen'.output = seen.output /\ seen'.quiet = 0
       /\ seen'.labelled = l /\ seen'.lapsed = k
       /\ seen' \in [output : (Messages \ {Label}) \cup {None}, labelled : BOOLEAN,
                     quiet : 0 .. StickySeconds, lapsed : BOOLEAN]
  BY <1>9, <1>10
<1> HIDE DEF h, e
<1> QED  BY <1>2, <1>7, <1>8, <1>11, <1>12 DEF h, e

(* A status reaches the store.                                             *)
LEMMA EmitStatus ==
    ASSUME HooksInv, NEW slot \in Slots, Emit(slot),
           Head(hooks[slot]).kind = "status"
    PROVE  HooksInv'
<1> DEFINE h  == Head(hooks[slot])
           st == h.value
           e  == At(store)
           u  == At(store')
           T  == hooks["turn"]
           N  == hooks["notice"]
<1>1. /\ st \in Statuses /\ h.kind = "status"
      /\ slot = "turn" \/ slot = "notice"
      /\ hooks' \in [Slots -> Seq(Events)] /\ QueueInv'
      /\ \A su : /\ Comes(T', su) => Comes(T, su)
                 /\ Comes(N', su) => Comes(N, su)
                 /\ su # st => (Comes(T, su) => Comes(T', su)) /\ (Comes(N, su) => Comes(N', su))
      /\ slot = "turn" => Comes(T, st) /\ ~Comes(T', "idle")
      /\ slot = "notice" => Comes(N, st) /\ ~Comes(N', "idle")
      /\ Speaks(T') <=> Speaks(T)
  <2>1. h \in Events
    BY EmitQueues
  <2>2. st \in Statuses
    BY <2>1 DEF Events
  <2> HIDE DEF st
  <2> QED  BY <2>2, EmitQueues DEF Slots, st
<1>2. /\ session' = session /\ store' = UpdateStatus(store, Pane, st)
      /\ seen'.output = seen.output /\ seen'.quiet = 0
      /\ st = "idle" /\ ~seen'.lapsed => ~seen.lapsed /\ seen.quiet # StickySeconds
      /\ st # "needs_input" /\ ~seen'.lapsed => ~seen.lapsed
      /\ seen' \in [output : (Messages \ {Label}) \cup {None}, labelled : BOOLEAN,
                    quiet : 0 .. StickySeconds, lapsed : BOOLEAN]
      /\ st = "working" /\ (e = None \/ e.status # "working") => ~seen'.labelled
      /\ st # "working" /\ ~seen'.labelled => ~seen.labelled
      /\ e # None /\ e.status = "working" /\ ~seen'.labelled => ~seen.labelled
  BY <1>1, EmitLabels DEF Apply
<1>3. /\ Typed(store) /\ Typed(store')
      /\ e # None /\ IdleIsDropped(e, st) => u = e
      /\ ~(e # None /\ IdleIsDropped(e, st)) =>
           /\ u # None /\ u.status = st /\ u.age = 0
           /\ e = None => u.message = None /\ ~u.awaiting_output
           /\ e # None /\ e.status # "working" /\ st = "working" => u.message = None
           /\ e # None /\ e.status = "working" /\ st = "working" => u.message = e.message
           /\ e # None /\ e.status = "working" /\ st # "working" /\ e.message = None =>
                u.awaiting_output
           /\ e # None /\ e.status # "working" /\ st # "working" =>
                /\ u.awaiting_output = e.awaiting_output
                /\ u.last_working_message = e.last_working_message
  <2>1. Typed(store)
    BY DEF HooksInv, TypeInv
  <2> HIDE DEF st
  <2> QED  BY <1>1, <1>2, <2>1, StatusDoes
<1>4. IdleIsDropped(e, st) => st = "idle" /\ e.status = "needs_input"
  BY DEF IdleIsDropped
<1>5. /\ QueueInv /\ DialogInv /\ OutputInv
      /\ session.phase \in {"prompt", "running"}
      /\ StickySeconds \in Nat /\ seen.quiet \in 0 .. StickySeconds
  BY AgentAssumption DEF HooksInv, TypeInv
<1>6. st = "working" => session.phase = "running" /\ session.pending = "none" /\ ~Speaks(T)
  BY <1>1, <1>5 DEF QueueInv
<1> HIDE DEF h, st
<1>7. TypeInv'
  BY <1>1, <1>2, <1>3 DEF HooksInv, TypeInv
<1>8. DialogInv'
  <2> SUFFICES ASSUME session.pending # "none", ~seen'.lapsed,
                      ~Comes(T', "needs_input"), ~Comes(N', "needs_input")
               PROVE  /\ u # None /\ u.status = "needs_input"
                      /\ IdleToCome' => u.age <= 0
    BY <1>2 DEF DialogInv
  <2>1. CASE st = "needs_input"
    BY <1>3, <1>4, <2>1
  <2>2. CASE st # "needs_input"
    <3>1. st = "idle" /\ ~seen.lapsed /\ seen.quiet # StickySeconds
      BY <1>1, <1>2, <1>6, <2>2 DEF Statuses
    <3>2. IdleToCome
      BY <1>1, <3>1 DEF IdleToCome
    <3>3. e # None /\ e.status = "needs_input" /\ e.age <= seen.quiet
      BY <1>1, <1>5, <2>2, <3>1, <3>2 DEF DialogInv
    <3>4. e \in Entries
      BY <1>3, <3>3, HooksAssumption DEF Typed, At
    <3>5. e.age < StickySeconds
      BY <1>5, <3>1, <3>3, <3>4 DEF Entries
    <3>6. u = e
      BY <1>3, <3>1, <3>3, <3>5 DEF IdleIsDropped
    <3>7. ~IdleToCome'
      <4>1. /\ slot = "turn" => session.phase = "prompt" /\ session.pending = "permission"
            /\ slot = "notice" => session.phase = "running" /\ session.pending # "permission"
        <5>1. session.pending \in {"question", "permission"}
          BY DEF HooksInv, TypeInv
        <5> QED  BY <1>1, <1>5, <3>1, <5>1 DEF QueueInv
      <4>2. CASE slot = "turn"
        BY <1>1, <1>2, <1>5, <3>1, <4>1, <4>2 DEF QueueInv, IdleToCome
      <4>3. CASE slot = "notice"
        BY <1>1, <1>2, <1>5, <3>1, <4>1, <4>3 DEF QueueInv, IdleToCome
      <4> QED  BY <1>1, <4>2, <4>3
    <3> HIDE DEF e, u
    <3> QED  BY <3>3, <3>6, <3>7
  <2> QED  BY <2>1, <2>2
<1>9. OutputInv'
  <2>1. /\ e # None /\ e.status = "working" /\ ~seen.labelled => e.message = None
        /\ Speaks(T) /\ ~Comes(T, "idle") => e # None /\ e.status # "working"
        /\ session.phase = "running" /\ ~Comes(T, "working") /\ ~seen.labelled => OutputIsAwaited
        /\ session.phase = "prompt" /\ seen.output # None /\ ~seen.labelled =>
             IF Speaks(T) THEN OutputIsAwaited ELSE OutputIsKept
    BY <1>5 DEF OutputInv
  <2> DEFINE Awaited(x) == x # None /\ (x.status # "working" => x.awaiting_output)
             Keeps(x)   == /\ x # None /\ x.status # "working" /\ ~x.awaiting_output
                           /\ x.last_working_message = seen.output
  <2>2. /\ OutputIsAwaited <=> Awaited(e)
        /\ OutputIsKept <=> Keeps(e)
        /\ OutputIsAwaited' <=> Awaited(u)
        /\ OutputIsKept' <=> Keeps(u)
    BY <1>2 DEF OutputIsAwaited, OutputIsKept
  <2> HIDE DEF e, u
  <2>3. u # None /\ u.status = "working" /\ ~seen'.labelled => u.message = None
    BY <1>2, <1>3, <1>4, <2>1
  <2>4. Speaks(T') /\ ~Comes(T', "idle") => u # None /\ u.status # "working"
    BY <1>1, <1>3, <1>4, <1>6, <2>1
  <2>5. ASSUME Awaited(e), ~seen'.labelled, st # "working"
        PROVE  Awaited(u)
    BY <1>2, <1>3, <1>4, <2>1, <2>5
  <2>6. ASSUME Keeps(e), st # "working"
        PROVE  Keeps(u)
    BY <1>3, <1>4, <2>6
  <2>7. st = "working" => Awaited(u)
    BY <1>3, <1>4
  <2> HIDE DEF Awaited, Keeps, T
  <2>8. session.phase = "running" /\ ~Comes(T', "working") /\ ~seen'.labelled => Awaited(u)
    BY <1>1, <1>2, <2>1, <2>2, <2>5, <2>7
  <2>9. session.phase = "prompt" /\ seen.output # None /\ ~seen'.labelled =>
          IF Speaks(T') THEN Awaited(u) ELSE Keeps(u)
    BY <1>1, <1>2, <1>6, <2>1, <2>2, <2>5, <2>6
  <2> QED  BY <1>2, <2>2, <2>3, <2>4, <2>8, <2>9 DEF OutputInv, u, T
<1> QED  BY <1>1, <1>7, <1>8, <1>9 DEF HooksInv

(* A message reaches the store: the turn's output, or a label.             *)
LEMMA EmitMessage ==
    ASSUME HooksInv, NEW slot \in Slots, Emit(slot),
           Head(hooks[slot]).kind = "message"
    PROVE  HooksInv'
<1> DEFINE h == Head(hooks[slot])
           m == h.value
           e == At(store)
           u == At(store')
           T == hooks["turn"]
           N == hooks["notice"]
<1>1. /\ m \in Messages /\ h.kind = "message"
      /\ slot = "turn" \/ slot = "notice"
      /\ hooks' \in [Slots -> Seq(Events)] /\ QueueInv'
      /\ \A su : (Comes(T', su) <=> Comes(T, su)) /\ (Comes(N', su) <=> Comes(N, su))
      /\ slot = "turn" => /\ Speaks(T) /\ ~Speaks(T') /\ m = seen.output
                          /\ \A su : ~Comes(T, su)
      /\ slot = "notice" => m = Label /\ (Speaks(T') <=> Speaks(T))
  <2>1. h \in Events
    BY EmitQueues
  <2>2. m \in Messages
    BY <2>1 DEF Events
  <2> HIDE DEF m
  <2> QED  BY <2>2, EmitQueues DEF Slots, m
<1>2. /\ session' = session /\ store' = UpdateMessage(store, Pane, m)
      /\ seen'.output = seen.output /\ seen'.quiet = 0
      /\ seen.lapsed => seen'.lapsed
      /\ seen' \in [output : (Messages \ {Label}) \cup {None}, labelled : BOOLEAN,
                    quiet : 0 .. StickySeconds, lapsed : BOOLEAN]
      /\ ~seen'.labelled =>
           /\ ~seen.labelled
           /\ m = Label => /\ session.phase = "prompt" /\ ~Speaks(T)
                           /\ e # None /\ e.status # "working"
  BY <1>1, EmitLabels DEF Apply
<1>3. /\ Typed(store) /\ Typed(store')
      /\ u # None /\ u.age = 0
      /\ e = None => u.status = "working"
      /\ e # None => /\ u.status = e.status /\ ~u.awaiting_output
                     /\ u.last_working_message = IF e.awaiting_output THEN m ELSE e.last_working_message
  <2>1. Typed(store)
    BY DEF HooksInv, TypeInv
  <2> HIDE DEF m
  <2> QED  BY <1>1, <1>2, <2>1, MessageDoes
<1>4. /\ QueueInv /\ DialogInv /\ OutputInv
  BY DEF HooksInv
<1> HIDE DEF h, m
<1>5. TypeInv'
  BY <1>1, <1>2, <1>3 DEF HooksInv, TypeInv
<1>6. DialogInv'
  BY <1>1, <1>2, <1>3, <1>4 DEF DialogInv, IdleToCome
<1>7. OutputInv'
  <2>1. /\ slot = "turn" => e # None /\ e.status # "working" /\ session.phase = "prompt"
                            /\ seen.output # None
        /\ slot = "turn" /\ ~seen.labelled => e.awaiting_output
    BY <1>1, <1>4 DEF OutputInv, QueueInv, OutputIsAwaited
  <2>2. slot = "notice" /\ ~seen'.labelled =>
          /\ session.phase = "prompt" /\ ~Speaks(T)
          /\ e # None /\ e.status # "working"
    BY <1>1, <1>2
  <2>3. slot = "notice" /\ ~seen'.labelled /\ seen.output # None =>
          ~e.awaiting_output /\ e.last_working_message = seen.output
    BY <1>2, <1>4, <2>2 DEF OutputInv, OutputIsKept
  <2> DEFINE Keeps(x) == /\ x # None /\ x.status # "working" /\ ~x.awaiting_output
                        /\ x.last_working_message = seen.output
  <2>4. ~seen'.labelled /\ seen.output # None => Keeps(u)
    BY <1>1, <1>2, <1>3, <2>1, <2>2, <2>3
  <2>5. ~seen'.labelled => session.phase = "prompt" /\ ~Speaks(T')
    BY <1>1, <2>1, <2>2
  <2>6. ~seen'.labelled => u.status # "working"
    BY <1>1, <1>3, <2>1, <2>2
  <2>7. Speaks(T') /\ ~Comes(T', "idle") => u # None /\ u.status # "working"
    BY <1>1, <1>3, <1>4 DEF OutputInv
  <2>8. OutputIsKept' <=> Keeps(u)
    BY <1>2 DEF OutputIsKept
  <2> HIDE DEF Keeps, e
  <2> QED  BY <1>2, <2>4, <2>5, <2>6, <2>7, <2>8 DEF OutputInv
<1> QED  BY <1>1, <1>5, <1>6, <1>7 DEF HooksInv

(* A count reaches the store, and says nothing of the turn.                *)
LEMMA EmitCount ==
    ASSUME HooksInv, NEW slot \in Slots, Emit(slot),
           Head(hooks[slot]).kind \notin {"status", "message"}
    PROVE  HooksInv'
<1> DEFINE h == Head(hooks[slot])
           e == At(store)
           u == At(store')
           T == hooks["turn"]
           N == hooks["notice"]
<1>1. /\ h.kind = "background_tasks_count" /\ h.value \in Values
      /\ hooks' \in [Slots -> Seq(Events)] /\ QueueInv'
      /\ \A su : (Comes(T', su) <=> Comes(T, su)) /\ (Comes(N', su) <=> Comes(N, su))
      /\ Speaks(T') <=> Speaks(T)
  <2>1. h \in Events
    BY EmitQueues
  <2>2. h.kind = "background_tasks_count" /\ h.value \in Values
    BY <2>1 DEF Events
  <2> HIDE DEF h
  <2> QED  BY <2>2, EmitQueues DEF Slots, h
<1>2. /\ session' = session
      /\ store' = UpdateField(store, Pane, "background_tasks_count", h.value)
      /\ seen'.output = seen.output /\ seen'.quiet = 0
      /\ seen.lapsed => seen'.lapsed
      /\ seen' \in [output : (Messages \ {Label}) \cup {None}, labelled : BOOLEAN,
                    quiet : 0 .. StickySeconds, lapsed : BOOLEAN]
      /\ ~seen'.labelled => ~seen.labelled
  BY <1>1, EmitLabels DEF Apply
<1>3. /\ Typed(store) /\ Typed(store')
      /\ u # None /\ u.age = 0
      /\ e = None => u.status = "idle"
      /\ e # None => /\ u.status = e.status /\ u.message = e.message
                     /\ u.awaiting_output = e.awaiting_output
                     /\ u.last_working_message = e.last_working_message
  <2>1. Typed(store)
    BY DEF HooksInv, TypeInv
  <2> HIDE DEF h
  <2> QED  BY <1>1, <1>2, <2>1, CountDoes
<1>4. /\ QueueInv /\ DialogInv /\ OutputInv
  BY DEF HooksInv
<1> HIDE DEF h
<1>5. TypeInv'
  BY <1>1, <1>2, <1>3 DEF HooksInv, TypeInv
<1>6. DialogInv'
  BY <1>1, <1>2, <1>3, <1>4 DEF DialogInv, IdleToCome
<1>7. OutputInv'
  BY <1>1, <1>2, <1>3, <1>4 DEF OutputInv, OutputIsAwaited, OutputIsKept
<1> QED  BY <1>1, <1>5, <1>6, <1>7 DEF HooksInv

-----------------------------------------------------------------------------
LEMMA HooksStep ==
    ASSUME HooksInv, [Next]_vars  PROVE HooksInv'
<1>1. CASE SubmitPrompt
  BY <1>1, SubmitPromptStep
<1>2. CASE FinishToolBatch
  BY <1>2, FinishToolBatchStep
<1>3. CASE AskQuestion
  BY <1>3, AskQuestionStep
<1>4. CASE AskPermission \/ NotifyOther \/ NotifyIdlePrompt
  BY <1>4, NoticeStep
<1>5. CASE Stop
  BY <1>5, StopStep
<1>6. CASE Interrupt
  BY <1>6, InterruptStep
<1>7. CASE Tick
  BY <1>7, TickStep
<1>8. CASE \E slot \in Slots : Emit(slot)
  BY <1>8, EmitStatus, EmitMessage, EmitCount
<1>9. CASE UNCHANGED vars
  BY <1>9 DEF vars, HooksInv, TypeInv, QueueInv, DialogInv, IdleToCome, OutputInv, OutputIsAwaited, OutputIsKept
<1> QED  BY <1>1, <1>2, <1>3, <1>4, <1>5, <1>6, <1>7, <1>8, <1>9 DEF Next

LEMMA HooksInvariant == Spec => []HooksInv
<1>1. HooksInv /\ [Next]_vars => HooksInv'
  BY HooksStep
<1> QED  BY <1>1, HooksInit, PTL DEF Spec

(* However the Stop and Notification hooks of a plan approval interleave,  *)
(* and however slow they are, an open dialog shows as "needs input" once   *)
(* they are done, unless an idle came as the first event in the window.    *)
THEOREM OpenDialogShows == Spec => []DialogShowsNeedsInput
<1>1. HooksInv => DialogShowsNeedsInput
  <2> SUFFICES ASSUME HooksInv, Quiescent, session.pending # "none", ~seen.lapsed
               PROVE  Entry.status = "needs_input"
    BY DEF DialogShowsNeedsInput
  <2>1. \A st : ~Comes(hooks["turn"], st) /\ ~Comes(hooks["notice"], st)
    BY NothingLeft DEF Quiescent, Slots
  <2>2. At(store) # None /\ At(store).status = "needs_input"
    BY <2>1 DEF HooksInv, DialogInv
  <2> QED  BY <2>2 DEF Entry, EntryMut, IsNew, At
<1> QED  BY <1>1, HooksInvariant, PTL

(* The card of a stopped agent shows the output of the turn that ended,    *)
(* when no notification spoke up during it.                                *)
THEOREM StoppedCardShowsOutput == Spec => []QuietTurnShowsOutput
<1>1. HooksInv => QuietTurnShowsOutput
  <2> SUFFICES ASSUME HooksInv, Stopped, ~seen.labelled
               PROVE  Preview(Entry) = seen.output
    BY DEF QuietTurnShowsOutput
  <2>1. /\ ~Speaks(hooks["turn"])
        /\ session.phase = "prompt" /\ seen.output # None
    BY NothingLeft DEF Stopped, Quiescent, Slots
  <2>2. OutputIsKept
    BY <2>1 DEF HooksInv, OutputInv
  <2>3. Entry = At(store)
    BY <2>2 DEF OutputIsKept, Entry, EntryMut, IsNew, At
  <2> QED  BY <2>1, <2>2, <2>3 DEF OutputIsKept, Preview
<1> QED  BY <1>1, HooksInvariant, PTL

-----------------------------------------------------------------------------
(* The subagent hooks.  A lock of a hook is gone only by its own end, or   *)
(* removed by another; until the latter happens the hooks exclude, and     *)
(* the file follows the one counter of all that was written.               *)
Ceased == {"giveup", "gone", "killed"}

LockTyped ==
    /\ pc \in [Hooks -> Steps]
    /\ lock \in BOOLEAN /\ robbed \in BOOLEAN /\ strayed \in BOOLEAN /\ told \in BOOLEAN
    /\ file \in {NoFile} \cup Nat
    /\ count \in [Hooks -> Nat]
    /\ age \in [Hooks -> 0 .. HookTimeout] /\ waited \in [Hooks -> 0 .. Patience]
    /\ shown \in Nat /\ tally \in Nat /\ kills \in Nat
    /\ orphans \subseteq {h \in Hooks : pc[h] \in Ceased}

(* Nobody took the lock from a hook: then it is the lock of the one hook   *)
(* in the section.                                                         *)
OneInSection == \A g, h \in Hooks : InSection(g) /\ InSection(h) => g = h

Exclusive == ~robbed => OneInSection /\ \A h \in Hooks : InSection(h) => lock

(* A lock that no orphan made is that of a hook that will remove it.       *)
LockOwned ==
    kills = 0 /\ lock /\ ~strayed => \E h \in Hooks : InSection(h) \/ pc[h] = "giveup"

LEMMA HookParts ==
    ASSUME NEW h \in Hooks
    PROVE  h[1] \in Subagents /\ h = <<h[1], h[2]>> /\ h[2] \in {"start", "stop"}
  BY DEF Hooks

LEMMA InitLock == CounterInit => LockTyped /\ Exclusive /\ LockOwned
<1> SUFFICES ASSUME CounterInit PROVE LockTyped /\ Exclusive /\ LockOwned
  OBVIOUS
<1>1. LockTyped
  <2>1. 0 \in 0 .. HookTimeout /\ 0 \in 0 .. Patience
    BY CounterAssumption
  <2>2. age \in [Hooks -> 0 .. HookTimeout] /\ waited \in [Hooks -> 0 .. Patience]
    BY <2>1 DEF CounterInit
  <2>3. pc \in [Hooks -> Steps] /\ count \in [Hooks -> Nat] /\ orphans = {}
    BY DEF CounterInit, Steps
  <2> QED  BY <2>2, <2>3 DEF CounterInit, LockTyped
<1>2. \A h \in Hooks : ~InSection(h)
  BY DEF CounterInit, InSection
<1>3. Exclusive /\ LockOwned
  BY <1>2 DEF CounterInit, Exclusive, LockOwned, OneInSection
<1> QED  BY <1>1, <1>3

LEMMA CountingNat == ASSUME NEW h \in Hooks, NEW n \in Nat PROVE Counting(h, n) \in Nat
  BY DEF Counting

LEMMA RemoveLockTyped ==
    ASSUME NEW h \in Hooks, RemoveLock(h)
    PROVE  lock' \in BOOLEAN /\ strayed' \in BOOLEAN /\ robbed' \in BOOLEAN
<1>1. robbed' \in BOOLEAN
  BY Zenon DEF RemoveLock
<1> QED  BY <1>1 DEF RemoveLock

LEMMA NextTyped ==
    ASSUME LockTyped, [CounterNext]_counterVars
    PROVE  LockTyped'
<1> USE DEF LockTyped, Steps, Ceased, Goto
<1>1. CASE PassSecond
  BY <1>1, CounterAssumption DEF PassSecond, history
<1>2. ASSUME NEW h \in Hooks, Launch(h) PROVE LockTyped'
  BY <1>2 DEF Launch, history
<1>3. ASSUME NEW h \in Hooks, Acquire(h) PROVE LockTyped'
  BY <1>3 DEF Acquire, history
<1>4. ASSUME NEW h \in Hooks, BreakLock(h) PROVE LockTyped'
  BY <1>4, RemoveLockTyped DEF BreakLock
<1>5. ASSUME NEW h \in Hooks, RetryOnce(h) PROVE LockTyped'
  BY <1>5 DEF RetryOnce, history
<1>6. ASSUME NEW h \in Hooks, Read(h) PROVE LockTyped'
  <2>1. Counting(h, IF file = NoFile THEN 0 ELSE file) \in Nat
    BY CountingNat
  <2> QED  BY <1>6, <2>1 DEF Read, history
<1>7. ASSUME NEW h \in Hooks, WriteCount(h) PROVE LockTyped'
  BY <1>7, CountingNat DEF WriteCount
<1>8. ASSUME NEW h \in Hooks, Report(h) PROVE LockTyped'
  BY <1>8 DEF Report
<1>9. ASSUME NEW h \in Hooks, CleanUp(h) PROVE LockTyped'
  BY <1>9 DEF CleanUp, history
<1>10. ASSUME NEW h \in Hooks, ExitTrap(h) PROVE LockTyped'
  BY <1>10, RemoveLockTyped, CounterAssumption DEF ExitTrap, End
<1>11. ASSUME NEW h \in Hooks, Terminate(h) PROVE LockTyped'
  BY <1>11 DEF Terminate, LeaveMkdir, history, Alive, Over
<1>12. ASSUME NEW h \in Hooks, Kill(h) PROVE LockTyped'
  BY <1>12, CounterAssumption DEF Kill, LeaveMkdir, End, history
<1>13. ASSUME NEW h \in Hooks, OrphanMkdir(h) PROVE LockTyped'
  BY <1>13 DEF OrphanMkdir
<1>14. CASE UNCHANGED counterVars
  BY <1>14 DEF counterVars, history
<1> QED
  BY <1>1, <1>2, <1>3, <1>4, <1>5, <1>6, <1>7, <1>8, <1>9, <1>10, <1>11, <1>12, <1>13, <1>14
     DEF CounterNext, Step, Signal

(* A step of h moves nobody else.                                          *)
LEMMA OnlyMoves ==
    ASSUME LockTyped, NEW h \in Hooks, NEW step, Goto(h, step)
    PROVE  \A g \in Hooks : pc'[g] = IF g = h THEN step ELSE pc[g]
  BY DEF LockTyped, Goto

(* A step of h that leaves the lock alone, and h in the section or out.    *)
LEMMA SamePlaceLock ==
    ASSUME LockTyped, Exclusive, LockOwned, NEW h \in Hooks, NEW step, Goto(h, step),
           pc[h] # "giveup",
           InSection(h)' => InSection(h),
           InSection(h) => InSection(h)' \/ step = "giveup",
           UNCHANGED <<lock, robbed, strayed, kills>>
    PROVE  Exclusive' /\ LockOwned'
<1>1. \A g \in Hooks : pc'[g] = IF g = h THEN step ELSE pc[g]
  BY OnlyMoves
<1>2. \A g \in Hooks : InSection(g)' => InSection(g)
  BY <1>1 DEF InSection
<1>3. Exclusive'
  BY <1>2 DEF Exclusive, OneInSection
<1>4. \A g \in Hooks : InSection(g) \/ pc[g] = "giveup" => InSection(g)' \/ pc'[g] = "giveup"
  BY <1>1 DEF InSection
<1>5. LockOwned'
  BY <1>4 DEF LockOwned
<1> QED  BY <1>3, <1>5

(* h makes the lock.                                                       *)
LEMMA TakenLock ==
    ASSUME LockTyped, Exclusive, NEW h \in Hooks, Goto(h, "read"), ~lock, lock' = TRUE,
           UNCHANGED <<robbed, strayed, kills>>
    PROVE  Exclusive' /\ LockOwned'
<1>1. \A g \in Hooks : pc'[g] = IF g = h THEN "read" ELSE pc[g]
  BY OnlyMoves
<1>2. \A g \in Hooks : InSection(g)' <=> (g = h \/ InSection(g))
  BY <1>1 DEF InSection
<1> QED  BY <1>2 DEF Exclusive, OneInSection, LockOwned

(* h, which is not in the section afterwards, removes the lock.            *)
LEMMA RemovedLock ==
    ASSUME LockTyped, Exclusive, NEW h \in Hooks, NEW step, Goto(h, step), RemoveLock(h),
           step \notin {"read", "write", "report", "clean", "exit"}
    PROVE  Exclusive' /\ LockOwned'
<1>1. \A g \in Hooks : pc'[g] = IF g = h THEN step ELSE pc[g]
  BY OnlyMoves
<1>2. \A g \in Hooks : InSection(g)' <=> (g # h /\ InSection(g))
  BY <1>1 DEF InSection
<1>3. ~robbed' => \A g \in Hooks : ~InSection(g)'
  BY <1>2 DEF RemoveLock
<1> QED  BY <1>3 DEF Exclusive, OneInSection, LockOwned, RemoveLock

LEMMA NextLock ==
    ASSUME LockTyped, Exclusive, LockOwned, [CounterNext]_counterVars
    PROVE  Exclusive' /\ LockOwned'
<1> DEFINE Goal == Exclusive' /\ LockOwned'
<1>1. ASSUME UNCHANGED <<pc, lock, robbed, strayed, kills>> PROVE Goal
  BY <1>1 DEF Exclusive, LockOwned, OneInSection, InSection
<1>2. CASE PassSecond
  BY <1>1, <1>2 DEF PassSecond, history
<1>3. ASSUME NEW h \in Hooks, Launch(h) PROVE Goal
  <2>1. ~InSection(h) /\ ~InSection(h)' /\ pc[h] # "giveup"
    BY <1>3 DEF Launch, InSection, Goto, LockTyped
  <2> QED  BY <1>3, <2>1, SamePlaceLock DEF Launch, history
<1>4. ASSUME NEW h \in Hooks, Acquire(h) PROVE Goal
  BY <1>4, TakenLock DEF Acquire, history
<1>5. ASSUME NEW h \in Hooks, BreakLock(h) PROVE Goal
  BY <1>5, RemovedLock DEF BreakLock
<1>6. ASSUME NEW h \in Hooks, RetryOnce(h) PROVE Goal
  <2>1. CASE lock
    <3>1. ~InSection(h) /\ ~InSection(h)' /\ pc[h] # "giveup" /\ lock' = lock /\ Goto(h, "giveup")
      BY <1>6, <2>1 DEF RetryOnce, InSection, Goto, LockTyped
    <3> QED  BY <1>6, <3>1, SamePlaceLock DEF RetryOnce, history
  <2>2. CASE ~lock
    BY <1>6, <2>2, TakenLock DEF RetryOnce, history
  <2> QED  BY <2>1, <2>2
<1>7. ASSUME NEW h \in Hooks, Read(h) \/ WriteCount(h) \/ Report(h) \/ CleanUp(h) PROVE Goal
  <2>1. PICK step \in {"write", "report", "clean", "exit"} : Goto(h, step)
    BY <1>7 DEF Read, WriteCount, Report, CleanUp
  <2>2. InSection(h) /\ InSection(h)' /\ pc[h] # "giveup"
    BY <1>7, <2>1 DEF Read, WriteCount, Report, CleanUp, InSection, Goto, LockTyped
  <2>3. UNCHANGED <<lock, robbed, strayed, kills>>
    BY <1>7 DEF Read, WriteCount, Report, CleanUp, history
  <2> QED  BY <2>1, <2>2, <2>3, SamePlaceLock
<1>8. ASSUME NEW h \in Hooks, ExitTrap(h) PROVE Goal
  BY <1>8, RemovedLock DEF ExitTrap, End
<1>9. ASSUME NEW h \in Hooks, Terminate(h) PROVE Goal
  <2>1. ~InSection(h)' /\ pc[h] # "giveup"
    BY <1>9 DEF Terminate, InSection, Goto, LockTyped
  <2> QED  BY <1>9, <2>1, SamePlaceLock DEF Terminate, history
<1>10. ASSUME NEW h \in Hooks, Kill(h) PROVE Goal
  <2>1. \A g \in Hooks : pc'[g] = IF g = h THEN "killed" ELSE pc[g]
    BY <1>10, OnlyMoves DEF Kill, End
  <2>2. \A g \in Hooks : InSection(g)' => InSection(g)
    BY <2>1 DEF InSection
  <2>3. lock' = lock /\ robbed' = robbed /\ kills' # 0
    BY <1>10 DEF Kill, history, LockTyped
  <2> QED  BY <2>2, <2>3 DEF Exclusive, OneInSection, LockOwned
<1>11. ASSUME NEW h \in Hooks, OrphanMkdir(h) PROVE Goal
  <2>1. pc' = pc /\ lock' = TRUE /\ kills' = kills /\ robbed' = robbed
        /\ strayed' = (strayed \/ ~lock)
    BY <1>11 DEF OrphanMkdir
  <2>2. Exclusive'
    BY <2>1 DEF Exclusive, OneInSection, InSection
  <2>3. LockOwned'
    BY <2>1 DEF LockOwned, InSection
  <2> QED  BY <2>2, <2>3
<1>12. CASE UNCHANGED counterVars
  BY <1>1, <1>12 DEF counterVars, history
<1> QED
  BY <1>2, <1>3, <1>4, <1>5, <1>6, <1>7, <1>8, <1>9, <1>10, <1>11, <1>12
     DEF CounterNext, Step, Signal

(* However many subagents start and stop and whichever hooks run into      *)
(* their timeout, a lock is only left behind by a kill, or by the mkdir of *)
(* a shell that has ended (the EXIT traps of on-subagent-*.sh).            *)
THEOREM LockIsReleased == CounterSpec => []LockIsNotOrphaned
<1>1. LockTyped /\ LockOwned => LockIsNotOrphaned
  BY DEF LockOwned, LockIsNotOrphaned, InSection, Alive, Over
<1>2. LockTyped /\ Exclusive /\ LockOwned /\ [CounterNext]_counterVars
        => LockTyped' /\ Exclusive' /\ LockOwned'
  BY NextTyped, NextLock
<1> QED  BY InitLock, <1>1, <1>2, PTL DEF CounterSpec
-----------------------------------------------------------------------------
(* The count.  While nobody took the lock from a hook, the file is the one *)
(* counter, and the hook in the section carries what it will be, or is.    *)
Atomic ==
    ~robbed =>
        /\ InFile = tally
        /\ \A h \in Hooks : pc[h] = "write" => count[h] = Counting(h, tally)
        /\ \A h \in Hooks : pc[h] \in {"report", "clean"} => count[h] = tally
        /\ told => shown = tally

(* Nobody else is where h is. *)
LEMMA AloneInSection ==
    ASSUME Exclusive, ~robbed, NEW h \in Hooks, InSection(h)
    PROVE  lock /\ \A g \in Hooks \ {h} : pc[g] \notin {"read", "write", "report", "clean", "exit"}
  BY DEF Exclusive, OneInSection, InSection

(* A step of h out of the reading and writing, or into the reading.        *)
LEMMA ElsewhereAtomic ==
    ASSUME LockTyped, Atomic, NEW h \in Hooks, NEW step, Goto(h, step),
           step \notin {"write", "report", "clean"},
           \A g \in Hooks \ {h} : count'[g] = count[g],
           UNCHANGED <<file, tally, told, shown>>, robbed => robbed'
    PROVE  Atomic'
<1>1. \A g \in Hooks : pc'[g] = IF g = h THEN step ELSE pc[g]
  BY OnlyMoves
<1>2. InFile' = InFile /\ \A g \in Hooks : Counting(g, tally)' = Counting(g, tally)
  BY DEF InFile, Counting
<1> QED  BY <1>1, <1>2 DEF Atomic

LEMMA RemoveLockRobs == ASSUME NEW h \in Hooks, RemoveLock(h) PROVE robbed => robbed'
  BY Zenon DEF RemoveLock

LEMMA NextAtomic ==
    ASSUME LockTyped, Exclusive, Atomic, [CounterNext]_counterVars
    PROVE  Atomic'
<1>1. ASSUME UNCHANGED <<pc, file, count, tally, told, shown, robbed>> PROVE Atomic'
  BY <1>1 DEF Atomic, InFile, Counting
<1>2. CASE PassSecond
  BY <1>1, <1>2 DEF PassSecond, history
<1>3. ASSUME NEW h \in Hooks, Launch(h) PROVE Atomic'
  BY <1>3, ElsewhereAtomic DEF Launch, history
<1>4. ASSUME NEW h \in Hooks, Acquire(h) PROVE Atomic'
  BY <1>4, ElsewhereAtomic DEF Acquire, history
<1>5. ASSUME NEW h \in Hooks, BreakLock(h) PROVE Atomic'
  BY <1>5, RemoveLockRobs, ElsewhereAtomic DEF BreakLock
<1>6. ASSUME NEW h \in Hooks, RetryOnce(h) PROVE Atomic'
  <2>1. PICK step \in {"read", "giveup"} : Goto(h, step)
    BY <1>6 DEF RetryOnce
  <2> QED  BY <1>6, <2>1, ElsewhereAtomic DEF RetryOnce, history
<1>7. ASSUME NEW h \in Hooks, Read(h) PROVE Atomic'
  <2>1. /\ pc[h] = "read" /\ Goto(h, "write")
        /\ count' = [count EXCEPT ![h] = Counting(h, InFile)]
        /\ UNCHANGED <<file, tally, told, shown, robbed>>
    BY <1>7 DEF Read, InFile, history
  <2>2. SUFFICES ASSUME ~robbed PROVE Atomic'
    BY <2>1 DEF Atomic
  <2>3. \A g \in Hooks : pc'[g] = IF g = h THEN "write" ELSE pc[g]
    BY <2>1, OnlyMoves
  <2>4. \A g \in Hooks \ {h} : pc[g] \notin {"read", "write", "report", "clean", "exit"}
    BY <2>1, <2>2, AloneInSection DEF InSection
  <2>5. count'[h] = Counting(h, tally)
    BY <2>1, <2>2 DEF Atomic, LockTyped
  <2>6. InFile' = InFile /\ Counting(h, tally)' = Counting(h, tally)
    BY <2>1 DEF InFile, Counting
  <2> QED  BY <2>1, <2>2, <2>3, <2>4, <2>5, <2>6 DEF Atomic
<1>8. ASSUME NEW h \in Hooks, WriteCount(h) PROVE Atomic'
  <2>1. /\ pc[h] = "write" /\ Goto(h, "report") /\ file' = count[h]
        /\ tally' = Counting(h, tally) /\ told' = FALSE /\ UNCHANGED <<count, shown, robbed>>
    BY <1>8 DEF WriteCount
  <2>2. SUFFICES ASSUME ~robbed PROVE Atomic'
    BY <2>1 DEF Atomic
  <2>3. \A g \in Hooks : pc'[g] = IF g = h THEN "report" ELSE pc[g]
    BY <2>1, OnlyMoves
  <2>4. \A g \in Hooks \ {h} : pc[g] \notin {"read", "write", "report", "clean", "exit"}
    BY <2>1, <2>2, AloneInSection DEF InSection
  <2>5. count[h] = tally' /\ count[h] \in Nat
    BY <2>1, <2>2 DEF Atomic, LockTyped
  <2>6. InFile' = tally'
    BY <2>1, <2>5 DEF InFile, NoFile
  <2>7. \A g \in Hooks : pc'[g] # "write" /\ (pc'[g] \in {"report", "clean"} => g = h)
    BY <2>3, <2>4
  <2> QED  BY <2>1, <2>5, <2>6, <2>7 DEF Atomic
<1>9. ASSUME NEW h \in Hooks, Report(h) PROVE Atomic'
  <2>1. /\ pc[h] = "report" /\ shown' = count[h] /\ UNCHANGED <<file, count, tally, robbed>>
    BY <1>9 DEF Report
  <2>2. PICK step \in {"clean", "exit"} : Goto(h, step)
    BY <1>9 DEF Report
  <2>3. SUFFICES ASSUME ~robbed PROVE Atomic'
    BY <2>1 DEF Atomic
  <2>4. \A g \in Hooks : pc'[g] = IF g = h THEN step ELSE pc[g]
    BY <2>2, OnlyMoves
  <2>5. \A g \in Hooks \ {h} : pc[g] \notin {"read", "write", "report", "clean", "exit"}
    BY <2>1, <2>3, AloneInSection DEF InSection
  <2>6. count[h] = tally
    BY <2>1, <2>3 DEF Atomic
  <2>7. InFile' = InFile
    BY <2>1 DEF InFile
  <2>8. \A g \in Hooks : pc'[g] # "write" /\ (pc'[g] \in {"report", "clean"} => g = h)
    BY <2>4, <2>5
  <2> QED  BY <2>1, <2>3, <2>6, <2>7, <2>8 DEF Atomic
<1>10. ASSUME NEW h \in Hooks, CleanUp(h) PROVE Atomic'
  <2>1. /\ pc[h] = "clean" /\ Goto(h, "exit") /\ UNCHANGED <<count, tally, told, shown, robbed>>
        /\ file' = IF count[h] = 0 THEN NoFile ELSE file
    BY <1>10 DEF CleanUp, history
  <2>2. SUFFICES ASSUME ~robbed PROVE Atomic'
    BY <2>1 DEF Atomic
  <2>3. \A g \in Hooks : pc'[g] = IF g = h THEN "exit" ELSE pc[g]
    BY <2>1, OnlyMoves
  <2>4. InFile' = tally
    BY <2>1, <2>2 DEF Atomic, InFile
  <2>5. \A g \in Hooks : Counting(g, tally)' = Counting(g, tally)
    BY <2>1 DEF Counting
  <2> QED  BY <2>1, <2>2, <2>3, <2>4, <2>5 DEF Atomic
<1>11. ASSUME NEW h \in Hooks, ExitTrap(h) PROVE Atomic'
  <2>1. PICK step \in {"done", "gone"} : Goto(h, step)
    BY <1>11 DEF ExitTrap, End
  <2>2. \A g \in Hooks \ {h} : count'[g] = count[g]
    BY <1>11 DEF ExitTrap, End, LockTyped
  <2> QED  BY <1>11, <2>1, <2>2, RemoveLockRobs, ElsewhereAtomic DEF ExitTrap
<1>12. ASSUME NEW h \in Hooks, Terminate(h) PROVE Atomic'
  BY <1>12, ElsewhereAtomic DEF Terminate, history
<1>13. ASSUME NEW h \in Hooks, Kill(h) PROVE Atomic'
  <2>1. Goto(h, "killed") /\ \A g \in Hooks \ {h} : count'[g] = count[g]
    BY <1>13 DEF Kill, End, LockTyped
  <2> QED  BY <1>13, <2>1, ElsewhereAtomic DEF Kill, history
<1>14. ASSUME NEW h \in Hooks, OrphanMkdir(h) PROVE Atomic'
  BY <1>1, <1>14 DEF OrphanMkdir
<1>15. CASE UNCHANGED counterVars
  BY <1>1, <1>15 DEF counterVars, history
<1> QED
  BY <1>2, <1>3, <1>4, <1>5, <1>6, <1>7, <1>8, <1>9, <1>10, <1>11, <1>12, <1>13, <1>14, <1>15
     DEF CounterNext, Step, Signal

-----------------------------------------------------------------------------
(* Each start hook adds one at most, whatever happens to the lock: no      *)
(* number is above that of the start hooks that have read, nor the one     *)
(* counter above that of those that have written.                          *)
Started(early) == {s \in Subagents : pc[<<s, "start">>] \notin early}

Unread    == {"unborn", "try", "broken", "read"}
Unwritten == {"unborn", "try", "broken", "read", "write"}

Bounded ==
    /\ file <= Cardinality(Started(Unread))
    /\ \A h \in Hooks : count[h] <= Cardinality(Started(Unread))
    /\ shown <= Cardinality(Started(Unread))
    /\ tally <= Cardinality(Started(Unwritten))

LEMMA CountedFinite ==
    ASSUME NEW S \in SUBSET Subagents
    PROVE  IsFiniteSet(S) /\ Cardinality(S) \in 0 .. Cardinality(Subagents)
<1>1. IsFiniteSet(Subagents)
  BY CounterAssumption
<1>2. IsFiniteSet(S) /\ Cardinality(S) <= Cardinality(Subagents)
  BY <1>1, FS_Subset
<1>3. Cardinality(S) \in Nat /\ Cardinality(Subagents) \in Nat
  BY <1>1, <1>2, FS_CardinalityType
<1> QED  BY <1>2, <1>3

LEMMA StartedCounted ==
    ASSUME NEW early
    PROVE  IsFiniteSet(Started(early)) /\ Cardinality(Started(early)) \in 0 .. Cardinality(Subagents)
           /\ Cardinality(Subagents) \in Nat
<1>1. Started(early) \in SUBSET Subagents
  BY DEF Started
<1>2. Cardinality(Subagents) \in Nat
  BY CounterAssumption, FS_CardinalityType
<1> QED  BY <1>1, <1>2, CountedFinite

(* No step takes a subagent out of them.                                   *)
LEMMA StartedGrows ==
    ASSUME LockTyped, NEW h \in Hooks, NEW step, Goto(h, step), NEW early,
           step \in early => pc[h] \in early
    PROVE  Cardinality(Started(early)) <= Cardinality(Started(early)')
<1>1. \A g \in Hooks : pc'[g] = IF g = h THEN step ELSE pc[g]
  BY OnlyMoves
<1>2. \A s \in Subagents : <<s, "start">> \in Hooks
  BY DEF Hooks
<1>3. Started(early) \subseteq Started(early)'
  BY <1>1, <1>2 DEF Started
<1>4. IsFiniteSet(Started(early)')
  <2>1. Started(early)' \in SUBSET Subagents
    BY DEF Started
  <2> QED  BY <2>1, CountedFinite
<1> QED  BY <1>3, <1>4, FS_Subset
(* A start hook that leaves the early places is one more.                  *)
LEMMA StartedOneMore ==
    ASSUME LockTyped, NEW h \in Hooks, NEW step, Goto(h, step), NEW early,
           h[2] = "start", pc[h] \in early, step \notin early
    PROVE  Cardinality(Started(early)') = Cardinality(Started(early)) + 1
<1>1. \A g \in Hooks : pc'[g] = IF g = h THEN step ELSE pc[g]
  BY OnlyMoves
<1>2. h[1] \in Subagents /\ h = <<h[1], "start">>
  BY HookParts
<1>3. \A s \in Subagents : <<s, "start">> \in Hooks /\ (<<s, "start">> = h <=> s = h[1])
  BY <1>2 DEF Hooks
<1>4. Started(early)' = Started(early) \cup {h[1]} /\ h[1] \notin Started(early)
  BY <1>1, <1>2, <1>3 DEF Started
<1> QED  BY <1>4, StartedCounted, FS_AddElement

LEMMA StopCountsDown ==
    ASSUME NEW h \in Hooks, h[2] # "start", NEW n \in Nat
    PROVE  Counting(h, n) <= n /\ Counting(h, n) \in Nat
  BY DEF Counting

(* A step that writes no more than what is there.                          *)
LEMMA GrowsBounded ==
    ASSUME LockTyped, Bounded, NEW h \in Hooks, NEW step, Goto(h, step),
           step \in Unread => pc[h] \in Unread,
           step \in Unwritten => pc[h] \in Unwritten,
           file' \in {file, NoFile, count[h]},
           \A g \in Hooks : count'[g] \in {count[g], 0},
           shown' \in {shown, count[h]},
           tally' = tally
    PROVE  Bounded'
<1>1. /\ Cardinality(Started(Unread)) <= Cardinality(Started(Unread)')
      /\ Cardinality(Started(Unwritten)) <= Cardinality(Started(Unwritten)')
  <2> HIDE DEF Unread, Unwritten
  <2> QED  BY StartedGrows
<1> DEFINE m == Cardinality(Started(Unread))
           n == Cardinality(Started(Unwritten))
           m1 == Cardinality(Started(Unread)')
           n1 == Cardinality(Started(Unwritten)')
<1>2. m \in Nat /\ n \in Nat /\ m1 \in Nat /\ n1 \in Nat
  <2>1. m \in Nat /\ n \in Nat
    BY StartedCounted
  <2>2. Started(Unread)' \in SUBSET Subagents /\ Started(Unwritten)' \in SUBSET Subagents
    BY DEF Started
  <2> QED  BY <2>1, <2>2, CountedFinite
<1>3. m <= m1 /\ n <= n1
  BY <1>1
<1>4. file <= m /\ shown <= m /\ tally <= n /\ \A g \in Hooks : count[g] <= m
  BY DEF Bounded
<1>5. file \in Int /\ shown \in Int /\ tally \in Int /\ \A g \in Hooks : count[g] \in Int
  BY DEF LockTyped, NoFile
<1>6. Bounded' <=> file' <= m1 /\ shown' <= m1 /\ tally' <= n1 /\ \A g \in Hooks : count'[g] <= m1
  BY DEF Bounded, Unread, Unwritten
<1> HIDE DEF m, n, m1, n1
<1> QED  BY <1>2, <1>3, <1>4, <1>5, <1>6 DEF NoFile

LEMMA ReadBounded ==
    ASSUME LockTyped, Bounded, NEW h \in Hooks, Read(h)
    PROVE  Bounded'
<1>1. /\ pc[h] = "read" /\ Goto(h, "write") /\ UNCHANGED <<file, shown, tally>>
      /\ count' = [count EXCEPT ![h] = Counting(h, InFile)]
  BY DEF Read, InFile, history
<1> DEFINE m == Cardinality(Started(Unread))
           n == Cardinality(Started(Unwritten))
           m1 == Cardinality(Started(Unread)')
           n1 == Cardinality(Started(Unwritten)')
<1>2. m <= m1 /\ n <= n1 /\ m \in Nat /\ n \in Nat /\ m1 \in Nat /\ n1 \in Nat
  <2>1. m \in Nat /\ n \in Nat
    BY StartedCounted
  <2>2. Started(Unread)' \in SUBSET Subagents /\ Started(Unwritten)' \in SUBSET Subagents
    BY DEF Started
  <2>3. m1 \in Nat /\ n1 \in Nat
    BY <2>2, CountedFinite
  <2>4. "write" \notin Unread /\ pc[h] \in Unwritten
    BY <1>1 DEF Unread, Unwritten
  <2>5. m <= m1 /\ n <= n1
    <3> HIDE DEF Unread, Unwritten
    <3> QED  BY <1>1, <2>4, StartedGrows
  <2> QED  BY <2>1, <2>3, <2>5
<1>3. Counting(h, InFile) <= m1
  <2>1. InFile \in Nat /\ InFile <= m
    BY <1>2 DEF InFile, LockTyped, NoFile, Bounded
  <2>2. CASE h[2] = "start"
    <3>1. "write" \notin Unread /\ pc[h] \in Unread
      BY <1>1 DEF Unread
    <3>2. m1 = m + 1
      <4> HIDE DEF Unread
      <4> QED  BY <1>1, <2>2, <3>1, StartedOneMore
    <3>3. Counting(h, InFile) = InFile + 1
      BY <2>2 DEF Counting
    <3> HIDE DEF m, n, m1, n1
    <3> QED  BY <1>2, <2>1, <3>2, <3>3
  <2>3. CASE h[2] # "start"
    <3>1. Counting(h, InFile) <= InFile /\ Counting(h, InFile) \in Nat
      BY <2>1, <2>3, StopCountsDown
    <3> HIDE DEF m, n, m1, n1
    <3> QED  BY <1>2, <2>1, <3>1
  <2> QED  BY <2>2, <2>3
<1>4. file <= m /\ shown <= m /\ tally <= n /\ \A g \in Hooks : count[g] <= m
  BY DEF Bounded
<1>5. file \in Int /\ shown \in Int /\ tally \in Int /\ \A g \in Hooks : count[g] \in Int
  BY DEF LockTyped, NoFile
<1>6. Bounded' <=> file' <= m1 /\ shown' <= m1 /\ tally' <= n1 /\ \A g \in Hooks : count'[g] <= m1
  BY DEF Bounded, Unread, Unwritten
<1>7. \A g \in Hooks : count'[g] = IF g = h THEN Counting(h, InFile) ELSE count[g]
  BY <1>1 DEF LockTyped
<1> HIDE DEF m, n, m1, n1
<1> QED  BY <1>1, <1>2, <1>3, <1>4, <1>5, <1>6, <1>7

LEMMA WriteBounded ==
    ASSUME LockTyped, Bounded, NEW h \in Hooks, WriteCount(h)
    PROVE  Bounded'
<1>1. /\ pc[h] = "write" /\ Goto(h, "report") /\ UNCHANGED <<count, shown>>
      /\ file' = count[h] /\ tally' = Counting(h, tally)
  BY DEF WriteCount
<1> DEFINE m == Cardinality(Started(Unread))
           n == Cardinality(Started(Unwritten))
           m1 == Cardinality(Started(Unread)')
           n1 == Cardinality(Started(Unwritten)')
<1>2. m <= m1 /\ n <= n1 /\ m \in Nat /\ n \in Nat /\ m1 \in Nat /\ n1 \in Nat
  <2>1. m \in Nat /\ n \in Nat
    BY StartedCounted
  <2>2. Started(Unread)' \in SUBSET Subagents /\ Started(Unwritten)' \in SUBSET Subagents
    BY DEF Started
  <2>3. m1 \in Nat /\ n1 \in Nat
    BY <2>2, CountedFinite
  <2>4. "report" \notin Unread /\ "report" \notin Unwritten
    BY DEF Unread, Unwritten
  <2>5. m <= m1 /\ n <= n1
    <3> HIDE DEF Unread, Unwritten
    <3> QED  BY <1>1, <2>4, StartedGrows
  <2> QED  BY <2>1, <2>3, <2>5
<1>3. Counting(h, tally) <= n1
  <2>1. tally \in Nat /\ tally <= n
    BY DEF LockTyped, Bounded
  <2>2. CASE h[2] = "start"
    <3>1. "report" \notin Unwritten /\ pc[h] \in Unwritten
      BY <1>1 DEF Unwritten
    <3>2. n1 = n + 1
      <4> HIDE DEF Unwritten
      <4> QED  BY <1>1, <2>2, <3>1, StartedOneMore
    <3>3. Counting(h, tally) = tally + 1
      BY <2>2 DEF Counting
    <3> HIDE DEF m, n, m1, n1
    <3> QED  BY <1>2, <2>1, <3>2, <3>3
  <2>3. CASE h[2] # "start"
    <3>1. Counting(h, tally) <= tally /\ Counting(h, tally) \in Nat
      BY <2>1, <2>3, StopCountsDown
    <3> HIDE DEF m, n, m1, n1
    <3> QED  BY <1>2, <2>1, <3>1
  <2> QED  BY <2>2, <2>3
<1>4. shown <= m /\ \A g \in Hooks : count[g] <= m
  BY DEF Bounded
<1>5. shown \in Int /\ \A g \in Hooks : count[g] \in Int
  BY DEF LockTyped
<1>6. Bounded' <=> file' <= m1 /\ shown' <= m1 /\ tally' <= n1 /\ \A g \in Hooks : count'[g] <= m1
  BY DEF Bounded, Unread, Unwritten
<1> HIDE DEF m, n, m1, n1
<1> QED  BY <1>1, <1>2, <1>3, <1>4, <1>5, <1>6

LEMMA NextBounded ==
    ASSUME LockTyped, Bounded, [CounterNext]_counterVars
    PROVE  Bounded'
<1>1. ASSUME UNCHANGED <<pc, file, count, shown, tally>> PROVE Bounded'
  BY <1>1 DEF Bounded, Started
<1>2. CASE PassSecond
  BY <1>1, <1>2 DEF PassSecond, history
<1>3. ASSUME NEW h \in Hooks,
             \/ Launch(h) \/ Acquire(h) \/ BreakLock(h) \/ RetryOnce(h)
             \/ Report(h) \/ CleanUp(h) \/ ExitTrap(h) \/ Terminate(h) \/ Kill(h)
      PROVE  Bounded'
  <2>1. PICK step \in Steps \ {"unborn", "write"} :
               /\ Goto(h, step)
               /\ step \in Unread => pc[h] \in Unread
               /\ step \in Unwritten => pc[h] \in Unwritten
    BY <1>3 DEF Launch, Acquire, BreakLock, RetryOnce, Report, CleanUp, ExitTrap, Terminate, Kill,
                End, Unread, Unwritten, Steps
  <2>2. /\ file' \in {file, NoFile, count[h]} /\ shown' \in {shown, count[h]} /\ tally' = tally
    BY <1>3 DEF Launch, Acquire, BreakLock, RetryOnce, Report, CleanUp, ExitTrap, Terminate, Kill, history
  <2>3. count' = count \/ count' = [count EXCEPT ![h] = 0]
    BY <1>3 DEF Launch, Acquire, BreakLock, RetryOnce, Report, CleanUp, ExitTrap, Terminate, Kill, End
  <2>4. \A g \in Hooks : count'[g] \in {count[g], 0}
    BY <2>3 DEF LockTyped
  <2> HIDE DEF Unread, Unwritten
  <2> QED  BY <2>1, <2>2, <2>4, GrowsBounded
<1>4. ASSUME NEW h \in Hooks, Read(h) \/ WriteCount(h) PROVE Bounded'
  BY <1>4, ReadBounded, WriteBounded
<1>5. ASSUME NEW h \in Hooks, OrphanMkdir(h) PROVE Bounded'
  BY <1>1, <1>5 DEF OrphanMkdir
<1>6. CASE UNCHANGED counterVars
  BY <1>1, <1>6 DEF counterVars, history
<1> QED
  BY <1>2, <1>3, <1>4, <1>5, <1>6 DEF CounterNext, Step, Signal
-----------------------------------------------------------------------------
(* A subagent is counted from the moment its start hook has written the    *)
(* file to the moment its stop hook has, as long as no hook ended early.   *)
Wrote(h) == pc[h] \in {"report", "clean", "exit", "done"}

Running == {s \in Subagents : Wrote(<<s, "start">>) /\ ~Wrote(<<s, "stop">>)}

(* What Running will be when h has written. *)
With(h) == IF h[2] = "start" THEN Running \cup {h[1]} ELSE Running \ {h[1]}

NobodyEnded == \A h \in Hooks : pc[h] \notin Ceased

(* Then the one counter is the number of subagents that run, a 0 in the    *)
(* file is about to be removed, and the lock is that of one in the section.*)
Regular ==
    /\ tally = Cardinality(Running)
    /\ told \/ \E h \in Hooks : pc[h] = "report"
    /\ lock => \E h \in Hooks : InSection(h)
    /\ \A h \in Hooks : pc[h] # "broken"
    /\ (\A h \in Hooks : pc[h] \notin {"report", "clean"}) => file # 0
    /\ \A s \in Subagents : pc[<<s, "stop">>] # "unborn" => pc[<<s, "start">>] = "done"

CountInv ==
    /\ LockTyped /\ Exclusive /\ Atomic /\ Bounded
    /\ NobodyEnded /\ ~robbed => Regular

LEMMA RunningCounted ==
    /\ IsFiniteSet(Running)
    /\ Cardinality(Running) \in 0 .. Cardinality(Subagents)
  BY CountedFinite DEF Running

(* A step of h to a place that counts the same subagents. *)
LEMMA SameRunning ==
    ASSUME LockTyped, NEW h \in Hooks, NEW step, Goto(h, step),
           pc[h] \in {"report", "clean", "exit", "done"} <=> step \in {"report", "clean", "exit", "done"}
    PROVE  Running' = Running
<1>1. \A g \in Hooks : pc'[g] = IF g = h THEN step ELSE pc[g]
  BY OnlyMoves
<1>2. \A g \in Hooks : Wrote(g)' <=> Wrote(g)
  BY <1>1 DEF Wrote
<1>3. \A s \in Subagents : <<s, "start">> \in Hooks /\ <<s, "stop">> \in Hooks
  BY DEF Hooks
<1> QED  BY <1>2, <1>3 DEF Running

(* A stop hook in the section stops a subagent that is counted, a start    *)
(* hook one that is not, and has not been stopped.                         *)
LEMMA SubjectOf ==
    ASSUME LockTyped, Regular, NEW h \in Hooks, pc[h] \in {"read", "write"}
    PROVE  h[2] = "stop" <=> h[1] \in Running
<1>1. h[1] \in Subagents /\ h = <<h[1], h[2]>> /\ h[2] \in {"start", "stop"}
  BY HookParts
<1>2. CASE h[2] = "stop"
  <2>1. h = <<h[1], "stop">>
    BY <1>1, <1>2
  <2>2. pc[<<h[1], "start">>] = "done" /\ ~Wrote(<<h[1], "stop">>)
    BY <1>1, <2>1 DEF Regular, Wrote
  <2> QED  BY <1>1, <1>2, <2>2 DEF Running, Wrote
<1>3. CASE h[2] = "start"
  <2>1. h = <<h[1], "start">>
    BY <1>1, <1>3
  <2> QED  BY <1>3, <2>1 DEF Running, Wrote
<1> QED  BY <1>1, <1>2, <1>3

(* The stop of a subagent is not launched before its start is done, and    *)
(* neither goes back.                                                      *)
LEMMA StopsAfterStarts ==
    ASSUME LockTyped, Regular, NEW h \in Hooks, NEW step, Goto(h, step),
           step # "unborn", pc[h] # "done",
           pc[h] = "unborn" => (h[2] = "stop" => pc[<<h[1], "start">>] = "done"),
           NEW t \in Subagents, pc'[<<t, "stop">>] # "unborn"
    PROVE  pc'[<<t, "start">>] = "done"
<1>1. \A g \in Hooks : pc'[g] = IF g = h THEN step ELSE pc[g]
  BY OnlyMoves
<1>2. <<t, "start">> \in Hooks /\ <<t, "stop">> \in Hooks
  BY DEF Hooks
<1>3. CASE h = <<t, "start">>
  BY <1>1, <1>2, <1>3 DEF Regular
<1>4. CASE h = <<t, "stop">>
  <2>1. h[2] = "stop" /\ h[1] = t
    BY <1>4
  <2> QED  BY <1>1, <1>2, <1>4, <2>1 DEF Regular
<1>5. CASE h # <<t, "start">> /\ h # <<t, "stop">>
  BY <1>1, <1>2, <1>5 DEF Regular
<1> QED  BY <1>3, <1>4, <1>5

LEMMA WriteCountsRunning ==
    ASSUME LockTyped, Regular, NEW h \in Hooks, pc[h] = "write", Goto(h, "report")
    PROVE  Cardinality(Running') = Counting(h, tally)
<1>1. \A g \in Hooks : pc'[g] = IF g = h THEN "report" ELSE pc[g]
  BY OnlyMoves
<1>2. h[1] \in Subagents /\ h = <<h[1], h[2]>> /\ h[2] \in {"start", "stop"}
      /\ (h[2] = "stop" <=> h[1] \in Running)
  BY HookParts, SubjectOf
<1>3. \A t \in Subagents : <<t, "start">> \in Hooks /\ <<t, "stop">> \in Hooks
  BY DEF Hooks
<1>4. tally = Cardinality(Running) /\ IsFiniteSet(Running) /\ Cardinality(Running) \in Nat
  BY RunningCounted, StartedCounted DEF Regular
<1>5. CASE h[2] = "stop"
  <2>1. h = <<h[1], "stop">>
    BY <1>2, <1>5
  <2>2. \A t \in Subagents : /\ Wrote(<<t, "start">>)' <=> Wrote(<<t, "start">>)
                             /\ Wrote(<<t, "stop">>)' <=> (t = h[1] \/ Wrote(<<t, "stop">>))
    <3>1. SUFFICES ASSUME NEW t \in Subagents
                   PROVE  /\ pc'[<<t, "start">>] = pc[<<t, "start">>]
                          /\ t = h[1] => pc'[<<t, "stop">>] = "report"
                          /\ t # h[1] => pc'[<<t, "stop">>] = pc[<<t, "stop">>]
      BY DEF Wrote
    <3>2. <<t, "start">> # h /\ (t = h[1] <=> <<t, "stop">> = h)
      BY <2>1
    <3> QED  BY <1>1, <1>3, <3>2
  <2>3. Running' = Running \ {h[1]}
    BY <2>2 DEF Running
  <2>4. Cardinality(Running \ {h[1]}) = Cardinality(Running) - 1
    BY <1>2, <1>4, <1>5, FS_RemoveElement
  <2>5. Cardinality(Running) > 0
    BY <1>2, <1>4, <1>5, FS_EmptySet
  <2> QED  BY <1>4, <1>5, <2>3, <2>4, <2>5 DEF Counting
<1>6. CASE h[2] = "start"
  <2>1. h = <<h[1], "start">>
    BY <1>2, <1>6
  <2>2. \A t \in Subagents : /\ Wrote(<<t, "start">>)' <=> (t = h[1] \/ Wrote(<<t, "start">>))
                             /\ Wrote(<<t, "stop">>)' <=> Wrote(<<t, "stop">>)
    <3>1. SUFFICES ASSUME NEW t \in Subagents
                   PROVE  /\ pc'[<<t, "stop">>] = pc[<<t, "stop">>]
                          /\ t = h[1] => pc'[<<t, "start">>] = "report"
                          /\ t # h[1] => pc'[<<t, "start">>] = pc[<<t, "start">>]
      BY DEF Wrote
    <3>2. <<t, "stop">> # h /\ (t = h[1] <=> <<t, "start">> = h)
      BY <2>1
    <3> QED  BY <1>1, <1>3, <3>2
  <2>3. ~Wrote(<<h[1], "stop">>)
    BY <1>2, <2>1 DEF Regular, Wrote
  <2>4. Running' = Running \cup {h[1]}
    BY <1>2, <2>2, <2>3 DEF Running
  <2>5. Cardinality(Running \cup {h[1]}) = Cardinality(Running) + 1
    BY <1>2, <1>4, <1>6, FS_AddElement
  <2> QED  BY <1>4, <1>6, <2>4, <2>5 DEF Counting
<1> QED  BY <1>2, <1>5, <1>6

(* A step of h that counts nothing and changes no more than h's place.     *)
LEMMA PlaceRegular ==
    ASSUME LockTyped, Regular, NEW h \in Hooks,
           pc[h] \notin {"report", "clean", "done"},
           NEW step, Goto(h, step), step \notin {"unborn", "broken", "report", "clean", "exit"},
           pc[h] = "exit" <=> step = "done",
           pc[h] = "unborn" => (h[2] = "stop" => pc[<<h[1], "start">>] = "done"),
           UNCHANGED <<file, tally, told>>,
           lock' => \E g \in Hooks : InSection(g)'
    PROVE  Regular'
<1>1. \A g \in Hooks : pc'[g] = IF g = h THEN step ELSE pc[g]
  BY OnlyMoves
<1>2. Running' = Running
  BY SameRunning
<1>3. \A t \in Subagents : pc'[<<t, "stop">>] # "unborn" => pc'[<<t, "start">>] = "done"
  BY StopsAfterStarts
<1>4. \A g \in Hooks : \A place \in {"report", "clean"} : pc'[g] = place <=> pc[g] = place
  BY <1>1
<1>5. \A g \in Hooks : pc'[g] # "broken"
  BY <1>1 DEF Regular
<1> QED  BY <1>2, <1>3, <1>4, <1>5 DEF Regular

(* The places no hook comes back from.                                     *)
LEMMA EndedStays ==
    ASSUME LockTyped, [CounterNext]_counterVars, NobodyEnded', ~robbed'
    PROVE  NobodyEnded /\ ~robbed
<1>1. ~robbed
  BY RemoveLockRobs
     DEF CounterNext, Step, Signal, counterVars, history, PassSecond, Launch, Acquire, BreakLock, RetryOnce,
         Read, WriteCount, Report, CleanUp, ExitTrap, Terminate, Kill, OrphanMkdir
<1>2. ASSUME NEW h \in Hooks, NEW step, Goto(h, step), pc[h] \in Ceased => step \in Ceased
      PROVE  NobodyEnded
  <2>1. \A g \in Hooks : pc'[g] = IF g = h THEN step ELSE pc[g]
    BY <1>2, OnlyMoves
  <2> QED  BY <1>2, <2>1 DEF NobodyEnded
<1>3. ASSUME NEW h \in Hooks, Launch(h) \/ Step(h) \/ Terminate(h) \/ Kill(h) PROVE NobodyEnded
  <2>1. PICK step \in Steps : Goto(h, step) /\ (pc[h] \in Ceased => step \in Ceased)
    BY <1>3 DEF Launch, Step, Acquire, BreakLock, RetryOnce, Read, WriteCount, Report, CleanUp, ExitTrap,
                Terminate, Kill, End, Ceased, Steps
  <2> QED  BY <1>2, <2>1
<1>4. ASSUME pc' = pc PROVE NobodyEnded
  BY <1>4 DEF NobodyEnded
<1>5. CASE PassSecond \/ UNCHANGED counterVars \/ \E h \in Hooks : OrphanMkdir(h)
  BY <1>1, <1>4, <1>5 DEF PassSecond, counterVars, OrphanMkdir
<1> QED  BY <1>1, <1>3, <1>5 DEF CounterNext, Signal

LEMMA NextRegular ==
    ASSUME LockTyped, Exclusive, Atomic, Regular, NobodyEnded, ~robbed,
           [CounterNext]_counterVars, NobodyEnded', ~robbed'
    PROVE  Regular'
<1>1. ASSUME UNCHANGED <<pc, lock, file, tally, told>> PROVE Regular'
  BY <1>1 DEF Regular, Running, Wrote, InSection
<1>2. CASE PassSecond
  BY <1>1, <1>2 DEF PassSecond, history
<1>3. ASSUME NEW h \in Hooks, Launch(h) PROVE Regular'
  <2>1. pc[h] = "unborn" /\ Goto(h, "try") /\ UNCHANGED <<lock, file, tally, told>>
    BY <1>3 DEF Launch, history
  <2>2. \A g \in Hooks : InSection(g)' <=> InSection(g)
    BY <2>1, OnlyMoves DEF InSection
  <2>3. h[2] = "stop" => pc[<<h[1], "start">>] = "done"
    <3>1. h[1] \in Subagents /\ <<h[1], "start">> \in Hooks
      BY HookParts DEF Hooks
    <3> QED  BY <1>3, <3>1 DEF Launch, Over, NobodyEnded, Ceased
  <2> QED  BY <2>1, <2>2, <2>3, PlaceRegular DEF Regular
<1>4. ASSUME NEW h \in Hooks, Acquire(h) PROVE Regular'
  <2>1. pc[h] = "try" /\ Goto(h, "read") /\ UNCHANGED <<file, tally, told>>
    BY <1>4 DEF Acquire, history
  <2>2. InSection(h)'
    BY <2>1, OnlyMoves DEF InSection
  <2> QED  BY <2>1, <2>2, PlaceRegular
<1>5. ASSUME NEW h \in Hooks, BreakLock(h) PROVE FALSE
  <2>1. PICK g \in Hooks : InSection(g)
    BY <1>5 DEF BreakLock, Regular
  <2>2. g # h
    BY <1>5, <2>1 DEF BreakLock, InSection
  <2> QED  BY <1>5, <2>1, <2>2 DEF BreakLock, RemoveLock
<1>6. ASSUME NEW h \in Hooks, RetryOnce(h) PROVE FALSE
  BY <1>6 DEF RetryOnce, Regular
<1>7. ASSUME NEW h \in Hooks, Read(h) PROVE Regular'
  <2>1. pc[h] = "read" /\ Goto(h, "write") /\ UNCHANGED <<file, tally, told>>
    BY <1>7 DEF Read, history
  <2>2. InSection(h)'
    BY <2>1, OnlyMoves DEF InSection
  <2> QED  BY <2>1, <2>2, PlaceRegular
<1>8. ASSUME NEW h \in Hooks, WriteCount(h) PROVE Regular'
  <2>1. pc[h] = "write" /\ Goto(h, "report") /\ tally' = Counting(h, tally)
    BY <1>8 DEF WriteCount
  <2>2. \A g \in Hooks : pc'[g] = IF g = h THEN "report" ELSE pc[g]
    BY <2>1, OnlyMoves
  <2>3. tally' = Cardinality(Running')
    BY <2>1, WriteCountsRunning
  <2>4. \A t \in Subagents : pc'[<<t, "stop">>] # "unborn" => pc'[<<t, "start">>] = "done"
    BY <2>1, StopsAfterStarts
  <2>5. InSection(h)' /\ pc'[h] = "report"
    BY <2>2 DEF InSection
  <2>6. \A g \in Hooks : pc'[g] # "broken"
    BY <2>2 DEF Regular
  <2> QED  BY <2>3, <2>4, <2>5, <2>6 DEF Regular
<1>9. ASSUME NEW h \in Hooks, Report(h) \/ CleanUp(h) PROVE Regular'
  <2> DEFINE step == IF pc[h] = "report" /\ h[2] = "stop" THEN "clean" ELSE "exit"
  <2>1. pc[h] \in {"report", "clean"} /\ Goto(h, step) /\ tally' = tally
    BY <1>9 DEF Report, CleanUp, history
  <2>2. \A g \in Hooks : pc'[g] = IF g = h THEN step ELSE pc[g]
    BY <2>1, OnlyMoves
  <2>3. Running' = Running
    BY <2>1, SameRunning
  <2>4. \A t \in Subagents : pc'[<<t, "stop">>] # "unborn" => pc'[<<t, "start">>] = "done"
    BY <2>1, StopsAfterStarts
  <2>5. InSection(h)' /\ \A g \in Hooks : pc'[g] # "broken"
    BY <2>2 DEF InSection, Regular
  <2>6. \A g \in Hooks \ {h} : pc[g] \notin {"read", "write", "report", "clean", "exit"}
    BY <2>1, AloneInSection DEF InSection
  <2>7. told'
    <3>1. CASE Report(h)
      BY <3>1 DEF Report
    <3>2. CASE CleanUp(h)
      BY <2>6, <3>2 DEF Regular, CleanUp, history
    <3> QED  BY <1>9, <3>1, <3>2
  <2>8. InFile = tally /\ count[h] = tally /\ tally = Cardinality(Running)
    BY <2>1 DEF Atomic, Regular
  <2>9. step = "exit" => file' # 0
    <3>1. CASE CleanUp(h)
      BY <2>8, <3>1 DEF CleanUp, InFile, NoFile
    <3>2. CASE Report(h) /\ h[2] # "stop"
      <4>1. h[1] \in Subagents /\ h = <<h[1], "start">> /\ pc[h] = "report"
        BY <3>2, HookParts DEF Report
      <4>2. h[1] \in Running
        BY <4>1 DEF Regular, Running, Wrote
      <4>3. Cardinality(Running) # 0
        BY <4>2, RunningCounted, FS_EmptySet
      <4> QED  BY <2>8, <3>2, <4>3 DEF InFile, Report
    <3>3. CASE Report(h) /\ h[2] = "stop"
      BY <3>3 DEF Report
    <3> QED  BY <1>9, <3>1, <3>2, <3>3
  <2>10. (\A g \in Hooks : pc'[g] \notin {"report", "clean"}) => file' # 0
    BY <2>2, <2>9
  <2>11. tally' = Cardinality(Running')
    BY <2>1, <2>3, <2>8
  <2> QED  BY <2>4, <2>5, <2>7, <2>10, <2>11 DEF Regular
<1>10. ASSUME NEW h \in Hooks, ExitTrap(h) PROVE Regular'
  <2>1. pc[h] = "exit"
    BY <1>10 DEF ExitTrap, NobodyEnded, Ceased
  <2>2. Goto(h, "done") /\ UNCHANGED <<file, tally, told>> /\ lock' = FALSE
    BY <1>10, <2>1 DEF ExitTrap, End, RemoveLock
  <2> QED  BY <2>1, <2>2, PlaceRegular
<1>11. ASSUME NEW h \in Hooks, Terminate(h) \/ Kill(h) PROVE FALSE
  <2>1. PICK step \in Ceased : Goto(h, step)
    BY <1>11 DEF Terminate, Kill, End, Ceased
  <2>2. pc'[h] = step
    BY <2>1, OnlyMoves
  <2> QED  BY <2>1, <2>2 DEF NobodyEnded
<1>12. ASSUME NEW h \in Hooks, OrphanMkdir(h) PROVE FALSE
  BY <1>12 DEF OrphanMkdir, LockTyped, NobodyEnded
<1>13. CASE UNCHANGED counterVars
  BY <1>1, <1>13 DEF counterVars, history
<1> QED
  BY <1>2, <1>3, <1>4, <1>5, <1>6, <1>7, <1>8, <1>9, <1>10, <1>11, <1>12, <1>13
     DEF CounterNext, Step, Signal

LEMMA InitCount == CounterInit => CountInv
<1> SUFFICES ASSUME CounterInit PROVE CountInv
  OBVIOUS
<1>1. LockTyped /\ Exclusive
  BY InitLock
<1>2. \A h \in Hooks : pc[h] = "unborn" /\ count[h] = 0
  BY DEF CounterInit
<1>3. \A s \in Subagents : <<s, "start">> \in Hooks /\ <<s, "stop">> \in Hooks
  BY DEF Hooks
<1>4. file = NoFile /\ shown = 0 /\ tally = 0 /\ told /\ ~lock
  BY DEF CounterInit
<1>5. Atomic
  BY <1>2, <1>4 DEF Atomic, InFile
<1>6. Bounded
  <2>1. Cardinality(Started(Unread)) \in Nat /\ Cardinality(Started(Unwritten)) \in Nat
    BY StartedCounted
  <2> QED  BY <1>2, <1>4, <2>1 DEF Bounded, NoFile
<1>7. Running = {}
  BY <1>2, <1>3 DEF Running, Wrote
<1>8. Regular
  BY <1>2, <1>3, <1>4, <1>7, FS_EmptySet DEF Regular, NoFile
<1> QED  BY <1>1, <1>5, <1>6, <1>8 DEF CountInv

LEMMA NextCountInv == CountInv /\ LockOwned /\ [CounterNext]_counterVars => CountInv'
<1> SUFFICES ASSUME CountInv, LockOwned, [CounterNext]_counterVars PROVE CountInv'
  OBVIOUS
<1>1. LockTyped' /\ Exclusive' /\ Atomic' /\ Bounded'
  BY NextTyped, NextLock, NextAtomic, NextBounded DEF CountInv
<1>2. ASSUME NobodyEnded', ~robbed' PROVE Regular'
  BY <1>2, EndedStays, NextRegular DEF CountInv
<1> QED  BY <1>1, <1>2 DEF CountInv

(* The hooks that are through, counted by kind, differ by the subagents    *)
(* that run.                                                               *)
LEMMA CountedDone ==
    ASSUME Regular, AllCounted
    PROVE  Counted("start") - Counted("stop") = Cardinality(Running)
<1> DEFINE Done(kind) == {s \in Subagents : pc[<<s, kind>>] = "done"}
<1>1. ASSUME NEW kind \in {"start", "stop"}
      PROVE  IsFiniteSet(Done(kind)) /\ Cardinality(Done(kind)) \in Nat
             /\ Counted(kind) = Cardinality(Done(kind))
  <2> DEFINE S == Done(kind)
             T == {h \in Hooks : h[2] = kind /\ pc[h] = "done"}
             f == [s \in S |-> <<s, kind>>]
  <2>1. IsFiniteSet(S) /\ Cardinality(S) \in Nat
    <3>1. S \in SUBSET Subagents
      OBVIOUS
    <3>2. IsFiniteSet(S)
      BY <3>1, CountedFinite
    <3> QED  BY <3>2, FS_CardinalityType
  <2>2. \A s \in S : f[s] \in T
    BY DEF Hooks
  <2>3. \A s, t \in S : f[s] = f[t] => s = t
    OBVIOUS
  <2>4. ASSUME NEW h \in T PROVE \E s \in S : f[s] = h
    <3>1. h[1] \in Subagents /\ h = <<h[1], kind>> /\ pc[h] = "done"
      BY HookParts
    <3>2. h[1] \in S
      BY <3>1
    <3>3. f[h[1]] = h
      BY <3>1, <3>2
    <3> QED  BY <3>2, <3>3
  <2>5. f \in Bijection(S, T)
    <3>1. f \in [S -> T]
      BY <2>2
    <3> HIDE DEF S, T, f
    <3> QED  BY <2>3, <2>4, <3>1 DEF Bijection, Injection, IsInjective, Surjection
  <2>6. ExistsBijection(S, T)
    BY <2>5 DEF ExistsBijection
  <2>7. Cardinality(T) = Cardinality(S)
    <3> HIDE DEF S, T
    <3> QED  BY <2>1, <2>6, FS_Bijection
  <2> QED  BY <2>1, <2>7 DEF Counted
<1>2. \A h \in Hooks : Wrote(h) <=> pc[h] = "done"
  BY DEF AllCounted, Wrote
<1>3. Done("stop") \subseteq Done("start") /\ Running = Done("start") \ Done("stop")
  <2>1. \A s \in Subagents : <<s, "start">> \in Hooks /\ <<s, "stop">> \in Hooks
    BY DEF Hooks
  <2>2. \A s \in Subagents : pc[<<s, "stop">>] = "done" => pc[<<s, "start">>] = "done"
    BY DEF Regular
  <2> QED  BY <1>2, <2>1, <2>2 DEF Running
<1>4. Cardinality(Done("start")) = Cardinality(Running) + Cardinality(Done("stop"))
  <2> DEFINE A == Done("start")
             B == Done("stop")
  <2>1. IsFiniteSet(B) /\ IsFiniteSet(Running) /\ Cardinality(B) \in Nat /\ Cardinality(Running) \in Nat
    BY <1>1, RunningCounted, StartedCounted
  <2>2. A = Running \cup B /\ Running \cap B = {}
    BY <1>3
  <2> HIDE DEF A, B
  <2>3. Cardinality(Running \cup B) = Cardinality(Running) + Cardinality(B) - Cardinality(Running \cap B)
    BY <2>1, FS_Union
  <2>4. Cardinality(Running \cap B) = 0
    BY <2>2, FS_EmptySet
  <2>5. Cardinality(A) = Cardinality(Running) + Cardinality(B)
    BY <2>1, <2>2, <2>3, <2>4
  <2> QED  BY <2>5 DEF A, B
<1>5. Cardinality(Running) \in Nat
  BY RunningCounted, StartedCounted
<1> HIDE DEF Done
<1> QED  BY <1>1, <1>4, <1>5

LEMMA CountInvIsExact == CountInv => CountIsExact
<1> SUFFICES ASSUME CountInv PROVE CountIsExact
  OBVIOUS
<1> DEFINE m == Cardinality(Started(Unread))
           all == Cardinality(Subagents)
<1>1. CounterTypeOK
  <2>1. m \in Nat /\ all \in Nat /\ m <= all
    <3>1. m \in 0 .. all /\ all \in Nat
      BY StartedCounted
    <3> HIDE DEF m, all
    <3> QED  BY <3>1
  <2>2. file <= m /\ shown <= m /\ \A h \in Hooks : count[h] <= m
    BY DEF CountInv, Bounded
  <2>3. file \in {NoFile} \cup Nat /\ shown \in Nat /\ count \in [Hooks -> Nat]
    BY DEF CountInv, LockTyped
  <2>4. file \in {NoFile} \cup (0 .. all) /\ shown \in 0 .. all /\ count \in [Hooks -> 0 .. all]
    <3> HIDE DEF m, all
    <3> QED  BY <2>1, <2>2, <2>3
  <2> QED  BY <2>4 DEF CounterTypeOK, CountInv, LockTyped
<1>2. ASSUME ~robbed PROVE InFile = tally /\ (told => shown = tally)
  BY <1>2 DEF CountInv, Atomic
<1>3. ASSUME ~robbed, AllCounted
      PROVE  LET running == Counted("start") - Counted("stop")
             IN file = (IF running = 0 THEN NoFile ELSE running) /\ shown = running
  <2>1. Regular
    BY <1>3 DEF CountInv, NobodyEnded, AllCounted, Ceased
  <2>2. \A h \in Hooks : pc[h] \notin {"report", "clean"}
    BY <1>3 DEF AllCounted
  <2>3. told /\ file # 0 /\ tally = Cardinality(Running)
    BY <2>1, <2>2 DEF Regular
  <2>4. Counted("start") - Counted("stop") = tally
    BY <1>3, <2>1, <2>3, CountedDone
  <2>5. InFile = tally /\ shown = tally
    BY <1>2, <1>3, <2>3
  <2> QED  BY <2>3, <2>4, <2>5 DEF InFile
<1> QED  BY <1>1, <1>2, <1>3 DEF CountIsExact

(* Whatever start and stop hooks run together, wait, break locks, time out *)
(* or are killed, the count stays within the number of subagents; the file *)
(* follows the one counter until a lock is removed under a live hook; and  *)
(* it is the number that run when every hook has counted                   *)
(* (on-subagent-start.sh and on-subagent-stop.sh).                         *)
THEOREM CountStaysExact == CounterSpec => []CountIsExact
<1>1. CountInv /\ LockOwned /\ [CounterNext]_counterVars => CountInv' /\ LockOwned'
  <2>1. LockTyped /\ Exclusive /\ LockOwned /\ [CounterNext]_counterVars => LockOwned'
    BY NextLock
  <2>2. CountInv => LockTyped /\ Exclusive
    BY DEF CountInv
  <2> QED  BY <2>1, <2>2, NextCountInv
<1> QED  BY InitLock, InitCount, <1>1, CountInvIsExact, PTL DEF CounterSpec

=============================================================================

---------------------- MODULE PaneNotifications_proofs ----------------------
(* Proofs about PaneNotifications, for any panes, tabs, windows and        *)
(* workspaces, any initial layout and any bounds.                          *)
EXTENDS PaneNotifications, FiniteSetTheorems, SequenceTheorems, TLAPS

(* The lemmas about the store's list and about one window's tabs.          *)
Listed == INSTANCE NotificationStore_proofs WITH store <- m.store
Tabbed == INSTANCE WindowTabs_proofs WITH
              TabIds <- Tabs, window <- Win!EmptyWindow, switch_to_last <- FALSE

Notifications == Notes!Notifications

Stores ==
    [notifications       : Seq(Notifications),
     unread_by_pane      : [Panes -> Nat],
     unread_by_workspace : [Workspaces -> Nat]]

(* No record repeats the one of its pane before it. *)
Differ(log) == Listed!Differ(log)

LEMMA Capacity == MaxNotifications \in Nat \ {0}
BY LayoutAssumption

LEMMA SameNotifications ==
    /\ Listed!Notifications = Notifications
    /\ \A log, p, text : Listed!IsDuplicate(log, p, text) <=> Notes!IsDuplicate(log, p, text)
BY DEF Notifications, Notes!Notifications, Listed!Notifications, Notes!IsDuplicate, Listed!IsDuplicate

LEMMA SubIsLess ==
    ASSUME NEW a \in Nat, NEW b \in Nat
    PROVE  Notes!SaturatingSub(a, b) \in Nat /\ Notes!SaturatingSub(a, b) <= a
BY DEF Notes!SaturatingSub

(* Two neighbours in the list differ in their pane or in their text.       *)
LEMMA NeighboursDiffer ==
    ASSUME NEW log, Differ(log), NEW i \in Nat, i \in DOMAIN log, i + 1 \in DOMAIN log,
           log[i].pane = log[i + 1].pane
    PROVE  log[i].text # log[i + 1].text
<1>1. i < i + 1 /\ \A k \in (i + 1) .. ((i + 1) - 1) : FALSE
  OBVIOUS
<1> QED  BY <1>1 DEF Differ, Listed!Differ

-----------------------------------------------------------------------------
(* A record added to the store.                                            *)

(* What push_front makes of the store. *)
LEMMA PushFrontDoes ==
    ASSUME NEW st \in Stores, Differ(st.notifications), NEW n \in Notifications,
           ~Notes!IsDuplicate(st.notifications, n.pane, n.text), NEW r, r = Notes!PushFront(st, n)
    PROVE  /\ r \in Stores /\ Differ(r.notifications)
           /\ Len(r.notifications) = Len(st.notifications) + 1
           /\ r.notifications[1] = n
           /\ \A i \in 2 .. Len(r.notifications) : r.notifications[i] = st.notifications[i - 1]
           /\ \A p \in Panes : r.unread_by_pane[p] <= st.unread_by_pane[p] \/ (p = n.pane /\ n.unread)
<1> DEFINE log == st.notifications
<1>1. log \in Seq(Notifications) /\ Len(log) \in Nat
  BY LenProperties DEF Stores
<1>2. n \in Listed!Notifications /\ log \in Seq(Listed!Notifications)
  BY <1>1, SameNotifications
<1>3. <<n>> \o log \in Seq(Notifications) /\ Differ(<<n>> \o log)
  BY <1>2, Capacity, SameNotifications, Listed!PushFrontDiffers DEF Differ
<1>4. /\ Len(<<n>> \o log) = Len(log) + 1 /\ (<<n>> \o log)[1] = n
      /\ \A i \in 2 .. (Len(log) + 1) : (<<n>> \o log)[i] = log[i - 1]
  BY <1>1, Capacity, Listed!PushFrontFacts
<1>5. n.pane \in Panes /\ n.workspace \in Workspaces /\ n.unread \in BOOLEAN
  BY DEF Notifications, Notes!Notifications
<1>6. /\ r.notifications = <<n>> \o log
      /\ r.unread_by_pane = [st.unread_by_pane EXCEPT ![n.pane] = IF n.unread THEN @ + 1 ELSE @]
      /\ r.unread_by_workspace = [st.unread_by_workspace EXCEPT ![n.workspace] = IF n.unread THEN @ + 1 ELSE @]
      /\ r = [notifications |-> r.notifications, unread_by_pane |-> r.unread_by_pane,
              unread_by_workspace |-> r.unread_by_workspace]
  BY DEF Notes!PushFront
<1>7. /\ r.unread_by_pane \in [Panes -> Nat]
      /\ \A p \in Panes : r.unread_by_pane[p] <= st.unread_by_pane[p] \/ (p = n.pane /\ n.unread)
  BY <1>5, <1>6 DEF Stores
<1>8. r.unread_by_workspace \in [Workspaces -> Nat]
  BY <1>5, <1>6 DEF Stores
<1> HIDE DEF log
<1>9. r \in Stores
  BY <1>3, <1>6, <1>7, <1>8 DEF Stores
<1> QED  BY <1>3, <1>4, <1>6, <1>7, <1>9 DEF log

(* What pop_back makes of it.                                              *)
LEMMA PopBackDoes ==
    ASSUME NEW st \in Stores, Differ(st.notifications), Len(st.notifications) > 0,
           NEW r, r = Notes!PopBack(st)
    PROVE  /\ r \in Stores /\ Differ(r.notifications)
           /\ Len(r.notifications) = Len(st.notifications) - 1
           /\ \A i \in 1 .. Len(r.notifications) : r.notifications[i] = st.notifications[i]
           /\ \A p \in Panes : r.unread_by_pane[p] <= st.unread_by_pane[p]
<1> DEFINE log == st.notifications
           evicted == log[Len(log)]
           less == IF evicted.unread THEN 1 ELSE 0
           cut == SubSeq(log, 1, Len(log) - 1)
<1>1. log \in Seq(Notifications) /\ Len(log) \in Nat
  BY LenProperties DEF Stores
<1>2. \A i \in 1 .. Len(log) : log[i] \in Notifications
  BY <1>1, ElementOfSeq
<1>3. cut \in Seq(Notifications) /\ Differ(cut)
  BY <1>1, Capacity, SameNotifications, Listed!PopBackDiffers DEF Differ
<1>4. Len(cut) = Len(log) - 1 /\ \A i \in 1 .. (Len(log) - 1) : cut[i] = log[i]
  BY <1>1, <1>2, SubSeqProperties
<1>5. evicted.pane \in Panes /\ evicted.workspace \in Workspaces /\ less \in Nat
  BY <1>1, <1>2 DEF Notifications, Notes!Notifications
<1>6. /\ r.notifications = cut
      /\ r.unread_by_pane = [st.unread_by_pane EXCEPT ![evicted.pane] = Notes!SaturatingSub(@, less)]
      /\ r.unread_by_workspace =
            [st.unread_by_workspace EXCEPT ![evicted.workspace] = Notes!SaturatingSub(@, less)]
      /\ r = [notifications |-> r.notifications, unread_by_pane |-> r.unread_by_pane,
              unread_by_workspace |-> r.unread_by_workspace]
  BY DEF Notes!PopBack
<1> HIDE DEF evicted, less, cut
<1>7. /\ r.unread_by_pane \in [Panes -> Nat]
      /\ \A p \in Panes : r.unread_by_pane[p] <= st.unread_by_pane[p]
  BY <1>5, <1>6, SubIsLess DEF Stores
<1>8. r.unread_by_workspace \in [Workspaces -> Nat]
  BY <1>5, <1>6, SubIsLess DEF Stores
<1> HIDE DEF log
<1>9. r \in Stores
  BY <1>3, <1>6, <1>7, <1>8 DEF Stores
<1> QED  BY <1>1, <1>3, <1>4, <1>6, <1>7, <1>9 DEF log

(* What a step makes of the list it finds: no record of it is now read,    *)
(* and nothing else.                                                       *)
NoneRead(old, new) ==
    \A i \in DOMAIN old : ~(old[i].unread /\ new[i] = [old[i] EXCEPT !.unread = FALSE])

(* A call of add_notification: it files one record or none, and although   *)
(* the records move down the list, none is where a read copy of it was.    *)
LEMMA AddDoes ==
    ASSUME NEW st \in Stores, Differ(st.notifications), NEW p \in Panes, NEW w \in Workspaces,
           NEW text \in Texts, NEW unread \in BOOLEAN,
           NEW r, r = Notes!AddNotification(st, p, w, text, unread)
    PROVE  /\ r \in Stores /\ Differ(r.notifications)
           /\ \A q \in Panes : r.unread_by_pane[q] <= st.unread_by_pane[q] \/ (q = p /\ unread)
           /\ \A i \in DOMAIN r.notifications :
                \/ r.notifications[i].pane = p /\ r.notifications[i].workspace = w
                \/ \E j \in DOMAIN st.notifications : r.notifications[i] = st.notifications[j]
           /\ Len(r.notifications) = Len(st.notifications)
                => NoneRead(st.notifications, r.notifications)
<1> DEFINE log == st.notifications
           n == [pane |-> p, workspace |-> w, text |-> text, unread |-> unread]
           pushed == Notes!PushFront(st, n)
<1>1. /\ log \in Seq(Notifications) /\ Len(log) \in Nat /\ DOMAIN log = 1 .. Len(log)
      /\ \A i \in DOMAIN log : log[i] \in Notifications
  BY LenProperties, ElementOfSeq DEF Stores
<1>2. \A i \in DOMAIN log : log[i].unread => log[i] # [log[i] EXCEPT !.unread = FALSE]
  BY <1>1 DEF Notifications, Notes!Notifications
<1>3. n \in Notifications /\ n.pane = p /\ n.text = text /\ n.workspace = w /\ n.unread = unread
  BY DEF Notifications, Notes!Notifications
<1>4. CASE Notes!IsDuplicate(log, p, text)
  <2>1. r = st
    BY <1>4 DEF Notes!AddNotification
  <2>2. \A q \in Panes : r.unread_by_pane[q] <= st.unread_by_pane[q]
    BY <2>1 DEF Stores
  <2>3. NoneRead(log, r.notifications)
    BY <1>2, <2>1 DEF NoneRead
  <2> QED  BY <2>1, <2>2, <2>3
<1>5. CASE ~Notes!IsDuplicate(log, p, text)
  <2> HIDE DEF n
  <2>1. r = Notes!Evict(pushed)
    BY <1>5 DEF Notes!AddNotification, n
  <2> HIDE DEF log
  <2>2. /\ pushed \in Stores /\ Differ(pushed.notifications)
        /\ Len(pushed.notifications) = Len(log) + 1
        /\ pushed.notifications[1] = n
        /\ \A i \in 2 .. Len(pushed.notifications) : pushed.notifications[i] = log[i - 1]
        /\ \A q \in Panes : pushed.unread_by_pane[q] <= st.unread_by_pane[q] \/ (q = p /\ unread)
    BY <1>3, <1>5, PushFrontDoes DEF log
  <2> HIDE DEF pushed
  <2>3. DOMAIN pushed.notifications = 1 .. (Len(log) + 1)
    BY <1>1, <2>2, LenProperties DEF Stores
  <2>4. \A i \in DOMAIN pushed.notifications :
           pushed.notifications[i] = n \/ \E j \in DOMAIN log : pushed.notifications[i] = log[j]
    <3>1. \A i \in DOMAIN pushed.notifications : i = 1 \/ (i \in 2 .. Len(pushed.notifications) /\ i - 1 \in DOMAIN log)
      BY <1>1, <2>2, <2>3
    <3> QED  BY <2>2, <3>1
  <2>5. CASE Len(pushed.notifications) > MaxNotifications
    <3>1. r = Notes!PopBack(pushed)
      BY <2>1, <2>5 DEF Notes!Evict
    <3>2. Len(pushed.notifications) > 0
      BY <1>1, <2>2
    <3>3. /\ r \in Stores /\ Differ(r.notifications)
          /\ Len(r.notifications) = Len(pushed.notifications) - 1
          /\ \A i \in 1 .. Len(r.notifications) : r.notifications[i] = pushed.notifications[i]
          /\ \A q \in Panes : r.unread_by_pane[q] <= pushed.unread_by_pane[q]
      BY <2>2, <3>1, <3>2, PopBackDoes
    <3>4. DOMAIN r.notifications = 1 .. Len(log) /\ Len(r.notifications) = Len(log)
      BY <1>1, <2>2, <3>3, LenProperties DEF Stores
    <3>5. \A i \in DOMAIN r.notifications : i \in DOMAIN pushed.notifications /\ r.notifications[i] = pushed.notifications[i]
      BY <1>1, <2>3, <3>3, <3>4
    <3>6. \A q \in Panes : r.unread_by_pane[q] <= st.unread_by_pane[q] \/ (q = p /\ unread)
      <4>1. \A q \in Panes : /\ r.unread_by_pane[q] \in Nat /\ pushed.unread_by_pane[q] \in Nat
                             /\ st.unread_by_pane[q] \in Nat
        BY <2>2, <3>3 DEF Stores
      <4> QED  BY <2>2, <3>3, <4>1
    <3>7. NoneRead(log, r.notifications)
      <4> SUFFICES ASSUME NEW i \in DOMAIN log, log[i].unread,
                          r.notifications[i] = [log[i] EXCEPT !.unread = FALSE]
                   PROVE  FALSE
        BY DEF NoneRead
      <4>1. r.notifications[i].pane = log[i].pane /\ r.notifications[i].text = log[i].text
        BY <1>1 DEF Notifications, Notes!Notifications
      <4>2. CASE i = 1
        <5>1. r.notifications[1] = n
          BY <1>1, <2>2, <3>4, <3>5, <4>2
        <5>2. log[1].pane = p /\ log[1].text = text /\ 1 \in DOMAIN log
          BY <1>3, <4>1, <4>2, <5>1
        <5>3. \A j \in 1 .. (1 - 1) : FALSE
          OBVIOUS
        <5>4. Notes!IsDuplicate(log, p, text)
          BY <5>2, <5>3 DEF Notes!IsDuplicate
        <5> QED  BY <1>5, <5>4 DEF log
      <4>3. CASE i # 1
        <5>1. /\ i - 1 \in Nat /\ i - 1 \in DOMAIN log /\ (i - 1) + 1 = i
              /\ i \in DOMAIN r.notifications /\ i \in 2 .. Len(pushed.notifications)
          BY <1>1, <2>2, <3>4, <4>3
        <5>2. r.notifications[i] = log[i - 1]
          BY <2>2, <3>5, <5>1
        <5>3. log[i - 1].pane = log[(i - 1) + 1].pane /\ log[i - 1].text = log[(i - 1) + 1].text
          BY <4>1, <5>1, <5>2
        <5> QED  BY <5>1, <5>3, NeighboursDiffer DEF log
      <4> QED  BY <4>2, <4>3
    <3> QED  BY <1>3, <2>4, <3>3, <3>5, <3>6, <3>7 DEF log
  <2>6. CASE ~(Len(pushed.notifications) > MaxNotifications)
    <3>1. r = pushed
      BY <2>1, <2>6 DEF Notes!Evict
    <3>2. Len(r.notifications) # Len(log)
      BY <1>1, <2>2, <3>1
    <3> QED  BY <1>3, <2>2, <2>4, <3>1, <3>2 DEF log
  <2> QED  BY <2>5, <2>6
<1> QED  BY <1>4, <1>5

(* A call of mark_pane_read for each of some panes: the counts do not rise *)
(* and the list keeps its records, those of the panes read.                *)
LEMMA MarkDoes ==
    ASSUME NEW st \in Stores, NEW ps, NEW r, r = MarkPanesRead(st, ps)
    PROVE  /\ r \in Stores
           /\ DOMAIN r.notifications = DOMAIN st.notifications
           /\ \A i \in DOMAIN st.notifications :
                r.notifications[i] = IF st.notifications[i].pane \in ps
                                     THEN [st.notifications[i] EXCEPT !.unread = FALSE]
                                     ELSE st.notifications[i]
           /\ \A p \in Panes : r.unread_by_pane[p] <= st.unread_by_pane[p]
<1> DEFINE log == st.notifications
           Unread(qs, ws) == {i \in DOMAIN log : log[i].unread /\ log[i].pane \in qs /\ log[i].workspace \in ws}
           Less(count, qs, ws) == Notes!SaturatingSub(count, Cardinality(Unread(qs, ws)))
           read == [i \in DOMAIN log |->
                      IF log[i].pane \in ps THEN [log[i] EXCEPT !.unread = FALSE] ELSE log[i]]
<1>1. /\ log \in Seq(Notifications) /\ Len(log) \in Nat /\ DOMAIN log = 1 .. Len(log)
      /\ \A i \in DOMAIN log : log[i] \in Notifications
  BY LenProperties, ElementOfSeq DEF Stores
<1>2. \A qs, ws : Cardinality(Unread(qs, ws)) \in Nat
  <2> TAKE qs, ws
  <2>1. Unread(qs, ws) \in SUBSET (1 .. Len(log))
    BY <1>1
  <2> DEFINE S == Unread(qs, ws)
  <2>2. S \in SUBSET (1 .. Len(log))
    BY <2>1
  <2> HIDE DEF S, log
  <2>3. IsFiniteSet(1 .. Len(log))
    BY <1>1, FS_Interval
  <2>4. Cardinality(S) \in Nat
    BY <2>2, <2>3, FS_Subset, FS_CardinalityType
  <2> QED  BY <2>4 DEF S
<1> HIDE DEF Unread
<1>3. \A count \in Nat : \A qs, ws : Less(count, qs, ws) \in Nat /\ Less(count, qs, ws) <= count
  BY <1>2, SubIsLess
<1>4. /\ r.notifications = read
      /\ r.unread_by_pane = [p \in Panes |-> Less(st.unread_by_pane[p], ps \cap {p}, Workspaces)]
      /\ r.unread_by_workspace = [w \in Workspaces |-> Less(st.unread_by_workspace[w], ps, {w})]
      /\ r = [notifications |-> r.notifications, unread_by_pane |-> r.unread_by_pane,
              unread_by_workspace |-> r.unread_by_workspace]
  BY DEF MarkPanesRead, Unread
<1> HIDE DEF Less
<1>5. read \in Seq(Notifications)
  <2>1. \A i \in 1 .. Len(log) : read[i] \in Notifications
    BY <1>1 DEF Notifications, Notes!Notifications
  <2>2. read \in [1 .. Len(log) -> Notifications]
    BY <1>1, <2>1
  <2> HIDE DEF read, log
  <2> QED  BY <1>1, <2>2
<1>6. /\ r.unread_by_pane \in [Panes -> Nat]
      /\ \A p \in Panes : r.unread_by_pane[p] <= st.unread_by_pane[p]
  BY <1>3, <1>4 DEF Stores
<1>7. r.unread_by_workspace \in [Workspaces -> Nat]
  BY <1>3, <1>4 DEF Stores
<1>8. r \in Stores
  <2> HIDE DEF read
  <2> QED  BY <1>4, <1>5, <1>6, <1>7 DEF Stores
<1> QED  BY <1>4, <1>6, <1>8

-----------------------------------------------------------------------------
(* One window: what is left of its tabs.                                   *)
WindowValues ==
    {v \in [tabs : Seq(Tabs), active : Nat, last_active : Tabs \cup {NoTab}] :
        v.active < Len(v.tabs) \/ (v.active = 0 /\ Len(v.tabs) = 0)}

Held(v) == {t \in Tabs : Win!HasTab(v, t)}

LEMMA SameRemoval ==
    \A v, idx : Win!DoRemoveIdx(v, idx, FALSE) = Tabbed!DoRemoveIdx(v, idx, FALSE)
BY DEF Win!DoRemoveIdx, Tabbed!DoRemoveIdx, Win!SwitchBeforeRemoval, Tabbed!SwitchBeforeRemoval,
       Win!FixupActive, Tabbed!FixupActive, Win!SetActive, Tabbed!SetActive,
       Win!IdxById, Tabbed!IdxById, Win!HasTab, Tabbed!HasTab,
       Win!GetActive, Tabbed!GetActive, Win!GetByIdx, Tabbed!GetByIdx,
       Win!RemoveAt, Tabbed!RemoveAt

LEMMA RemoveByIdDoes ==
    ASSUME NEW v \in WindowValues, NEW t \in Tabs
    PROVE  /\ Win!RemoveById(v, t, FALSE) \in WindowValues
           /\ Held(Win!RemoveById(v, t, FALSE)) \subseteq Held(v)
<1>1. CASE ~Win!HasTab(v, t)
  BY <1>1 DEF Win!RemoveById
<1>2. CASE Win!HasTab(v, t)
  <2> DEFINE i == CHOOSE i \in DOMAIN v.tabs : v.tabs[i] = t
             r == Tabbed!DoRemoveIdx(v, i - 1, FALSE)
  <2>1. i \in DOMAIN v.tabs
    BY <1>2 DEF Win!HasTab
  <2>2. /\ v.tabs \in Seq(Tabs) /\ Len(v.tabs) \in Nat /\ DOMAIN v.tabs = 1 .. Len(v.tabs)
        /\ v \in Tabbed!Windows /\ Tabbed!InRange(v)
    BY LenProperties DEF WindowValues, Tabbed!Windows, Tabbed!InRange
  <2>3. Win!RemoveById(v, t, FALSE) = r
    BY <1>2, SameRemoval DEF Win!RemoveById, Win!IdxById
  <2>4. i - 1 \in 0 .. (Len(v.tabs) - 1) /\ FALSE \in BOOLEAN /\ NoTab \notin Tabs
    <3> HIDE DEF i
    <3> QED  BY <2>1, <2>2, LayoutAssumption
  <2> HIDE DEF i
  <2>5. /\ r \in Tabbed!Windows /\ Tabbed!InRange(r) /\ Len(r.tabs) = Len(v.tabs) - 1
        /\ \A j \in 1 .. (Len(v.tabs) - 1) :
              r.tabs[j] = IF j < (i - 1) + 1 THEN v.tabs[j] ELSE v.tabs[j + 1]
    BY <2>2, <2>4, Tabbed!DoRemoveIdxInRange, Tabbed!DoRemoveIdxTabs
  <2> HIDE DEF r
  <2>6. r \in WindowValues /\ DOMAIN r.tabs = 1 .. (Len(v.tabs) - 1)
    BY <2>5, LenProperties DEF WindowValues, Tabbed!Windows, Tabbed!InRange
  <2>7. \A j \in DOMAIN r.tabs : \E k \in DOMAIN v.tabs : r.tabs[j] = v.tabs[k]
    <3>1. \A j \in DOMAIN r.tabs : j \in DOMAIN v.tabs /\ j + 1 \in DOMAIN v.tabs /\ j \in 1 .. (Len(v.tabs) - 1)
      BY <2>2, <2>6
    <3> QED  BY <2>5, <3>1
  <2>8. Held(r) \subseteq Held(v)
    BY <2>7 DEF Held, Win!HasTab
  <2> QED  BY <2>3, <2>6, <2>8
<1> QED  BY <1>1, <1>2

-----------------------------------------------------------------------------
(* Recursion over the numbers up to n: what is defined by it exists.  A    *)
(* step is a function of the number and of the value before.               *)
LEMMA UpTo ==
    ASSUME NEW n \in Nat, NEW S, 0 \in S, \A i \in 1 .. n : i - 1 \in S => i \in S
    PROVE  \A i \in 0 .. n : i \in S
<1> DEFINE Bad == (0 .. n) \ S
<1>1. SUFFICES ASSUME Bad # {} PROVE FALSE
  OBVIOUS
<1>2. Bad \in SUBSET Nat
  OBVIOUS
<1>3. PICK least \in Bad : \A k \in Bad : least <= k
  <2> HIDE DEF Bad
  <2> QED  BY <1>1, <1>2, Capacity, Listed!LeastOf
<1>4. least \in 1 .. n /\ least - 1 \notin Bad
  BY <1>3
<1> QED  BY <1>4

IsRun(g, n, T, b, F) ==
    g \in [0 .. n -> T] /\ g[0] = b /\ \A i \in 1 .. n : g[i] = F[i][g[i - 1]]

IsStep(F, n, T) == F \in [1 .. n -> [T -> T]]

LEMMA Recursion ==
    ASSUME NEW n \in Nat, NEW T, NEW b \in T, NEW F, IsStep(F, n, T)
    PROVE  \E g : IsRun(g, n, T, b, F)
<1>0. F \in [1 .. n -> [T -> T]]
  BY DEF IsStep
<1> DEFINE Runs(k) == {g \in [0 .. k -> T] : g[0] = b /\ \A i \in 1 .. k : g[i] = F[i][g[i - 1]]}
           S == {k \in 0 .. n : Runs(k) # {}}
<1>1. 0 \in S
  <2>1. [i \in 0 .. 0 |-> b] \in Runs(0)
    OBVIOUS
  <2> HIDE DEF Runs
  <2> QED  BY <2>1
<1>2. ASSUME NEW k \in 1 .. n, k - 1 \in S PROVE k \in S
  <2>1. PICK g \in Runs(k - 1) : TRUE
    BY <1>2
  <2>2. g \in [0 .. k - 1 -> T] /\ g[0] = b /\ \A i \in 1 .. k - 1 : g[i] = F[i][g[i - 1]]
    BY <2>1
  <2> HIDE DEF Runs, S
  <2>3. /\ k \in 1 .. n /\ 0 \in 0 .. k /\ k \in 0 .. k /\ k - 1 \in 0 .. k - 1 /\ 0 # k
        /\ \A i \in 0 .. k : i = k \/ i \in 0 .. k - 1
        /\ \A i \in 0 .. k - 1 : i # k /\ i \in 0 .. k
        /\ \A i \in 1 .. k : i - 1 \in 0 .. k - 1 /\ i \in 0 .. k /\ (i = k \/ i \in 1 .. k - 1)
    OBVIOUS
  <2> DEFINE h == [i \in 0 .. k |-> IF i = k THEN F[k][g[k - 1]] ELSE g[i]]
  <2>4. F[k][g[k - 1]] \in T
    BY <1>0, <2>2, <2>3
  <2>5. h \in [0 .. k -> T]
    BY <2>2, <2>3, <2>4
  <2>6. h[0] = b /\ h[k] = F[k][g[k - 1]] /\ \A i \in 0 .. k - 1 : h[i] = g[i]
    BY <2>2, <2>3
  <2> HIDE DEF h
  <2>7. \A i \in 1 .. k : h[i] = F[i][h[i - 1]]
    BY <2>2, <2>3, <2>6
  <2>8. h \in Runs(k)
    BY <2>5, <2>6, <2>7 DEF Runs
  <2> QED  BY <2>8 DEF S
<1> HIDE DEF S
<1>3. n \in 0 .. n /\ \A i \in 1 .. n : i - 1 \in S => i \in S
  BY <1>2
<1>4. n \in S
  BY <1>1, <1>3, UpTo
<1> QED  BY <1>4 DEF S, Runs, IsRun

(* Some tabs leave a window, one by one: no other comes.                   *)
LEMMA WithoutTabsDoes ==
    ASSUME NEW v \in WindowValues, NEW dying
    PROVE  WithoutTabs(v, dying) \in WindowValues /\ Held(WithoutTabs(v, dying)) \subseteq Held(v)
<1> DEFINE n == Len(v.tabs)
           T == {u \in WindowValues : Held(u) \subseteq Held(v)}
           Rule(f) == [i \in 0 .. n |->
                         IF i = 0 THEN v
                         ELSE IF v.tabs[i] \in dying THEN Win!RemoveById(f[i - 1], v.tabs[i], FALSE)
                              ELSE f[i - 1]]
           left == CHOOSE f : f = Rule(f)
           F == [i \in 1 .. n |-> [u \in T |->
                    IF v.tabs[i] \in dying THEN Win!RemoveById(u, v.tabs[i], FALSE) ELSE u]]
<1>1. WithoutTabs(v, dying) = left[n]
  BY DEF WithoutTabs
<1>2. n \in Nat /\ v \in T /\ \A i \in 1 .. n : v.tabs[i] \in Tabs
  BY LenProperties, ElementOfSeq DEF WindowValues
<1>3. \A u \in T, t \in Tabs : Win!RemoveById(u, t, FALSE) \in T
  BY RemoveByIdDoes
<1> HIDE DEF T
<1>4. IsStep(F, n, T)
  BY <1>2, <1>3 DEF IsStep
<1>5. PICK g : IsRun(g, n, T, v, F)
  <2> HIDE DEF F, n
  <2> QED  BY <1>2, <1>4, Recursion
<1>6. ASSUME NEW i \in 1 .. n
      PROVE  g[i] = IF v.tabs[i] \in dying THEN Win!RemoveById(g[i - 1], v.tabs[i], FALSE) ELSE g[i - 1]
  <2>1. i - 1 \in 0 .. n
    <3> HIDE DEF n
    <3> QED  BY <1>2
  <2>2. g[i - 1] \in T
    BY <1>5, <2>1 DEF IsRun
  <2> QED  BY <1>5, <2>2 DEF IsRun
<1>7. g = Rule(g)
  <2> HIDE DEF F, n
  <2>1. \A i \in 0 .. n : i = 0 \/ i \in 1 .. n
    BY <1>2
  <2>2. \A i \in 0 .. n : g[i] = Rule(g)[i]
    BY <1>5, <1>6, <2>1 DEF IsRun
  <2> QED  BY <1>5, <2>2 DEF IsRun
<1>8. left = Rule(left)
  <2> HIDE DEF Rule
  <2> QED  BY <1>7
<1>9. left[n] \in T
  <2> DEFINE S == {i \in 0 .. n : left[i] \in T}
  <2> HIDE DEF left, F
  <2>1. 0 \in 0 .. n /\ \A i \in 1 .. n : i \in 0 .. n /\ i # 0 /\ i - 1 \in 0 .. n
    <3> HIDE DEF n
    <3> QED  BY <1>2
  <2>2. left[0] = v
    BY <1>8, <2>1
  <2>3. ASSUME NEW i \in 1 .. n, left[i - 1] \in T
        PROVE  left[i] \in T
    <3>1. left[i] = IF v.tabs[i] \in dying THEN Win!RemoveById(left[i - 1], v.tabs[i], FALSE) ELSE left[i - 1]
      BY <1>8, <2>1
    <3> QED  BY <1>2, <1>3, <2>3, <3>1
  <2>4. 0 \in S /\ \A i \in 1 .. n : i - 1 \in S => i \in S
    <3> HIDE DEF Rule, n
    <3> QED  BY <1>2, <2>1, <2>2, <2>3
  <2> HIDE DEF S, n
  <2>5. n \in S
    <3>1. n \in 0 .. n
      BY <1>2
    <3> QED  BY <1>2, <2>4, <3>1, UpTo
  <2> QED  BY <2>5 DEF S
<1> HIDE DEF left
<1> QED  BY <1>1, <1>9 DEF T

-----------------------------------------------------------------------------
(* Tasks, and what the main thread owns.                                   *)
Tasks ==
    {task \in [kind : {"toast", "focus", "remove", "prune", "reconcile"}, panes : SUBSET Panes,
               text : Texts \cup {NoPane}] :
        /\ task.kind \in {"toast", "focus", "remove"} => \E p \in Panes : task.panes = {p}
        /\ task.kind = "toast" => task.text \in Texts}

(* The panes of a tab, none of them twice. *)
Splits == {q \in Seq(Panes) : \A i, j \in DOMAIN q : q[i] = q[j] => i = j}

MainThread ==
    [panes   : SUBSET Panes,
     tree    : [Tabs -> Splits],
     active  : [Tabs -> Nat],
     windows : [Windows -> WindowValues],
     current : Workspaces,
     focused : Panes \cup {NoPane},
     store   : Stores,
     spawned : Seq(Tasks)]

LogOf(s) == s.store.notifications
CountOf(s, p) == s.store.unread_by_pane[p]

(* From s to r some panes are removed, and those and the ones of ps are    *)
(* marked read; nothing else becomes of the list.                          *)
MarksOnly(s, r, ps) ==
    /\ r.panes \subseteq s.panes
    /\ DOMAIN LogOf(r) = DOMAIN LogOf(s)
    /\ \A i \in DOMAIN LogOf(s) :
          /\ LogOf(r)[i] = LogOf(s)[i] \/ LogOf(r)[i] = [LogOf(s)[i] EXCEPT !.unread = FALSE]
          /\ LogOf(r)[i] # LogOf(s)[i] => LogOf(s)[i].pane \in ps \cup (s.panes \ r.panes)
          /\ LogOf(s)[i].pane \in s.panes \ r.panes => ~LogOf(r)[i].unread
    /\ \A p \in Panes : CountOf(r, p) <= CountOf(s, p)

(* Nothing is put where it was not.                                        *)
Shrinks(s, r) ==
    /\ \A w \in Windows : Held(r.windows[w]) \subseteq Held(s.windows[w])
    /\ \A t \in Tabs : \A p : InTab(r, p, t) => InTab(s, p, t)

Calm(s, r, ps) == r \in MainThread /\ MarksOnly(s, r, ps) /\ Shrinks(s, r)

LEMMA LogFacts ==
    ASSUME NEW s \in MainThread
    PROVE  /\ LogOf(s) \in Seq(Notifications) /\ Len(LogOf(s)) \in Nat
           /\ DOMAIN LogOf(s) = 1 .. Len(LogOf(s))
           /\ \A i \in DOMAIN LogOf(s) : LogOf(s)[i] \in Notifications
           /\ \A p \in Panes : CountOf(s, p) \in Nat
<1>1. s.store \in Stores
  BY DEF MainThread
<1>2. LogOf(s) \in Seq(Notifications) /\ \A p \in Panes : CountOf(s, p) \in Nat
  BY <1>1 DEF Stores, LogOf, CountOf
<1> QED  BY <1>2, LenProperties, ElementOfSeq

(* Marking twice is marking. *)
LEMMA MarkedRecord ==
    ASSUME NEW n \in Notifications, NEW k, k = [n EXCEPT !.unread = FALSE]
    PROVE  /\ k \in Notifications /\ k.pane = n.pane /\ k.workspace = n.workspace /\ k.text = n.text
           /\ ~k.unread /\ [k EXCEPT !.unread = FALSE] = k
           /\ (~n.unread => k = n) /\ (n.unread => k # n)
BY DEF Notifications, Notes!Notifications

LEMMA MarksOnlyTrans ==
    ASSUME NEW s \in MainThread, NEW r \in MainThread, NEW t \in MainThread, NEW ps, NEW qs,
           MarksOnly(s, r, ps), MarksOnly(r, t, qs)
    PROVE  MarksOnly(s, t, ps \cup qs)
<1>1. \A i \in DOMAIN LogOf(s) : LogOf(s)[i] \in Notifications
  BY LogFacts
<1>2. t.panes \subseteq s.panes /\ DOMAIN LogOf(t) = DOMAIN LogOf(s) /\ DOMAIN LogOf(r) = DOMAIN LogOf(s)
  BY DEF MarksOnly
<1>3. ASSUME NEW i \in DOMAIN LogOf(s)
      PROVE  /\ LogOf(t)[i] = LogOf(s)[i] \/ LogOf(t)[i] = [LogOf(s)[i] EXCEPT !.unread = FALSE]
             /\ LogOf(t)[i] # LogOf(s)[i] => LogOf(s)[i].pane \in (ps \cup qs) \cup (s.panes \ t.panes)
             /\ LogOf(s)[i].pane \in s.panes \ t.panes => ~LogOf(t)[i].unread
  <2> DEFINE a == LogOf(s)[i]
             b == LogOf(r)[i]
             c == LogOf(t)[i]
             read == [a EXCEPT !.unread = FALSE]
  <2>1. /\ b = a \/ b = read
        /\ b # a => a.pane \in ps \cup (s.panes \ r.panes)
        /\ a.pane \in s.panes \ r.panes => ~b.unread
    BY DEF MarksOnly
  <2>2. /\ c = b \/ c = [b EXCEPT !.unread = FALSE]
        /\ c # b => b.pane \in qs \cup (r.panes \ t.panes)
        /\ b.pane \in r.panes \ t.panes => ~c.unread
    BY <1>2 DEF MarksOnly
  <2>3. a \in Notifications
    BY <1>1
  <2>4. r.panes \subseteq s.panes /\ t.panes \subseteq r.panes
    BY DEF MarksOnly
  <2>5. /\ read.pane = a.pane /\ ~read.unread /\ [read EXCEPT !.unread = FALSE] = read
        /\ ~a.unread => read = a
    <3> HIDE DEF a
    <3>1. read = [a EXCEPT !.unread = FALSE]
      OBVIOUS
    <3> HIDE DEF read
    <3> QED  BY <2>3, <3>1, MarkedRecord
  <2> HIDE DEF a, b, c, read
  <2>6. b.pane = a.pane /\ [b EXCEPT !.unread = FALSE] = read
    BY <2>1, <2>5 DEF read
  <2>7. (c = a \/ c = read) /\ (~b.unread => ~c.unread)
    BY <2>1, <2>2, <2>5, <2>6
  <2>8. c # a => a.pane \in (ps \cup qs) \cup (s.panes \ t.panes)
    BY <2>1, <2>2, <2>4, <2>6
  <2>9. a.pane \in s.panes \ t.panes => ~c.unread
    BY <2>1, <2>2, <2>4, <2>6, <2>7
  <2> QED  BY <2>7, <2>8, <2>9 DEF a, c, read
<1>4. ASSUME NEW p \in Panes PROVE CountOf(t, p) <= CountOf(s, p)
  <2>1. CountOf(t, p) <= CountOf(r, p) /\ CountOf(r, p) <= CountOf(s, p)
    BY DEF MarksOnly
  <2>2. CountOf(s, p) \in Nat /\ CountOf(r, p) \in Nat /\ CountOf(t, p) \in Nat
    BY LogFacts
  <2> QED  BY <2>1, <2>2
<1> QED  BY <1>2, <1>3, <1>4 DEF MarksOnly

LEMMA CalmTrans ==
    ASSUME NEW s \in MainThread, NEW r, NEW t, NEW ps, NEW qs, Calm(s, r, ps), Calm(r, t, qs)
    PROVE  Calm(s, t, ps \cup qs)
<1>1. MarksOnly(s, t, ps \cup qs)
  BY MarksOnlyTrans DEF Calm
<1>2. Shrinks(s, t)
  BY DEF Calm, Shrinks
<1> QED  BY <1>1, <1>2 DEF Calm

(* What touches neither the list nor the panes marks nothing.              *)
LEMMA MarksNothing ==
    ASSUME NEW s \in MainThread, NEW r, r.store = s.store, r.panes = s.panes, NEW ps
    PROVE  MarksOnly(s, r, ps)
<1>1. LogOf(r) = LogOf(s) /\ \A p : CountOf(r, p) = CountOf(s, p)
  BY DEF LogOf, CountOf
<1>2. \A p \in Panes : CountOf(s, p) \in Nat
  BY LogFacts
<1>3. \A p \in Panes : CountOf(r, p) <= CountOf(s, p)
  BY <1>1, <1>2
<1> QED  BY <1>1, <1>3 DEF MarksOnly

(* What touches neither tabs nor splits puts nothing anywhere.             *)
LEMMA SamePlaces ==
    ASSUME NEW s, NEW r, r.tree = s.tree, r.windows = s.windows
    PROVE  Shrinks(s, r)
BY DEF Shrinks, InTab

-----------------------------------------------------------------------------
(* The handlers.  First what they are made of.                             *)
LEMMA SpawnDoes ==
    ASSUME NEW s \in MainThread, NEW task \in Tasks, NEW r, r = Spawn(s, task)
    PROVE  /\ Calm(s, r, {})
           /\ r.windows = s.windows /\ r.tree = s.tree /\ r.active = s.active /\ r.current = s.current
<1> DEFINE q == Append(s.spawned, task)
<1>1. q \in Seq(Tasks)
  BY DEF MainThread
<1>2. r = [s EXCEPT !.spawned = q]
  BY DEF Spawn
<1> HIDE DEF q
<1>3. /\ r \in MainThread /\ r.spawned = q /\ r.store = s.store /\ r.panes = s.panes
      /\ r.windows = s.windows /\ r.tree = s.tree /\ r.active = s.active /\ r.current = s.current
  BY <1>1, <1>2 DEF MainThread
<1>4. MarksOnly(s, r, {}) /\ Shrinks(s, r)
  BY <1>3, MarksNothing, SamePlaces
<1> QED  BY <1>3, <1>4 DEF Calm

(* The panes of ps are marked read and those of gone, which are among      *)
(* them, removed.                                                          *)
Dropped(s, gone, ps) ==
    [s EXCEPT !.panes = s.panes \ gone, !.store = MarkPanesRead(s.store, ps)]

LEMMA MarkAndDrop ==
    ASSUME NEW s \in MainThread, NEW ps, NEW gone, gone \cap s.panes \subseteq ps,
           NEW r, r = Dropped(s, gone, ps)
    PROVE  /\ r \in MainThread /\ Shrinks(s, r)
           /\ \A qs : ps \subseteq qs \cup (s.panes \cap gone) => MarksOnly(s, r, qs)
           /\ r.windows = s.windows /\ r.tree = s.tree /\ r.active = s.active /\ r.current = s.current
           /\ r.panes = s.panes \ gone
<1> DEFINE st == MarkPanesRead(s.store, ps)
<1>1. /\ st \in Stores
      /\ DOMAIN st.notifications = DOMAIN LogOf(s)
      /\ \A i \in DOMAIN LogOf(s) :
            st.notifications[i] = IF LogOf(s)[i].pane \in ps
                                  THEN [LogOf(s)[i] EXCEPT !.unread = FALSE] ELSE LogOf(s)[i]
      /\ \A p \in Panes : st.unread_by_pane[p] <= CountOf(s, p)
  <2>1. s.store \in Stores
    BY DEF MainThread
  <2> QED  BY <2>1, MarkDoes DEF LogOf, CountOf
<1>2. r = [s EXCEPT !.panes = s.panes \ gone, !.store = st]
  BY DEF Dropped
<1> HIDE DEF st
<1>3. /\ r \in MainThread /\ r.store = st /\ r.panes = s.panes \ gone /\ r.spawned = s.spawned
      /\ r.windows = s.windows /\ r.tree = s.tree /\ r.active = s.active /\ r.current = s.current
  BY <1>1, <1>2 DEF MainThread
<1>4. Shrinks(s, r)
  BY <1>3, SamePlaces
<1>5. ASSUME NEW qs, ps \subseteq qs \cup (s.panes \cap gone)
      PROVE  MarksOnly(s, r, qs)
  <2>1. /\ LogOf(r) = st.notifications /\ \A p \in Panes : CountOf(r, p) <= CountOf(s, p)
        /\ s.panes \ r.panes = s.panes \cap gone /\ r.panes \subseteq s.panes
    BY <1>1, <1>3 DEF LogOf, CountOf
  <2>2. \A i \in DOMAIN LogOf(s) : ~[LogOf(s)[i] EXCEPT !.unread = FALSE].unread
    <3>1. \A i \in DOMAIN LogOf(s) : LogOf(s)[i] \in Notifications
      BY LogFacts
    <3> QED  BY <3>1, MarkedRecord
  <2>3. ASSUME NEW i \in DOMAIN LogOf(s)
        PROVE  /\ LogOf(r)[i] = LogOf(s)[i] \/ LogOf(r)[i] = [LogOf(s)[i] EXCEPT !.unread = FALSE]
               /\ LogOf(r)[i] # LogOf(s)[i] => LogOf(s)[i].pane \in qs \cup (s.panes \ r.panes)
               /\ LogOf(s)[i].pane \in s.panes \ r.panes => ~LogOf(r)[i].unread
    <3> DEFINE a == LogOf(s)[i]
               b == LogOf(r)[i]
               read == [a EXCEPT !.unread = FALSE]
    <3>1. b = (IF a.pane \in ps THEN read ELSE a) /\ ~read.unread
      BY <1>1, <2>1, <2>2
    <3> HIDE DEF a, b, read
    <3>2. /\ b = a \/ b = read
          /\ b # a => a.pane \in qs \cup (s.panes \ r.panes)
          /\ a.pane \in s.panes \ r.panes => ~b.unread
      BY <1>5, <2>1, <3>1
    <3> QED  BY <3>2 DEF a, b, read
  <2>4. DOMAIN LogOf(r) = DOMAIN LogOf(s)
    BY <1>1, <2>1
  <2> QED  BY <2>1, <2>3, <2>4 DEF MarksOnly
<1> QED  BY <1>3, <1>4, <1>5

LEMMA MarkReadDoes ==
    ASSUME NEW s \in MainThread, NEW ps, NEW r, r = MarkRead(s, ps)
    PROVE  /\ Calm(s, r, ps)
           /\ r.windows = s.windows /\ r.tree = s.tree /\ r.active = s.active /\ r.current = s.current
<1>1. r = Dropped(s, {}, ps)
  BY DEF MarkRead, Dropped, MainThread
<1>2. {} \cap s.panes \subseteq ps /\ ps \subseteq ps \cup (s.panes \cap {})
  OBVIOUS
<1>3. /\ r \in MainThread /\ Shrinks(s, r)
      /\ \A qs : ps \subseteq qs \cup (s.panes \cap {}) => MarksOnly(s, r, qs)
      /\ r.windows = s.windows /\ r.tree = s.tree /\ r.active = s.active /\ r.current = s.current
  BY <1>1, <1>2, MarkAndDrop
<1> QED  BY <1>2, <1>3 DEF Calm

LEMMA DropPanesDoes ==
    ASSUME NEW s \in MainThread, NEW gone, NEW r, r = DropPanes(s, gone)
    PROVE  /\ Calm(s, r, {})
           /\ r.windows = s.windows /\ r.tree = s.tree /\ r.active = s.active /\ r.current = s.current
<1> DEFINE ps == gone \cap s.panes
<1>1. r = Dropped(s, gone, ps)
  BY DEF DropPanes, MarkRead, Dropped, MainThread
<1>2. gone \cap s.panes \subseteq ps /\ ps \subseteq {} \cup (s.panes \cap gone)
  OBVIOUS
<1> HIDE DEF ps
<1>3. /\ r \in MainThread /\ Shrinks(s, r)
      /\ \A qs : ps \subseteq qs \cup (s.panes \cap gone) => MarksOnly(s, r, qs)
      /\ r.windows = s.windows /\ r.tree = s.tree /\ r.active = s.active /\ r.current = s.current
  BY <1>1, <1>2, MarkAndDrop
<1> QED  BY <1>2, <1>3 DEF Calm

-----------------------------------------------------------------------------
(* Focus changes. *)
LEMMA FocusTaskIsTask ==
    ASSUME NEW p \in Panes PROVE FocusTask(p) \in Tasks
BY DEF FocusTask, Tasks

LEMMA OtherTasks ==
    /\ ReconcileTask \in Tasks /\ PruneTask \in Tasks
    /\ \A p \in Panes : RemoveTask({p}) \in Tasks
    /\ \A p \in Panes, text \in Texts : ToastTask(p, text) \in Tasks
BY DEF ReconcileTask, PruneTask, RemoveTask, ToastTask, Tasks

(* The position of a pane of the tab becomes the active one. *)
LEMMA PositionDoes ==
    ASSUME NEW s \in MainThread, NEW t \in Tabs, NEW p \in Panes, InTab(s, p, t), NEW r,
           r = [s EXCEPT !.active[t] = (CHOOSE i \in DOMAIN s.tree[t] : s.tree[t][i] = p) - 1]
    PROVE  /\ r \in MainThread /\ r.store = s.store /\ r.panes = s.panes /\ r.spawned = s.spawned
           /\ r.windows = s.windows /\ r.tree = s.tree /\ r.current = s.current
           /\ ActivePane(r, t) = p
<1> DEFINE i == CHOOSE i \in DOMAIN s.tree[t] : s.tree[t][i] = p
           active == [s.active EXCEPT ![t] = i - 1]
<1>1. i \in DOMAIN s.tree[t] /\ s.tree[t][i] = p
  BY DEF InTab
<1>2. s.tree \in [Tabs -> Splits] /\ s.tree[t] \in Seq(Panes) /\ s.active \in [Tabs -> Nat]
  BY DEF MainThread, Splits
<1>3. s.tree[t] \in Seq(Panes) /\ Len(s.tree[t]) \in Nat /\ DOMAIN s.tree[t] = 1 .. Len(s.tree[t])
  BY <1>2, LenProperties
<1>4. r = [s EXCEPT !.active = active]
  OBVIOUS
<1> HIDE DEF i
<1>5. i - 1 \in Nat /\ i - 1 < Len(s.tree[t]) /\ (i - 1) + 1 = i
  BY <1>1, <1>3
<1>6. active \in [Tabs -> Nat] /\ active[t] = i - 1
  BY <1>2, <1>5
<1> HIDE DEF active
<1>7. /\ r \in MainThread /\ r.store = s.store /\ r.panes = s.panes /\ r.spawned = s.spawned
      /\ r.windows = s.windows /\ r.tree = s.tree /\ r.current = s.current /\ r.active = active
  BY <1>4, <1>6 DEF MainThread
<1>8. ActivePane(r, t) = p
  BY <1>1, <1>5, <1>6, <1>7 DEF ActivePane
<1> QED  BY <1>7, <1>8

LEMMA SetActivePaneDoes ==
    ASSUME NEW s \in MainThread, NEW t \in Tabs, NEW p \in Panes, NEW r, r = SetActivePane(s, t, p)
    PROVE  /\ Calm(s, r, {p}) /\ r.windows = s.windows /\ r.tree = s.tree /\ r.current = s.current
           /\ ActivePane(s, t) = p \/ ~InTab(s, p, t) => r = s
           /\ InTab(s, p, t) => ActivePane(r, t) = p
<1>1. CASE ActivePane(s, t) = p \/ ~InTab(s, p, t)
  <2>1. r = s
    BY <1>1 DEF SetActivePane
  <2>2. Calm(s, s, {p})
    BY MarksNothing, SamePlaces DEF Calm
  <2> QED  BY <1>1, <2>1, <2>2
<1>2. CASE ~(ActivePane(s, t) = p \/ ~InTab(s, p, t))
  <2> DEFINE a == [s EXCEPT !.active[t] = (CHOOSE i \in DOMAIN s.tree[t] : s.tree[t][i] = p) - 1]
             b == MarkRead(a, {p})
  <2>1. r = Spawn(b, FocusTask(p))
    BY <1>2 DEF SetActivePane
  <2>2. /\ a \in MainThread /\ a.store = s.store /\ a.panes = s.panes /\ a.spawned = s.spawned
        /\ a.windows = s.windows /\ a.tree = s.tree /\ a.current = s.current
        /\ ActivePane(a, t) = p
    BY <1>2, PositionDoes
  <2> HIDE DEF a
  <2>3. /\ Calm(a, b, {p})
        /\ b.windows = a.windows /\ b.tree = a.tree /\ b.active = a.active /\ b.current = a.current
    BY <2>2, MarkReadDoes
  <2>4. b \in MainThread
    BY <2>3 DEF Calm
  <2> HIDE DEF b
  <2>5. /\ Calm(b, r, {})
        /\ r.windows = b.windows /\ r.tree = b.tree /\ r.active = b.active /\ r.current = b.current
    BY <2>1, <2>4, SpawnDoes, FocusTaskIsTask
  <2>6. Calm(s, a, {})
    BY <2>2, MarksNothing, SamePlaces DEF Calm
  <2>7. Calm(s, b, {} \cup {p}) /\ {} \cup {p} = {p} /\ {p} \cup {} = {p}
    BY <2>3, <2>6, CalmTrans
  <2>8. Calm(s, r, {p})
    <3>1. Calm(s, b, {p})
      BY <2>7
    <3>2. Calm(s, r, {p} \cup {})
      BY <2>5, <3>1, CalmTrans
    <3> QED  BY <2>7, <3>2
  <2>9. ActivePane(r, t) = p
    BY <2>2, <2>3, <2>5 DEF ActivePane
  <2> QED  BY <1>2, <2>2, <2>3, <2>5, <2>8, <2>9
<1> QED  BY <1>1, <1>2

(* A tab of a window becomes its active one.                               *)
LEMMA ActiveInWindow ==
    ASSUME NEW v \in WindowValues, NEW idx \in 0 .. (Len(v.tabs) - 1)
    PROVE  LET new == Win!SetActive(v, idx)
           IN new \in WindowValues /\ new.tabs = v.tabs /\ new.active = idx
<1>1. Len(v.tabs) \in Nat
  BY LenProperties DEF WindowValues
<1>2. idx \in Nat /\ idx < Len(v.tabs)
  BY <1>1
<1>3. Win!SetActive(v, idx) = [tabs |-> v.tabs, active |-> idx, last_active |-> v.last_active]
  BY DEF WindowValues, Win!SetActive
<1> QED  BY <1>2, <1>3 DEF WindowValues

(* The window w of s with its tab at idx activated. *)
Activated(s, w, idx) == [s EXCEPT !.windows[w] = Win!SetActive(@, idx)]

LEMMA SetActiveDoes ==
    ASSUME NEW s \in MainThread, NEW w \in Windows, NEW idx \in 0 .. (Len(s.windows[w].tabs) - 1),
           NEW r, r = Activated(s, w, idx)
    PROVE  /\ Calm(s, r, {}) /\ r.windows[w].tabs = s.windows[w].tabs /\ r.windows[w].active = idx
           /\ r.tree = s.tree /\ r.active = s.active /\ r.current = s.current
<1> DEFINE win == Win!SetActive(s.windows[w], idx)
           windows == [s.windows EXCEPT ![w] = win]
<1>1. s.windows \in [Windows -> WindowValues] /\ s.windows[w] \in WindowValues
  BY DEF MainThread
<1>3. win \in WindowValues /\ win.tabs = s.windows[w].tabs /\ win.active = idx
  BY <1>1, ActiveInWindow
<1>4. r = [s EXCEPT !.windows = windows]
  BY DEF Activated
<1> HIDE DEF win
<1>5. /\ windows \in [Windows -> WindowValues] /\ windows[w].active = idx
      /\ \A v \in Windows : windows[v].tabs = s.windows[v].tabs
  BY <1>1, <1>3
<1> HIDE DEF windows
<1>6. /\ r \in MainThread /\ r.store = s.store /\ r.panes = s.panes /\ r.spawned = s.spawned
      /\ r.windows = windows /\ r.tree = s.tree /\ r.active = s.active /\ r.current = s.current
  BY <1>4, <1>5 DEF MainThread
<1>7. \A v \in Windows : Held(r.windows[v]) = Held(s.windows[v])
  BY <1>5, <1>6 DEF Held, Win!HasTab
<1>8. Shrinks(s, r)
  BY <1>6, <1>7 DEF Shrinks, InTab
<1> QED  BY <1>5, <1>6, <1>8, MarksNothing DEF Calm

(* A focus task does nothing to the list, or its pane was not active in    *)
(* its tab; it is in front of the user then if its workspace is shown.     *)
LEMMA FocusPaneDoes ==
    ASSUME NEW s \in MainThread, NEW p \in Panes, NEW r, r = FocusPane(s, p)
    PROVE  \/ Calm(s, r, {})
           \/ /\ Calm(s, r, {p})
              /\ \E t \in Tabs : InTab(s, p, t) /\ ActivePane(s, t) # p
              /\ WorkspaceForPane(s, p) = s.current => p \in Shown(r)
<1>1. CASE p \notin s.panes \/ Places(s, p) = {}
  <2>1. r = s
    BY <1>1 DEF FocusPane
  <2>2. Calm(s, s, {})
    BY MarksNothing, SamePlaces DEF Calm
  <2> QED  BY <2>1, <2>2
<1>2. CASE ~(p \notin s.panes \/ Places(s, p) = {})
  <2> DEFINE place == CHOOSE place \in Places(s, p) : TRUE
             w == place[1]
             t == place[2]
             i == CHOOSE i \in DOMAIN s.windows[w].tabs : s.windows[w].tabs[i] = t
             a == [s EXCEPT !.windows[w] = Win!SetActive(@, i - 1)]
  <2>1. place \in Places(s, p)
    BY <1>2
  <2>2. /\ w \in Windows /\ t \in Tabs /\ Win!HasTab(s.windows[w], t) /\ InTab(s, p, t)
        /\ WorkspaceForPane(s, p) = WorkspaceOf[w]
    <3>1. WorkspaceForPane(s, p) = WorkspaceOf[w]
      BY <1>2 DEF WorkspaceForPane
    <3> HIDE DEF place
    <3> QED  BY <2>1, <3>1 DEF Places
  <2>3. r = SetActivePane(a, t, p)
    BY <1>2 DEF FocusPane, Win!IdxById
  <2> HIDE DEF place, w, t
  <2>4. i \in DOMAIN s.windows[w].tabs /\ s.windows[w].tabs[i] = t
    BY <2>2 DEF Win!HasTab
  <2> HIDE DEF i
  <2>5. /\ i - 1 \in 0 .. (Len(s.windows[w].tabs) - 1) /\ (i - 1) + 1 = i
        /\ Len(s.windows[w].tabs) > 0
    <3>1. s.windows[w] \in WindowValues
      BY <2>2 DEF MainThread
    <3>2. s.windows[w].tabs \in Seq(Tabs)
      BY <3>1 DEF WindowValues
    <3> QED  BY <2>4, <3>2, LenProperties
  <2>6. /\ Calm(s, a, {}) /\ a.windows[w].tabs = s.windows[w].tabs /\ a.windows[w].active = i - 1
        /\ a.tree = s.tree /\ a.active = s.active /\ a.current = s.current
    <3> DEFINE k == i - 1
    <3>1. k \in 0 .. (Len(s.windows[w].tabs) - 1)
      BY <2>5
    <3>2. a = Activated(s, w, k)
      BY DEF Activated
    <3> HIDE DEF k, a
    <3>3. /\ Calm(s, a, {}) /\ a.windows[w].tabs = s.windows[w].tabs /\ a.windows[w].active = k
          /\ a.tree = s.tree /\ a.active = s.active /\ a.current = s.current
      BY <2>2, <3>1, <3>2, SetActiveDoes
    <3> QED  BY <3>3 DEF k
  <2>7. a \in MainThread
    BY <2>6 DEF Calm
  <2> HIDE DEF a
  <2>8. /\ Calm(a, r, {p}) /\ (ActivePane(a, t) = p => r = a)
        /\ r.windows = a.windows /\ r.current = a.current /\ ActivePane(r, t) = p
    <3>1. InTab(a, p, t)
      BY <2>2, <2>6 DEF InTab
    <3> QED  BY <2>2, <2>3, <2>7, <3>1, SetActivePaneDoes
  <2>9. ActivePane(a, t) = ActivePane(s, t)
    BY <2>6 DEF ActivePane
  <2>10. CASE ActivePane(s, t) = p
    BY <2>6, <2>8, <2>9, <2>10
  <2>11. CASE ActivePane(s, t) # p
    <3>1. Calm(s, r, {} \cup {p}) /\ {} \cup {p} = {p}
      BY <2>6, <2>8, CalmTrans
    <3>2. ASSUME WorkspaceForPane(s, p) = s.current PROVE p \in Shown(r)
      <4>1. w \in OpenWindows(r, r.current)
        BY <2>2, <2>5, <2>6, <2>8, <3>2 DEF OpenWindows
      <4>2. Win!GetActive(r.windows[w]) = t
        BY <2>4, <2>5, <2>6, <2>8 DEF Win!GetActive, Win!GetByIdx
      <4>3. p # NoPane
        BY LayoutAssumption
      <4> QED  BY <2>8, <4>1, <4>2, <4>3 DEF Shown, ShownIn
    <3> QED  BY <2>2, <2>11, <3>1, <3>2
  <2> QED  BY <2>10, <2>11
<1> QED  BY <1>1, <1>2

-----------------------------------------------------------------------------
(* The removal of panes and tabs.                                          *)
LEMMA SetToSeqDoes ==
    ASSUME NEW S, IsFiniteSet(S)
    PROVE  SetToSeq(S) \in Seq(S)
<1> DEFINE n == Cardinality(S)
           Lists == {f \in [1 .. n -> S] : IsInjective(f)}
<1>1. n \in Nat /\ ExistsBijection(1 .. n, S)
  BY FS_CardinalityType
<1> HIDE DEF n
<1>2. PICK f : f \in Bijection(1 .. n, S)
  BY <1>1 DEF ExistsBijection
<1>3. f \in [1 .. n -> S] /\ IsInjective(f)
  BY <1>2 DEF Bijection, Injection, IsInjective
<1>4. SetToSeq(S) \in [1 .. n -> S]
  BY <1>3 DEF SetToSeq, n
<1> HIDE DEF Lists
<1> QED  BY <1>1, <1>4

(* One leaf leaves a tab: what is left was there.                          *)
Keeps(q, r, new) ==
    /\ r \in Splits /\ new \in Nat
    /\ \A j \in DOMAIN r : \E k \in DOMAIN q : r[j] = q[k]

LEMMA LeafGone ==
    ASSUME NEW q \in Splits, NEW i \in DOMAIN q, NEW idx \in Nat,
           NEW r, r = RemoveAt(q, i), NEW new, new = ShiftActive(idx, i)
    PROVE  Keeps(q, r, new)
<1>1. /\ q \in Seq(Panes) /\ Len(q) \in Nat /\ DOMAIN q = 1 .. Len(q) /\ i \in 1 .. Len(q)
      /\ \A j, k \in DOMAIN q : q[j] = q[k] => j = k
  BY LenProperties DEF Splits
<1>2. r = Tabbed!RemoveAt(q, i)
  BY DEF RemoveAt, Tabbed!RemoveAt
<1>3. /\ r \in Seq(Panes) /\ Len(r) = Len(q) - 1
      /\ \A j \in 1 .. (Len(q) - 1) : r[j] = IF j < i THEN q[j] ELSE q[j + 1]
  <2>1. NoTab \notin Tabs
    BY LayoutAssumption
  <2>2. /\ Tabbed!RemoveAt(q, i) \in Seq(Panes)
        /\ Len(Tabbed!RemoveAt(q, i)) = Len(q) - 1
    BY <1>1, <2>1, Tabbed!RemoveAtFacts
  <2>3. \A j \in 1 .. (Len(q) - 1) : Tabbed!RemoveAt(q, i)[j] = IF j < i THEN q[j] ELSE q[j + 1]
    BY <1>1, <2>1, Tabbed!RemoveAtElements
  <2> QED  BY <1>2, <2>2, <2>3
<1>4. DOMAIN r = 1 .. (Len(q) - 1)
  BY <1>1, <1>3, LenProperties
<1>5. new = (IF i <= idx + 1 /\ idx > 0 THEN idx - 1 ELSE idx) /\ new \in Nat
  BY <1>1 DEF ShiftActive
<1> DEFINE from(j) == IF j < i THEN j ELSE j + 1
<1>6. \A j \in DOMAIN r : from(j) \in DOMAIN q /\ r[j] = q[from(j)] /\ from(j) # i
  BY <1>1, <1>3, <1>4
<1>7. \A j, k \in DOMAIN r : from(j) = from(k) => j = k
  BY <1>1, <1>4
<1>8. r \in Splits
  <2> HIDE DEF from
  <2> QED  BY <1>1, <1>3, <1>6, <1>7 DEF Splits
<1>9. \A j \in DOMAIN r : \E k \in DOMAIN q : r[j] = q[k]
  <2> HIDE DEF from
  <2> QED  BY <1>6
<1> HIDE DEF from
<1> QED  BY <1>5, <1>8, <1>9 DEF Keeps

LEMMA SameKeeps ==
    ASSUME NEW q \in Splits, NEW idx \in Nat PROVE Keeps(q, q, idx)
BY DEF Keeps

(* At most one leaf of a tab goes at a time. *)
LEMMA PrunedFacts ==
    ASSUME NEW s \in MainThread, NEW t \in Tabs, NEW dead
    PROVE  /\ Prunable(s, t, dead) \subseteq DOMAIN s.tree[t]
           /\ Prunable(s, t, dead) # {} => Prunable(s, t, dead) = {Pruned(s, t, dead)}
<1>1. s.tree[t] \in Splits
  BY DEF MainThread
<1>2. Len(s.tree[t]) \in Nat /\ DOMAIN s.tree[t] = 1 .. Len(s.tree[t])
  BY <1>1, LenProperties DEF Splits
<1> DEFINE S == Prunable(s, t, dead)
<1>3. S \subseteq DOMAIN s.tree[t]
  BY DEF Prunable
<1>4. ASSUME NEW i \in S, NEW j \in S, i < j PROVE FALSE
  <2>1. i \in 1 .. Len(s.tree[t]) /\ j \in 1 .. Len(s.tree[t])
    BY <1>2, <1>3
  <2>2. i \in 1 .. (j - 1)
    BY <1>4, <2>1
  <2>3. s.tree[t][i] \in dead \/ s.tree[t][i] \notin s.panes
    BY DEF Prunable
  <2>4. \A k \in 1 .. (j - 1) : s.tree[t][k] \notin dead /\ s.tree[t][k] \in s.panes
    BY DEF Prunable
  <2> QED  BY <2>2, <2>3, <2>4
<1>5. \A i, j \in S : i = j
  <2>1. \A i, j \in S : i \in Nat /\ j \in Nat
    BY <1>2, <1>3
  <2> HIDE DEF S
  <2> QED  BY <1>4, <2>1
<1>6. S # {} => Pruned(s, t, dead) \in S
  BY DEF Pruned
<1> HIDE DEF S
<1>7. S # {} => S = {Pruned(s, t, dead)}
  BY <1>5, <1>6
<1> QED  BY <1>3, <1>7 DEF S

(* The tasks that prune_dead_panes spawns. *)
Removals(s, dead) == UNION {{RemoveTask({s.tree[t][i]}) : i \in Prunable(s, t, dead)} : t \in Tabs}

LEMMA RemovalsAreTasks ==
    ASSUME NEW s \in MainThread, NEW dead
    PROVE  /\ IsFiniteSet(Removals(s, dead))
           /\ Removals(s, dead) \subseteq Tasks
<1> DEFINE f == [t \in Tabs |-> RemoveTask({s.tree[t][Pruned(s, t, dead)]})]
           Some == {f[t] : t \in Tabs}
<1>0. \A task \in Removals(s, dead) :
         \E t \in Tabs : \E i \in Prunable(s, t, dead) : task = RemoveTask({s.tree[t][i]})
  <2> SUFFICES ASSUME NEW task \in Removals(s, dead)
               PROVE  \E t \in Tabs : \E i \in Prunable(s, t, dead) : task = RemoveTask({s.tree[t][i]})
    OBVIOUS
  <2>1. PICK t \in Tabs : task \in {RemoveTask({s.tree[t][i]}) : i \in Prunable(s, t, dead)}
    BY DEF Removals
  <2> QED  BY <2>1
<1>1. \A t \in Tabs : Prunable(s, t, dead) = {} \/ Prunable(s, t, dead) = {Pruned(s, t, dead)}
  BY PrunedFacts
<1>2. Removals(s, dead) \subseteq Some
  <2> SUFFICES ASSUME NEW t \in Tabs, NEW i \in Prunable(s, t, dead)
               PROVE  RemoveTask({s.tree[t][i]}) \in Some
    BY <1>0
  <2>1. i = Pruned(s, t, dead)
    BY <1>1
  <2>2. RemoveTask({s.tree[t][i]}) = f[t]
    BY <2>1
  <2> HIDE DEF f
  <2> QED  BY <2>2
<1>3. IsFiniteSet(Some)
  <2>1. f \in Surjection(Tabs, Some)
    <3>1. f \in [Tabs -> Some]
      OBVIOUS
    <3>2. \A x \in Some : \E t \in Tabs : f[t] = x
      OBVIOUS
    <3> HIDE DEF f, Some
    <3> QED  BY <3>1, <3>2 DEF Surjection
  <2>2. IsFiniteSet(Tabs)
    BY LayoutAssumption
  <2> HIDE DEF f, Some
  <2> QED  BY <2>1, <2>2, FS_Surjection
<1>4. IsFiniteSet(Removals(s, dead))
  <2> HIDE DEF Some
  <2> QED  BY <1>2, <1>3, FS_Subset
<1>5. ASSUME NEW t \in Tabs, NEW i \in Prunable(s, t, dead)
      PROVE  RemoveTask({s.tree[t][i]}) \in Tasks
  <2>1. s.tree[t] \in Splits /\ i \in DOMAIN s.tree[t]
    BY PrunedFacts DEF MainThread
  <2>2. s.tree[t][i] \in Panes
    BY <2>1, ElementOfSeq DEF Splits
  <2> QED  BY <2>2, OtherTasks
<1> QED  BY <1>0, <1>4, <1>5, ZenonT(60)

LEMMA ConcatTasks ==
    ASSUME NEW q \in Seq(Tasks), NEW S, IsFiniteSet(S), S \subseteq Tasks
    PROVE  q \o SetToSeq(S) \in Seq(Tasks)
<1> DEFINE z == SetToSeq(S)
<1>1. z \in Seq(S)
  BY SetToSeqDoes
<1> HIDE DEF z
<1>2. z \in Seq(Tasks)
  <2>1. Len(z) \in Nat /\ \A i \in 1 .. Len(z) : z[i] \in S
    BY <1>1, LenProperties, ElementOfSeq
  <2> QED  BY <1>1, <2>1
<1>3. q \o z \in Seq(Tasks)
  BY <1>2, ConcatProperties
<1> QED  BY <1>3 DEF z

LEMMA PruneTabsDoes ==
    ASSUME NEW s \in MainThread, NEW dead, NEW r, r = PruneTabs(s, dead)
    PROVE  /\ Calm(s, r, {})
           /\ r.windows = s.windows /\ r.current = s.current
<1> DEFINE None(t) == Prunable(s, t, dead) = {}
           tree == [t \in Tabs |-> IF None(t) THEN s.tree[t] ELSE RemoveAt(s.tree[t], Pruned(s, t, dead))]
           active == [t \in Tabs |-> IF None(t) THEN s.active[t] ELSE ShiftActive(s.active[t], Pruned(s, t, dead))]
           spawned == s.spawned \o SetToSeq(Removals(s, dead))
<1>1. r = [s EXCEPT !.tree = tree, !.active = active, !.spawned = spawned]
  BY DEF PruneTabs, Removals
<1>2. \A t \in Tabs : s.tree[t] \in Splits /\ s.active[t] \in Nat
  BY DEF MainThread
<1>3. \A t \in Tabs : ~None(t) => Pruned(s, t, dead) \in DOMAIN s.tree[t]
  BY PrunedFacts
<1>4. ASSUME NEW t \in Tabs
      PROVE  Keeps(s.tree[t], tree[t], active[t])
  <2>1. CASE None(t)
    <3>1. tree[t] = s.tree[t] /\ active[t] = s.active[t]
      BY <2>1
    <3> HIDE DEF tree, active
    <3> QED  BY <1>2, <3>1, SameKeeps
  <2>2. CASE ~None(t)
    <3>1. tree[t] = RemoveAt(s.tree[t], Pruned(s, t, dead)) /\ active[t] = ShiftActive(s.active[t], Pruned(s, t, dead))
      BY <2>2
    <3>2. Pruned(s, t, dead) \in DOMAIN s.tree[t]
      BY <1>3, <2>2
    <3> HIDE DEF tree, active
    <3> QED  BY <1>2, <3>1, <3>2, LeafGone
  <2> QED  BY <2>1, <2>2
<1>5. tree \in [Tabs -> Splits] /\ active \in [Tabs -> Nat]
  BY <1>4 DEF Keeps
<1>6. spawned \in Seq(Tasks)
  <2>1. s.spawned \in Seq(Tasks)
    BY DEF MainThread
  <2> QED  BY <2>1, RemovalsAreTasks, ConcatTasks
<1> HIDE DEF tree, active, spawned
<1>7. /\ r \in MainThread /\ r.store = s.store /\ r.panes = s.panes /\ r.spawned = spawned
      /\ r.windows = s.windows /\ r.tree = tree /\ r.active = active /\ r.current = s.current
  BY <1>1, <1>5, <1>6 DEF MainThread
<1>8. \A t \in Tabs : \A p : InTab(r, p, t) => InTab(s, p, t)
  BY <1>4, <1>7 DEF InTab, Keeps
<1>9. Shrinks(s, r)
  BY <1>7, <1>8 DEF Shrinks
<1> QED  BY <1>7, <1>9, MarksNothing DEF Calm

LEMMA RemoveDeadTabsDoes ==
    ASSUME NEW s \in MainThread, NEW dead, NEW r, r = RemoveDeadTabs(s, dead)
    PROVE  Calm(s, r, {})
<1> DEFINE dying == DeadTabs(s, dead)
           left == [w \in Windows |-> WithoutTabs(s.windows[w], dying)]
           emptied == {w \in Windows : s.windows[w].tabs # <<>> /\ left[w].tabs = <<>>}
           spawned == IF emptied = {} THEN s.spawned ELSE Append(s.spawned, ReconcileTask)
           a == [s EXCEPT !.windows = left, !.spawned = spawned]
           gone == UNION {Range(s.tree[t]) : t \in dying}
<1>1. r = DropPanes(a, gone)
  BY DEF RemoveDeadTabs, MainThread
<1>2. \A w \in Windows : s.windows[w] \in WindowValues
  BY DEF MainThread
<1> HIDE DEF dying
<1>3. /\ left \in [Windows -> WindowValues]
      /\ \A w \in Windows : Held(left[w]) \subseteq Held(s.windows[w])
  BY <1>2, WithoutTabsDoes
<1>4. spawned \in Seq(Tasks)
  <2>1. s.spawned \in Seq(Tasks)
    BY DEF MainThread
  <2> QED  BY <2>1, OtherTasks
<1> HIDE DEF left, spawned
<1>5. /\ a \in MainThread /\ a.store = s.store /\ a.panes = s.panes /\ a.spawned = spawned
      /\ a.windows = left /\ a.tree = s.tree /\ a.active = s.active
  BY <1>3, <1>4 DEF MainThread
<1> HIDE DEF a, gone
<1>6. Shrinks(s, a)
  BY <1>3, <1>5 DEF Shrinks, InTab
<1>7. Calm(s, a, {})
  BY <1>5, <1>6, MarksNothing DEF Calm
<1>8. Calm(a, r, {})
  BY <1>1, <1>5, DropPanesDoes
<1>9. Calm(s, r, {} \cup {}) /\ {} \cup {} = {}
  BY <1>7, <1>8, CalmTrans
<1> QED  BY <1>7, <1>8, <1>9

LEMMA CalmThenCalm ==
    ASSUME NEW s \in MainThread, NEW r, NEW t, NEW ps, Calm(s, r, ps), Calm(r, t, {})
    PROVE  Calm(s, t, ps) /\ r \in MainThread
<1>1. Calm(s, t, ps \cup {}) /\ ps \cup {} = ps
  BY CalmTrans
<1> QED  BY <1>1 DEF Calm

LEMMA PruneDeadWindowsDoes ==
    ASSUME NEW s \in MainThread, NEW dead, NEW r, r = PruneDeadWindows(s, dead)
    PROVE  Calm(s, r, {})
<1> DEFINE a == PruneTabs(s, dead)
<1>1. Calm(s, a, {})
  BY PruneTabsDoes
<1>2. a \in MainThread /\ r = RemoveDeadTabs(a, dead)
  BY <1>1 DEF Calm, PruneDeadWindows
<1> HIDE DEF a
<1>3. Calm(a, r, {})
  BY <1>2, RemoveDeadTabsDoes
<1> QED  BY <1>1, <1>3, CalmThenCalm

LEMMA RemovePaneDoes ==
    ASSUME NEW s \in MainThread, NEW p, NEW dead, NEW r, r = RemovePane(s, p, dead)
    PROVE  Calm(s, r, {})
<1> DEFINE a == DropPanes(s, {p})
<1>1. Calm(s, a, {})
  BY DropPanesDoes
<1>2. a \in MainThread /\ r = PruneDeadWindows(a, dead)
  BY <1>1 DEF Calm, RemovePane
<1> HIDE DEF a
<1>3. Calm(a, r, {})
  BY <1>2, PruneDeadWindowsDoes
<1> QED  BY <1>1, <1>3, CalmThenCalm

-----------------------------------------------------------------------------
(* Workspaces. *)
LEMMA CurrentDoes ==
    ASSUME NEW s \in MainThread, NEW ws \in Workspaces, NEW r, r = [s EXCEPT !.current = ws]
    PROVE  /\ Calm(s, r, {}) /\ r.current = ws
           /\ r.windows = s.windows /\ r.tree = s.tree /\ r.active = s.active
<1>1. /\ r \in MainThread /\ r.store = s.store /\ r.panes = s.panes /\ r.spawned = s.spawned
      /\ r.windows = s.windows /\ r.tree = s.tree /\ r.active = s.active /\ r.current = ws
  BY DEF MainThread
<1> QED  BY <1>1, MarksNothing, SamePlaces DEF Calm

(* What is in front of the user in a workspace depends on the tabs alone.  *)
LEMMA SameShown ==
    ASSUME NEW s, NEW r, r.windows = s.windows, r.tree = s.tree, r.active = s.active, NEW ws
    PROVE  OpenWindows(r, ws) = OpenWindows(s, ws) /\ ShownIn(r, ws) = ShownIn(s, ws)
BY DEF OpenWindows, ShownIn, ActivePane

(* The current workspace changes and its frontend is told. *)
LEMMA SwitchedDoes ==
    ASSUME NEW s \in MainThread, NEW ws \in Workspaces,
           NEW r, r = Spawn([s EXCEPT !.current = ws], ReconcileTask)
    PROVE  /\ Calm(s, r, {}) /\ r.current = ws
           /\ r.windows = s.windows /\ r.tree = s.tree /\ r.active = s.active
<1> DEFINE a == [s EXCEPT !.current = ws]
<1>1. /\ Calm(s, a, {}) /\ a.current = ws
      /\ a.windows = s.windows /\ a.tree = s.tree /\ a.active = s.active
  BY CurrentDoes
<1>2. a \in MainThread /\ r = Spawn(a, ReconcileTask)
  BY <1>1 DEF Calm
<1> HIDE DEF a
<1>3. /\ Calm(a, r, {})
      /\ r.windows = a.windows /\ r.tree = a.tree /\ r.active = a.active /\ r.current = a.current
  BY <1>2, SpawnDoes, OtherTasks
<1> QED  BY <1>1, <1>3, CalmThenCalm

LEMMA ReconcileDoes ==
    ASSUME NEW s \in MainThread, NEW r, r = Reconcile(s)
    PROVE  /\ Calm(s, r, {})
           /\ OpenWindows(s, s.current) # {} => r = s
<1> DEFINE others == {ws \in Workspaces : OpenWindows(s, ws) # {}}
           other == CHOOSE ws \in others : TRUE
<1>1. CASE OpenWindows(s, s.current) # {} \/ others = {}
  <2>1. r = s
    BY <1>1 DEF Reconcile
  <2>2. Calm(s, s, {})
    BY MarksNothing, SamePlaces DEF Calm
  <2> QED  BY <2>1, <2>2
<1>2. CASE ~(OpenWindows(s, s.current) # {} \/ others = {})
  <2>1. r = Spawn([s EXCEPT !.current = other], ReconcileTask)
    BY <1>2 DEF Reconcile
  <2>2. other \in Workspaces
    BY <1>2
  <2> HIDE DEF other
  <2> QED  BY <1>2, <2>1, <2>2, SwitchedDoes
<1> QED  BY <1>1, <1>2

LEMMA SwitchWorkspaceDoes ==
    ASSUME NEW s \in MainThread, NEW ws \in Workspaces, NEW r, r = SwitchWorkspace(s, ws)
    PROVE  /\ Calm(s, r, ShownIn(s, ws))
           /\ OpenWindows(s, ws) # {} => Shown(r) = ShownIn(s, ws)
<1> DEFINE a == Spawn([s EXCEPT !.current = ws], ReconcileTask)
           seen == ShownIn(s, ws)
           b == MarkRead(a, seen)
<1>1. /\ Calm(s, a, {}) /\ a.current = ws
      /\ a.windows = s.windows /\ a.tree = s.tree /\ a.active = s.active
  BY SwitchedDoes
<1>2. a \in MainThread /\ r = Reconcile(b)
  BY <1>1 DEF Calm, SwitchWorkspace
<1> HIDE DEF a, seen
<1>3. /\ Calm(a, b, seen)
      /\ b.windows = a.windows /\ b.tree = a.tree /\ b.active = a.active /\ b.current = a.current
  BY <1>2, MarkReadDoes
<1>4. b \in MainThread
  BY <1>3 DEF Calm
<1> HIDE DEF b
<1>5. Calm(b, r, {}) /\ (OpenWindows(b, b.current) # {} => r = b)
  BY <1>2, <1>4, ReconcileDoes
<1>6. Calm(s, b, {} \cup seen) /\ {} \cup seen = seen
  BY <1>1, <1>3, CalmTrans
<1>7. Calm(s, r, seen)
  <2>1. Calm(s, b, seen)
    BY <1>6
  <2> QED  BY <1>5, <2>1, CalmThenCalm
<1>9. OpenWindows(b, ws) = OpenWindows(s, ws) /\ ShownIn(b, ws) = ShownIn(s, ws)
  BY <1>1, <1>3, SameShown
<1>10. OpenWindows(s, ws) # {} => Shown(r) = ShownIn(s, ws)
  BY <1>1, <1>3, <1>5, <1>9 DEF Shown
<1> QED  BY <1>7, <1>10 DEF seen

-----------------------------------------------------------------------------
(* The invariant.  Tabs and panes are nowhere but where they were placed   *)
(* at first.                                                               *)
Placed(s) ==
    /\ \A w \in Windows : \A t \in Held(s.windows[w]) : \E i \in DOMAIN TabList[w] : TabList[w][i] = t
    /\ \A t \in Tabs : \A p : InTab(s, p, t) => \E i \in DOMAIN Leaves[t] : Leaves[t][i] = p

(* BadgesInPlace, for each place a pane may have. *)
Badges(s, gone) ==
    \A i \in DOMAIN LogOf(s) :
        LogOf(s)[i].unread =>
          /\ LogOf(s)[i].pane \in s.panes \cup gone
          /\ \A w \in Windows, t \in Tabs :
                t \in Held(s.windows[w]) /\ InTab(s, LogOf(s)[i].pane, t)
                  => LogOf(s)[i].workspace = WorkspaceOf[w]

Good(s, gone) == s \in MainThread /\ Placed(s) /\ Differ(LogOf(s)) /\ Badges(s, gone)

IInv == Good(m, late) /\ m.spawned = <<>> /\ queue \in Seq(Tasks)

(* A tab is in one window at most, a pane in one tab.                      *)
LEMMA OnePlace ==
    ASSUME NEW s, Placed(s), NEW p
    PROVE  /\ \A t, u \in Tabs : InTab(s, p, t) /\ InTab(s, p, u) => t = u
           /\ \A w, v \in Windows : \A t \in Tabs :
                t \in Held(s.windows[w]) /\ t \in Held(s.windows[v]) => w = v
<1>1. ASSUME NEW t \in Tabs, NEW u \in Tabs, InTab(s, p, t), InTab(s, p, u) PROVE t = u
  <2>1. PICK i \in DOMAIN Leaves[t] : Leaves[t][i] = p
    BY <1>1 DEF Placed
  <2>2. PICK j \in DOMAIN Leaves[u] : Leaves[u][j] = p
    BY <1>1 DEF Placed
  <2> QED  BY <2>1, <2>2, LayoutAssumption
<1>2. ASSUME NEW w \in Windows, NEW v \in Windows, NEW t \in Tabs,
             t \in Held(s.windows[w]), t \in Held(s.windows[v])
      PROVE  w = v
  <2>1. PICK i \in DOMAIN TabList[w] : TabList[w][i] = t
    BY <1>2 DEF Placed
  <2>2. PICK j \in DOMAIN TabList[v] : TabList[v][j] = t
    BY <1>2 DEF Placed
  <2> QED  BY <2>1, <2>2, LayoutAssumption
<1> QED  BY <1>1, <1>2

(* The workspace of a pane is that of the window that holds it.            *)
LEMMA WorkspaceIsHome ==
    ASSUME NEW s, Placed(s), NEW p, NEW w \in Windows, NEW t \in Tabs,
           t \in Held(s.windows[w]), InTab(s, p, t)
    PROVE  Places(s, p) # {} /\ WorkspaceForPane(s, p) = WorkspaceOf[w]
<1> DEFINE place == CHOOSE place \in Places(s, p) : TRUE
<1>1. <<w, t>> \in Places(s, p)
  BY DEF Places, Held
<1>2. place \in Places(s, p)
  BY <1>1
<1>3. WorkspaceForPane(s, p) = WorkspaceOf[place[1]]
  BY <1>1 DEF WorkspaceForPane
<1> HIDE DEF place
<1>4. place[1] \in Windows /\ place[2] \in Tabs /\ place[2] \in Held(s.windows[place[1]]) /\ InTab(s, p, place[2])
  BY <1>2 DEF Places, Held
<1>5. place[2] = t
  BY <1>4, OnePlace
<1>6. place[1] = w
  BY <1>4, <1>5, OnePlace
<1> QED  BY <1>1, <1>3, <1>6

LEMMA SamePaneAndText ==
    ASSUME NEW old, NEW new, Differ(old), DOMAIN new = DOMAIN old,
           \A i \in DOMAIN old : new[i].pane = old[i].pane /\ new[i].text = old[i].text,
           NEW n \in Nat, DOMAIN old = 1 .. n
    PROVE  Differ(new)
<1>1. ASSUME NEW i \in DOMAIN old, NEW j \in DOMAIN old, i < j, new[i].pane = new[j].pane,
             \A k \in (i + 1) .. (j - 1) : new[k].pane # new[i].pane
      PROVE  new[i].text # new[j].text
  <2>1. \A k \in (i + 1) .. (j - 1) : k \in DOMAIN old
    OBVIOUS
  <2>2. old[i].pane = old[j].pane
    BY <1>1
  <2>3. \A k \in (i + 1) .. (j - 1) : old[k].pane # old[i].pane
    BY <1>1, <2>1
  <2>4. old[i].text # old[j].text
    BY <1>1, <2>2, <2>3 DEF Differ, Listed!Differ
  <2> QED  BY <2>4
<1> QED  BY <1>1 DEF Differ, Listed!Differ

(* Removing and marking leave the badges in place.                         *)
LEMMA CalmIsGood ==
    ASSUME NEW s, NEW gone, Good(s, gone), NEW r, NEW ps, Calm(s, r, ps)
    PROVE  Good(r, gone)
<1>1. /\ r.panes \subseteq s.panes
      /\ DOMAIN LogOf(r) = DOMAIN LogOf(s)
      /\ \A i \in DOMAIN LogOf(s) :
            /\ LogOf(r)[i] = LogOf(s)[i] \/ LogOf(r)[i] = [LogOf(s)[i] EXCEPT !.unread = FALSE]
            /\ LogOf(s)[i].pane \in s.panes \ r.panes => ~LogOf(r)[i].unread
  BY DEF Calm, MarksOnly
<1>2. /\ LogOf(s) \in Seq(Notifications) /\ Len(LogOf(s)) \in Nat
      /\ DOMAIN LogOf(s) = 1 .. Len(LogOf(s))
      /\ \A i \in DOMAIN LogOf(s) : LogOf(s)[i] \in Notifications
  BY LogFacts DEF Good
<1>3. ASSUME NEW i \in DOMAIN LogOf(s)
      PROVE  /\ LogOf(r)[i].pane = LogOf(s)[i].pane /\ LogOf(r)[i].text = LogOf(s)[i].text
             /\ LogOf(r)[i].workspace = LogOf(s)[i].workspace
             /\ LogOf(r)[i].unread => LogOf(s)[i].unread
  <2> DEFINE a == LogOf(s)[i]
             b == LogOf(r)[i]
  <2>1. a \in Notifications /\ (b = a \/ b = [a EXCEPT !.unread = FALSE])
    BY <1>1, <1>2
  <2> HIDE DEF a, b
  <2>2. b.pane = a.pane /\ b.text = a.text /\ b.workspace = a.workspace /\ (b.unread => a.unread)
    BY <2>1, MarkedRecord
  <2> QED  BY <2>2 DEF a, b
<1>4. Differ(LogOf(r))
  BY <1>1, <1>2, <1>3, SamePaneAndText DEF Good
<1>5. /\ \A w \in Windows : Held(r.windows[w]) \subseteq Held(s.windows[w])
      /\ \A t \in Tabs : \A p : InTab(r, p, t) => InTab(s, p, t)
  BY DEF Calm, Shrinks
<1>6. Placed(r)
  BY <1>5 DEF Good, Placed
<1>7. Badges(r, gone)
  <2> SUFFICES ASSUME NEW i \in DOMAIN LogOf(r), LogOf(r)[i].unread
               PROVE  /\ LogOf(r)[i].pane \in r.panes \cup gone
                      /\ \A w \in Windows, t \in Tabs :
                            t \in Held(r.windows[w]) /\ InTab(r, LogOf(r)[i].pane, t)
                              => LogOf(r)[i].workspace = WorkspaceOf[w]
    BY DEF Badges
  <2>1. i \in DOMAIN LogOf(s) /\ LogOf(s)[i].unread
    BY <1>1, <1>3
  <2>2. /\ LogOf(s)[i].pane \in s.panes \cup gone
        /\ \A w \in Windows, t \in Tabs :
              t \in Held(s.windows[w]) /\ InTab(s, LogOf(s)[i].pane, t)
                => LogOf(s)[i].workspace = WorkspaceOf[w]
    BY <2>1 DEF Good, Badges
  <2>3. LogOf(r)[i].pane = LogOf(s)[i].pane /\ LogOf(r)[i].workspace = LogOf(s)[i].workspace
    BY <1>3, <2>1
  <2>4. LogOf(s)[i].pane \notin s.panes \ r.panes
    BY <1>1, <2>1
  <2> QED  BY <1>5, <2>2, <2>3, <2>4
<1> QED  BY <1>4, <1>6, <1>7 DEF Good, Calm

-----------------------------------------------------------------------------
(* A toast that is handled is filed where its pane is, or nowhere's badge. *)
Toasted(s, r, p) ==
    /\ Shrinks(s, r)
    /\ \A q \in Shown(s) \cap Panes : CountOf(r, q) <= CountOf(s, q)
    /\ Len(LogOf(r)) = Len(LogOf(s)) => NoneRead(LogOf(s), LogOf(r))

LEMMA WorkspaceTyped ==
    ASSUME NEW s \in MainThread, NEW p
    PROVE  WorkspaceForPane(s, p) \in Workspaces
<1>1. CASE Places(s, p) = {}
  BY <1>1 DEF WorkspaceForPane, MainThread
<1>2. CASE Places(s, p) # {}
  <2> DEFINE place == CHOOSE place \in Places(s, p) : TRUE
  <2>1. place \in Places(s, p)
    BY <1>2
  <2>2. WorkspaceForPane(s, p) = WorkspaceOf[place[1]]
    BY <1>2 DEF WorkspaceForPane
  <2> HIDE DEF place
  <2>3. place[1] \in Windows
    BY <2>1 DEF Places
  <2> QED  BY <2>2, <2>3, LayoutAssumption
<1> QED  BY <1>1, <1>2

LEMMA ToastDoes ==
    ASSUME NEW s, NEW gone, Good(s, gone), NEW p \in Panes, NEW text \in Texts,
           NEW r, r = HandleToast(s, p, text)
    PROVE  Good(r, gone \cup ({p} \ s.panes)) /\ Toasted(s, r, p)
<1> DEFINE w == WorkspaceForPane(s, p)
           unread == (s.focused # p /\ p \notin Shown(s))
           st == Notes!AddNotification(s.store, p, w, text, unread)
           later == gone \cup ({p} \ s.panes)
<1>1. s \in MainThread /\ s.store \in Stores /\ Differ(LogOf(s)) /\ w \in Workspaces /\ unread \in BOOLEAN
  BY WorkspaceTyped DEF Good, MainThread
<1>2. r = [s EXCEPT !.store = st]
  BY DEF HandleToast
<1>3. p \in Shown(s) => ~unread
  OBVIOUS
<1> HIDE DEF unread, w
<1>4. /\ st \in Stores /\ Differ(st.notifications)
      /\ \A q \in Panes : st.unread_by_pane[q] <= s.store.unread_by_pane[q] \/ (q = p /\ unread)
      /\ \A i \in DOMAIN st.notifications :
            \/ st.notifications[i].pane = p /\ st.notifications[i].workspace = w
            \/ \E j \in DOMAIN s.store.notifications : st.notifications[i] = s.store.notifications[j]
      /\ Len(st.notifications) = Len(s.store.notifications)
            => NoneRead(s.store.notifications, st.notifications)
  BY <1>1, AddDoes DEF LogOf
<1> HIDE DEF st
<1>5. /\ r \in MainThread /\ r.store = st /\ r.panes = s.panes /\ r.spawned = s.spawned
      /\ r.windows = s.windows /\ r.tree = s.tree /\ r.active = s.active /\ r.current = s.current
  BY <1>1, <1>2, <1>4 DEF MainThread
<1>6. LogOf(r) = st.notifications /\ \A q : CountOf(r, q) = st.unread_by_pane[q]
  BY <1>5 DEF LogOf, CountOf
<1>7. Shrinks(s, r)
  BY <1>5, SamePlaces
<1>8. /\ \A q \in Windows : Held(r.windows[q]) = Held(s.windows[q])
      /\ \A t, q : InTab(r, q, t) <=> InTab(s, q, t)
  BY <1>5 DEF InTab
<1>9. Placed(r) /\ Differ(LogOf(r))
  BY <1>4, <1>6, <1>8 DEF Good, Placed
<1>10. Badges(r, later)
  <2> SUFFICES ASSUME NEW i \in DOMAIN LogOf(r), LogOf(r)[i].unread
               PROVE  /\ LogOf(r)[i].pane \in r.panes \cup later
                      /\ \A v \in Windows, t \in Tabs :
                            t \in Held(r.windows[v]) /\ InTab(r, LogOf(r)[i].pane, t)
                              => LogOf(r)[i].workspace = WorkspaceOf[v]
    BY DEF Badges
  <2>1. CASE LogOf(r)[i].pane = p /\ LogOf(r)[i].workspace = w
    <3>1. p \in r.panes \cup later
      BY <1>5
    <3>2. ASSUME NEW v \in Windows, NEW t \in Tabs, t \in Held(s.windows[v]), InTab(s, p, t)
          PROVE  w = WorkspaceOf[v]
      BY <3>2, WorkspaceIsHome DEF w, Good
    <3> QED  BY <1>8, <2>1, <3>1, <3>2
  <2>2. CASE \E j \in DOMAIN LogOf(s) : LogOf(r)[i] = LogOf(s)[j]
    <3>1. PICK j \in DOMAIN LogOf(s) : LogOf(r)[i] = LogOf(s)[j]
      BY <2>2
    <3>2. /\ LogOf(s)[j].pane \in s.panes \cup gone
          /\ \A v \in Windows, t \in Tabs :
                t \in Held(s.windows[v]) /\ InTab(s, LogOf(s)[j].pane, t)
                  => LogOf(s)[j].workspace = WorkspaceOf[v]
      BY <3>1 DEF Good, Badges
    <3> QED  BY <1>5, <1>8, <3>1, <3>2
  <2> QED  BY <1>4, <1>6, <2>1, <2>2 DEF LogOf
<1>11. \A q \in Shown(s) \cap Panes : CountOf(r, q) <= CountOf(s, q)
  BY <1>3, <1>4, <1>6 DEF CountOf
<1>12. Len(LogOf(r)) = Len(LogOf(s)) => NoneRead(LogOf(s), LogOf(r))
  BY <1>4, <1>6 DEF LogOf
<1> QED  BY <1>5, <1>7, <1>9, <1>10, <1>11, <1>12 DEF Good, Toasted

-----------------------------------------------------------------------------
(* The steps.  What the main thread owns after one, and that what is       *)
(* marked read is in front of the user then, but for an overtaken focus    *)
(* task.                                                                   *)
Stepped ==
    /\ queue' \in Seq(Tasks) /\ m'.spawned = <<>>
    /\ \/ \E p \in Panes : /\ Good(m', late') /\ Toasted(m, m', p)
       \/ \E ps : /\ Calm(m, m', ps) /\ late' = late
                  /\ \A p \in ps : p \in Shown(m') \/ LateFocus(p)

LEMMA RunDoes ==
    ASSUME NEW s \in MainThread, NEW r, r = [s EXCEPT !.spawned = <<>>]
    PROVE  /\ Calm(s, r, {}) /\ r.store = s.store /\ r.spawned = <<>>
           /\ r.windows = s.windows /\ r.tree = s.tree /\ r.active = s.active /\ r.current = s.current
<1>1. /\ r \in MainThread /\ r.store = s.store /\ r.panes = s.panes /\ r.spawned = <<>>
      /\ r.windows = s.windows /\ r.tree = s.tree /\ r.active = s.active /\ r.current = s.current
  <2> DEFINE none == <<>>
  <2>1. none \in Seq(Tasks) /\ r = [s EXCEPT !.spawned = none]
    OBVIOUS
  <2> HIDE DEF none
  <2>2. /\ r \in MainThread /\ r.store = s.store /\ r.panes = s.panes /\ r.spawned = none
        /\ r.windows = s.windows /\ r.tree = s.tree /\ r.active = s.active /\ r.current = s.current
    BY <2>1 DEF MainThread
  <2> QED  BY <2>2 DEF none
<1> QED  BY <1>1, MarksNothing, SamePlaces DEF Calm

(* A handler that only removes and marks, run with some tasks waiting.     *)
LEMMA CalmRun ==
    ASSUME IInv, NEW result, NEW waiting \in Seq(Tasks), NEW ps, Calm(m, result, ps),
           Run(result, waiting), late' = late
    PROVE  /\ queue' \in Seq(Tasks) /\ m'.spawned = <<>> /\ Calm(m, m', ps)
           /\ Shown(m') = Shown(result)
<1>1. result \in MainThread /\ m \in MainThread /\ m.spawned = <<>>
  BY DEF Calm, IInv, Good
<1>2. m' = [result EXCEPT !.spawned = <<>>] /\ queue' = waiting \o result.spawned
  BY DEF Run
<1>3. /\ Calm(result, m', {}) /\ m'.spawned = <<>>
      /\ m'.windows = result.windows /\ m'.tree = result.tree /\ m'.active = result.active
      /\ m'.current = result.current
  BY <1>1, <1>2, RunDoes
<1>4. Calm(m, m', ps)
  BY <1>1, <1>3, CalmThenCalm
<1>5. result.spawned \in Seq(Tasks)
  BY <1>1 DEF MainThread
<1>6. queue' \in Seq(Tasks)
  BY <1>2, <1>5, ConcatProperties
<1>7. Shown(m') = Shown(result)
  BY <1>3, SameShown DEF Shown
<1> QED  BY <1>3, <1>4, <1>6, <1>7

(* The tasks. *)
LEMMA DispatchStep == IInv /\ Dispatch => Stepped
<1> SUFFICES ASSUME IInv, Dispatch PROVE Stepped
  OBVIOUS
<1> DEFINE task == Head(queue)
           p == CHOOSE p \in task.panes : TRUE
           result == Handle(task)
           waiting == Tail(queue)
<1>1. /\ m \in MainThread /\ Good(m, late) /\ m.spawned = <<>> /\ queue \in Seq(Tasks) /\ queue # <<>>
  BY DEF IInv, Good, Dispatch
<1>2. /\ task \in Tasks /\ waiting \in Seq(Tasks) /\ task = queue[1] /\ 1 \in DOMAIN queue
  BY <1>1, HeadTailProperties, LenProperties
<1>3. Run(result, waiting)
  BY DEF Dispatch
<1>4. late' = IF task.kind = "toast" THEN late \cup (task.panes \ m.panes) ELSE late
  BY DEF Dispatch
<1>5. task = Head(queue)
  OBVIOUS
<1> HIDE DEF task, waiting
<1>6. task.kind \in {"toast", "focus", "remove"} => p \in Panes /\ task.panes = {p}
  BY <1>2 DEF Tasks
<1>7. task.kind \in {"toast", "focus", "remove", "prune", "reconcile"}
  BY <1>2 DEF Tasks
<1>8. ASSUME task.kind # "toast", Calm(m, result, {})
      PROVE  Stepped
  <2> HIDE DEF result
  <2>1. late' = late
    BY <1>4, <1>8
  <2>2. queue' \in Seq(Tasks) /\ m'.spawned = <<>> /\ Calm(m, m', {})
    BY <1>2, <1>3, <1>8, <2>1, CalmRun
  <2> QED  BY <2>1, <2>2 DEF Stepped
<1>9. CASE task.kind = "toast"
  <2>1. result = HandleToast(m, p, task.text) /\ p \in Panes /\ task.panes = {p} /\ task.text \in Texts
    BY <1>2, <1>6, <1>9 DEF Handle, Tasks
  <2> HIDE DEF result, p
  <2>2. late' = late \cup ({p} \ m.panes)
    BY <1>4, <1>9, <2>1
  <2>3. Good(result, late') /\ Toasted(m, result, p)
    BY <1>1, <2>1, <2>2, ToastDoes
  <2>4. m' = [result EXCEPT !.spawned = <<>>] /\ queue' = waiting \o result.spawned /\ result \in MainThread
    BY <1>3, <2>3 DEF Run, Good
  <2>5. /\ Calm(result, m', {}) /\ m'.spawned = <<>> /\ m'.store = result.store
    BY <2>4, RunDoes
  <2>6. Good(m', late')
    BY <2>3, <2>5, CalmIsGood
  <2>7. Shrinks(m, m')
    BY <2>3, <2>5 DEF Toasted, Calm, Shrinks
  <2>8. Toasted(m, m', p)
    BY <2>3, <2>5, <2>7 DEF Toasted, LogOf, CountOf
  <2>9. result.spawned \in Seq(Tasks)
    BY <2>4 DEF MainThread
  <2>10. queue' \in Seq(Tasks)
    BY <1>2, <2>4, <2>9, ConcatProperties
  <2> QED  BY <2>1, <2>5, <2>6, <2>8, <2>10 DEF Stepped
<1>10. CASE task.kind = "focus"
  <2>1. result = FocusPane(m, p) /\ p \in Panes /\ task.panes = {p}
    BY <1>6, <1>10 DEF Handle
  <2> HIDE DEF result, p
  <2>2. CASE Calm(m, result, {})
    BY <1>8, <1>10, <2>2
  <2>3. CASE /\ Calm(m, result, {p})
             /\ \E t \in Tabs : InTab(m, p, t) /\ ActivePane(m, t) # p
             /\ WorkspaceForPane(m, p) = m.current => p \in Shown(result)
    <3>1. late' = late
      BY <1>4, <1>10
    <3>2. /\ queue' \in Seq(Tasks) /\ m'.spawned = <<>> /\ Calm(m, m', {p})
          /\ Shown(m') = Shown(result)
      BY <1>2, <1>3, <2>3, <3>1, CalmRun
    <3>3. WorkspaceForPane(m, p) # m.current => LateFocus(p)
      BY <1>5, <1>10, <2>1, <2>3 DEF LateFocus
    <3>4. \A q \in {p} : q \in Shown(m') \/ LateFocus(q)
      BY <2>3, <3>2, <3>3
    <3> QED  BY <3>1, <3>2, <3>4 DEF Stepped
  <2> QED  BY <1>1, <2>1, <2>2, <2>3, FocusPaneDoes
<1>11. CASE task.kind = "remove"
  <2>1. result = RemovePane(m, p, exited)
    BY <1>11 DEF Handle
  <2> HIDE DEF result, p
  <2>2. Calm(m, result, {})
    BY <1>1, <2>1, RemovePaneDoes
  <2> QED  BY <1>8, <1>11, <2>2
<1>12. CASE task.kind = "prune"
  <2>1. result = PruneDeadWindows(m, exited)
    BY <1>12 DEF Handle
  <2> HIDE DEF result
  <2>2. Calm(m, result, {})
    BY <1>1, <2>1, PruneDeadWindowsDoes
  <2> QED  BY <1>8, <1>12, <2>2
<1>13. CASE task.kind = "reconcile"
  <2>1. result = Reconcile(m)
    BY <1>13 DEF Handle
  <2> HIDE DEF result
  <2>2. Calm(m, result, {})
    BY <1>1, <2>1, ReconcileDoes
  <2> QED  BY <1>8, <1>13, <2>2
<1> QED  BY <1>7, <1>9, <1>10, <1>11, <1>12, <1>13

-----------------------------------------------------------------------------
(* The user and the other threads. *)

(* A thread queues a task; the main thread does nothing.                   *)
LEMMA QueuedStep ==
    ASSUME IInv, NEW task \in Tasks, queue' = Append(queue, task), m' = m, late' = late
    PROVE  Stepped
<1>1. m \in MainThread /\ m.spawned = <<>> /\ queue \in Seq(Tasks)
  BY DEF IInv, Good
<1>2. queue' \in Seq(Tasks)
  BY <1>1
<1>3. Calm(m, m', {})
  BY <1>1, MarksNothing, SamePlaces DEF Calm
<1> QED  BY <1>1, <1>2, <1>3 DEF Stepped

(* The main thread runs a handler that only removes and marks, between two *)
(* tasks.                                                                  *)
LEMMA UserStep ==
    ASSUME IInv, NEW result, NEW ps, Calm(m, result, ps), ps \subseteq Shown(result),
           Run(result, queue), late' = late
    PROVE  Stepped
<1>1. queue \in Seq(Tasks)
  BY DEF IInv
<1>2. /\ queue' \in Seq(Tasks) /\ m'.spawned = <<>> /\ Calm(m, m', ps)
      /\ Shown(m') = Shown(result)
  BY <1>1, CalmRun
<1> QED  BY <1>2 DEF Stepped

(* The active tab of an open window is one of its tabs.                    *)
LEMMA ActiveTabHeld ==
    ASSUME NEW s \in MainThread, NEW ws, NEW w \in OpenWindows(s, ws)
    PROVE  w \in Windows /\ Win!GetActive(s.windows[w]) \in Tabs
<1> DEFINE v == s.windows[w]
<1>1. w \in Windows /\ Len(v.tabs) > 0
  BY DEF OpenWindows
<1>2. v \in WindowValues
  BY <1>1 DEF MainThread
<1> HIDE DEF v
<1>3. v.tabs \in Seq(Tabs) /\ Len(v.tabs) \in Nat /\ v.active \in Nat /\ v.active < Len(v.tabs)
  BY <1>1, <1>2, LenProperties DEF WindowValues
<1>4. v.active + 1 \in 1 .. Len(v.tabs)
  BY <1>3
<1>5. v.tabs[v.active + 1] \in Tabs
  BY <1>3, <1>4, ElementOfSeq
<1> QED  BY <1>1, <1>3, <1>5 DEF v, Win!GetActive, Win!GetByIdx

LEMMA SelectPaneStep ==
    ASSUME IInv, NEW p \in Panes, SelectPane(p)
    PROVE  Stepped
<1> PICK w \in OpenWindows(m, m.current) :
        LET t == Win!GetActive(m.windows[w])
        IN InTab(m, p, t) /\ ActivePane(m, t) # p /\ Run(SetActivePane(m, t, p), queue)
  BY DEF SelectPane
<1> DEFINE t == Win!GetActive(m.windows[w])
           result == SetActivePane(m, t, p)
<1>1. /\ m \in MainThread /\ m.spawned = <<>> /\ queue \in Seq(Tasks)
      /\ late' = late
  BY DEF IInv, Good, SelectPane
<1>2. InTab(m, p, t) /\ ActivePane(m, t) # p /\ Run(result, queue)
  OBVIOUS
<1>3. t \in Tabs
  BY <1>1, ActiveTabHeld
<1>4. /\ Calm(m, result, {p}) /\ result.windows = m.windows /\ result.tree = m.tree
      /\ result.current = m.current /\ ActivePane(result, t) = p
  <2> HIDE DEF t
  <2>1. InTab(m, p, t) /\ m \in MainThread /\ result = SetActivePane(m, t, p)
    BY <1>1, <1>2
  <2> HIDE DEF result
  <2> QED  BY <1>3, <2>1, SetActivePaneDoes
<1> HIDE DEF result
<1>5. /\ queue' \in Seq(Tasks) /\ m'.spawned = <<>> /\ Calm(m, m', {p})
      /\ Shown(m') = Shown(result)
  BY <1>1, <1>2, <1>4, CalmRun
<1>6. {p} \subseteq Shown(result)
  <2>1. w \in OpenWindows(result, result.current) /\ Win!GetActive(result.windows[w]) = t
    BY <1>4 DEF OpenWindows
  <2>2. p # NoPane
    BY LayoutAssumption
  <2> HIDE DEF t
  <2>3. p \in ShownIn(result, result.current)
    BY <1>4, <2>1, <2>2 DEF ShownIn
  <2> QED  BY <2>3 DEF Shown
<1> QED  BY <1>1, <1>5, <1>6 DEF Stepped

LEMMA ActivateTabStep ==
    ASSUME IInv, NEW w \in Windows, NEW idx \in 0 .. (Len(m.windows[w].tabs) - 1), ActivateTab(w, idx)
    PROVE  Stepped
<1> DEFINE result == [m EXCEPT !.windows[w] = Win!SetActive(@, idx)]
<1>1. m \in MainThread /\ Run(result, queue) /\ late' = late
  BY DEF IInv, Good, ActivateTab
<1>2. Calm(m, result, {})
  <2>1. result = Activated(m, w, idx)
    BY DEF Activated
  <2> HIDE DEF result
  <2> QED  BY <1>1, <2>1, SetActiveDoes
<1> HIDE DEF result
<1> QED  BY <1>1, <1>2, UserStep

LEMMA ChooseWorkspaceStep ==
    ASSUME IInv, NEW ws \in Workspaces, ChooseWorkspace(ws)
    PROVE  Stepped
<1> DEFINE result == SwitchWorkspace(m, ws)
<1>1. m \in MainThread /\ Run(result, queue) /\ late' = late /\ OpenWindows(m, ws) # {}
  BY DEF IInv, Good, ChooseWorkspace
<1>2. Calm(m, result, ShownIn(m, ws)) /\ Shown(result) = ShownIn(m, ws)
  BY <1>1, SwitchWorkspaceDoes
<1> HIDE DEF result
<1> QED  BY <1>1, <1>2, UserStep

LEMMA JumpToUnreadStep ==
    ASSUME IInv, NEW p \in Panes, JumpToUnread(p)
    PROVE  Stepped
<1> DEFINE ws == WorkspaceForPane(m, p)
           a == Spawn([m EXCEPT !.current = ws], ReconcileTask)
           result == SwitchWorkspace(a, ws)
<1>1. /\ m \in MainThread /\ Placed(m) /\ Run(result, queue) /\ late' = late
      /\ Places(m, p) # {} /\ ws \in Workspaces
  BY WorkspaceTyped DEF IInv, Good, JumpToUnread
<1>2. OpenWindows(m, ws) # {}
  <2> DEFINE place == CHOOSE place \in Places(m, p) : TRUE
  <2>1. place \in Places(m, p)
    BY <1>1
  <2>2. ws = WorkspaceOf[place[1]]
    BY <1>1 DEF WorkspaceForPane
  <2> HIDE DEF place, ws
  <2>3. place[1] \in Windows /\ Win!HasTab(m.windows[place[1]], place[2])
    BY <2>1 DEF Places
  <2>4. m.windows[place[1]] \in WindowValues
    BY <1>1, <2>3 DEF MainThread
  <2>5. m.windows[place[1]].tabs \in Seq(Tabs)
    BY <2>4 DEF WindowValues
  <2>6. Len(m.windows[place[1]].tabs) > 0
    BY <2>3, <2>5, LenProperties DEF Win!HasTab
  <2> QED  BY <2>2, <2>3, <2>6 DEF OpenWindows
<1> HIDE DEF ws
<1>3. /\ Calm(m, a, {})
      /\ a.windows = m.windows /\ a.tree = m.tree /\ a.active = m.active
  BY <1>1, SwitchedDoes
<1>4. a \in MainThread
  BY <1>3 DEF Calm
<1>5. OpenWindows(a, ws) # {}
  BY <1>2, <1>3, SameShown
<1> HIDE DEF a
<1>6. Calm(a, result, ShownIn(a, ws)) /\ Shown(result) = ShownIn(a, ws)
  BY <1>1, <1>4, <1>5, SwitchWorkspaceDoes
<1>7. Calm(m, result, {} \cup ShownIn(a, ws)) /\ {} \cup ShownIn(a, ws) = ShownIn(a, ws)
  BY <1>1, <1>3, <1>6, CalmTrans
<1>8. Calm(m, result, ShownIn(a, ws))
  BY <1>3, <1>6, <1>7
<1> HIDE DEF result
<1> QED  BY <1>1, <1>6, <1>8, UserStep

LEMMA ClosePaneStep ==
    ASSUME IInv, NEW p \in Panes, ClosePane(p)
    PROVE  Stepped
<1> DEFINE result == RemovePane(m, p, exited)
<1>1. m \in MainThread /\ Run(result, queue) /\ late' = late
  BY DEF IInv, Good, ClosePane
<1>2. Calm(m, result, {})
  BY <1>1, RemovePaneDoes
<1> HIDE DEF result
<1> QED  BY <1>1, <1>2, UserStep

LEMMA PaintStep ==
    ASSUME IInv, NEW p \in Panes, Paint(p)
    PROVE  Stepped
<1> DEFINE result == [m EXCEPT !.focused = p]
<1>1. m \in MainThread /\ Run(result, queue) /\ late' = late
  BY DEF IInv, Good, Paint
<1>2. /\ result \in MainThread /\ result.store = m.store /\ result.panes = m.panes
      /\ result.spawned = m.spawned /\ result.windows = m.windows /\ result.tree = m.tree
      /\ result.active = m.active
  BY <1>1 DEF MainThread
<1> HIDE DEF result
<1>3. Calm(m, result, {})
  BY <1>1, <1>2, MarksNothing, SamePlaces DEF Calm
<1> QED  BY <1>1, <1>3, UserStep

LEMMA NextStep == IInv /\ Next => Stepped
<1> SUFFICES ASSUME IInv, Next PROVE Stepped
  OBVIOUS
<1>1. CASE Dispatch
  BY <1>1, DispatchStep
<1>2. ASSUME NEW p \in Panes, NEW text \in Texts, QueueToast(p, text) PROVE Stepped
  BY <1>2, OtherTasks, QueuedStep DEF QueueToast
<1>3. ASSUME NEW p \in Panes, ChildExits(p) PROVE Stepped
  BY <1>3, OtherTasks, QueuedStep DEF ChildExits
<1>4. ASSUME NEW p \in Panes, PtyEof(p) PROVE Stepped
  BY <1>4, OtherTasks, QueuedStep DEF PtyEof
<1>5. ASSUME NEW p \in Panes, SelectPane(p) \/ JumpToUnread(p) \/ ClosePane(p) \/ Paint(p) PROVE Stepped
  BY <1>5, SelectPaneStep, JumpToUnreadStep, ClosePaneStep, PaintStep
<1>6. ASSUME NEW w \in Windows, NEW idx \in 0 .. (Len(m.windows[w].tabs) - 1), ActivateTab(w, idx)
      PROVE  Stepped
  BY <1>6, ActivateTabStep
<1>7. ASSUME NEW ws \in Workspaces, ChooseWorkspace(ws) PROVE Stepped
  BY <1>7, ChooseWorkspaceStep
<1> QED  BY <1>1, <1>2, <1>3, <1>4, <1>5, <1>6, <1>7 DEF Next

-----------------------------------------------------------------------------
LEMMA InitIInv == Init => IInv
<1> SUFFICES ASSUME Init PROVE IInv
  OBVIOUS
<1> DEFINE windows == [w \in Windows |-> [Win!EmptyWindow EXCEPT !.tabs = TabList[w]]]
<1>1. m = [panes   |-> Panes, tree |-> Leaves, active |-> [t \in Tabs |-> 0], windows |-> windows,
           current |-> InitialWorkspace, focused |-> NoPane, store |-> Notes!EmptyStore,
           spawned |-> <<>>]
  BY DEF Init
<1>2. \A w \in Windows : windows[w] \in WindowValues /\ windows[w].tabs = TabList[w]
  <2> TAKE w \in Windows
  <2>1. TabList[w] \in Seq(Tabs) /\ Len(TabList[w]) \in Nat
    BY LayoutAssumption, LenProperties
  <2>2. windows[w] = [tabs |-> TabList[w], active |-> 0, last_active |-> NoTab]
    BY DEF Win!EmptyWindow
  <2> HIDE DEF windows
  <2> QED  BY <2>1, <2>2 DEF WindowValues
<1>3. windows \in [Windows -> WindowValues]
  BY <1>2
<1>4. Leaves \in [Tabs -> Splits]
  <2>1. \A t \in Tabs : Leaves[t] \in Splits
    BY LayoutAssumption DEF Splits
  <2> QED  BY <2>1, LayoutAssumption
<1>5. /\ Notes!EmptyStore \in Stores /\ Notes!EmptyStore.notifications = <<>>
      /\ DOMAIN Notes!EmptyStore.notifications = {}
  BY DEF Notes!EmptyStore, Stores
<1>6. InitialWorkspace \in Workspaces /\ <<>> \in Seq(Tasks)
  BY LayoutAssumption
<1> HIDE DEF windows
<1> DEFINE empty == Notes!EmptyStore
           none == <<>>
<1>7. /\ empty \in Stores /\ none \in Seq(Tasks) /\ DOMAIN empty.notifications = {}
      /\ m = [panes   |-> Panes, tree |-> Leaves, active |-> [t \in Tabs |-> 0], windows |-> windows,
              current |-> InitialWorkspace, focused |-> NoPane, store |-> empty, spawned |-> none]
  BY <1>1, <1>5, <1>6
<1> HIDE DEF empty, none
<1>8. /\ m \in MainThread /\ m.windows = windows /\ m.tree = Leaves /\ m.store = empty /\ m.spawned = none
  BY <1>3, <1>4, <1>6, <1>7 DEF MainThread
<1>9. DOMAIN LogOf(m) = {}
  BY <1>7, <1>8 DEF LogOf
<1>10. Differ(LogOf(m)) /\ Badges(m, late)
  BY <1>9 DEF Badges, Differ, Listed!Differ
<1>11. Placed(m)
  BY <1>2, <1>8 DEF Placed, Held, Win!HasTab, InTab
<1>12. queue \in Seq(Tasks)
  BY DEF Init
<1> QED  BY <1>8, <1>10, <1>11, <1>12 DEF IInv, Good, none

LEMMA NextIInv == IInv /\ [Next]_vars => IInv'
<1> SUFFICES ASSUME IInv, [Next]_vars PROVE IInv'
  OBVIOUS
<1>1. CASE Next
  <2>1. Stepped
    BY <1>1, NextStep
  <2>2. Good(m', late')
    <3>1. CASE \E p \in Panes : Good(m', late') /\ Toasted(m, m', p)
      BY <3>1
    <3>2. CASE \E ps : Calm(m, m', ps) /\ late' = late
      BY <3>2, CalmIsGood DEF IInv
    <3> QED  BY <2>1, <3>1, <3>2 DEF Stepped
  <2> QED  BY <2>1, <2>2 DEF Stepped, IInv
<1>2. CASE UNCHANGED vars
  BY <1>2 DEF vars, IInv
<1> QED  BY <1>1, <1>2

(* The panes, tabs and windows of the main thread, the store and the tasks *)
(* keep their types, and every pane and tab is where it was placed or      *)
(* gone.                                                                   *)
THEOREM MainThreadInvariant == Spec => []IInv
<1>1. Init => IInv
  BY InitIInv
<1>2. IInv /\ [Next]_vars => IInv'
  BY NextIInv
<1> QED  BY <1>1, <1>2, PTL DEF Spec

(* A badge is on the card of the workspace its pane is in, and a pane that *)
(* is gone leaves none behind, whatever tasks of the parser threads and of *)
(* the main thread come in between (notify_pane, prune_dead_panes,         *)
(* remove_pane, switch_workspace).                                         *)
THEOREM BadgesStayInPlace == Spec => []BadgesInPlace
<1>1. IInv => BadgesInPlace
  <2> SUFFICES ASSUME IInv, NEW i \in DOMAIN LogOf(m), LogOf(m)[i].unread
               PROVE  /\ LogOf(m)[i].pane \in m.panes \cup late
                      /\ Places(m, LogOf(m)[i].pane) # {} =>
                            LogOf(m)[i].workspace = WorkspaceForPane(m, LogOf(m)[i].pane)
    BY DEF BadgesInPlace, LogOf
  <2> DEFINE n == LogOf(m)[i]
  <2>1. /\ n.pane \in m.panes \cup late
        /\ \A w \in Windows, t \in Tabs :
              t \in Held(m.windows[w]) /\ InTab(m, n.pane, t) => n.workspace = WorkspaceOf[w]
    BY DEF IInv, Good, Badges
  <2> HIDE DEF n
  <2>2. ASSUME Places(m, n.pane) # {} PROVE n.workspace = WorkspaceForPane(m, n.pane)
    <3>1. PICK place \in Places(m, n.pane) : TRUE
      BY <2>2
    <3>2. /\ place[1] \in Windows /\ place[2] \in Tabs /\ place[2] \in Held(m.windows[place[1]])
          /\ InTab(m, n.pane, place[2])
      BY <3>1 DEF Places, Held
    <3>3. WorkspaceForPane(m, n.pane) = WorkspaceOf[place[1]]
      BY <3>2, WorkspaceIsHome DEF IInv, Good
    <3> QED  BY <2>1, <3>2, <3>3
  <2> QED  BY <2>1, <2>2 DEF n
<1> QED  BY <1>1, MainThreadInvariant, PTL

(* A pane that stays in front of the user is not marked unread by a toast  *)
(* that is handled while it is there (the visibility test of notify_pane). *)
THEOREM WatchedPanesStayRead == Spec => WatchedStaysRead
<1>1. IInv /\ [Next]_vars =>
        [\A p \in Panes :
            ~Notes!HasUnread(m.store, p) /\ Notes!HasUnread(m.store, p)'
               => p \notin Shown(m) \cap Shown(m)']_vars
  <2> SUFFICES ASSUME IInv, Next, NEW p \in Panes, p \in Shown(m) \cap Shown(m'),
                      ~Notes!HasUnread(m.store, p)
               PROVE  ~Notes!HasUnread(m'.store, p)
    BY DEF Notes!HasUnread
  <2>1. Stepped
    BY NextStep
  <2>2. m \in MainThread /\ m' \in MainThread
    BY <2>1 DEF IInv, Good, Stepped, Calm
  <2>3. CountOf(m', p) <= CountOf(m, p)
    BY <2>1 DEF Stepped, Toasted, Calm, MarksOnly
  <2>4. CountOf(m, p) \in Nat /\ CountOf(m', p) \in Nat
    BY <2>2, LogFacts
  <2>5. ~(CountOf(m, p) > 0)
    BY DEF Notes!HasUnread, CountOf
  <2>6. ~(CountOf(m', p) > 0)
    BY <2>3, <2>4, <2>5
  <2> QED  BY <2>6 DEF Notes!HasUnread, CountOf
<1> QED  BY <1>1, MainThreadInvariant, PTL DEF Spec, WatchedStaysRead

(* No removal, prune, toast or switch, and no focus task but one that      *)
(* another change of focus overtook and whose workspace the user has left, *)
(* clears the badge of a pane that nobody has seen (the marks of           *)
(* set_active_pane, remove_pane and switch_workspace).                     *)
THEOREM BadgesAreReadWhenSeen == Spec => ReadOnlyWhenSeen
<1> DEFINE Seen ==
        \A i \in DOMAIN m.store.notifications :
          LET log == m.store.notifications
              p == log[i].pane
          IN ( /\ log[i].unread /\ p \in m'.panes
               /\ Len(m'.store.notifications) = Len(log)
               /\ m'.store.notifications[i] = [log[i] EXCEPT !.unread = FALSE] )
               => p \in Shown(m)' \/ LateFocus(p)
<1>1. IInv /\ [Next]_vars => [Seen]_vars
  <2> SUFFICES ASSUME IInv, Next, NEW i \in DOMAIN LogOf(m), LogOf(m)[i].unread,
                      LogOf(m)[i].pane \in m'.panes, Len(LogOf(m')) = Len(LogOf(m)),
                      LogOf(m')[i] = [LogOf(m)[i] EXCEPT !.unread = FALSE]
               PROVE  LogOf(m)[i].pane \in Shown(m') \/ LateFocus(LogOf(m)[i].pane)
    BY DEF LogOf
  <2>1. Stepped
    BY NextStep
  <2>2. CASE \E p \in Panes : Toasted(m, m', p)
    BY <2>2 DEF Toasted, NoneRead
  <2>3. ASSUME NEW ps, Calm(m, m', ps), \A p \in ps : p \in Shown(m') \/ LateFocus(p)
        PROVE  LogOf(m)[i].pane \in Shown(m') \/ LateFocus(LogOf(m)[i].pane)
    <3>1. LogOf(m)[i] \in Notifications
      BY LogFacts DEF IInv, Good
    <3>2. LogOf(m')[i] # LogOf(m)[i]
      BY <3>1, MarkedRecord
    <3>3. LogOf(m)[i].pane \in ps \cup (m.panes \ m'.panes)
      BY <2>3, <3>2 DEF Calm, MarksOnly
    <3> QED  BY <2>3, <3>3
  <2> QED  BY <2>1, <2>2, <2>3 DEF Stepped
<1> QED  BY <1>1, MainThreadInvariant, PTL DEF Spec, ReadOnlyWhenSeen

=============================================================================

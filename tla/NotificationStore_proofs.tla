----------------------- MODULE NotificationStore_proofs -----------------------
(* Proofs about NotificationStore, for any panes, workspaces and texts and *)
(* any capacity: the two tables of counts never drift from the list.       *)
EXTENDS NotificationStore, FiniteSetTheorems, SequenceTheorems, WellFoundedInduction, TLAPS

(* A set of numbers that has some has a least. *)
LEMMA LeastOf ==
    ASSUME NEW S \in SUBSET Nat, S # {}
    PROVE  \E m \in S : \A k \in S : m <= k
<1> DEFINE R == OpToRel(<, Nat)
<1>1. \A x, y \in Nat : x < y => <<x, y>> \in R
  BY DEF OpToRel
<1>2. IsWellFoundedOn(R, Nat)
  BY NatLessThanWellFounded
<1> HIDE DEF R
<1>3. PICK m \in S : \A y \in S : <<y, m>> \notin R
  BY <1>2, WFMin
<1>4. m \in Nat /\ \A k \in S : k \in Nat /\ ~(k < m)
  BY <1>1, <1>3
<1>5. \A k \in S : m <= k
  BY <1>4
<1> QED  BY <1>5

Stores ==
    [notifications       : Seq(Notifications),
     unread_by_pane      : [Panes -> Nat],
     unread_by_workspace : [Workspaces -> Nat]]

Counted(s) ==
    /\ \A p \in Panes :
          s.unread_by_pane[p] = Cardinality(UnreadOfPane(s.notifications, p))
    /\ \A w \in Workspaces :
          s.unread_by_workspace[w] = Cardinality(UnreadOfWorkspace(s.notifications, w))

IInv == store \in Stores /\ Counted(store) /\ Len(store.notifications) <= MaxNotifications

(* The indices of a list, and every set of them, are finite.               *)
LEMMA IndexSetFinite ==
    ASSUME NEW n \in Nat, NEW S \in SUBSET (1 .. n)
    PROVE  IsFiniteSet(S) /\ Cardinality(S) \in Nat
<1>1. IsFiniteSet(1 .. n)
  BY FS_Interval
<1> QED  BY <1>1, FS_Subset, FS_CardinalityType

(* Moving every index of a set up by one and adding or not the index 1     *)
(* counts the set, and the new index.                                      *)
LEMMA ShiftUp ==
    ASSUME NEW n \in Nat, NEW S \in SUBSET (1 .. n), NEW hit \in BOOLEAN
    PROVE  Cardinality({i \in 1 .. (n + 1) : (i = 1 /\ hit) \/ (i > 1 /\ i - 1 \in S)})
             = IF hit THEN Cardinality(S) + 1 ELSE Cardinality(S)
<1> DEFINE T == {i \in 1 .. (n + 1) : (i = 1 /\ hit) \/ (i > 1 /\ i - 1 \in S)}
           U == {i \in 1 .. (n + 1) : i > 1 /\ i - 1 \in S}
           f == [i \in S |-> i + 1]
<1>1. IsFiniteSet(S)
  BY IndexSetFinite
<1>2. f \in [S -> U]
  OBVIOUS
<1>3. \A a, b \in S : f[a] = f[b] => a = b
  OBVIOUS
<1>4. \A u \in U : \E a \in S : f[a] = u
  <2> TAKE u \in U
  <2>1. u - 1 \in S /\ f[u - 1] = u
    OBVIOUS
  <2> QED  BY <2>1
<1>5. ExistsBijection(S, U)
  <2> HIDE DEF U, f
  <2>1. f \in Bijection(S, U)
    BY <1>2, <1>3, <1>4 DEF Bijection, Injection, IsInjective, Surjection
  <2> QED  BY <2>1 DEF ExistsBijection
<1>6. IsFiniteSet(U) /\ Cardinality(U) = Cardinality(S)
  <2> HIDE DEF U, f
  <2> QED  BY <1>1, <1>5, FS_Bijection
<1>7. CASE hit
  <2>1. T = U \cup {1} /\ 1 \notin U
    BY <1>7
  <2> HIDE DEF U, T
  <2> QED  BY <1>6, <1>7, <2>1, FS_AddElement DEF T
<1>8. CASE ~hit
  <2>1. T = U
    BY <1>8
  <2> HIDE DEF U
  <2> QED  BY <1>6, <1>8, <2>1
<1> QED  BY <1>7, <1>8

(* One element put in front of a list moves the others up by one.          *)
LEMMA PushFrontFacts ==
    ASSUME NEW S, NEW e \in S, NEW q \in Seq(S)
    PROVE  /\ <<e>> \o q \in Seq(S)
           /\ Len(<<e>> \o q) = Len(q) + 1
           /\ DOMAIN q = 1 .. Len(q)
           /\ DOMAIN (<<e>> \o q) = 1 .. (Len(q) + 1)
           /\ (<<e>> \o q)[1] = e
           /\ \A i \in 2 .. (Len(q) + 1) : (<<e>> \o q)[i] = q[i - 1]
<1> DEFINE one == <<e>>
           all == one \o q
<1>1. one \in Seq(S) /\ Len(one) = 1 /\ one[1] = e
  OBVIOUS
<1>2. Len(q) \in Nat /\ DOMAIN q = 1 .. Len(q)
  BY LenProperties
<1> HIDE DEF one
<1>3. /\ all \in Seq(S)
      /\ Len(all) = Len(one) + Len(q)
      /\ \A i \in 1 .. Len(one) + Len(q) :
            all[i] = IF i <= Len(one) THEN one[i] ELSE q[i - Len(one)]
  BY <1>1, ConcatProperties
<1> HIDE DEF all
<1>4. DOMAIN all = 1 .. Len(all)
  BY <1>3, LenProperties
<1>5. /\ Len(all) = Len(q) + 1 /\ all[1] = e
      /\ \A i \in 2 .. (Len(q) + 1) : all[i] = q[i - 1]
  BY <1>1, <1>2, <1>3
<1> QED  BY <1>2, <1>3, <1>4, <1>5 DEF all, one

(* A record pushed on the list is counted once, under its own keys.        *)
LEMMA PushFrontCounted ==
    ASSUME NEW s \in Stores, Counted(s), NEW n \in Notifications
    PROVE  /\ PushFront(s, n) \in Stores
           /\ Counted(PushFront(s, n))
           /\ Len(PushFront(s, n).notifications) = Len(s.notifications) + 1
<1> DEFINE r   == PushFront(s, n)
           log == s.notifications
           new == r.notifications
<1>0. log \in Seq(Notifications) /\ Len(log) \in Nat
  BY LenProperties DEF Stores
<1>1. /\ new = <<n>> \o log
      /\ r.unread_by_pane = [s.unread_by_pane EXCEPT ![n.pane] = IF n.unread THEN @ + 1 ELSE @]
      /\ r.unread_by_workspace =
            [s.unread_by_workspace EXCEPT ![n.workspace] = IF n.unread THEN @ + 1 ELSE @]
  BY DEF PushFront
<1>r. r = [notifications |-> new, unread_by_pane |-> r.unread_by_pane,
           unread_by_workspace |-> r.unread_by_workspace]
  BY DEF PushFront
<1>2. n.pane \in Panes /\ n.workspace \in Workspaces /\ n.unread \in BOOLEAN
  BY DEF Notifications
<1>3. /\ new \in Seq(Notifications)
      /\ Len(new) = Len(log) + 1
      /\ DOMAIN log = 1 .. Len(log)
      /\ DOMAIN new = 1 .. (Len(log) + 1)
      /\ new[1] = n
      /\ \A i \in 2 .. (Len(log) + 1) : new[i] = log[i - 1]
  <2> HIDE DEF log
  <2>1. new = <<n>> \o log
    BY <1>1 DEF log
  <2> HIDE DEF new
  <2> QED  BY <1>0, <2>1, PushFrontFacts
<1> HIDE DEF new, log
<1>4. r \in Stores
  <2>1. r.unread_by_pane \in [Panes -> Nat]
    BY <1>1, <1>2 DEF Stores
  <2>2. r.unread_by_workspace \in [Workspaces -> Nat]
    BY <1>1, <1>2 DEF Stores
  <2> HIDE DEF r
  <2> QED  BY <1>r, <1>3, <2>1, <2>2 DEF Stores
<1>5. ASSUME NEW p \in Panes
      PROVE  r.unread_by_pane[p] = Cardinality(UnreadOfPane(new, p))
  <2> DEFINE S == UnreadOfPane(log, p)
             hit == n.unread /\ n.pane = p
  <2>1. S \in SUBSET (1 .. Len(log)) /\ hit \in BOOLEAN
    BY <1>2, <1>3 DEF UnreadOfPane
  <2>2. UnreadOfPane(new, p)
          = {i \in 1 .. (Len(log) + 1) : (i = 1 /\ hit) \/ (i > 1 /\ i - 1 \in S)}
    BY <1>0, <1>3 DEF UnreadOfPane
  <2>3. s.unread_by_pane[p] = Cardinality(S)
    BY DEF Counted, log
  <2>4. r.unread_by_pane[p] = IF hit THEN s.unread_by_pane[p] + 1 ELSE s.unread_by_pane[p]
    BY <1>1, <1>2 DEF Stores
  <2> HIDE DEF S, hit, r
  <2>5. Cardinality({i \in 1 .. (Len(log) + 1) : (i = 1 /\ hit) \/ (i > 1 /\ i - 1 \in S)})
          = IF hit THEN Cardinality(S) + 1 ELSE Cardinality(S)
    BY <1>0, <2>1, ShiftUp
  <2> QED  BY <2>2, <2>3, <2>4, <2>5
<1>6. ASSUME NEW w \in Workspaces
      PROVE  r.unread_by_workspace[w] = Cardinality(UnreadOfWorkspace(new, w))
  <2> DEFINE S == UnreadOfWorkspace(log, w)
             hit == n.unread /\ n.workspace = w
  <2>1. S \in SUBSET (1 .. Len(log)) /\ hit \in BOOLEAN
    BY <1>2, <1>3 DEF UnreadOfWorkspace
  <2>2. UnreadOfWorkspace(new, w)
          = {i \in 1 .. (Len(log) + 1) : (i = 1 /\ hit) \/ (i > 1 /\ i - 1 \in S)}
    BY <1>0, <1>3 DEF UnreadOfWorkspace
  <2>3. s.unread_by_workspace[w] = Cardinality(S)
    BY DEF Counted, log
  <2>4. r.unread_by_workspace[w]
          = IF hit THEN s.unread_by_workspace[w] + 1 ELSE s.unread_by_workspace[w]
    BY <1>1, <1>2 DEF Stores
  <2> HIDE DEF S, hit, r
  <2>5. Cardinality({i \in 1 .. (Len(log) + 1) : (i = 1 /\ hit) \/ (i > 1 /\ i - 1 \in S)})
          = IF hit THEN Cardinality(S) + 1 ELSE Cardinality(S)
    BY <1>0, <2>1, ShiftUp
  <2> QED  BY <2>2, <2>3, <2>4, <2>5
<1> QED  BY <1>3, <1>4, <1>5, <1>6 DEF Counted, new, log

(* The record popped from the back is no longer counted.                   *)
LEMMA PopBackCounted ==
    ASSUME NEW s \in Stores, Counted(s), Len(s.notifications) > 0
    PROVE  /\ PopBack(s) \in Stores
           /\ Counted(PopBack(s))
           /\ Len(PopBack(s).notifications) = Len(s.notifications) - 1
<1> DEFINE r       == PopBack(s)
           log     == s.notifications
           new     == r.notifications
           last    == Len(log)
           evicted == log[last]
           less    == IF evicted.unread THEN 1 ELSE 0
<1>0. log \in Seq(Notifications) /\ last \in Nat /\ last > 0 /\ DOMAIN log = 1 .. last
  BY LenProperties DEF Stores
<1>1. /\ new = SubSeq(log, 1, last - 1)
      /\ r.unread_by_pane = [s.unread_by_pane EXCEPT ![evicted.pane] = SaturatingSub(@, less)]
      /\ r.unread_by_workspace =
            [s.unread_by_workspace EXCEPT ![evicted.workspace] = SaturatingSub(@, less)]
  BY DEF PopBack
<1>r. r = [notifications |-> new, unread_by_pane |-> r.unread_by_pane,
           unread_by_workspace |-> r.unread_by_workspace]
  BY DEF PopBack
<1>2. \A i \in 1 .. last : log[i] \in Notifications
  <2> HIDE DEF log
  <2> QED  BY <1>0, ElementOfSeq
<1>3. /\ new \in Seq(Notifications)
      /\ Len(new) = last - 1
      /\ DOMAIN new = 1 .. (last - 1)
      /\ \A i \in 1 .. (last - 1) : new[i] = log[i]
  <2> HIDE DEF log, last
  <2>1. /\ SubSeq(log, 1, last - 1) \in Seq(Notifications)
        /\ Len(SubSeq(log, 1, last - 1)) = last - 1
        /\ \A i \in 1 .. (last - 1) : SubSeq(log, 1, last - 1)[i] = log[i]
    BY <1>0, <1>2, SubSeqProperties
  <2> HIDE DEF new
  <2>2. DOMAIN new = 1 .. Len(new)
    BY <1>1, <2>1, LenProperties
  <2> QED  BY <1>1, <2>1, <2>2
<1>4. evicted \in Notifications /\ evicted.pane \in Panes
      /\ evicted.workspace \in Workspaces /\ evicted.unread \in BOOLEAN
  BY <1>0, <1>2 DEF Notifications
<1> HIDE DEF new, log, last, evicted
<1>5. r \in Stores
  <2>1. r.unread_by_pane \in [Panes -> Nat]
    BY <1>1, <1>4 DEF Stores, SaturatingSub
  <2>2. r.unread_by_workspace \in [Workspaces -> Nat]
    BY <1>1, <1>4 DEF Stores, SaturatingSub
  <2> HIDE DEF r
  <2> QED  BY <1>r, <1>3, <2>1, <2>2 DEF Stores
<1>6. ASSUME NEW p \in Panes
      PROVE  r.unread_by_pane[p] = Cardinality(UnreadOfPane(new, p))
  <2> DEFINE S == UnreadOfPane(log, p)
  <2>1. IsFiniteSet(S) /\ Cardinality(S) \in Nat
    <3>1. S \in SUBSET (1 .. last)
      BY <1>0 DEF UnreadOfPane
    <3> QED  BY <1>0, <3>1, IndexSetFinite
  <2>2. UnreadOfPane(new, p) = S \ {last}
    BY <1>0, <1>3 DEF UnreadOfPane
  <2>3. last \in S <=> evicted.unread /\ evicted.pane = p
    BY <1>0 DEF UnreadOfPane, evicted
  <2>4. s.unread_by_pane[p] = Cardinality(S)
    BY DEF Counted, log
  <2>5. r.unread_by_pane[p] =
          IF evicted.pane = p THEN SaturatingSub(s.unread_by_pane[p], less)
          ELSE s.unread_by_pane[p]
    BY <1>1, <1>4 DEF Stores
  <2> HIDE DEF S, r
  <2>6. Cardinality(S \ {last}) = IF last \in S THEN Cardinality(S) - 1 ELSE Cardinality(S)
    BY <2>1, FS_RemoveElement
  <2>7. last \in S => Cardinality(S) > 0
    BY <2>1, FS_EmptySet
  <2> QED  BY <1>4, <2>1, <2>2, <2>3, <2>4, <2>5, <2>6, <2>7 DEF SaturatingSub
<1>7. ASSUME NEW w \in Workspaces
      PROVE  r.unread_by_workspace[w] = Cardinality(UnreadOfWorkspace(new, w))
  <2> DEFINE S == UnreadOfWorkspace(log, w)
  <2>1. IsFiniteSet(S) /\ Cardinality(S) \in Nat
    <3>1. S \in SUBSET (1 .. last)
      BY <1>0 DEF UnreadOfWorkspace
    <3> QED  BY <1>0, <3>1, IndexSetFinite
  <2>2. UnreadOfWorkspace(new, w) = S \ {last}
    BY <1>0, <1>3 DEF UnreadOfWorkspace
  <2>3. last \in S <=> evicted.unread /\ evicted.workspace = w
    BY <1>0 DEF UnreadOfWorkspace, evicted
  <2>4. s.unread_by_workspace[w] = Cardinality(S)
    BY DEF Counted, log
  <2>5. r.unread_by_workspace[w] =
          IF evicted.workspace = w THEN SaturatingSub(s.unread_by_workspace[w], less)
          ELSE s.unread_by_workspace[w]
    BY <1>1, <1>4 DEF Stores
  <2> HIDE DEF S, r
  <2>6. Cardinality(S \ {last}) = IF last \in S THEN Cardinality(S) - 1 ELSE Cardinality(S)
    BY <2>1, FS_RemoveElement
  <2>7. last \in S => Cardinality(S) > 0
    BY <2>1, FS_EmptySet
  <2> QED  BY <1>4, <2>1, <2>2, <2>3, <2>4, <2>5, <2>6, <2>7 DEF SaturatingSub
<1> QED  BY <1>3, <1>5, <1>6, <1>7 DEF Counted, new, log, last

(* A whole call of add_notification: push unless it repeats, then evict.   *)
LEMMA AddNotificationCounted ==
    ASSUME NEW s \in Stores, Counted(s), Len(s.notifications) <= MaxNotifications,
           NEW p \in Panes, NEW w \in Workspaces, NEW text \in Texts, NEW unread \in BOOLEAN
    PROVE  /\ AddNotification(s, p, w, text, unread) \in Stores
           /\ Counted(AddNotification(s, p, w, text, unread))
           /\ Len(AddNotification(s, p, w, text, unread).notifications) <= MaxNotifications
<1> DEFINE n == [pane |-> p, workspace |-> w, text |-> text, unread |-> unread]
           r == PushFront(s, n)
<1>1. n \in Notifications
  BY DEF Notifications
<1> HIDE DEF n
<1>2. r \in Stores /\ Counted(r) /\ Len(r.notifications) = Len(s.notifications) + 1
  BY <1>1, PushFrontCounted
<1>3. Len(s.notifications) \in Nat
  BY LenProperties DEF Stores
<1> HIDE DEF r
<1>4. Evict(r) \in Stores /\ Counted(Evict(r)) /\ Len(Evict(r).notifications) <= MaxNotifications
  <2>1. CASE Len(r.notifications) > MaxNotifications
    <3>1. Len(r.notifications) > 0
      BY <1>2, <1>3
    <3>2. /\ PopBack(r) \in Stores
          /\ Counted(PopBack(r))
          /\ Len(PopBack(r).notifications) = Len(r.notifications) - 1
      BY <1>2, <3>1, PopBackCounted
    <3>3. Len(r.notifications) - 1 <= MaxNotifications
      BY <1>2, <1>3, MaxNotificationsAssumption
    <3> QED  BY <2>1, <3>2, <3>3 DEF Evict
  <2>2. CASE ~(Len(r.notifications) > MaxNotifications)
    BY <1>2, <1>3, <2>2, MaxNotificationsAssumption DEF Evict
  <2> QED  BY <2>1, <2>2
<1> QED  BY <1>4 DEF AddNotification, n, r

(* Marking a pane read takes exactly its unread records out of the counts. *)
LEMMA MarkPaneReadCounted ==
    ASSUME NEW s \in Stores, Counted(s), NEW p \in Panes
    PROVE  /\ MarkPaneRead(s, p) \in Stores
           /\ Counted(MarkPaneRead(s, p))
           /\ Len(MarkPaneRead(s, p).notifications) = Len(s.notifications)
<1> DEFINE r   == MarkPaneRead(s, p)
           log == s.notifications
           new == MarkRead(log, p)
           n   == Len(log)
<1>0. log \in Seq(Notifications) /\ n \in Nat /\ DOMAIN log = 1 .. n
  BY LenProperties DEF Stores
<1>1. \A i \in 1 .. n : log[i] \in Notifications
  <2> HIDE DEF log
  <2> QED  BY <1>0, ElementOfSeq
<1>2. /\ r.notifications = new
      /\ r.unread_by_pane = [s.unread_by_pane EXCEPT
            ![p] = SaturatingSub(@, Cardinality(UnreadOfPane(log, p)))]
      /\ r.unread_by_workspace = [w \in Workspaces |->
            SaturatingSub(s.unread_by_workspace[w], Cardinality(UnreadOf(log, p, w)))]
  BY DEF MarkPaneRead
<1>r. r = [notifications |-> new, unread_by_pane |-> r.unread_by_pane,
           unread_by_workspace |-> r.unread_by_workspace]
  BY DEF MarkPaneRead
<1> HIDE DEF log, n
<1>3. /\ DOMAIN new = 1 .. n
      /\ \A i \in 1 .. n : /\ new[i].pane = log[i].pane
                           /\ new[i].workspace = log[i].workspace
                           /\ new[i].unread = (log[i].unread /\ log[i].pane # p)
                           /\ new[i] \in Notifications
  BY <1>0, <1>1 DEF MarkRead, Notifications
<1>4. new \in Seq(Notifications) /\ Len(new) = n
  <2>1. new \in [1 .. n -> Notifications]
    BY <1>0, <1>3 DEF MarkRead
  <2> HIDE DEF new
  <2>2. new \in Seq(Notifications)
    BY <1>0, <2>1, SeqDef
  <2>3. Len(new) \in Nat /\ DOMAIN new = 1 .. Len(new)
    BY <2>2, LenProperties
  <2> QED  BY <1>0, <1>3, <2>2, <2>3
<1> HIDE DEF new
<1>5. \A q \in Panes : UnreadOfPane(log, q) \in SUBSET (1 .. n)
  BY <1>0 DEF UnreadOfPane
<1>6. \A q \in Panes : /\ IsFiniteSet(UnreadOfPane(log, q))
                       /\ Cardinality(UnreadOfPane(log, q)) \in Nat
  BY <1>0, <1>5, IndexSetFinite
<1>7. \A w \in Workspaces : /\ UnreadOfWorkspace(log, w) \in SUBSET (1 .. n)
                            /\ UnreadOf(log, p, w) \in SUBSET (1 .. n)
  BY <1>0 DEF UnreadOfWorkspace, UnreadOf
<1>8. \A w \in Workspaces : /\ IsFiniteSet(UnreadOfWorkspace(log, w))
                            /\ Cardinality(UnreadOfWorkspace(log, w)) \in Nat
                            /\ IsFiniteSet(UnreadOf(log, p, w))
                            /\ Cardinality(UnreadOf(log, p, w)) \in Nat
  BY <1>0, <1>7, IndexSetFinite
<1>9. r \in Stores
  <2>1. r.unread_by_pane \in [Panes -> Nat]
    BY <1>2, <1>6 DEF Stores, SaturatingSub
  <2>2. r.unread_by_workspace \in [Workspaces -> Nat]
    BY <1>2, <1>8 DEF Stores, SaturatingSub
  <2> HIDE DEF r
  <2> QED  BY <1>r, <1>4, <2>1, <2>2 DEF Stores
<1>10. ASSUME NEW q \in Panes
       PROVE  r.unread_by_pane[q] = Cardinality(UnreadOfPane(new, q))
  <2>1. s.unread_by_pane[q] = Cardinality(UnreadOfPane(log, q))
    BY DEF Counted, log
  <2>2. CASE q = p
    <3>1. UnreadOfPane(new, q) = {}
      BY <1>0, <1>1, <1>3, <2>2 DEF UnreadOfPane, Notifications
    <3>2. r.unread_by_pane[q] = SaturatingSub(s.unread_by_pane[q], Cardinality(UnreadOfPane(log, q)))
      BY <1>2, <2>2 DEF Stores
    <3> HIDE DEF r
    <3> QED  BY <1>6, <2>1, <3>1, <3>2, FS_EmptySet DEF SaturatingSub
  <2>3. CASE q # p
    <3>1. UnreadOfPane(new, q) = UnreadOfPane(log, q)
      BY <1>0, <1>1, <1>3, <2>3 DEF UnreadOfPane, Notifications
    <3>2. r.unread_by_pane[q] = s.unread_by_pane[q]
      BY <1>2, <2>3 DEF Stores
    <3> HIDE DEF r
    <3> QED  BY <2>1, <3>1, <3>2
  <2> QED  BY <2>2, <2>3
<1>11. ASSUME NEW w \in Workspaces
       PROVE  r.unread_by_workspace[w] = Cardinality(UnreadOfWorkspace(new, w))
  <2> DEFINE S == UnreadOfWorkspace(log, w)
             D == UnreadOf(log, p, w)
  <2>1. s.unread_by_workspace[w] = Cardinality(S)
    BY DEF Counted, log
  <2>2. r.unread_by_workspace[w] = SaturatingSub(s.unread_by_workspace[w], Cardinality(D))
    BY <1>2
  <2>3. UnreadOfWorkspace(new, w) = S \ D
    BY <1>0, <1>1, <1>3 DEF UnreadOfWorkspace, UnreadOf, Notifications
  <2>4. D \in SUBSET S /\ S \cap D = D
    BY DEF UnreadOfWorkspace, UnreadOf
  <2>5. IsFiniteSet(S) /\ Cardinality(S) \in Nat /\ Cardinality(D) \in Nat
    BY <1>8
  <2> HIDE DEF S, D, r
  <2>6. Cardinality(S \ D) = Cardinality(S) - Cardinality(S \cap D)
    BY <2>5, FS_Difference
  <2>7. Cardinality(D) <= Cardinality(S)
    BY <2>4, <2>5, FS_Subset
  <2>8. SaturatingSub(Cardinality(S), Cardinality(D)) = Cardinality(S) - Cardinality(D)
    BY <2>5, <2>7 DEF SaturatingSub
  <2>9. Cardinality(S \cap D) = Cardinality(D)
    BY <2>4
  <2> QED  BY <2>1, <2>2, <2>3, <2>6, <2>8, <2>9
<1> QED  BY <1>2, <1>4, <1>9, <1>10, <1>11 DEF Counted, log, n

-----------------------------------------------------------------------------
LEMMA InitIInv == Init => IInv
<1> SUFFICES ASSUME Init PROVE IInv
  OBVIOUS
<1>1. /\ store.notifications = <<>>
      /\ store.unread_by_pane = [p \in Panes |-> 0]
      /\ store.unread_by_workspace = [w \in Workspaces |-> 0]
  BY DEF Init, EmptyStore
<1>2. store \in Stores
  BY EmptySeq DEF Init, EmptyStore, Stores
<1>3. \A p \in Panes : UnreadOfPane(store.notifications, p) = {}
  BY <1>1 DEF UnreadOfPane
<1>4. \A w \in Workspaces : UnreadOfWorkspace(store.notifications, w) = {}
  BY <1>1 DEF UnreadOfWorkspace
<1>5. Counted(store)
  BY <1>1, <1>3, <1>4, FS_EmptySet DEF Counted
<1>6. Len(store.notifications) <= MaxNotifications
  BY <1>1, MaxNotificationsAssumption
<1> QED  BY <1>2, <1>5, <1>6 DEF IInv

LEMMA NextIInv == IInv /\ [Next]_vars => IInv'
<1> SUFFICES ASSUME IInv, [Next]_vars PROVE IInv'
  OBVIOUS
<1>0. store \in Stores /\ Counted(store) /\ Len(store.notifications) <= MaxNotifications
  BY DEF IInv
<1>1. ASSUME NEW p \in Panes, NEW w \in Workspaces, NEW text \in Texts,
             NEW unread \in BOOLEAN, Add(p, w, text, unread)
      PROVE  IInv'
  <2>1. /\ AddNotification(store, p, w, text, unread) \in Stores
        /\ Counted(AddNotification(store, p, w, text, unread))
        /\ Len(AddNotification(store, p, w, text, unread).notifications) <= MaxNotifications
    BY <1>0, AddNotificationCounted
  <2>2. store' = AddNotification(store, p, w, text, unread)
    BY <1>1 DEF Add
  <2> QED  BY <2>1, <2>2 DEF IInv, Counted
<1>2. ASSUME NEW p \in Panes, Read(p)
      PROVE  IInv'
  <2>1. /\ MarkPaneRead(store, p) \in Stores
        /\ Counted(MarkPaneRead(store, p))
        /\ Len(MarkPaneRead(store, p).notifications) = Len(store.notifications)
    BY <1>0, MarkPaneReadCounted
  <2>2. store' = MarkPaneRead(store, p)
    BY <1>2 DEF Read
  <2> QED  BY <1>0, <2>1, <2>2 DEF IInv, Counted
<1>3. CASE UNCHANGED vars
  BY <1>0, <1>3 DEF IInv, vars, Counted
<1> QED  BY <1>1, <1>2, <1>3 DEF Next

(* The list stays typed and within the capacity of the store.              *)
THEOREM StoreTypeCorrect == Spec => []TypeOK
<1>1. IInv => TypeOK
  BY DEF IInv, TypeOK, Stores
<1> QED  BY <1>1, InitIInv, NextIInv, PTL DEF Spec

(* The counts the sidebar shows are the numbers of unread records, at any  *)
(* capacity and for any number of panes and workspaces: neither eviction   *)
(* nor marking lets them drift, and the saturation is never needed.        *)
THEOREM CountsNeverDrift == Spec => []CountsMatchRecords
<1>1. IInv => CountsMatchRecords
  BY DEF IInv, Counted, CountsMatchRecords
<1> QED  BY <1>1, InitIInv, NextIInv, PTL DEF Spec

-----------------------------------------------------------------------------
(* A count of unread records is positive exactly when there is one.        *)
LEMMA PositiveCount ==
    ASSUME NEW n \in Nat, NEW S \in SUBSET (1 .. n)
    PROVE  Cardinality(S) > 0 <=> S # {}
<1>1. IsFiniteSet(S) /\ Cardinality(S) \in Nat
  BY IndexSetFinite
<1>2. Cardinality(S) = 0 <=> S = {}
  BY <1>1, FS_EmptySet
<1>3. \A c \in Nat : c > 0 <=> c # 0
  OBVIOUS
<1>4. Cardinality(S) > 0 <=> Cardinality(S) # 0
  BY <1>1, <1>3
<1> QED  BY <1>2, <1>4

LEMMA BadgesHaveTargets == IInv => BadgeIffJumpTarget
<1> SUFFICES ASSUME IInv PROVE BadgeIffJumpTarget
  OBVIOUS
<1> DEFINE log    == store.notifications
           unread == {i \in DOMAIN log : log[i].unread}
<1>1. /\ Len(log) \in Nat /\ DOMAIN log = 1 .. Len(log)
      /\ \A i \in DOMAIN log : log[i] \in Notifications
  BY LenProperties, ElementOfSeq DEF IInv, Stores
<1> HIDE DEF log
<1>2. ASSUME NEW w \in Workspaces
      PROVE  UnreadCount(store, w) > 0 <=> \E i \in unread : log[i].workspace = w
  <2>1. UnreadOfWorkspace(log, w) \in SUBSET (1 .. Len(log))
    BY <1>1 DEF UnreadOfWorkspace
  <2>2. UnreadCount(store, w) > 0 <=> UnreadOfWorkspace(log, w) # {}
    BY <1>1, <2>1, PositiveCount DEF IInv, Counted, UnreadCount, log
  <2> QED  BY <2>2 DEF UnreadOfWorkspace
<1>3. ASSUME NEW p \in Panes, NEW i \in unread, log[i].pane = p
      PROVE  HasUnread(store, p)
  <2>1. UnreadOfPane(log, p) \in SUBSET (1 .. Len(log)) /\ UnreadOfPane(log, p) # {}
    BY <1>1, <1>3 DEF UnreadOfPane
  <2> QED  BY <1>1, <2>1, PositiveCount DEF IInv, Counted, HasUnread, log
<1>4. ASSUME NEW w \in Workspaces, UnreadCount(store, w) > 0
      PROVE  \E p \in Panes : IsMostRecentUnread(store, p)
  <2>1. unread \in SUBSET (1 .. Len(log)) /\ unread # {}
    BY <1>1, <1>2, <1>4
  <2>2. PICK m \in unread : \A k \in unread : m <= k
    <3>1. unread \in SUBSET Nat /\ unread # {}
      BY <1>1, <2>1
    <3> HIDE DEF unread
    <3> QED  BY <3>1, LeastOf
  <2>3. \A j \in 1 .. (m - 1) : ~log[j].unread
    BY <1>1, <2>1, <2>2
  <2>4. log[m].pane \in Panes
    BY <1>1 DEF Notifications
  <2> QED  BY <2>2, <2>3, <2>4 DEF IsMostRecentUnread, log
<1>5. ASSUME NEW p \in Panes, IsMostRecentUnread(store, p)
      PROVE  \E i \in unread : log[i].pane = p
  BY <1>5 DEF IsMostRecentUnread, log
<1>6. ASSUME NEW p \in Panes, IsMostRecentUnread(store, p)
      PROVE  \E w \in Workspaces : UnreadCount(store, w) > 0
  <2>1. PICK i \in unread : log[i].pane = p
    BY <1>5, <1>6
  <2>2. log[i].workspace \in Workspaces
    BY <1>1 DEF Notifications
  <2> QED  BY <1>2, <2>1, <2>2
<1> HIDE DEF unread
<1> QED  BY <1>3, <1>4, <1>5, <1>6 DEF BadgeIffJumpTarget

(* There is a badge exactly when "jump to unread" has a pane to go to, and *)
(* that pane shows as unread (most_recent_unread_pane and the tables), for  *)
(* any number of panes and workspaces and any capacity.                    *)
THEOREM BadgesLeadSomewhere == Spec => []BadgeIffJumpTarget
<1> QED  BY BadgesHaveTargets, InitIInv, NextIInv, PTL DEF Spec

-----------------------------------------------------------------------------
(* SuccessiveRecordsDiffer of any list.                                    *)
Differ(log) ==
    \A i, j \in DOMAIN log :
        ( /\ i < j
          /\ log[i].pane = log[j].pane
          /\ \A k \in (i + 1) .. (j - 1) : log[k].pane # log[i].pane )
           => log[i].text # log[j].text

(* The oldest record may go: the others keep their neighbours.             *)
LEMMA PopBackDiffers ==
    ASSUME NEW log \in Seq(Notifications), Len(log) > 0, Differ(log)
    PROVE  /\ SubSeq(log, 1, Len(log) - 1) \in Seq(Notifications)
           /\ Differ(SubSeq(log, 1, Len(log) - 1))
<1> DEFINE last == Len(log)
           new  == SubSeq(log, 1, last - 1)
<1>1. last \in Nat /\ DOMAIN log = 1 .. last
  BY LenProperties
<1>2. \A i \in 1 .. last : log[i] \in Notifications
  BY ElementOfSeq
<1>3. /\ new \in Seq(Notifications) /\ Len(new) = last - 1
      /\ \A i \in 1 .. (last - 1) : new[i] = log[i]
  <2> HIDE DEF last
  <2> QED  BY <1>1, <1>2, SubSeqProperties DEF last
<1> HIDE DEF new
<1>4. DOMAIN new = 1 .. (last - 1)
  BY <1>3, LenProperties
<1>5. Differ(new)
  <2> SUFFICES ASSUME NEW i \in DOMAIN new, NEW j \in DOMAIN new, i < j,
                      new[i].pane = new[j].pane,
                      \A k \in (i + 1) .. (j - 1) : new[k].pane # new[i].pane
               PROVE  new[i].text # new[j].text
    BY DEF Differ
  <2>1. i \in DOMAIN log /\ j \in DOMAIN log /\ new[i] = log[i] /\ new[j] = log[j]
    BY <1>1, <1>3, <1>4
  <2>2. \A k \in (i + 1) .. (j - 1) : k \in 1 .. (last - 1)
    BY <1>1, <1>4
  <2>3. \A k \in (i + 1) .. (j - 1) : log[k].pane # log[i].pane
    BY <1>3, <2>1, <2>2
  <2> QED  BY <2>1, <2>3 DEF Differ
<1> QED  BY <1>3, <1>5 DEF new

(* A record in front of the list that does not repeat the newest of its    *)
(* pane.                                                                   *)
LEMMA PushFrontDiffers ==
    ASSUME NEW log \in Seq(Notifications), Differ(log), NEW n \in Notifications,
           ~IsDuplicate(log, n.pane, n.text)
    PROVE  <<n>> \o log \in Seq(Notifications) /\ Differ(<<n>> \o log)
<1> DEFINE new == <<n>> \o log
<1>1. Len(log) \in Nat
  BY LenProperties
<1>2. /\ new \in Seq(Notifications)
      /\ DOMAIN log = 1 .. Len(log)
      /\ DOMAIN new = 1 .. (Len(log) + 1)
      /\ new[1] = n
      /\ \A i \in 2 .. (Len(log) + 1) : new[i] = log[i - 1]
  BY PushFrontFacts
<1> HIDE DEF new
<1>3. Differ(new)
  <2> SUFFICES ASSUME NEW i \in DOMAIN new, NEW j \in DOMAIN new, i < j,
                      new[i].pane = new[j].pane,
                      \A k \in (i + 1) .. (j - 1) : new[k].pane # new[i].pane
               PROVE  new[i].text # new[j].text
    BY DEF Differ
  <2>1. j - 1 \in DOMAIN log /\ new[j] = log[j - 1]
    BY <1>1, <1>2
  <2>2. \A k \in i .. (j - 2) : k + 1 \in (i + 1) .. (j - 1)
    BY <1>1, <1>2
  <2>3. \A k \in i .. (j - 2) : k \in DOMAIN log /\ new[k + 1] = log[k]
    BY <1>1, <1>2
  <2>4. \A k \in i .. (j - 2) : log[k].pane # new[i].pane
    BY <2>2, <2>3
  <2>5. CASE i = 1
    <3>1. \A k \in 1 .. ((j - 1) - 1) : log[k].pane # n.pane
      BY <1>1, <1>2, <2>4, <2>5
    <3>2. log[j - 1].pane = n.pane
      BY <1>2, <2>1, <2>5
    <3> QED  BY <1>2, <2>1, <2>5, <3>1, <3>2 DEF IsDuplicate
  <2>6. CASE i # 1
    <3>1. i - 1 \in DOMAIN log /\ new[i] = log[i - 1] /\ i - 1 < j - 1
      BY <1>1, <1>2, <2>6
    <3>2. \A k \in ((i - 1) + 1) .. ((j - 1) - 1) : log[k].pane # log[i - 1].pane
      BY <1>1, <1>2, <2>4, <3>1
    <3> QED  BY <2>1, <3>1, <3>2 DEF Differ
  <2> QED  BY <2>5, <2>6
<1> QED  BY <1>2, <1>3 DEF new

(* Marking changes neither the pane nor the text of a record.              *)
LEMMA MarkReadDiffers ==
    ASSUME NEW log \in Seq(Notifications), Differ(log), NEW p \in Panes
    PROVE  Differ(MarkRead(log, p))
<1>1. DOMAIN log = 1 .. Len(log) /\ \A i \in DOMAIN log : log[i] \in Notifications
  BY LenProperties, ElementOfSeq
<1>2. /\ DOMAIN MarkRead(log, p) = DOMAIN log
      /\ \A i \in DOMAIN log : /\ MarkRead(log, p)[i].pane = log[i].pane
                               /\ MarkRead(log, p)[i].text = log[i].text
  BY <1>1 DEF MarkRead, Notifications
<1>3. \A i, j \in DOMAIN log : \A k \in (i + 1) .. (j - 1) : k \in DOMAIN log
  BY <1>1, LenProperties
<1> QED  BY <1>2, <1>3 DEF Differ

LEMMA NextDiffers == IInv /\ Differ(store.notifications) /\ [Next]_vars => Differ(store.notifications)'
<1> SUFFICES ASSUME IInv, Differ(store.notifications), [Next]_vars
             PROVE  Differ(store'.notifications)
  OBVIOUS
<1> DEFINE log == store.notifications
<1>0. log \in Seq(Notifications)
  BY DEF IInv, Stores
<1>1. ASSUME NEW p \in Panes, NEW w \in Workspaces, NEW text \in Texts,
             NEW unread \in BOOLEAN, Add(p, w, text, unread)
      PROVE  Differ(store'.notifications)
  <2> DEFINE n == [pane |-> p, workspace |-> w, text |-> text, unread |-> unread]
             r == PushFront(store, n)
  <2>1. CASE IsDuplicate(log, p, text)
    BY <1>1, <2>1 DEF Add, AddNotification
  <2>2. CASE ~IsDuplicate(log, p, text)
    <3>1. n \in Notifications /\ n.pane = p /\ n.text = text
      BY DEF Notifications
    <3> HIDE DEF n
    <3>2. <<n>> \o log \in Seq(Notifications) /\ Differ(<<n>> \o log)
      BY <1>0, <2>2, <3>1, PushFrontDiffers
    <3>3. r.notifications \in Seq(Notifications) /\ Differ(r.notifications)
      BY <3>2 DEF PushFront
    <3>4. Len(r.notifications) > 0
      BY <1>0, <3>1, LenProperties, PushFrontFacts DEF PushFront
    <3>5. store' = Evict(r)
      BY <1>1, <2>2 DEF Add, AddNotification, n
    <3> HIDE DEF r
    <3>6. PopBack(r).notifications = SubSeq(r.notifications, 1, Len(r.notifications) - 1)
      BY DEF PopBack
    <3>7. Differ(PopBack(r).notifications)
      BY <3>3, <3>4, <3>6, PopBackDiffers
    <3> QED  BY <3>3, <3>5, <3>7 DEF Evict
  <2> QED  BY <2>1, <2>2
<1>2. ASSUME NEW p \in Panes, Read(p)
      PROVE  Differ(store'.notifications)
  BY <1>0, <1>2, MarkReadDiffers DEF Read, MarkPaneRead
<1>3. CASE UNCHANGED vars
  BY <1>3 DEF vars
<1> QED  BY <1>1, <1>2, <1>3 DEF Next

(* An agent that repeats itself is recorded once, whatever other panes     *)
(* write in between and whatever is evicted or read (the deduplication of  *)
(* add_notification), at any capacity.                                     *)
THEOREM RepeatsAreDropped == Spec => []SuccessiveRecordsDiffer
<1>1. Init => Differ(store.notifications)
  BY DEF Init, EmptyStore, Differ
<1>2. Differ(store.notifications) => SuccessiveRecordsDiffer
  BY DEF Differ, SuccessiveRecordsDiffer
<1> QED  BY <1>1, <1>2, InitIInv, NextIInv, NextDiffers, PTL DEF Spec

-----------------------------------------------------------------------------
(* The records of a list that are in R, and the sets R that are counted.   *)
Of(log, R) == {i \in DOMAIN log : log[i] \in R}

OfPane(p) == {n \in Notifications : n.unread /\ n.pane = p}
OfWorkspace(w) == {n \in Notifications : n.unread /\ n.workspace = w}
OfKey(k) == {n \in Notifications : n.unread /\ n.pane = k[1] /\ n.workspace = k[2]}

LEMMA CountedSets ==
    ASSUME NEW log \in Seq(Notifications)
    PROVE  /\ \A p \in Panes : UnreadOfPane(log, p) = Of(log, OfPane(p))
           /\ \A w \in Workspaces : UnreadOfWorkspace(log, w) = Of(log, OfWorkspace(w))
           /\ \A k \in Panes \X Workspaces : UnreadOf(log, k[1], k[2]) = Of(log, OfKey(k))
<1>1. \A i \in DOMAIN log : log[i] \in Notifications
  BY LenProperties, ElementOfSeq
<1> QED  BY <1>1 DEF UnreadOfPane, UnreadOfWorkspace, UnreadOf, Of, OfPane, OfWorkspace, OfKey

LEMMA OfCount ==
    ASSUME NEW log \in Seq(Notifications), NEW R
    PROVE  /\ Of(log, R) \in SUBSET (1 .. Len(log)) /\ Len(log) \in Nat
           /\ IsFiniteSet(Of(log, R)) /\ Cardinality(Of(log, R)) \in Nat
           /\ Cardinality(Of(log, R)) <= Len(log)
<1>1. Of(log, R) \in SUBSET (1 .. Len(log)) /\ Len(log) \in Nat
  BY LenProperties DEF Of
<1>2. \A n \in Nat : IsFiniteSet(1 .. n) /\ Cardinality(1 .. n) = n
  <2> TAKE n \in Nat
  <2>1. IsFiniteSet(1 .. n) /\ Cardinality(1 .. n) = IF 1 > n THEN 0 ELSE n - 1 + 1
    BY FS_Interval
  <2> QED  BY <2>1
<1> QED  BY <1>1, <1>2, FS_Subset, FS_CardinalityType

(* A record pushed on the list is one more of those it is one of.          *)
LEMMA PushCounts ==
    ASSUME NEW log \in Seq(Notifications), NEW n \in Notifications, NEW R
    PROVE  Cardinality(Of(<<n>> \o log, R))
             = IF n \in R THEN Cardinality(Of(log, R)) + 1 ELSE Cardinality(Of(log, R))
<1> DEFINE new == <<n>> \o log
           S   == Of(log, R)
           hit == n \in R
<1>1. S \in SUBSET (1 .. Len(log)) /\ Len(log) \in Nat
  BY OfCount
<1>2. /\ DOMAIN log = 1 .. Len(log)
      /\ DOMAIN new = 1 .. (Len(log) + 1)
      /\ new[1] = n
      /\ \A i \in 2 .. (Len(log) + 1) : new[i] = log[i - 1]
  BY PushFrontFacts
<1> HIDE DEF new
<1>3. Of(new, R) = {i \in 1 .. (Len(log) + 1) : (i = 1 /\ hit) \/ (i > 1 /\ i - 1 \in S)}
  BY <1>1, <1>2 DEF Of
<1>4. hit \in BOOLEAN
  OBVIOUS
<1> HIDE DEF S, hit
<1>5. Cardinality({i \in 1 .. (Len(log) + 1) : (i = 1 /\ hit) \/ (i > 1 /\ i - 1 \in S)})
        = IF hit THEN Cardinality(S) + 1 ELSE Cardinality(S)
  BY <1>1, <1>4, ShiftUp
<1> QED  BY <1>3, <1>5 DEF new, S, hit

(* The oldest record is one fewer of those it was one of.                  *)
LEMMA PopCounts ==
    ASSUME NEW log \in Seq(Notifications), Len(log) > 0, NEW R
    PROVE  /\ Cardinality(Of(SubSeq(log, 1, Len(log) - 1), R))
                = IF log[Len(log)] \in R THEN Cardinality(Of(log, R)) - 1
                  ELSE Cardinality(Of(log, R))
           /\ log[Len(log)] \in R => Cardinality(Of(log, R)) > 0
<1> DEFINE last == Len(log)
           new  == SubSeq(log, 1, last - 1)
           S    == Of(log, R)
<1>1. last \in Nat /\ DOMAIN log = 1 .. last /\ \A i \in 1 .. last : log[i] \in Notifications
  BY LenProperties, ElementOfSeq
<1>2. /\ new \in Seq(Notifications) /\ Len(new) = last - 1
      /\ \A i \in 1 .. (last - 1) : new[i] = log[i]
  <2> HIDE DEF last
  <2> QED  BY <1>1, SubSeqProperties DEF last
<1> HIDE DEF new
<1>3. DOMAIN new = 1 .. (last - 1)
  BY <1>2, LenProperties
<1>4. Of(new, R) = S \ {last} /\ (last \in S <=> log[last] \in R)
  BY <1>1, <1>2, <1>3 DEF Of
<1>5. IsFiniteSet(S) /\ Cardinality(S) \in Nat
  BY OfCount
<1> HIDE DEF S
<1>6. Cardinality(S \ {last}) = IF last \in S THEN Cardinality(S) - 1 ELSE Cardinality(S)
  BY <1>5, FS_RemoveElement
<1>7. last \in S => Cardinality(S) > 0
  BY <1>5, FS_EmptySet
<1> QED  BY <1>4, <1>6, <1>7 DEF new, S

(* A call of add_notification that drops nothing: what is gained and what  *)
(* is forgotten, if the store was full.                                    *)
Evicts(s) == Len(s.notifications) = MaxNotifications

Oldest(s) == s.notifications[Len(s.notifications)]

LEMMA AddCounts ==
    ASSUME NEW s \in Stores, Len(s.notifications) <= MaxNotifications, NEW n \in Notifications
    PROVE  /\ Evicts(s) => Oldest(s) \in Notifications
           /\ \A R : /\ Cardinality(Of(Evict(PushFront(s, n)).notifications, R))
                          = Cardinality(Of(s.notifications, R)) + (IF n \in R THEN 1 ELSE 0)
                              - (IF Evicts(s) /\ Oldest(s) \in R THEN 1 ELSE 0)
                     /\ Evicts(s) /\ Oldest(s) \in R => Cardinality(Of(s.notifications, R)) > 0
<1> DEFINE log  == s.notifications
           long == <<n>> \o log
           r    == PushFront(s, n)
<1>1. log \in Seq(Notifications) /\ Len(log) \in Nat /\ Len(log) <= MaxNotifications
  BY LenProperties DEF Stores
<1> HIDE DEF log
<1>2. /\ long \in Seq(Notifications) /\ Len(long) = Len(log) + 1
      /\ \A i \in 2 .. (Len(log) + 1) : long[i] = log[i - 1]
  BY <1>1, PushFrontFacts
<1>3. \A R : /\ Cardinality(Of(log, R)) \in Nat
             /\ Cardinality(Of(long, R))
                  = IF n \in R THEN Cardinality(Of(log, R)) + 1 ELSE Cardinality(Of(log, R))
  BY <1>1, OfCount, PushCounts
<1> HIDE DEF long
<1>4. r.notifications = long
  BY DEF PushFront, long, log
<1>5. Evicts(s) <=> Len(log) = MaxNotifications
  BY DEF Evicts, log
<1>6. CASE Evicts(s)
  <2>1. Len(log) > 0 /\ Len(long) > MaxNotifications /\ Len(long) > 0
    BY <1>1, <1>2, <1>5, <1>6, MaxNotificationsAssumption
  <2>2. Oldest(s) = log[Len(log)] /\ long[Len(long)] = log[Len(log)]
    <3>1. Oldest(s) = log[Len(log)]
      BY DEF Oldest, log
    <3>2. Len(long) \in 2 .. (Len(log) + 1) /\ Len(long) - 1 = Len(log)
      BY <1>1, <1>2, <2>1
    <3> QED  BY <1>2, <3>1, <3>2
  <2>3. Oldest(s) \in Notifications
    BY <1>1, <2>1, <2>2, ElementOfSeq
  <2>4. Evict(r).notifications = SubSeq(long, 1, Len(long) - 1)
    <3>1. Evict(r) = PopBack(r)
      BY <1>4, <2>1 DEF Evict
    <3> HIDE DEF r
    <3>2. PopBack(r).notifications = SubSeq(r.notifications, 1, Len(r.notifications) - 1)
      BY DEF PopBack
    <3> QED  BY <1>4, <3>1, <3>2
  <2>5. ASSUME NEW R
        PROVE  /\ Cardinality(Of(SubSeq(long, 1, Len(long) - 1), R))
                    = IF Oldest(s) \in R THEN Cardinality(Of(long, R)) - 1 ELSE Cardinality(Of(long, R))
               /\ Oldest(s) \in R => Cardinality(Of(log, R)) > 0
    <3>1. Cardinality(Of(SubSeq(long, 1, Len(long) - 1), R))
            = IF long[Len(long)] \in R THEN Cardinality(Of(long, R)) - 1 ELSE Cardinality(Of(long, R))
      BY <1>2, <2>1, PopCounts
    <3>2. log[Len(log)] \in R => Cardinality(Of(log, R)) > 0
      BY <1>1, <2>1, PopCounts
    <3> QED  BY <2>2, <3>1, <3>2
  <2> HIDE DEF r
  <2> QED  BY <1>3, <1>6, <2>3, <2>4, <2>5 DEF log, r
<1>7. CASE ~Evicts(s)
  <2>1. ~(Len(long) > MaxNotifications)
    BY <1>1, <1>2, <1>5, <1>7, MaxNotificationsAssumption
  <2>2. Evict(r).notifications = long
    BY <1>4, <2>1 DEF Evict
  <2> HIDE DEF r
  <2> QED  BY <1>3, <1>7, <2>2 DEF log, r
<1> QED  BY <1>6, <1>7

(* Marking a pane read leaves no unread record of it and all others.       *)
LEMMA MarkReadLedger ==
    ASSUME NEW log \in Seq(Notifications), NEW p \in Panes
    PROVE  \A k \in Panes \X Workspaces :
             UnreadOf(MarkRead(log, p), k[1], k[2]) = IF k[1] = p THEN {} ELSE UnreadOf(log, k[1], k[2])
<1>1. \A i \in DOMAIN log : log[i] \in Notifications
  BY LenProperties, ElementOfSeq
<1>2. /\ DOMAIN MarkRead(log, p) = DOMAIN log
      /\ \A i \in DOMAIN log : /\ MarkRead(log, p)[i].pane = log[i].pane
                               /\ MarkRead(log, p)[i].workspace = log[i].workspace
                               /\ MarkRead(log, p)[i].unread = (log[i].unread /\ log[i].pane # p)
  BY <1>1 DEF MarkRead, Notifications
<1> QED  BY <1>1, <1>2 DEF UnreadOf, Notifications

(* The key a record counts under, if it is unread.                         *)
KeyOf(r) == IF r.unread THEN {<<r.pane, r.workspace>>} ELSE {}

(* A record lies in a set that is counted exactly if its key belongs to    *)
(* the pane, the workspace or the pair.                                    *)
LEMMA KeyTells ==
    ASSUME NEW r \in Notifications
    PROVE  /\ KeyOf(r) \in SUBSET (Panes \X Workspaces) /\ Ledger!AtMostOne(KeyOf(r))
           /\ \A q \in Panes : r \in OfPane(q) <=> \E k \in KeyOf(r) : k[1] = q
           /\ \A v \in Workspaces : r \in OfWorkspace(v) <=> \E k \in KeyOf(r) : k[2] = v
           /\ \A k \in Panes \X Workspaces : r \in OfKey(k) <=> k \in KeyOf(r)
<1>1. r.pane \in Panes /\ r.workspace \in Workspaces /\ r.unread \in BOOLEAN
  BY DEF Notifications
<1>2. CASE r.unread
  <2>1. KeyOf(r) = {<<r.pane, r.workspace>>}
    BY <1>2 DEF KeyOf
  <2>2. \A q \in Panes : r \in OfPane(q) <=> r.pane = q
    BY <1>2 DEF OfPane
  <2>3. \A v \in Workspaces : r \in OfWorkspace(v) <=> r.workspace = v
    BY <1>2 DEF OfWorkspace
  <2>4. \A k \in Panes \X Workspaces : r \in OfKey(k) <=> k = <<r.pane, r.workspace>>
    BY <1>2 DEF OfKey
  <2> QED  BY <1>1, <2>1, <2>2, <2>3, <2>4 DEF Ledger!AtMostOne, Ledger!Keys
<1>3. CASE ~r.unread
  <2>1. KeyOf(r) = {}
    BY <1>3 DEF KeyOf
  <2> QED  BY <1>3, <2>1 DEF OfPane, OfWorkspace, OfKey, Ledger!AtMostOne
<1> QED  BY <1>1, <1>2, <1>3

-----------------------------------------------------------------------------
(* A list seen as the ledger sees it.                                      *)
LEMMA AddRefines ==
    ASSUME IInv, IInv', NEW p \in Panes, NEW w \in Workspaces, NEW text \in Texts,
           NEW unread \in BOOLEAN, Add(p, w, text, unread)
    PROVE  Ledger!Arrive \/ UNCHANGED Ledger!vars
<1> DEFINE n    == [pane |-> p, workspace |-> w, text |-> text, unread |-> unread]
           log  == store.notifications
           long == store'.notifications
           old  == Oldest(store)
           gained    == KeyOf(n)
           forgotten == IF Evicts(store) THEN KeyOf(old) ELSE {}
<1>0. /\ store \in Stores /\ store' \in Stores
      /\ log \in Seq(Notifications) /\ long \in Seq(Notifications)
      /\ Len(log) <= MaxNotifications /\ Len(long) <= MaxNotifications
  BY DEF IInv, Stores
<1>1. n \in Notifications /\ n.pane = p /\ n.workspace = w /\ n.unread = unread /\ n.text = text
  BY DEF Notifications
<1>2. CASE IsDuplicate(log, p, text)
  <2>1. store' = store
    BY <1>2 DEF Add, AddNotification
  <2> QED  BY <2>1 DEF Ledger!vars
<1>3. CASE ~IsDuplicate(log, p, text)
  <2>1. store' = Evict(PushFront(store, n))
    BY <1>3 DEF Add, AddNotification
  <2> HIDE DEF n
  <2>2. /\ Evicts(store) => old \in Notifications
        /\ \A R : /\ Cardinality(Of(long, R))
                       = Cardinality(Of(log, R)) + (IF n \in R THEN 1 ELSE 0)
                           - (IF Evicts(store) /\ old \in R THEN 1 ELSE 0)
                  /\ Evicts(store) /\ old \in R => Cardinality(Of(log, R)) > 0
    BY <1>0, <1>1, <2>1, AddCounts
  <2>3. /\ \A q \in Panes : /\ store.unread_by_pane[q] = Cardinality(Of(log, OfPane(q)))
                            /\ store'.unread_by_pane[q] = Cardinality(Of(long, OfPane(q)))
        /\ \A v \in Workspaces :
             /\ store.unread_by_workspace[v] = Cardinality(Of(log, OfWorkspace(v)))
             /\ store'.unread_by_workspace[v] = Cardinality(Of(long, OfWorkspace(v)))
        /\ \A k \in Panes \X Workspaces :
             /\ UnreadOf(log, k[1], k[2]) = Of(log, OfKey(k))
             /\ UnreadOf(long, k[1], k[2]) = Of(long, OfKey(k))
    BY <1>0, CountedSets DEF IInv, Counted
  <2> HIDE DEF old, log, long
  <2>4. /\ \A q \in Panes : /\ n \in OfPane(q) <=> \E k \in gained : k[1] = q
                            /\ (Evicts(store) /\ old \in OfPane(q)) <=> \E k \in forgotten : k[1] = q
        /\ \A v \in Workspaces :
             /\ n \in OfWorkspace(v) <=> \E k \in gained : k[2] = v
             /\ (Evicts(store) /\ old \in OfWorkspace(v)) <=> \E k \in forgotten : k[2] = v
        /\ \A k \in Panes \X Workspaces :
             /\ n \in OfKey(k) <=> k \in gained
             /\ (Evicts(store) /\ old \in OfKey(k)) <=> k \in forgotten
    BY <1>1, <2>2, KeyTells
  <2>5. /\ gained \in SUBSET (Panes \X Workspaces) /\ Ledger!AtMostOne(gained)
        /\ forgotten \in SUBSET (Panes \X Workspaces) /\ Ledger!AtMostOne(forgotten)
    BY <1>1, <2>2, KeyTells DEF Ledger!AtMostOne
  <2> HIDE DEF gained, forgotten
  <2>6. \A R : Cardinality(Of(log, R)) \in Nat /\ Cardinality(Of(long, R)) \in Nat
                 /\ Cardinality(Of(long, R)) <= MaxNotifications
    <3>1. Len(long) \in Nat
      BY <1>0, LenProperties DEF long
    <3>2. \A R : /\ Cardinality(Of(log, R)) \in Nat /\ Cardinality(Of(long, R)) \in Nat
                 /\ Cardinality(Of(long, R)) <= Len(long)
      BY <1>0, OfCount DEF log, long
    <3> QED  BY <1>0, <3>1, <3>2, MaxNotificationsAssumption DEF long
  <2> DEFINE before == [k \in Panes \X Workspaces |-> Cardinality(UnreadOf(log, k[1], k[2]))]
             after  == [k \in Panes \X Workspaces |-> Cardinality(UnreadOf(long, k[1], k[2]))]
  <2>7. \A k \in forgotten : before[k] > 0
    BY <2>2, <2>3, <2>4, <2>5
  <2>8. after = [k \in Panes \X Workspaces |->
                   Ledger!Changed(before[k], k \in gained, k \in forgotten)]
    <3>1. ASSUME NEW k \in Panes \X Workspaces
          PROVE  Cardinality(UnreadOf(long, k[1], k[2]))
                   = Ledger!Changed(Cardinality(UnreadOf(log, k[1], k[2])), k \in gained, k \in forgotten)
      BY <2>2, <2>3, <2>4, <2>6 DEF Ledger!Changed
    <3> QED  BY <3>1
  <2>9. store'.unread_by_pane = [q \in Panes |->
          Ledger!Changed(store.unread_by_pane[q], \E k \in gained : k[1] = q, \E k \in forgotten : k[1] = q)]
    <3>1. ASSUME NEW q \in Panes
          PROVE  store'.unread_by_pane[q]
                   = Ledger!Changed(store.unread_by_pane[q], \E k \in gained : k[1] = q,
                                    \E k \in forgotten : k[1] = q)
      BY <2>2, <2>3, <2>4, <2>6 DEF Ledger!Changed
    <3>2. store'.unread_by_pane \in [Panes -> Nat]
      BY <1>0 DEF Stores
    <3> QED  BY <3>1, <3>2
  <2>10. store'.unread_by_workspace = [v \in Workspaces |->
          Ledger!Changed(store.unread_by_workspace[v], \E k \in gained : k[2] = v, \E k \in forgotten : k[2] = v)]
    <3>1. ASSUME NEW v \in Workspaces
          PROVE  store'.unread_by_workspace[v]
                   = Ledger!Changed(store.unread_by_workspace[v], \E k \in gained : k[2] = v,
                                    \E k \in forgotten : k[2] = v)
      BY <2>2, <2>3, <2>4, <2>6 DEF Ledger!Changed
    <3>2. store'.unread_by_workspace \in [Workspaces -> Nat]
      BY <1>0 DEF Stores
    <3> QED  BY <3>1, <3>2
  <2>11. /\ \A q \in Panes : store'.unread_by_pane[q] <= MaxNotifications
         /\ \A v \in Workspaces : store'.unread_by_workspace[v] <= MaxNotifications
    BY <2>3, <2>6
  <2>12. Ledger!Arrive
    BY <2>5, <2>7, <2>8, <2>9, <2>10, <2>11 DEF Ledger!Arrive, Ledger!Keys, log, long
  <2> QED  BY <2>12
<1> QED  BY <1>2, <1>3

LEMMA ReadRefines ==
    ASSUME IInv, NEW p \in Panes, Read(p)
    PROVE  Ledger!ReadPane(p)
<1> DEFINE log    == store.notifications
           before == [k \in Panes \X Workspaces |-> Cardinality(UnreadOf(log, k[1], k[2]))]
           after  == [k \in Panes \X Workspaces |->
                        Cardinality(UnreadOf(store'.notifications, k[1], k[2]))]
<1>1. log \in Seq(Notifications) /\ store \in Stores /\ Counted(store)
  BY DEF IInv, Stores
<1>2. /\ store'.notifications = MarkRead(log, p)
      /\ store'.unread_by_pane = [store.unread_by_pane EXCEPT
            ![p] = SaturatingSub(@, Cardinality(UnreadOfPane(log, p)))]
      /\ store'.unread_by_workspace = [w \in Workspaces |->
            SaturatingSub(store.unread_by_workspace[w], Cardinality(UnreadOf(log, p, w)))]
  BY DEF Read, MarkPaneRead
<1>3. store.unread_by_pane \in [Panes -> Nat]
  BY <1>1 DEF Stores
<1>4. /\ store.unread_by_pane[p] = Cardinality(UnreadOfPane(log, p))
      /\ \A w \in Workspaces :
           store.unread_by_workspace[w] = Cardinality(UnreadOfWorkspace(log, w))
  BY <1>1 DEF Counted
<1> HIDE DEF log
<1>5. after = [k \in Panes \X Workspaces |-> IF k[1] = p THEN 0 ELSE before[k]]
  BY <1>1, <1>2, MarkReadLedger, FS_EmptySet
<1>6. store'.unread_by_pane = [q \in Panes |-> IF q = p THEN 0 ELSE store.unread_by_pane[q]]
  <2>1. SaturatingSub(store.unread_by_pane[p], Cardinality(UnreadOfPane(log, p))) = 0
    BY <1>3, <1>4 DEF SaturatingSub
  <2> QED  BY <1>2, <1>3, <2>1
<1>7. store'.unread_by_workspace = [w \in Workspaces |-> store.unread_by_workspace[w] - before[<<p, w>>]]
  <2>1. ASSUME NEW w \in Workspaces
        PROVE  SaturatingSub(store.unread_by_workspace[w], Cardinality(UnreadOf(log, p, w)))
                 = store.unread_by_workspace[w] - before[<<p, w>>]
    <3> DEFINE k == <<p, w>>
    <3>1. before[k] = Cardinality(UnreadOf(log, p, w))
      OBVIOUS
    <3>2. UnreadOf(log, p, w) \in SUBSET UnreadOfWorkspace(log, w)
      BY DEF UnreadOf, UnreadOfWorkspace
    <3>3. UnreadOfWorkspace(log, w) = Of(log, OfWorkspace(w))
      BY <1>1, CountedSets
    <3>4. IsFiniteSet(UnreadOfWorkspace(log, w)) /\ Cardinality(UnreadOfWorkspace(log, w)) \in Nat
      BY <1>1, <3>3, OfCount
    <3>5. Cardinality(UnreadOf(log, p, w)) \in Nat
            /\ Cardinality(UnreadOf(log, p, w)) <= Cardinality(UnreadOfWorkspace(log, w))
      BY <3>2, <3>4, FS_Subset, FS_CardinalityType
    <3> HIDE DEF before
    <3> QED  BY <1>4, <3>1, <3>4, <3>5 DEF SaturatingSub
  <2> HIDE DEF before
  <2> QED  BY <1>2, <2>1
<1> QED  BY <1>5, <1>6, <1>7 DEF Ledger!ReadPane, Ledger!Keys, log

(* At any capacity, the list with its deduplication, its cap and its two   *)
(* tables does what the ledger promises.                                   *)
THEOREM StoreImplementsLedger == Spec => ImplementsLedger
<1>1. Init => Ledger!Init
  <2> SUFFICES ASSUME Init PROVE Ledger!Init
    OBVIOUS
  <2>1. /\ store.notifications = <<>>
        /\ store.unread_by_pane = [p \in Panes |-> 0]
        /\ store.unread_by_workspace = [w \in Workspaces |-> 0]
    BY DEF Init, EmptyStore
  <2>2. \A k \in Panes \X Workspaces : UnreadOf(store.notifications, k[1], k[2]) = {}
    BY <2>1 DEF UnreadOf
  <2>3. Cardinality({}) = 0
    BY FS_EmptySet
  <2> QED  BY <2>1, <2>2, <2>3 DEF Ledger!Init, Ledger!Keys
<1>2. IInv /\ IInv' /\ [Next]_vars => [Ledger!Next]_(Ledger!vars)
  <2> SUFFICES ASSUME IInv, IInv', [Next]_vars PROVE Ledger!Next \/ UNCHANGED Ledger!vars
    OBVIOUS
  <2>1. ASSUME NEW p \in Panes, NEW w \in Workspaces, NEW text \in Texts,
               NEW unread \in BOOLEAN, Add(p, w, text, unread)
        PROVE  Ledger!Next \/ UNCHANGED Ledger!vars
    BY <2>1, AddRefines DEF Ledger!Next
  <2>2. ASSUME NEW p \in Panes, Read(p)
        PROVE  Ledger!Next \/ UNCHANGED Ledger!vars
    BY <2>2, ReadRefines DEF Ledger!Next
  <2>3. CASE UNCHANGED vars
    BY <2>3 DEF vars, Ledger!vars
  <2> QED  BY <2>1, <2>2, <2>3 DEF Next
<1> QED  BY <1>1, <1>2, InitIInv, NextIInv, PTL DEF Spec, ImplementsLedger, Ledger!Spec
===============================================================================

-------------------------- MODULE WindowTabs_proofs --------------------------
(* Proofs about WindowTabs, for any set of tabs and either configuration.  *)
EXTENDS WindowTabs, SequenceTheorems, TLAPS

(* The window values the code builds: typed, with the position in range.   *)
Windows == [tabs : Seq(TabIds), active : Nat, last_active : TabIds \cup {NoTab}]

InRange(w) ==
    \/ w.active < Len(w.tabs)
    \/ w.active = 0 /\ Len(w.tabs) = 0

IInv == window \in Windows /\ InRange(window) /\ switch_to_last \in BOOLEAN

(* Taking one element out of a sequence leaves a sequence one shorter.     *)
LEMMA RemoveAtFacts ==
    ASSUME NEW S, NEW s \in Seq(S), NEW i \in 1 .. Len(s)
    PROVE  /\ RemoveAt(s, i) \in Seq(S)
           /\ Len(RemoveAt(s, i)) = Len(s) - 1
<1> DEFINE before == SubSeq(s, 1, i - 1)
           after  == SubSeq(s, i + 1, Len(s))
<1>0. Len(s) \in Nat /\ \A j \in 1 .. Len(s) : s[j] \in S
  BY LenProperties, ElementOfSeq
<1>1. before \in Seq(S) /\ Len(before) = i - 1
  BY <1>0, SubSeqProperties
<1>2. after \in Seq(S) /\ Len(after) = Len(s) - i
  BY <1>0, SubSeqProperties
<1>3. RemoveAt(s, i) = before \o after
  BY DEF RemoveAt
<1> HIDE DEF before, after
<1>4. before \o after \in Seq(S) /\ Len(before \o after) = Len(before) + Len(after)
  BY <1>1, <1>2, ConcatProperties
<1> QED  BY <1>0, <1>1, <1>2, <1>3, <1>4

(* Putting one element into a sequence leaves a sequence one longer.       *)
LEMMA InsertAtFacts ==
    ASSUME NEW S, NEW s \in Seq(S), NEW e \in S, NEW i \in 1 .. (Len(s) + 1)
    PROVE  /\ InsertAt(s, i, e) \in Seq(S)
           /\ Len(InsertAt(s, i, e)) = Len(s) + 1
<1> DEFINE before == SubSeq(s, 1, i - 1)
           one    == <<e>>
           after  == SubSeq(s, i, Len(s))
<1>0. Len(s) \in Nat /\ \A j \in 1 .. Len(s) : s[j] \in S
  BY LenProperties, ElementOfSeq
<1>1. before \in Seq(S) /\ Len(before) = i - 1
  BY <1>0, SubSeqProperties
<1>2. after \in Seq(S) /\ Len(after) = Len(s) - i + 1
  BY <1>0, SubSeqProperties
<1>3. one \in Seq(S) /\ Len(one) = 1
  OBVIOUS
<1>4. InsertAt(s, i, e) = (before \o one) \o after
  BY DEF InsertAt
<1> HIDE DEF before, one, after
<1>5. before \o one \in Seq(S) /\ Len(before \o one) = Len(before) + Len(one)
  BY <1>1, <1>3, ConcatProperties
<1> DEFINE front == before \o one
<1>6. front \in Seq(S) /\ Len(front) = i
  BY <1>1, <1>3, <1>5
<1> HIDE DEF front
<1>7. front \o after \in Seq(S) /\ Len(front \o after) = Len(front) + Len(after)
  BY <1>2, <1>6, ConcatProperties
<1>8. InsertAt(s, i, e) = front \o after
  BY <1>4 DEF front
<1> QED  BY <1>0, <1>2, <1>6, <1>7, <1>8

(* idx_by_id answers a valid position for a tab of the window.             *)
LEMMA IdxByIdInRange ==
    ASSUME NEW w \in Windows, NEW tab, HasTab(w, tab)
    PROVE  IdxById(w, tab) \in 0 .. (Len(w.tabs) - 1)
<1>1. (CHOOSE i \in DOMAIN w.tabs : w.tabs[i] = tab) \in DOMAIN w.tabs
  BY DEF HasTab
<1>2. DOMAIN w.tabs = 1 .. Len(w.tabs) /\ Len(w.tabs) \in Nat
  BY DEF Windows
<1> QED  BY <1>1, <1>2 DEF IdxById

(* The fix-up after a removal restores the range whatever the position it  *)
(* starts from, provided an emptied window starts from position 0.         *)
LEMMA FixupActiveInRange ==
    ASSUME NEW w \in Windows, NEW tab, Len(w.tabs) = 0 => w.active = 0
    PROVE  /\ FixupActive(w, tab) \in Windows
           /\ InRange(FixupActive(w, tab))
           /\ FixupActive(w, tab).tabs = w.tabs
<1>0. Len(w.tabs) \in Nat
  BY DEF Windows
<1>1. CASE tab # NoTab /\ HasTab(w, tab)
  <2>1. IdxById(w, tab) \in 0 .. (Len(w.tabs) - 1)
    BY <1>1, IdxByIdInRange
  <2>2. FixupActive(w, tab) = [w EXCEPT !.active = IdxById(w, tab)]
    BY <1>1 DEF FixupActive, SetActive
  <2> QED  BY <1>0, <2>1, <2>2 DEF Windows, InRange
<1>2. CASE ~(tab # NoTab /\ HasTab(w, tab)) /\ Len(w.tabs) > 0 /\ w.active >= Len(w.tabs)
  <2>1. FixupActive(w, tab) = [w EXCEPT !.active = Len(w.tabs) - 1]
    BY <1>2 DEF FixupActive, SetActive
  <2> QED  BY <1>0, <1>2, <2>1 DEF Windows, InRange
<1>3. CASE ~(tab # NoTab /\ HasTab(w, tab)) /\ ~(Len(w.tabs) > 0 /\ w.active >= Len(w.tabs))
  <2>1. FixupActive(w, tab) = w
    BY <1>3 DEF FixupActive
  <2> QED  BY <1>0, <1>3, <2>1 DEF Windows, InRange
<1> QED  BY <1>1, <1>2, <1>3

(* Moving to the last active tab before a removal stays in the list.       *)
LEMMA SwitchInRange ==
    ASSUME NEW w \in Windows, InRange(w), NEW idx \in 0 .. (Len(w.tabs) - 1),
           NEW switch \in BOOLEAN
    PROVE  /\ SwitchBeforeRemoval(w, idx, switch) \in Windows
           /\ InRange(SwitchBeforeRemoval(w, idx, switch))
           /\ SwitchBeforeRemoval(w, idx, switch).tabs = w.tabs
<1>1. CASE SwitchBeforeRemoval(w, idx, switch) = w
  BY <1>1
<1>2. CASE /\ HasTab(w, w.last_active)
           /\ SwitchBeforeRemoval(w, idx, switch) = [w EXCEPT !.active = IdxById(w, w.last_active)]
  <2>1. IdxById(w, w.last_active) \in 0 .. (Len(w.tabs) - 1)
    BY <1>2, IdxByIdInRange
  <2>2. Len(w.tabs) \in Nat
    BY DEF Windows
  <2> QED  BY <1>2, <2>1, <2>2 DEF Windows, InRange
<1> QED  BY <1>1, <1>2 DEF SwitchBeforeRemoval, SetActive

(* Every removal, in either configuration, keeps the position on a tab.    *)
LEMMA DoRemoveIdxInRange ==
    ASSUME NEW w \in Windows, InRange(w), NEW idx \in 0 .. (Len(w.tabs) - 1),
           NEW switch \in BOOLEAN
    PROVE  /\ DoRemoveIdx(w, idx, switch) \in Windows
           /\ InRange(DoRemoveIdx(w, idx, switch))
           /\ Len(DoRemoveIdx(w, idx, switch).tabs) = Len(w.tabs) - 1
<1> DEFINE switched == SwitchBeforeRemoval(w, idx, switch)
           removed  == [switched EXCEPT !.tabs = RemoveAt(@, idx + 1)]
<1>1. switched \in Windows /\ InRange(switched) /\ switched.tabs = w.tabs
  BY SwitchInRange
<1>2. idx + 1 \in 1 .. Len(w.tabs) /\ w.tabs \in Seq(TabIds) /\ Len(w.tabs) \in Nat
  BY DEF Windows
<1>3. RemoveAt(w.tabs, idx + 1) \in Seq(TabIds) /\ Len(RemoveAt(w.tabs, idx + 1)) = Len(w.tabs) - 1
  BY <1>2, RemoveAtFacts
<1>4. removed \in Windows /\ removed.tabs = RemoveAt(w.tabs, idx + 1) /\ removed.active = switched.active
  BY <1>1, <1>3 DEF Windows
<1>5. Len(removed.tabs) = 0 => removed.active = 0
  BY <1>1, <1>2, <1>3, <1>4 DEF InRange, Windows
<1>6. DoRemoveIdx(w, idx, switch) = FixupActive(removed, GetActive(w))
  BY DEF DoRemoveIdx
<1> HIDE DEF removed
<1> QED  BY <1>3, <1>4, <1>5, <1>6, FixupActiveInRange

-----------------------------------------------------------------------------
(* The empty window is in range.                                           *)
LEMMA InitIInv == Init => IInv
BY DEF Init, IInv, EmptyWindow, Windows, InRange

(* Every method of the window keeps its value typed and in range.          *)
LEMMA NextIInv == IInv /\ [Next]_vars => IInv'
<1> SUFFICES ASSUME IInv, [Next]_vars PROVE IInv'
  OBVIOUS
<1>0. /\ window \in Windows /\ InRange(window) /\ switch_to_last \in BOOLEAN
      /\ window.tabs \in Seq(TabIds) /\ Len(window.tabs) \in Nat
  BY DEF IInv, Windows
<1>1. ASSUME NEW tab \in TabIds, AddTab(tab) PROVE IInv'
  <2>1. window' = [window EXCEPT !.tabs = Append(window.tabs, tab)]
    BY <1>1 DEF AddTab, PushTab
  <2>2. /\ Append(window.tabs, tab) \in Seq(TabIds)
        /\ Len(Append(window.tabs, tab)) = Len(window.tabs) + 1
    BY <1>0, AppendProperties
  <2>3. /\ window' \in Windows
        /\ Len(window'.tabs) = Len(window.tabs) + 1
        /\ window'.active = window.active
    BY <1>0, <2>1, <2>2 DEF Windows
  <2> QED  BY <1>0, <1>1, <2>3 DEF AddTab, IInv, Windows, InRange
<1>2. ASSUME NEW idx \in 0 .. (Len(window.tabs) - 1), ActivateTab(idx) PROVE IInv'
  <2>1. CASE idx = window.active
    BY <1>0, <1>2, <2>1 DEF ActivateTab, SaveAndThenSetActive, IInv
  <2>2. CASE idx # window.active
    <3>1. window' = [tabs |-> window.tabs, active |-> idx, last_active |-> GetActive(window)]
      BY <1>0, <1>2, <2>2 DEF ActivateTab, SaveAndThenSetActive, Windows
    <3>2. GetActive(window) \in TabIds \cup {NoTab}
      BY <1>0 DEF GetActive, GetByIdx, Windows
    <3>3. window' \in Windows /\ window'.tabs = window.tabs /\ window'.active = idx
      BY <1>0, <3>1, <3>2 DEF Windows
    <3> QED  BY <1>0, <1>2, <3>3 DEF ActivateTab, IInv, InRange
  <2> QED  BY <2>1, <2>2
<1>3. ASSUME NEW idx \in 0 .. (Len(window.tabs) - 1), MoveTab(idx) PROVE IInv'
  <2> DEFINE moving == GetActive(window)
             rest   == DoRemoveIdx(window, window.active, switch_to_last)
  <2>1. window.active \in 0 .. (Len(window.tabs) - 1)
    BY <1>0 DEF InRange, Windows
  <2>2. moving \in TabIds
    BY <1>0, <2>1 DEF GetActive, GetByIdx
  <2>3. rest \in Windows /\ Len(rest.tabs) = Len(window.tabs) - 1
    BY <1>0, <2>1, DoRemoveIdxInRange
  <2>4. /\ InsertAt(rest.tabs, idx + 1, moving) \in Seq(TabIds)
        /\ Len(InsertAt(rest.tabs, idx + 1, moving)) = Len(window.tabs)
    <3>1. rest.tabs \in Seq(TabIds) /\ idx + 1 \in 1 .. (Len(rest.tabs) + 1)
      BY <1>0, <2>3 DEF Windows
    <3> HIDE DEF rest, moving
    <3> QED  BY <1>0, <2>2, <2>3, <3>1, InsertAtFacts
  <2>5. window' = [tabs |-> InsertAt(rest.tabs, idx + 1, moving), active |-> idx,
                    last_active |-> rest.last_active]
    BY <1>3, <2>3 DEF MoveTab, MoveActiveTab, InsertTab, SetActive, Windows
  <2> HIDE DEF rest, moving
  <2>6. /\ window' \in Windows
        /\ Len(window'.tabs) = Len(window.tabs)
        /\ window'.active = idx
    BY <1>0, <2>3, <2>4, <2>5 DEF Windows
  <2> QED  BY <1>0, <1>3, <2>6 DEF MoveTab, IInv, InRange
<1>4. ASSUME NEW tab \in TabIds, CloseTab(tab) PROVE IInv'
  <2>1. IdxById(window, tab) \in 0 .. (Len(window.tabs) - 1)
    BY <1>0, <1>4, IdxByIdInRange DEF CloseTab
  <2>2. window' = DoRemoveIdx(window, IdxById(window, tab), switch_to_last)
    BY <1>4 DEF CloseTab, RemoveById
  <2>3. window' \in Windows /\ InRange(window')
    BY <1>0, <2>1, <2>2, DoRemoveIdxInRange
  <2> QED  BY <1>0, <1>4, <2>3 DEF CloseTab, IInv, InRange
<1>5. ASSUME TakeLastTab PROVE IInv'
  <2>1. Len(window.tabs) - 1 \in 0 .. (Len(window.tabs) - 1)
    BY <1>0, <1>5 DEF TakeLastTab
  <2> QED  BY <1>0, <1>5, <2>1, DoRemoveIdxInRange DEF IInv, TakeLastTab
<1>6. ASSUME ReloadConfig PROVE IInv'
  BY <1>0, <1>6 DEF ReloadConfig, IInv
<1>7. CASE UNCHANGED vars
  BY <1>0, <1>7 DEF vars, IInv
<1> QED  BY <1>1, <1>2, <1>3, <1>4, <1>5, <1>6, <1>7 DEF Next

(* For any number of tabs and any history of pushes, activations, moves    *)
(* and removals, with the configuration reloaded at any time, the active   *)
(* position of a window is that of one of its tabs, and 0 when it has none. *)
THEOREM ActiveAlwaysInRange == Spec => []ActiveInRange
<1>1. IInv => ActiveInRange
  BY DEF IInv, InRange, ActiveInRange
<1> QED  BY InitIInv, NextIInv, <1>1, PTL DEF Spec

(* The fields of a window keep their types under the same histories.       *)
THEOREM WindowTypeCorrect == Spec => []TypeOK
<1>1. IInv => TypeOK
  BY DEF IInv, Windows, TypeOK
<1> QED  BY InitIInv, NextIInv, <1>1, PTL DEF Spec

-----------------------------------------------------------------------------
(* The elements that stay around one that is taken out or put in.          *)
LEMMA RemoveAtElements ==
    ASSUME NEW S, NEW s \in Seq(S), NEW i \in 1 .. Len(s)
    PROVE  \A j \in 1 .. (Len(s) - 1) : RemoveAt(s, i)[j] = IF j < i THEN s[j] ELSE s[j + 1]
<1> DEFINE before == SubSeq(s, 1, i - 1)
           after  == SubSeq(s, i + 1, Len(s))
<1>0. Len(s) \in Nat /\ \A j \in 1 .. Len(s) : s[j] \in S
  BY LenProperties, ElementOfSeq
<1>1. /\ before \in Seq(S) /\ Len(before) = i - 1
      /\ \A j \in 1 .. (i - 1) : before[j] = s[j]
  BY <1>0, SubSeqProperties
<1>2. /\ after \in Seq(S) /\ Len(after) = Len(s) - i
      /\ \A j \in 1 .. (Len(s) - i) : after[j] = s[i + j]
  BY <1>0, SubSeqProperties
<1>3. RemoveAt(s, i) = before \o after
  BY DEF RemoveAt
<1> HIDE DEF before, after
<1>4. \A j \in 1 .. (Len(s) - 1) :
        (before \o after)[j] = IF j < i THEN before[j] ELSE after[j - (i - 1)]
  BY <1>0, <1>1, <1>2, ConcatProperties
<1>5. ASSUME NEW j \in 1 .. (Len(s) - 1)
      PROVE  RemoveAt(s, i)[j] = IF j < i THEN s[j] ELSE s[j + 1]
  <2>1. CASE j < i
    BY <1>0, <1>1, <1>3, <1>4, <2>1
  <2>2. CASE ~(j < i)
    <3>1. j - (i - 1) \in 1 .. (Len(s) - i) /\ i + (j - (i - 1)) = j + 1
      BY <1>0, <2>2
    <3>2. after[j - (i - 1)] = s[j + 1]
      BY <1>2, <3>1
    <3> QED  BY <1>3, <1>4, <2>2, <3>2
  <2> QED  BY <2>1, <2>2
<1> QED  BY <1>5

LEMMA InsertAtElements ==
    ASSUME NEW S, NEW s \in Seq(S), NEW e \in S, NEW i \in 1 .. (Len(s) + 1)
    PROVE  \A j \in 1 .. (Len(s) + 1) :
             InsertAt(s, i, e)[j] = IF j < i THEN s[j] ELSE IF j = i THEN e ELSE s[j - 1]
<1> DEFINE before == SubSeq(s, 1, i - 1)
           one    == <<e>>
           after  == SubSeq(s, i, Len(s))
<1>0. Len(s) \in Nat /\ \A j \in 1 .. Len(s) : s[j] \in S
  BY LenProperties, ElementOfSeq
<1>1. /\ before \in Seq(S) /\ Len(before) = i - 1
      /\ \A j \in 1 .. (i - 1) : before[j] = s[j]
  BY <1>0, SubSeqProperties
<1>2. /\ after \in Seq(S) /\ Len(after) = Len(s) - i + 1
      /\ \A j \in 1 .. (Len(s) - i + 1) : after[j] = s[i + j - 1]
  BY <1>0, SubSeqProperties
<1>3. one \in Seq(S) /\ Len(one) = 1 /\ one[1] = e
  OBVIOUS
<1>4. InsertAt(s, i, e) = (before \o one) \o after
  BY DEF InsertAt
<1> HIDE DEF before, one, after
<1> DEFINE front == before \o one
<1>5. /\ front \in Seq(S) /\ Len(front) = i
      /\ \A j \in 1 .. i : front[j] = IF j < i THEN before[j] ELSE e
  <2>1. /\ front \in Seq(S) /\ Len(front) = Len(before) + Len(one)
        /\ \A j \in 1 .. (Len(before) + Len(one)) :
             front[j] = IF j <= Len(before) THEN before[j] ELSE one[j - Len(before)]
    BY <1>1, <1>3, ConcatProperties
  <2>2. Len(front) = i
    BY <1>0, <1>1, <1>3, <2>1
  <2>3. ASSUME NEW j \in 1 .. i PROVE front[j] = IF j < i THEN before[j] ELSE e
    <3>1. j \in 1 .. (Len(before) + Len(one)) /\ (j < i <=> j <= Len(before))
      BY <1>0, <1>1, <1>3
    <3>2. ~(j < i) => j - Len(before) = 1
      BY <1>0, <1>1
    <3> HIDE DEF front
    <3> QED  BY <1>3, <2>1, <3>1, <3>2
  <2> QED  BY <2>1, <2>2, <2>3
<1>6. InsertAt(s, i, e) = front \o after
  BY <1>4
<1> HIDE DEF front
<1>7. \A j \in 1 .. (Len(s) + 1) : (front \o after)[j] = IF j <= i THEN front[j] ELSE after[j - i]
  BY <1>0, <1>2, <1>5, ConcatProperties
<1>8. ASSUME NEW j \in 1 .. (Len(s) + 1)
      PROVE  InsertAt(s, i, e)[j] = IF j < i THEN s[j] ELSE IF j = i THEN e ELSE s[j - 1]
  <2>1. CASE j < i
    BY <1>0, <1>1, <1>5, <1>6, <1>7, <2>1
  <2>2. CASE j = i
    BY <1>0, <1>5, <1>6, <1>7, <2>2
  <2>3. CASE j > i
    <3>1. j - i \in 1 .. (Len(s) - i + 1) /\ i + (j - i) - 1 = j - 1
      BY <1>0, <2>3
    <3>2. after[j - i] = s[j - 1]
      BY <1>2, <3>1
    <3>3. ~(j <= i) /\ ~(j < i) /\ j # i
      BY <1>0, <2>3
    <3>4. (front \o after)[j] = after[j - i]
      BY <1>7, <3>3
    <3> QED  BY <1>6, <3>2, <3>3, <3>4
  <2> QED  BY <1>0, <2>1, <2>2, <2>3
<1> QED  BY <1>8

-----------------------------------------------------------------------------
(* A tab is at most once in a window.                                      *)
Distinct(w) == \A i, j \in 1 .. Len(w.tabs) : w.tabs[i] = w.tabs[j] => i = j

(* What a removal leaves: all tabs but the one, in their order.            *)
LEMMA DoRemoveIdxTabs ==
    ASSUME NEW w \in Windows, InRange(w), NEW idx \in 0 .. (Len(w.tabs) - 1),
           NEW switch \in BOOLEAN
    PROVE  /\ DoRemoveIdx(w, idx, switch).tabs = RemoveAt(w.tabs, idx + 1)
           /\ \A j \in 1 .. (Len(w.tabs) - 1) :
                DoRemoveIdx(w, idx, switch).tabs[j]
                  = IF j < idx + 1 THEN w.tabs[j] ELSE w.tabs[j + 1]
<1> DEFINE switched == SwitchBeforeRemoval(w, idx, switch)
           removed  == [switched EXCEPT !.tabs = RemoveAt(@, idx + 1)]
<1>1. switched \in Windows /\ switched.tabs = w.tabs
  BY SwitchInRange
<1>2. removed.tabs = RemoveAt(w.tabs, idx + 1)
  BY <1>1 DEF Windows
<1>3. \A tab : FixupActive(removed, tab).tabs = removed.tabs
  <2>1. removed = [tabs |-> RemoveAt(w.tabs, idx + 1), active |-> switched.active,
                   last_active |-> switched.last_active]
    BY <1>1 DEF Windows
  <2> HIDE DEF removed
  <2> QED  BY <2>1 DEF FixupActive, SetActive
<1>4. DoRemoveIdx(w, idx, switch) = FixupActive(removed, GetActive(w))
  BY DEF DoRemoveIdx
<1> HIDE DEF removed
<1>5. DoRemoveIdx(w, idx, switch).tabs = RemoveAt(w.tabs, idx + 1)
  BY <1>2, <1>3, <1>4
<1>6. w.tabs \in Seq(TabIds) /\ idx + 1 \in 1 .. Len(w.tabs)
  BY DEF Windows
<1> QED  BY <1>5, <1>6, RemoveAtElements

(* A tab other than the removed one is still there.                        *)
LEMMA OthersStay ==
    ASSUME NEW w \in Windows, InRange(w), NEW idx \in 0 .. (Len(w.tabs) - 1),
           NEW switch \in BOOLEAN, NEW tab, HasTab(w, tab), tab # w.tabs[idx + 1]
    PROVE  HasTab(DoRemoveIdx(w, idx, switch), tab)
<1> DEFINE v == DoRemoveIdx(w, idx, switch)
<1>1. Len(w.tabs) \in Nat /\ DOMAIN w.tabs = 1 .. Len(w.tabs)
  BY DEF Windows
<1>2. /\ \A j \in 1 .. (Len(w.tabs) - 1) : v.tabs[j] = IF j < idx + 1 THEN w.tabs[j] ELSE w.tabs[j + 1]
      /\ v \in Windows /\ Len(v.tabs) = Len(w.tabs) - 1
  BY DoRemoveIdxTabs, DoRemoveIdxInRange
<1>3. DOMAIN v.tabs = 1 .. (Len(w.tabs) - 1)
  BY <1>2 DEF Windows
<1>4. PICK i \in 1 .. Len(w.tabs) : w.tabs[i] = tab
  BY <1>1 DEF HasTab
<1> HIDE DEF v
<1>5. CASE i < idx + 1
  <2>1. i \in 1 .. (Len(w.tabs) - 1) /\ v.tabs[i] = tab
    BY <1>1, <1>2, <1>4, <1>5
  <2> QED  BY <1>3, <2>1 DEF HasTab, v
<1>6. CASE i > idx + 1
  <2>1. i - 1 \in 1 .. (Len(w.tabs) - 1) /\ ~(i - 1 < idx + 1) /\ (i - 1) + 1 = i
    BY <1>1, <1>6
  <2>2. v.tabs[i - 1] = tab
    BY <1>2, <1>4, <2>1
  <2> QED  BY <1>3, <2>1, <2>2 DEF HasTab, v
<1> QED  BY <1>4, <1>5, <1>6

LEMMA RemovalStaysDistinct ==
    ASSUME NEW w \in Windows, InRange(w), Distinct(w), NEW idx \in 0 .. (Len(w.tabs) - 1),
           NEW switch \in BOOLEAN
    PROVE  /\ Distinct(DoRemoveIdx(w, idx, switch))
           /\ ~HasTab(DoRemoveIdx(w, idx, switch), w.tabs[idx + 1])
<1> DEFINE v == DoRemoveIdx(w, idx, switch)
<1>1. Len(w.tabs) \in Nat
  BY DEF Windows
<1>2. /\ \A j \in 1 .. (Len(w.tabs) - 1) : v.tabs[j] = IF j < idx + 1 THEN w.tabs[j] ELSE w.tabs[j + 1]
      /\ v \in Windows /\ Len(v.tabs) = Len(w.tabs) - 1
  BY DoRemoveIdxTabs, DoRemoveIdxInRange
<1>3. DOMAIN v.tabs = 1 .. (Len(w.tabs) - 1)
  BY <1>2 DEF Windows
<1> HIDE DEF v
<1>4. \A j \in 1 .. (Len(w.tabs) - 1) :
        \E i \in 1 .. Len(w.tabs) : /\ v.tabs[j] = w.tabs[i] /\ i # idx + 1
                                    /\ i = IF j < idx + 1 THEN j ELSE j + 1
  BY <1>1, <1>2
<1>5. Distinct(v)
  BY <1>1, <1>2, <1>4 DEF Distinct
<1>6. ~HasTab(v, w.tabs[idx + 1])
  BY <1>1, <1>3, <1>4 DEF Distinct, HasTab
<1> QED  BY <1>5, <1>6 DEF v

(* Closing a tab in the background leaves the active one in front.         *)
LEMMA BackgroundClose ==
    ASSUME NEW w \in Windows, InRange(w), NEW idx \in 0 .. (Len(w.tabs) - 1),
           NEW switch \in BOOLEAN, GetActive(w) # w.tabs[idx + 1]
    PROVE  GetActive(DoRemoveIdx(w, idx, switch)) = GetActive(w)
<1> DEFINE a        == GetActive(w)
           v        == DoRemoveIdx(w, idx, switch)
           switched == SwitchBeforeRemoval(w, idx, switch)
           removed  == [switched EXCEPT !.tabs = RemoveAt(@, idx + 1)]
<1>1. Len(w.tabs) \in Nat /\ DOMAIN w.tabs = 1 .. Len(w.tabs) /\ w.active \in 0 .. (Len(w.tabs) - 1)
  BY DEF Windows, InRange
<1>2. a = w.tabs[w.active + 1] /\ HasTab(w, a) /\ a \in TabIds
  BY <1>1 DEF GetActive, GetByIdx, HasTab, Windows
<1>3. HasTab(v, a)
  BY <1>2, OthersStay
<1>4. switched \in Windows /\ switched.tabs = w.tabs
  BY SwitchInRange
<1>5. removed.tabs = v.tabs /\ v = FixupActive(removed, a)
  BY <1>4, DoRemoveIdxTabs DEF DoRemoveIdx, Windows
<1>6. v \in Windows /\ removed = [tabs |-> v.tabs, active |-> switched.active, last_active |-> switched.last_active]
  BY <1>4, <1>5, DoRemoveIdxInRange, SMTT(30) DEF Windows
<1> HIDE DEF a, v, removed, switched
<1>7. HasTab(removed, a) /\ a # NoTab
  BY <1>2, <1>3, <1>5, TabIdsAssumption DEF HasTab
<1>8. v.active = IdxById(v, a)
  BY <1>5, <1>6, <1>7 DEF FixupActive, SetActive, IdxById
<1>9. v.active \in 0 .. (Len(v.tabs) - 1)
  BY <1>3, <1>6, <1>8, IdxByIdInRange
<1>10. v.tabs[v.active + 1] = a
  <2>1. (CHOOSE i \in DOMAIN v.tabs : v.tabs[i] = a) \in DOMAIN v.tabs
         /\ v.tabs[CHOOSE i \in DOMAIN v.tabs : v.tabs[i] = a] = a
    BY <1>3 DEF HasTab
  <2>2. DOMAIN v.tabs = 1 .. Len(v.tabs)
    BY <1>6 DEF Windows
  <2>3. \A n \in 1 .. Len(v.tabs) : (n - 1) + 1 = n
    BY <1>6 DEF Windows
  <2> QED  BY <1>8, <2>1, <2>2, <2>3 DEF IdxById
<1>11. Len(v.tabs) \in Nat
  BY <1>6 DEF Windows
<1>12. GetActive(v) = a
  BY <1>9, <1>10, <1>11 DEF GetActive, GetByIdx
<1> QED  BY <1>12 DEF a, v

(* Closing the active tab shows a neighbour.                               *)
LEMMA ForegroundClose ==
    ASSUME NEW w \in Windows, InRange(w), Distinct(w), NEW idx \in 0 .. (Len(w.tabs) - 1),
           GetActive(w) = w.tabs[idx + 1], DoRemoveIdx(w, idx, FALSE).tabs # <<>>
    PROVE  \/ GetActive(DoRemoveIdx(w, idx, FALSE)) = GetByIdx(w, idx + 1)
           \/ idx > 0 /\ GetActive(DoRemoveIdx(w, idx, FALSE)) = GetByIdx(w, idx - 1)
<1> DEFINE v       == DoRemoveIdx(w, idx, FALSE)
           removed == [w EXCEPT !.tabs = RemoveAt(@, idx + 1)]
<1>1. Len(w.tabs) \in Nat /\ w.active \in 0 .. (Len(w.tabs) - 1)
  BY DEF Windows, InRange
<1>2. w.active = idx
  <2>1. w.tabs[w.active + 1] = w.tabs[idx + 1]
    BY <1>1 DEF GetActive, GetByIdx
  <2>2. w.active + 1 \in 1 .. Len(w.tabs) /\ idx + 1 \in 1 .. Len(w.tabs)
    BY <1>1
  <2>3. w.active + 1 = idx + 1
    BY <2>1, <2>2 DEF Distinct
  <2> QED  BY <1>1, <2>3
<1>3. /\ v \in Windows /\ Len(v.tabs) = Len(w.tabs) - 1
      /\ \A j \in 1 .. (Len(w.tabs) - 1) : v.tabs[j] = IF j < idx + 1 THEN w.tabs[j] ELSE w.tabs[j + 1]
      /\ ~HasTab(v, GetActive(w))
  BY DoRemoveIdxInRange, DoRemoveIdxTabs, RemovalStaysDistinct
<1>4. Len(v.tabs) > 0
  <2>1. v.tabs \in Seq(TabIds) /\ v.tabs # <<>>
    BY <1>3 DEF Windows
  <2> HIDE DEF v
  <2>2. Len(v.tabs) \in Nat \ {0}
    BY <2>1, EmptySeq
  <2> QED  BY <2>2
<1>5. v = FixupActive(removed, GetActive(w))
  BY DEF DoRemoveIdx, SwitchBeforeRemoval
<1>6. removed = [tabs |-> v.tabs, active |-> idx, last_active |-> w.last_active]
  <2>1. v.tabs = RemoveAt(w.tabs, idx + 1)
    BY DoRemoveIdxTabs
  <2>2. w = [tabs |-> w.tabs, active |-> w.active, last_active |-> w.last_active]
    BY DEF Windows
  <2> HIDE DEF v
  <2> QED  BY <1>2, <2>1, <2>2
<1> HIDE DEF v, removed
<1>7. v.active = IF idx >= Len(v.tabs) THEN Len(v.tabs) - 1 ELSE idx
  <2>1. ~HasTab(removed, GetActive(w))
    BY <1>3, <1>6 DEF HasTab
  <2> QED  BY <1>4, <1>5, <1>6, <2>1 DEF FixupActive, SetActive
<1>8. CASE idx >= Len(v.tabs)
  <2>1. v.active = idx - 1 /\ idx > 0 /\ idx = Len(w.tabs) - 1
    BY <1>1, <1>3, <1>4, <1>7, <1>8
  <2>2. GetActive(v) = v.tabs[idx] /\ v.tabs[idx] = w.tabs[idx]
    BY <1>1, <1>3, <2>1 DEF GetActive, GetByIdx
  <2>3. GetByIdx(w, idx - 1) = w.tabs[idx]
    BY <1>1, <2>1 DEF GetByIdx
  <2> QED  BY <2>1, <2>2, <2>3 DEF v
<1>9. CASE idx < Len(v.tabs)
  <2>1. v.active = idx /\ idx + 1 < Len(w.tabs) /\ idx + 1 \in 1 .. (Len(w.tabs) - 1)
    BY <1>1, <1>3, <1>7, <1>9
  <2>2. GetActive(v) = v.tabs[idx + 1] /\ v.tabs[idx + 1] = w.tabs[(idx + 1) + 1]
    BY <1>1, <1>3, <1>9, <2>1 DEF GetActive, GetByIdx
  <2>3. GetByIdx(w, idx + 1) = w.tabs[(idx + 1) + 1]
    BY <1>1, <2>1 DEF GetByIdx
  <2> QED  BY <2>2, <2>3 DEF v
<1>10. idx >= Len(v.tabs) \/ idx < Len(v.tabs)
  BY <1>1, <1>3
<1> QED  BY <1>8, <1>9, <1>10

(* What the user sees of a removal.                                        *)
Kept(w, v, switch) ==
    \A tab \in TabIds :
        HasTab(w, tab) /\ ~HasTab(v, tab) /\ v.tabs # <<>> =>
            IF GetActive(w) # tab
            THEN GetActive(v) = GetActive(w)
            ELSE LET at == IdxById(w, tab)
                 IN \/ switch
                    \/ GetActive(v) = GetByIdx(w, at + 1)
                    \/ at > 0 /\ GetActive(v) = GetByIdx(w, at - 1)

LEMMA RemovalKeeps ==
    ASSUME NEW w \in Windows, InRange(w), Distinct(w), NEW idx \in 0 .. (Len(w.tabs) - 1),
           NEW switch \in BOOLEAN
    PROVE  Kept(w, DoRemoveIdx(w, idx, switch), switch)
<1> DEFINE v == DoRemoveIdx(w, idx, switch)
<1> SUFFICES ASSUME NEW tab \in TabIds, HasTab(w, tab), ~HasTab(v, tab), v.tabs # <<>>
             PROVE  IF GetActive(w) # tab
                    THEN GetActive(v) = GetActive(w)
                    ELSE LET at == IdxById(w, tab)
                         IN \/ switch
                            \/ GetActive(v) = GetByIdx(w, at + 1)
                            \/ at > 0 /\ GetActive(v) = GetByIdx(w, at - 1)
  BY DEF Kept
<1>1. tab = w.tabs[idx + 1]
  BY OthersStay
<1>2. IdxById(w, tab) = idx
  <2>1. DOMAIN w.tabs = 1 .. Len(w.tabs) /\ Len(w.tabs) \in Nat
    BY DEF Windows
  <2>2. (CHOOSE i \in DOMAIN w.tabs : w.tabs[i] = tab) \in DOMAIN w.tabs
         /\ w.tabs[CHOOSE i \in DOMAIN w.tabs : w.tabs[i] = tab] = tab
    BY DEF HasTab
  <2>3. (CHOOSE i \in DOMAIN w.tabs : w.tabs[i] = tab) = idx + 1
    BY <1>1, <2>1, <2>2 DEF Distinct
  <2>4. (idx + 1) - 1 = idx
    BY <2>1
  <2> QED  BY <2>3, <2>4 DEF IdxById
<1>3. CASE GetActive(w) # tab
  BY <1>1, <1>3, BackgroundClose
<1>4. CASE GetActive(w) = tab /\ ~switch
  <2>1. switch = FALSE
    BY <1>4
  <2> QED  BY <1>1, <1>2, <1>4, <2>1, ForegroundClose
<1>5. CASE GetActive(w) = tab /\ switch
  BY <1>5
<1> QED  BY <1>3, <1>4, <1>5

(* A tab that is moved is still there, and once.                           *)
LEMMA MoveKeepsTabs ==
    ASSUME NEW w \in Windows, InRange(w), Distinct(w), NEW idx \in 0 .. (Len(w.tabs) - 1),
           NEW switch \in BOOLEAN
    PROVE  /\ Distinct(MoveActiveTab(w, idx, switch))
           /\ \A tab : HasTab(w, tab) => HasTab(MoveActiveTab(w, idx, switch), tab)
<1> DEFINE moving == GetActive(w)
           rest   == DoRemoveIdx(w, w.active, switch)
           s      == InsertAt(rest.tabs, idx + 1, moving)
           v      == MoveActiveTab(w, idx, switch)
<1>1. Len(w.tabs) \in Nat /\ w.active \in 0 .. (Len(w.tabs) - 1)
  BY DEF Windows, InRange
<1>2. moving = w.tabs[w.active + 1] /\ moving \in TabIds
  BY <1>1 DEF GetActive, GetByIdx, Windows
<1>3. /\ rest \in Windows /\ Len(rest.tabs) = Len(w.tabs) - 1
      /\ Distinct(rest) /\ ~HasTab(rest, moving)
      /\ \A tab : HasTab(w, tab) /\ tab # moving => HasTab(rest, tab)
  BY <1>1, <1>2, DoRemoveIdxInRange, RemovalStaysDistinct, OthersStay
<1>4. v.tabs = s
  BY <1>3 DEF MoveActiveTab, InsertTab, SetActive, Windows
<1>5. rest.tabs \in Seq(TabIds) /\ idx + 1 \in 1 .. (Len(rest.tabs) + 1) /\ DOMAIN rest.tabs = 1 .. Len(rest.tabs)
  BY <1>1, <1>3 DEF Windows
<1> HIDE DEF moving, rest, v
<1>6. s \in Seq(TabIds) /\ Len(s) = Len(rest.tabs) + 1
  BY <1>2, <1>5, InsertAtFacts
<1>7. \A j \in 1 .. (Len(rest.tabs) + 1) :
        s[j] = IF j < idx + 1 THEN rest.tabs[j] ELSE IF j = idx + 1 THEN moving ELSE rest.tabs[j - 1]
  BY <1>2, <1>5, InsertAtElements, SMTT(30)
<1> HIDE DEF s
<1>8. DOMAIN s = 1 .. (Len(rest.tabs) + 1)
  BY <1>6
<1>9. \A i \in 1 .. Len(rest.tabs) : rest.tabs[i] # moving
  BY <1>3, <1>5 DEF HasTab
<1>10. Distinct(v)
  <2>1. ASSUME NEW i \in 1 .. (Len(rest.tabs) + 1), NEW j \in 1 .. (Len(rest.tabs) + 1), s[i] = s[j]
        PROVE  i = j
    <3> DEFINE old(k) == IF k < idx + 1 THEN k ELSE k - 1
    <3>0. Len(rest.tabs) \in Nat /\ idx \in Nat
      BY <1>1, <1>3
    <3>1. \A k \in 1 .. (Len(rest.tabs) + 1) : k # idx + 1 =>
            old(k) \in 1 .. Len(rest.tabs) /\ s[k] = rest.tabs[old(k)]
      BY <1>5, <1>7, <3>0
    <3>2. s[idx + 1] = moving
      BY <1>5, <1>7
    <3>3. CASE i = idx + 1 \/ j = idx + 1
      <4>1. \A k \in 1 .. (Len(rest.tabs) + 1) : k # idx + 1 => s[k] # moving
        <5> HIDE DEF old
        <5> QED  BY <1>9, <3>1
      <4> HIDE DEF old
      <4> QED  BY <2>1, <3>2, <3>3, <4>1
    <3>4. CASE i # idx + 1 /\ j # idx + 1
      <4>1. old(i) = old(j)
        <5>1. rest.tabs[old(i)] = rest.tabs[old(j)]
          BY <2>1, <3>1, <3>4
        <5>2. old(i) \in 1 .. Len(rest.tabs) /\ old(j) \in 1 .. Len(rest.tabs)
          BY <3>1, <3>4
        <5> HIDE DEF old
        <5> QED  BY <1>3, <5>1, <5>2 DEF Distinct
      <4> QED  BY <3>0, <3>4, <4>1
    <3> QED  BY <3>3, <3>4
  <2> QED  BY <1>4, <1>6, <2>1 DEF Distinct
<1>11. ASSUME NEW tab, HasTab(w, tab) PROVE HasTab(v, tab)
  <2>1. CASE tab = moving
    <3>1. s[idx + 1] = tab
      BY <1>5, <1>7, <2>1
    <3> QED  BY <1>4, <1>5, <1>8, <3>1 DEF HasTab
  <2>2. CASE tab # moving
    <3>1. PICK i \in 1 .. Len(rest.tabs) : rest.tabs[i] = tab
      BY <1>3, <1>5, <1>11, <2>2 DEF HasTab
    <3>2. CASE i < idx + 1
      <4>1. i \in 1 .. (Len(rest.tabs) + 1) /\ s[i] = tab
        BY <1>1, <1>3, <1>7, <3>1, <3>2
      <4> QED  BY <1>4, <1>8, <4>1 DEF HasTab
    <3>3. CASE ~(i < idx + 1)
      <4>1. i + 1 \in 1 .. (Len(rest.tabs) + 1) /\ s[i + 1] = tab
        BY <1>1, <1>3, <1>7, <3>1, <3>3, SMTT(30)
      <4> QED  BY <1>4, <1>8, <4>1 DEF HasTab
    <3> QED  BY <3>2, <3>3
  <2> QED  BY <2>1, <2>2
<1> QED  BY <1>10, <1>11 DEF v

-----------------------------------------------------------------------------
DInv == IInv /\ Distinct(window)

LEMMA NextDistinct ==
    DInv /\ [Next]_vars => /\ Distinct(window)'
                           /\ [Kept(window, window', switch_to_last)]_vars
<1> SUFFICES ASSUME DInv, [Next]_vars
             PROVE  Distinct(window)' /\ [Kept(window, window', switch_to_last)]_vars
  OBVIOUS
<1>0. /\ window \in Windows /\ InRange(window) /\ Distinct(window) /\ switch_to_last \in BOOLEAN
      /\ Len(window.tabs) \in Nat /\ DOMAIN window.tabs = 1 .. Len(window.tabs)
  BY DEF DInv, IInv, Windows
<1>a. ASSUME Distinct(window'), \A tab : HasTab(window, tab) => HasTab(window', tab)
      PROVE  Distinct(window)' /\ [Kept(window, window', switch_to_last)]_vars
  BY <1>a DEF Kept, Distinct
<1>b. ASSUME NEW idx \in 0 .. (Len(window.tabs) - 1),
             window' = DoRemoveIdx(window, idx, switch_to_last)
      PROVE  Distinct(window)' /\ [Kept(window, window', switch_to_last)]_vars
  <2>1. Distinct(window') /\ Kept(window, window', switch_to_last)
    BY <1>0, <1>b, RemovalStaysDistinct, RemovalKeeps
  <2> QED  BY <2>1 DEF Distinct
<1>1. ASSUME NEW tab \in TabIds, AddTab(tab)
      PROVE  Distinct(window)' /\ [Kept(window, window', switch_to_last)]_vars
  <2>1. /\ window'.tabs = Append(window.tabs, tab)
        /\ Len(window'.tabs) = Len(window.tabs) + 1
        /\ DOMAIN window'.tabs = 1 .. (Len(window.tabs) + 1)
        /\ \A i \in 1 .. Len(window.tabs) : window'.tabs[i] = window.tabs[i]
        /\ window'.tabs[Len(window.tabs) + 1] = tab
    <3>1. window'.tabs = Append(window.tabs, tab) /\ window.tabs \in Seq(TabIds)
      BY <1>0, <1>1 DEF AddTab, PushTab, Windows
    <3> QED  BY <1>0, <3>1, AppendProperties
  <2>2. \A i \in 1 .. Len(window.tabs) : window.tabs[i] # tab
    BY <1>0, <1>1 DEF AddTab, HasTab
  <2>3. Distinct(window')
    BY <1>0, <2>1, <2>2, SMTT(30) DEF Distinct
  <2>4. \A t : HasTab(window, t) => HasTab(window', t)
    BY <1>0, <2>1 DEF HasTab
  <2> QED  BY <1>a, <2>3, <2>4
<1>2. ASSUME NEW idx \in 0 .. (Len(window.tabs) - 1), ActivateTab(idx)
      PROVE  Distinct(window)' /\ [Kept(window, window', switch_to_last)]_vars
  <2>1. window'.tabs = window.tabs
    BY <1>0, <1>2 DEF ActivateTab, SaveAndThenSetActive, Windows
  <2> QED  BY <1>0, <1>a, <2>1 DEF Distinct, HasTab
<1>3. ASSUME NEW idx \in 0 .. (Len(window.tabs) - 1), MoveTab(idx)
      PROVE  Distinct(window)' /\ [Kept(window, window', switch_to_last)]_vars
  BY <1>0, <1>3, <1>a, MoveKeepsTabs DEF MoveTab
<1>4. ASSUME NEW tab \in TabIds, CloseTab(tab)
      PROVE  Distinct(window)' /\ [Kept(window, window', switch_to_last)]_vars
  <2>1. /\ IdxById(window, tab) \in 0 .. (Len(window.tabs) - 1)
        /\ window' = DoRemoveIdx(window, IdxById(window, tab), switch_to_last)
    BY <1>0, <1>4, IdxByIdInRange DEF CloseTab, RemoveById
  <2> QED  BY <1>b, <2>1
<1>5. ASSUME TakeLastTab
      PROVE  Distinct(window)' /\ [Kept(window, window', switch_to_last)]_vars
  <2>1. /\ Len(window.tabs) - 1 \in 0 .. (Len(window.tabs) - 1)
        /\ window' = DoRemoveIdx(window, Len(window.tabs) - 1, switch_to_last)
    BY <1>0, <1>5 DEF TakeLastTab
  <2> QED  BY <1>b, <2>1
<1>6. CASE ReloadConfig \/ UNCHANGED vars
  <2>1. window' = window
    BY <1>6 DEF ReloadConfig, vars
  <2> QED  BY <1>0, <1>a, <2>1
<1> QED  BY <1>1, <1>2, <1>3, <1>4, <1>5, <1>6 DEF Next

(* For any number of tabs and any history, closing a tab in the background *)
(* leaves the active one in front, and closing the active one shows, with  *)
(* the default configuration, a neighbour (do_remove_idx and its fix-up).  *)
THEOREM ClosingKeepsOrMovesToNeighbour == Spec => CloseKeepsActiveOrNeighbour
<1>1. Init => DInv
  BY InitIInv DEF DInv, Init, EmptyWindow, Distinct
<1>2. DInv /\ [Next]_vars => DInv'
  BY NextIInv, NextDistinct DEF DInv
<1>3. DInv /\ [Next]_vars => [ \A tab \in TabIds :
          HasTab(window, tab) /\ ~HasTab(window', tab) /\ window'.tabs # <<>> =>
            IF GetActive(window) # tab
            THEN GetActive(window') = GetActive(window)
            ELSE LET at == IdxById(window, tab)
                 IN \/ switch_to_last
                    \/ GetActive(window') = GetByIdx(window, at + 1)
                    \/ at > 0 /\ GetActive(window') = GetByIdx(window, at - 1) ]_vars
  BY NextDistinct DEF Kept
<1> QED  BY <1>1, <1>2, <1>3, PTL DEF Spec, CloseKeepsActiveOrNeighbour
=============================================================================
